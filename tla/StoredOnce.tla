------------------------------ MODULE StoredOnce ------------------------------
(***************************************************************************)
(* What ingestion promises to a site owner, whatever queues, batches,      *)
(* retries and restarts lie in between: an event that was sent may get one *)
(* row while its site exists, keeps it as long as the site exists, and     *)
(* never gets a second one.                                                *)
(***************************************************************************)
EXTENDS Naturals

CONSTANTS Ids, Sites, SiteOf

VARIABLES
  sites,    \* sites that exist
  offered,  \* events sent so far
  rows      \* rows stored for each event

vars == <<sites, offered, rows>>

Init ==
  /\ sites = Sites
  /\ offered = {}
  /\ rows = [id \in Ids |-> 0]

Offer(id) ==
  /\ offered' = offered \cup {id}
  /\ UNCHANGED <<sites, rows>>

(* Events of one batch become visible together. *)
Store(S) ==
  /\ \A id \in S : rows[id] = 0 /\ SiteOf[id] \in sites
  /\ rows' = [id \in Ids |-> IF id \in S THEN 1 ELSE rows[id]]
  /\ UNCHANGED <<sites, offered>>

Delete(s) ==
  /\ s \in sites
  /\ sites' = sites \ {s}
  /\ rows' = [id \in Ids |-> IF SiteOf[id] = s THEN 0 ELSE rows[id]]
  /\ UNCHANGED offered

Next ==
  \/ \E id \in Ids : Offer(id)
  \/ \E S \in SUBSET offered : Store(S)
  \/ \E s \in Sites : Delete(s)

Spec == Init /\ [][Next]_vars
=============================================================================
