----------------------------- MODULE IngestStore -----------------------------
(***************************************************************************)
(* The PostgreSQL side of event ingestion: the transaction that            *)
(* Buffer.flush (backend/internal/ingest/ingest.go) runs for a batch, and  *)
(* the deletion of a site.  Both the ingestion service and the standalone  *)
(* worker persist through this transaction.                                *)
(*                                                                         *)
(* A record is its id: "<site>:<client id>" is chosen once, before any     *)
(* queueing or retry, so two copies of an event carry the same id.         *)
(***************************************************************************)
EXTENDS Functions, FiniteSets

CONSTANTS
  Ids,      \* record ids
  Sites,    \* registered sites
  SiteOf    \* the site each record belongs to

ASSUME SiteOfAssumption == SiteOf \in [Ids -> Sites]

VARIABLES
  sites,     \* rows of table sites that still exist
  receipts,  \* ids in table ingest_receipts
  rows       \* how many pageview/event rows each record has produced

storeVars == <<sites, receipts, rows>>

StoreTypeOK ==
  /\ sites \subseteq Sites
  /\ receipts \subseteq Ids
  /\ rows \in [Ids -> Nat]

StoreInit ==
  /\ sites = Sites
  /\ receipts = {}
  /\ rows = [id \in Ids |-> 0]

(* The receipts insert fails as a whole when any record of the batch names *)
(* a site that is gone: ingest_receipts.site_id references sites(id).      *)
Persistable(batch) == \A id \in Range(batch) : SiteOf[id] \in sites

(* Mutant: the receipts are ignored, every record of the batch is copied.  *)
AcceptedUnchecked(batch) == Range(batch)

(* INSERT ... ON CONFLICT DO NOTHING RETURNING id: the ids seen for the    *)
(* first time, each once however often the batch repeats it.               *)
Accepted(batch) == Range(batch) \ receipts

(* Mutant: repetitions within one batch are not skipped.                    *)
RowsCopiedPerOccurrence(batch, id) ==
  IF id \in Accepted(batch)
  THEN Cardinality({i \in DOMAIN batch : batch[i] = id}) ELSE 0

(* Rows copied for one record: its first occurrence in the batch, when the *)
(* receipt was accepted (delete(accepted, r.ID) skips the repetitions).    *)
RowsCopied(batch, id) == IF id \in Accepted(batch) THEN 1 ELSE 0

(* The committed transaction: receipts and rows become visible together.   *)
Commit(batch) ==
  /\ Persistable(batch)
  /\ receipts' = receipts \cup Accepted(batch)
  /\ rows' = [id \in Ids |-> rows[id] + RowsCopied(batch, id)]
  /\ UNCHANGED sites

(* DELETE FROM sites cascades to the receipts and to the stored rows.      *)
DeleteSite(s) ==
  /\ s \in sites
  /\ sites' = sites \ {s}
  /\ receipts' = {id \in receipts : SiteOf[id] # s}
  /\ rows' = [id \in Ids |-> IF SiteOf[id] = s THEN 0 ELSE rows[id]]

(* Whatever is retried, acknowledged too late, requeued, claimed by two     *)
(* workers, sent twice or recovered after a crash, a record has a row       *)
(* exactly while it has a receipt, and never two: ingest_receipts makes     *)
(* flush idempotent.                                                        *)
ExactlyOnce == \A id \in Ids : rows[id] = IF id \in receipts THEN 1 ELSE 0
=============================================================================
