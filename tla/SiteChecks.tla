----------------------------- MODULE SiteChecks -----------------------------
(***************************************************************************)
(* From uptime checks to incidents and alert events                        *)
(* (backend/cmd/dashboard: uptimeLoop in main.go, alertLoop and            *)
(* processSiteChecks in alertloop.go).  The uptime loop appends check rows *)
(* at its own pace; the alert loop reads them behind a cursor, at most     *)
(* CheckLimit at a time, and writes incidents, events and the cursor in    *)
(* one transaction.                                                        *)
(*                                                                         *)
(* A time is the number of the check that was taken at it.                 *)
(***************************************************************************)
EXTENDS Integers, Sequences, Functions

CONSTANTS
  Sites,        \* sites with a domain
  CheckLimit,   \* LIMIT of the query for new checks (1000 in the code)
  MaxChecks,    \* bound: checks per site
  MaxLapses     \* bound: failed inserts, failed transactions and restarts

ASSUME CheckAssumption ==
  /\ CheckLimit \in Nat \ {0}
  /\ MaxChecks \in Nat /\ MaxLapses \in Nat

VARIABLES
  checks,     \* table site_checks: the statuses of each site, by id
  cursor,     \* site_alert_state.check_id
  status,     \* site_alert_state.status
  incidents,  \* table incidents: [from, to] per site, to = 0 while open
  reported,   \* rows ever written to dashboard_alert_events, per site
  checking,   \* sites whose HTTP check of this round is not stored yet
  remaining,  \* sites the alert loop has still to process in this run
  tx,         \* its transaction: [site, left, cursor, previous, incidents, reported]
  lapses

checkVars == <<checks, cursor, status, incidents, reported, checking, remaining, tx, lapses>>
siteRows == <<cursor, status, incidents, reported>>

Statuses == {"up", "down"}
Incident == [from : 1..MaxChecks, to : 0..MaxChecks]
Event == [event : {"site_down", "site_up"}, at : 1..MaxChecks]

(* tx holds at most one transaction, the loop is a single goroutine. *)
Transaction ==
  [site : Sites, left : SUBSET (1..MaxChecks), cursor : 0..MaxChecks,
   previous : Statuses \cup {""}, incidents : SUBSET Incident, reported : Seq(Event)]

ChecksTypeOK ==
  /\ checks \in [Sites -> Seq(Statuses)] /\ \A s \in Sites : Len(checks[s]) <= MaxChecks
  /\ cursor \in [Sites -> 0..MaxChecks] /\ \A s \in Sites : cursor[s] <= Len(checks[s])
  /\ status \in [Sites -> Statuses \cup {""}]
  /\ incidents \in [Sites -> SUBSET Incident]
  /\ reported \in [Sites -> Seq(Event)]
  /\ checking \subseteq Sites /\ remaining \subseteq Sites
  /\ tx \subseteq Transaction /\ \A t, u \in tx : t = u
  /\ lapses \in 0..MaxLapses

ChecksInit ==
  /\ checks = [s \in Sites |-> <<>>]
  /\ cursor = [s \in Sites |-> 0]
  /\ status = [s \in Sites |-> ""]
  /\ incidents = [s \in Sites |-> {}]
  /\ reported = [s \in Sites |-> <<>>]
  /\ checking = {} /\ remaining = {} /\ tx = {}
  /\ lapses = 0

Lapse == lapses < MaxLapses /\ lapses' = lapses + 1

-----------------------------------------------------------------------------
(* uptimeLoop: all sites are checked side by side, the next round starts    *)
(* when all are done.                                                       *)

UptimeTick ==
  /\ checking = {}
  /\ checking' = {s \in Sites : Len(checks[s]) < MaxChecks}
  /\ UNCHANGED <<checks, siteRows, remaining, tx, lapses>>

(* The answer decides the status; the error of a failed insert is ignored.  *)
StoreCheck(s) ==
  /\ s \in checking
  /\ checking' = checking \ {s}
  /\ \/ \E st \in Statuses : checks' = [checks EXCEPT ![s] = Append(@, st)]
        /\ UNCHANGED lapses
     \/ Lapse /\ UNCHANGED checks
  /\ UNCHANGED <<siteRows, remaining, tx>>

-----------------------------------------------------------------------------
(* alertLoop *)

(* Mutant: sites known to be down are not looked at again.                  *)
AlertTickSkipsDown ==
  /\ remaining = {} /\ tx = {}
  /\ remaining' = {s \in Sites : status[s] # "down"}
  /\ UNCHANGED <<checks, siteRows, checking, tx, lapses>>

AlertTick ==
  /\ remaining = {} /\ tx = {}
  /\ remaining' = Sites
  /\ UNCHANGED <<checks, siteRows, checking, tx, lapses>>

(* Mutant: a site that was never seen before is reported up.                *)
siteTransitionFirstUp(previous, current) ==
  IF previous = current THEN ""
  ELSE IF current = "down" THEN "site_down" ELSE "site_up"

siteTransition(previous, current) ==
  IF previous = current \/ (previous = "" /\ current = "up") THEN ""
  ELSE IF current = "down" THEN "site_down" ELSE "site_up"

(* trackSiteIncidentTx: a down event opens an incident unless one is open   *)
(* (ON CONFLICT DO NOTHING), an up event resolves the open ones.            *)
trackSiteIncidentTx(rows, event, at) ==
  IF event = "site_down"
  THEN IF \E r \in rows : r.to = 0 THEN rows ELSE rows \cup {[from |-> at, to |-> 0]}
  ELSE {IF r.to = 0 THEN [r EXCEPT !.to = at] ELSE r : r \in rows}

(* SELECT ... WHERE id > cursor ORDER BY id LIMIT CheckLimit *)
NewChecks(s) == {id \in DOMAIN checks[s] : cursor[s] < id /\ id <= cursor[s] + CheckLimit}

(* processSiteChecks takes the state and the new checks of a site. *)
BeginSite(s) ==
  /\ tx = {} /\ s \in remaining
  /\ remaining' = remaining \ {s}
  /\ tx' = {[site |-> s, left |-> NewChecks(s), cursor |-> cursor[s], previous |-> status[s],
             incidents |-> incidents[s], reported |-> reported[s]]}
  /\ UNCHANGED <<checks, siteRows, checking, lapses>>

(* What one round of its loop does within the transaction t. *)
Tracked(t, id) ==
  LET current == checks[t.site][id]
      event == siteTransition(t.previous, current)
  IN  [t EXCEPT !.left = @ \ {id}, !.cursor = id, !.previous = current,
                !.incidents = IF event = "" THEN @ ELSE trackSiteIncidentTx(@, event, id),
                !.reported = IF event = "" THEN @
                             ELSE Append(@, [event |-> event, at |-> id])]

TrackCheck ==
  /\ \E t \in tx : \E id \in t.left :
       (\A other \in t.left : id <= other) /\ tx' = {Tracked(t, id)}
  /\ UNCHANGED <<checks, siteRows, checking, remaining, lapses>>

Written(t) ==
  /\ incidents' = [incidents EXCEPT ![t.site] = t.incidents]
  /\ reported' = [reported EXCEPT ![t.site] = t.reported]

(* Mutant: the last status is not written back.                             *)
CommitForgetsStatus(t) ==
  /\ cursor' = [cursor EXCEPT ![t.site] = t.cursor]
  /\ UNCHANGED status
  /\ Written(t)

Commit(t) ==
  /\ cursor' = [cursor EXCEPT ![t.site] = t.cursor]
  /\ status' = [status EXCEPT ![t.site] = t.previous]
  /\ Written(t)

CommitSite ==
  /\ \E t \in tx : t.left = {} /\ Commit(t)
  /\ tx' = {}
  /\ UNCHANGED <<checks, checking, remaining, lapses>>

(* A statement or the commit fails: the transaction is rolled back, and the  *)
(* loop goes on with the next site.                                         *)
RollBack ==
  /\ tx # {} /\ tx' = {} /\ Lapse
  /\ UNCHANGED <<checks, siteRows, checking, remaining>>

(* The dashboard dies and is started again: both loops begin a new run, and *)
(* what was committed stays.                                                *)
RestartDashboard ==
  /\ Lapse
  /\ checking' = {} /\ remaining' = {} /\ tx' = {}
  /\ UNCHANGED <<checks, siteRows>>

ProcessSites == (\E s \in Sites : BeginSite(s)) \/ TrackCheck \/ CommitSite

ChecksNext ==
  \/ UptimeTick \/ AlertTick \/ RestartDashboard
  \/ \E s \in Sites : StoreCheck(s)
  \/ ProcessSites \/ RollBack

ChecksSpec == ChecksInit /\ [][ChecksNext]_checkVars

(* The alert loop ticks for ever, and a transaction that is not rolled back  *)
(* goes on.                                                                 *)
ChecksFairSpec == ChecksSpec /\ WF_checkVars(AlertTick) /\ WF_checkVars(ProcessSites)

-----------------------------------------------------------------------------
(* Properties *)

WentDown(q, i) == q[i] = "down" /\ (i = 1 \/ q[i - 1] = "up")
WentUp(q, i) == q[i] = "up" /\ i > 1 /\ q[i - 1] = "down"

(* An outage that began at check i is over at j, or is not over by n (0).     *)
OverAt(q, n, i, j) ==
  \/ j = 0 /\ \A k \in i..n : ~WentUp(q, k)
  \/ j \in i..n /\ WentUp(q, j) /\ \A k \in i..(j - 1) : ~WentUp(q, k)

(* The outages among the first n checks: from the first check that failed to  *)
(* the first that succeeded again.                                          *)
Outages(q, n) ==
  {r \in [from : 1..n, to : 0..n] : WentDown(q, r.from) /\ OverAt(q, n, r.from, r.to)}

Transitions(q, n) ==
  {e \in [event : {"site_down", "site_up"}, at : 1..n] :
     IF e.event = "site_down" THEN WentDown(q, e.at) ELSE WentUp(q, e.at)}

(* "One row per outage window, opened by the alert loop on an up->down      *)
(* transition and closed on recovery" (013_reliability.sql): whatever the   *)
(* batches, failed transactions and restarts, incidents are the outages of  *)
(* the checks processed so far.                                             *)
OneIncidentPerOutage == \A s \in Sites : incidents[s] = Outages(checks[s], cursor[s])

(* Every change of a site's status produces exactly one event, in order,    *)
(* and none is produced twice by checks read again.                         *)
OneEventPerTransition ==
  \A s \in Sites :
    /\ Range(reported[s]) = Transitions(checks[s], cursor[s])
    /\ \A i, j \in DOMAIN reported[s] : i < j => reported[s][i].at < reported[s][j].at

(* However far the alert loop has fallen behind, failed, or been restarted,  *)
(* it catches up with the uptime loop: no stored check is left unprocessed.  *)
CatchesUp == \A s \in Sites : []<>(cursor[s] = Len(checks[s]))
=============================================================================
