----------------------------- MODULE AlertOutbox -----------------------------
(***************************************************************************)
(* The table dashboard_alert_events as an outbox: the alert loop and the   *)
(* heartbeat loop of the dashboard insert events, and both of them drain   *)
(* the table concurrently (drainAlertEvents, deliverNextAlertEvent and     *)
(* fireAlertEvent in backend/cmd/dashboard/alertloop.go), each in a        *)
(* transaction that keeps its event locked while the rules are notified.   *)
(*                                                                         *)
(* The number of an event is its id.  Rules and maintenance windows are    *)
(* not edited while an event waits.                                        *)
(***************************************************************************)
EXTENDS Integers, Sequences

CONSTANTS
  Loops,       \* the loops that call drainAlertEvents
  Rules,       \* enabled rows of notif_rules
  Kinds,       \* a site with an event name
  Subscribes,  \* the kind each rule is for
  MaxEvents,   \* bound: events inserted
  MaxFaults    \* bound: failed deliveries, failed transactions and restarts

ASSUME OutboxAssumption ==
  /\ Subscribes \in [Rules -> Kinds]
  /\ MaxEvents \in Nat /\ MaxFaults \in Nat

VARIABLES
  events,   \* the events ever inserted: [kind, quiet], quiet in a window
  outbox,   \* ids of the rows that are in the table
  pc,       \* where each loop is
  held,     \* the id each loop's transaction has locked, 0 for none
  todo,     \* the rules it has still to notify
  got,      \* how often each rule was notified of each event (history)
  skipped,  \* events suppressed by maintenance (history)
  failed,   \* failed attempts to deliver each event (history)
  faults

vars == <<events, outbox, pc, held, todo, got, skipped, failed, faults>>

EventIds == 1..MaxEvents

TypeOK ==
  /\ events \in Seq([kind : Kinds, quiet : BOOLEAN]) /\ Len(events) <= MaxEvents
  /\ outbox \subseteq 1..Len(events)
  /\ pc \in [Loops -> {"idle", "drain", "fire", "delete"}]
  /\ held \in [Loops -> 0..MaxEvents]
  /\ \A l \in Loops : IF pc[l] \in {"fire", "delete"}
                      THEN held[l] \in outbox ELSE held[l] = 0
  /\ todo \in [Loops -> SUBSET Rules]
  /\ got \in [Rules -> [EventIds -> Nat]]
  /\ skipped \subseteq EventIds
  /\ failed \in [EventIds -> Nat]
  /\ faults \in 0..MaxFaults

Init ==
  /\ events = <<>> /\ outbox = {}
  /\ pc = [l \in Loops |-> "idle"]
  /\ held = [l \in Loops |-> 0]
  /\ todo = [l \in Loops |-> {}]
  /\ got = [r \in Rules |-> [id \in EventIds |-> 0]]
  /\ skipped = {}
  /\ failed = [id \in EventIds |-> 0]
  /\ faults = 0

-----------------------------------------------------------------------------
(* processSiteChecks and processHeartbeats insert in their own transaction. *)
Insert(k, quiet) ==
  /\ Len(events) < MaxEvents
  /\ events' = Append(events, [kind |-> k, quiet |-> quiet])
  /\ outbox' = outbox \cup {Len(events) + 1}
  /\ UNCHANGED <<pc, held, todo, got, skipped, failed, faults>>

(* A run of the loop has come to drainAlertEvents. *)
StartDrain(l) ==
  /\ pc[l] = "idle"
  /\ pc' = [pc EXCEPT ![l] = "drain"]
  /\ UNCHANGED <<events, outbox, held, todo, got, skipped, failed, faults>>

(* Mutant: FOR UPDATE SKIP LOCKED is dropped. *)
AllRows == outbox

(* The rows that no other transaction has locked. *)
Unlocked == outbox \ {held[l] : l \in Loops}

SubscribersOf(id) == {r \in Rules : Subscribes[r] = events[id].kind}

(* SELECT ... ORDER BY id LIMIT 1 FOR UPDATE SKIP LOCKED, then the question  *)
(* whether the event fell in a maintenance window (an error says no), then   *)
(* the enabled rules.                                                       *)
Claim(l) ==
  /\ pc[l] = "drain"
  /\ \E id \in Unlocked :
       /\ \A other \in Unlocked : id <= other
       /\ held' = [held EXCEPT ![l] = id]
       /\ \/ /\ events[id].quiet
             /\ pc' = [pc EXCEPT ![l] = "delete"]
             /\ UNCHANGED <<todo, faults>>
          \/ /\ IF events[id].quiet
                THEN faults < MaxFaults /\ faults' = faults + 1
                ELSE UNCHANGED faults
             /\ pc' = [pc EXCEPT ![l] = "fire"]
             /\ todo' = [todo EXCEPT ![l] = SubscribersOf(id)]
  /\ UNCHANGED <<events, outbox, got, skipped, failed>>

(* No row to claim, or 1000 events in one run. *)
EndDrain(l) ==
  /\ pc[l] = "drain"
  /\ pc' = [pc EXCEPT ![l] = "idle"]
  /\ UNCHANGED <<events, outbox, held, todo, got, skipped, failed, faults>>

Notify(r, id) == got' = [got EXCEPT ![r][id] = @ + 1]

(* One round of the loop over the rules. *)
Deliver(l) ==
  /\ pc[l] = "fire"
  /\ \E r \in todo[l] :
       /\ Notify(r, held[l])
       /\ todo' = [todo EXCEPT ![l] = @ \ {r}]
  /\ UNCHANGED <<events, outbox, pc, held, skipped, failed, faults>>

(* Rollback: the row is unlocked and the run's drain ends. *)
GiveUp(l) ==
  /\ pc' = [pc EXCEPT ![l] = "idle"]
  /\ held' = [held EXCEPT ![l] = 0]
  /\ todo' = [todo EXCEPT ![l] = {}]
  /\ failed' = [failed EXCEPT ![held[l]] = @ + 1]
  /\ faults < MaxFaults /\ faults' = faults + 1

(* Mutant: the row is deleted although one rule could not be notified. *)
DeliverFailsDeletes(l) ==
  /\ pc[l] = "fire"
  /\ \E r \in todo[l] : Notify(r, held[l]) \/ UNCHANGED got
  /\ GiveUp(l)
  /\ outbox' = outbox \ {held[l]}
  /\ UNCHANGED <<events, skipped>>

(* A rule could not be notified, or was but the answer or the update of      *)
(* last_sent_at failed: the remaining rules are not tried.                   *)
DeliverFails(l) ==
  /\ pc[l] = "fire"
  /\ \E r \in todo[l] : Notify(r, held[l]) \/ UNCHANGED got
  /\ GiveUp(l)
  /\ UNCHANGED <<events, outbox, skipped>>

(* Mutant: the row stays although every rule was notified. *)
DeleteNothing(l) ==
  /\ pc[l] = "delete" \/ (pc[l] = "fire" /\ todo[l] = {})
  /\ pc' = [pc EXCEPT ![l] = "drain"]
  /\ held' = [held EXCEPT ![l] = 0]
  /\ skipped' = IF pc[l] = "delete" THEN skipped \cup {held[l]} ELSE skipped
  /\ UNCHANGED <<events, outbox, todo, got, failed, faults>>

(* DELETE and commit; the next event follows. *)
Delete(l) ==
  /\ pc[l] = "delete" \/ (pc[l] = "fire" /\ todo[l] = {})
  /\ outbox' = outbox \ {held[l]}
  /\ pc' = [pc EXCEPT ![l] = "drain"]
  /\ held' = [held EXCEPT ![l] = 0]
  /\ skipped' = IF pc[l] = "delete" THEN skipped \cup {held[l]} ELSE skipped
  /\ UNCHANGED <<events, todo, got, failed, faults>>

(* The commit fails, or is applied without an answer. *)
DeleteFails(l) ==
  /\ pc[l] = "delete" \/ (pc[l] = "fire" /\ todo[l] = {})
  /\ \/ outbox' = outbox \ {held[l]}
        /\ skipped' = IF pc[l] = "delete" THEN skipped \cup {held[l]} ELSE skipped
     \/ UNCHANGED <<outbox, skipped>>
  /\ GiveUp(l)
  /\ UNCHANGED <<events, got>>

(* The dashboard dies and is started again: open transactions are rolled     *)
(* back, after what the rules have been told.                                *)
Restart ==
  /\ faults < MaxFaults /\ faults' = faults + 1
  /\ failed' = [id \in EventIds |->
                  IF \E l \in Loops : held[l] = id THEN failed[id] + 1 ELSE failed[id]]
  /\ pc' = [l \in Loops |-> "idle"]
  /\ held' = [l \in Loops |-> 0]
  /\ todo' = [l \in Loops |-> {}]
  /\ UNCHANGED <<events, outbox, got, skipped>>

Next ==
  \/ \E k \in Kinds, quiet \in BOOLEAN : Insert(k, quiet)
  \/ \E l \in Loops :
       \/ StartDrain(l) \/ Claim(l) \/ EndDrain(l)
       \/ Deliver(l) \/ DeliverFails(l) \/ Delete(l) \/ DeleteFails(l)
  \/ Restart

Spec == Init /\ [][Next]_vars

(* The loops tick for ever, a run claims again and again, and a delivery and *)
(* a commit return.                                                          *)
Fairness ==
  \A l \in Loops :
    /\ WF_vars(StartDrain(l)) /\ SF_vars(Claim(l))
    /\ WF_vars(Deliver(l)) /\ WF_vars(Delete(l))

FairSpec == Spec /\ Fairness

-----------------------------------------------------------------------------
(* Properties *)

(* The outbox loses nothing: an event leaves the table only when every rule  *)
(* for it was notified, or when it fell in a maintenance window.             *)
NothingForgotten ==
  \A id \in (1..Len(events)) \ outbox :
    \/ id \in skipped /\ events[id].quiet
    \/ \A r \in Rules : Subscribes[r] = events[id].kind => got[r][id] > 0

(* Two loops that drain at the same time do not notify twice: a rule hears   *)
(* of an event again only after a failed attempt at that very event.         *)
RepeatsNeedFailures ==
  \A r \in Rules, id \in EventIds : got[r][id] <= 1 + failed[id]

(* As long as deliveries and commits succeed from some point on, every event *)
(* leaves the outbox, so no loop starves it.                                 *)
EveryEventLeaves == \A id \in EventIds : id \in outbox ~> id \notin outbox
=============================================================================
