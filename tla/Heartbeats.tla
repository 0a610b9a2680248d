------------------------------ MODULE Heartbeats ------------------------------
(***************************************************************************)
(* The dead man's switch of the dashboard                                  *)
(* (backend/cmd/dashboard/reliability.go): jobs ping their heartbeat, and  *)
(* heartbeatLoop marks a silent one late and a recovered one up, in three  *)
(* statements that commit one by one, with pings, failures and restarts    *)
(* between any two of them.  The first two insert their alert events in    *)
(* the same statement; AlertOutbox delivers them.                          *)
(***************************************************************************)
EXTENDS Integers, Sequences

CONSTANTS
  Beats,      \* heartbeats
  Allowed,    \* period_seconds + grace_seconds of each
  MaxTime,    \* bound: when time stops
  MaxFaults   \* bound: failed statements and restarts

ASSUME BeatAssumption ==
  /\ Allowed \in [Beats -> Nat \ {0}]
  /\ MaxTime \in Nat /\ MaxFaults \in Nat

VARIABLES
  now,
  status,   \* heartbeats.status; "none" while the row does not exist
  created,  \* heartbeats.created_at
  ping,     \* heartbeats.last_ping_at, NoPing for NULL
  events,   \* the alert events ever inserted for each heartbeat, in order
  pc,       \* which statement of processHeartbeats is next
  faults

rowVars == <<status, created, ping>>
vars == <<now, rowVars, events, pc, faults>>

NoPing == -1

TypeOK ==
  /\ now \in 0..MaxTime
  /\ status \in [Beats -> {"none", "new", "up", "late"}]
  /\ created \in [Beats -> 0..MaxTime]
  /\ ping \in [Beats -> -1..MaxTime]
  /\ events \in [Beats -> Seq({"heartbeat_missed", "heartbeat_ok"})]
  /\ pc \in {"wait", "late", "recovered", "first"}
  /\ faults \in 0..MaxFaults

Init ==
  /\ now = 0
  /\ status = [h \in Beats |-> "none"]
  /\ created = [h \in Beats |-> 0]
  /\ ping = [h \in Beats |-> NoPing]
  /\ events = [h \in Beats |-> <<>>]
  /\ pc = "wait"
  /\ faults = 0

Tick ==
  /\ now < MaxTime
  /\ now' = now + 1
  /\ UNCHANGED <<rowVars, events, pc, faults>>

-----------------------------------------------------------------------------
(* Requests *)

createHeartbeat(h) ==
  /\ status[h] = "none" /\ events[h] = <<>>
  /\ status' = [status EXCEPT ![h] = "new"]
  /\ created' = [created EXCEPT ![h] = now]
  /\ ping' = [ping EXCEPT ![h] = NoPing]
  /\ UNCHANGED <<now, events, pc, faults>>

(* The events stay behind. *)
deleteHeartbeat(h) ==
  /\ status[h] # "none"
  /\ status' = [status EXCEPT ![h] = "none"]
  /\ UNCHANGED <<now, created, ping, events, pc, faults>>

(* A ping changes the time and leaves the status to the loop. *)
heartbeatPing(h) ==
  /\ status[h] # "none"
  /\ ping' = [ping EXCEPT ![h] = now]
  /\ UNCHANGED <<now, status, created, events, pc, faults>>
-----------------------------------------------------------------------------
(* heartbeatLoop and processHeartbeats *)

(* A ticker or a fresh start begins a run. *)
BeginRun ==
  /\ pc = "wait"
  /\ pc' = "late"
  /\ UNCHANGED <<now, rowVars, events, faults>>

LastSign(h) == IF ping[h] = NoPing THEN created[h] ELSE ping[h]

Silent(h) == LastSign(h) < now - Allowed[h]

Recent(h) == ping[h] # NoPing /\ ping[h] >= now - Allowed[h]

(* WITH changed AS (UPDATE ...) INSERT INTO dashboard_alert_events ... *)
SetStatus(changed, st, reported, event) ==
  /\ status' = [h \in Beats |-> IF h \in changed THEN st ELSE status[h]]
  /\ events' = [h \in Beats |-> IF h \in reported THEN Append(events[h], event)
                                                  ELSE events[h]]

(* Mutant: WHERE status <> 'late' is dropped. *)
MarkLateAgain ==
  LET changed == {h \in Beats : status[h] # "none" /\ Silent(h)}
  IN  SetStatus(changed, "late", {h \in changed : ping[h] # NoPing}, "heartbeat_missed")

(* Mutant: only beats that have been up are looked at. *)
MarkLateOnlyUp ==
  LET changed == {h \in Beats : status[h] = "up" /\ Silent(h)}
  IN  SetStatus(changed, "late", {h \in changed : ping[h] # NoPing}, "heartbeat_missed")

(* A beat that has never been pinged goes late without an event. *)
MarkLate ==
  LET changed == {h \in Beats : status[h] \in {"new", "up"} /\ Silent(h)}
  IN  SetStatus(changed, "late", {h \in changed : ping[h] # NoPing}, "heartbeat_missed")

(* Mutant: > for >=, so that a ping on the limit is silence for nobody and   *)
(* recovery for nobody.                                                      *)
MarkRecoveredStrict ==
  LET changed == {h \in Beats : /\ status[h] = "late" /\ ping[h] # NoPing
                                /\ ping[h] > now - Allowed[h]}
  IN  SetStatus(changed, "up", changed, "heartbeat_ok")

MarkRecovered ==
  LET changed == {h \in Beats : status[h] = "late" /\ Recent(h)}
  IN  SetStatus(changed, "up", changed, "heartbeat_ok")

MarkFirst ==
  LET changed == {h \in Beats : status[h] = "new" /\ Recent(h)}
  IN  SetStatus(changed, "up", {}, "heartbeat_ok")

(* The three statements in their order, each of which commits. *)
Statement ==
  /\ \/ pc = "late" /\ MarkLate /\ pc' = "recovered"
     \/ pc = "recovered" /\ MarkRecovered /\ pc' = "first"
     \/ pc = "first" /\ MarkFirst /\ pc' = "wait"
  /\ UNCHANGED <<now, created, ping, faults>>

(* A statement fails, or is applied and its answer lost; the run ends.      *)
StatementFails ==
  /\ \/ pc = "late" /\ MarkLate
     \/ pc = "recovered" /\ MarkRecovered
     \/ pc = "first" /\ MarkFirst
     \/ pc # "wait" /\ UNCHANGED <<status, events>>
  /\ pc' = "wait"
  /\ faults < MaxFaults /\ faults' = faults + 1
  /\ UNCHANGED <<now, created, ping>>

(* The dashboard dies between two statements and is started again.          *)
Restart ==
  /\ pc # "wait"
  /\ pc' = "wait"
  /\ faults < MaxFaults /\ faults' = faults + 1
  /\ UNCHANGED <<now, rowVars, events>>

Next ==
  \/ Tick \/ BeginRun \/ Statement \/ StatementFails \/ Restart
  \/ \E h \in Beats : createHeartbeat(h) \/ deleteHeartbeat(h) \/ heartbeatPing(h)

Spec == Init /\ [][Next]_vars

(* The loop ticks for ever and its statements end.  Nobody has to ping.     *)
Fairness == WF_vars(BeginRun) /\ WF_vars(Statement)

FairSpec == Spec /\ Fairness

-----------------------------------------------------------------------------
(* Properties *)

LastEvent(h) == IF events[h] = <<>> THEN "none" ELSE events[h][Len(events[h])]

(* The events tell the status to whoever hears only them: misses and        *)
(* recoveries alternate, whatever fails between the statements, and the     *)
(* last one heard never contradicts the row.                                *)
EventsTellStatus ==
  \A h \in Beats :
    /\ \A i \in 1..(Len(events[h]) - 1) : events[h][i] # events[h][i + 1]
    /\ status[h] = "new" => events[h] = <<>>
    /\ status[h] = "up" => LastEvent(h) # "heartbeat_missed"
    /\ status[h] = "late" => LastEvent(h) # "heartbeat_ok"

(* Silence beyond period and grace is noticed, that of a beat which was     *)
(* never pinged too, unless a ping ends it or the beat is deleted first.    *)
SilenceIsNoticed ==
  \A h \in Beats :
    Silent(h) /\ status[h] # "none" ~> status[h] \in {"late", "none"} \/ ~Silent(h)

(* A late beat that is pinged again is marked up, unless the loop was away  *)
(* until the ping was old again.                                            *)
RecoveryIsNoticed ==
  \A h \in Beats :
    status[h] = "late" /\ Recent(h) ~> status[h] # "late" \/ ~Recent(h)
=============================================================================
