------------------------------ MODULE Monitors ------------------------------
(***************************************************************************)
(* The monitors of a site (backend/cmd/dashboard/monitor_handlers.go).      *)
(* updateMonitorHandler reads the columns of a monitor and writes them back  *)
(* later with what the request names, while other requests do the same and   *)
(* monitorLoop asks what is due, fetches one address after the other and     *)
(* records each with two statements.  The expected status, the keyword and   *)
(* its mode are read and written back as the interval is.                    *)
(***************************************************************************)
EXTENDS Integers

CONSTANTS
  MonitorIds,  \* ids of monitors
  Edits,       \* bound: requests that PATCH a monitor
  Intervals,   \* values of interval_seconds
  Urls,        \* addresses
  Changes,     \* what a request may name, see Change
  MaxTicks,    \* bound: the clock
  MaxBreaks    \* bound: failed statements and restarts

VARIABLES
  clock,
  monitors,       \* the rows: [state, set, last]; last_check_at is Unchecked for NULL
  edits,          \* the requests: [pc, id, change, read, seen]
  run,            \* runMonitors: [pc, due, id, every]
  wanted,         \* [set, writes, crossed], see below (history)
  monitorChecks,  \* the table monitor_checks: [count, at, recorded], see below (history)
  breaks

monitorVars == <<clock, monitors, edits, run, wanted, monitorChecks, breaks>>

Unchecked == -1
Settings == [enabled : BOOLEAN, interval : Intervals, url : Urls]

(* What a request may name of a monitor: a set of at most one value.          *)
Maybe(S) == {{}} \cup {{x} : x \in S}
Change == [enabled : Maybe(BOOLEAN), interval : Maybe(Intervals), url : Maybe(Urls)]
Given(value, otherwise) == IF value = {} THEN otherwise ELSE CHOOSE x \in value : TRUE

ASSUME MonitorAssumption ==
  /\ Intervals \subseteq Nat \ {0} /\ Intervals # {} /\ Urls # {}
  /\ Changes \subseteq Change
  /\ MaxTicks \in Nat /\ MaxBreaks \in Nat

AnySettings == CHOOSE s \in Settings : TRUE
NoMonitor == [state |-> "none", set |-> AnySettings, last |-> Unchecked]
NothingAsked == [set |-> AnySettings, writes |-> 0, crossed |-> FALSE]
NoCheck == [count |-> 0, at |-> 0, recorded |-> FALSE]
Asleep == [pc |-> "wait", due |-> {}, id |-> 0, every |-> 0]
NoEdit == [pc |-> "idle", id |-> 0, change |-> 0, read |-> 0, seen |-> 0]
Done == [NoEdit EXCEPT !.pc = "done"]

-----------------------------------------------------------------------------
(* wanted: set is what the requests so far, one after the other, have asked    *)
(* for, writes how many have written, crossed that one wrote what it had read    *)
(* before another one wrote.  monitorChecks: how many were stored, when the     *)
(* last one was, and whether last_check_at has been set since.  seen is          *)
(* wanted.writes at the time of the read, every the interval at the listing.    *)
MonitorsInit ==
  /\ clock = 0 /\ breaks = 0
  /\ monitors = [m \in MonitorIds |-> NoMonitor]
  /\ edits = [e \in Edits |-> NoEdit]
  /\ run = Asleep
  /\ wanted = [m \in MonitorIds |-> NothingAsked]
  /\ monitorChecks = [m \in MonitorIds |-> NoCheck]

There(m) == monitors[m].state = "there"

createMonitor(m, set) ==
  /\ monitors[m].state = "none" /\ set.enabled
  /\ monitors' = [monitors EXCEPT ![m].state = "there", ![m].set = set]
  /\ wanted' = [wanted EXCEPT ![m].set = set]
  /\ UNCHANGED <<clock, edits, run, monitorChecks, breaks>>

deleteMonitorRow(m) ==
  /\ There(m)
  /\ monitors' = [monitors EXCEPT ![m] = [NoMonitor EXCEPT !.state = "gone"]]
  /\ wanted' = [wanted EXCEPT ![m] = NothingAsked]
  /\ monitorChecks' = [monitorChecks EXCEPT ![m] = NoCheck]
  /\ UNCHANGED <<clock, edits, run, breaks>>

(* The SELECT of updateMonitorHandler. *)
readMonitor(e, m, change) ==
  /\ edits[e].pc = "idle" /\ There(m)
  /\ edits' = [edits EXCEPT ![e] = [pc |-> "read", id |-> m, change |-> change,
                                    read |-> [enabled |-> monitors[m].set.enabled,
                                               interval |-> monitors[m].set.interval],
                                    seen |-> wanted[m].writes]]
  /\ UNCHANGED <<clock, monitors, run, wanted, monitorChecks, breaks>>

(* Mutant: a request that does not name enabled switches the monitor on. *)
MergedOn(change, read, url) ==
  [enabled |-> Given(change.enabled, TRUE),
   interval |-> Given(change.interval, read.interval), url |-> Given(change.url, url)]

(* What is not named is as it was read; but the address, which is not read, as   *)
(* the row has it.                                                           *)
Merged(change, read, url) ==
  [enabled |-> Given(change.enabled, read.enabled),
   interval |-> Given(change.interval, read.interval), url |-> Given(change.url, url)]

Named(change, set) ==
  [enabled |-> Given(change.enabled, set.enabled),
   interval |-> Given(change.interval, set.interval), url |-> Given(change.url, set.url)]

(* Its UPDATE; a row that is gone by now is no error. *)
writeMonitor(e) ==
  LET m == edits[e].id
      change == edits[e].change
  IN /\ edits[e].pc = "read"
     /\ edits' = [edits EXCEPT ![e] = Done]
     /\ IF There(m)
        THEN /\ monitors' =
                  [monitors EXCEPT ![m].set = Merged(change, edits[e].read, @.url)]
             /\ wanted' = [wanted EXCEPT ![m] =
                  [set |-> Named(change, @.set), writes |-> @.writes + 1,
                   crossed |-> @.crossed \/ edits[e].seen # @.writes]]
        ELSE UNCHANGED <<monitors, wanted>>
     /\ UNCHANGED <<clock, run, monitorChecks, breaks>>

(* A failed UPDATE, or a dashboard that dies in between. *)
editFails(e) ==
  /\ edits[e].pc = "read"
  /\ edits' = [edits EXCEPT ![e] = Done]
  /\ UNCHANGED <<clock, monitors, run, wanted, monitorChecks, breaks>>

-----------------------------------------------------------------------------
(* Mutant: a monitor that was never checked is not due. *)
DueOnceChecked(m) ==
  /\ There(m) /\ monitors[m].set.enabled /\ monitors[m].last # Unchecked
  /\ monitors[m].last + monitors[m].set.interval <= clock

(* Mutant: the interval is counted one short. *)
DueEarly(m) ==
  /\ There(m) /\ monitors[m].set.enabled
  /\ \/ monitors[m].last = Unchecked
     \/ monitors[m].last + monitors[m].set.interval <= clock + 1

Due(m) ==
  /\ There(m) /\ monitors[m].set.enabled
  /\ monitors[m].last = Unchecked \/ monitors[m].last + monitors[m].set.interval <= clock

listDue ==
  LET due == {m \in MonitorIds : Due(m)}
  IN /\ run.pc = "wait"
     /\ run' = [Asleep EXCEPT
                   !.pc = "next",
                   !.due = {[id |-> m, every |-> monitors[m].set.interval] : m \in due}]
     /\ UNCHANGED <<clock, monitors, edits, wanted, monitorChecks, breaks>>

(* The request to the address has an answer or an error: both are a check.       *)
fetch(d) ==
  /\ run.pc = "next" /\ d \in run.due
  /\ run' = [pc |-> "insert", due |-> run.due \ {d}, id |-> d.id, every |-> d.every]
  /\ UNCHANGED <<clock, monitors, edits, wanted, monitorChecks, breaks>>

Stored(m) ==
  [monitorChecks EXCEPT ![m] = [count |-> @.count + 1, at |-> clock, recorded |-> FALSE]]

(* The foreign key refuses the check of a monitor that is gone; the errors of    *)
(* both statements are ignored.                                              *)
insertCheck ==
  /\ run.pc = "insert"
  /\ run' = [run EXCEPT !.pc = "update"]
  /\ monitorChecks' = IF There(run.id) THEN Stored(run.id) ELSE monitorChecks
  /\ UNCHANGED <<clock, monitors, edits, wanted, breaks>>

setLastCheck ==
  LET m == run.id
  IN /\ run.pc = "update"
     /\ run' = [run EXCEPT !.pc = "next"]
     /\ IF There(m)
        THEN /\ monitors' = [monitors EXCEPT ![m].last = clock]
             /\ monitorChecks' = [monitorChecks EXCEPT ![m].recorded = TRUE]
        ELSE UNCHANGED <<monitors, monitorChecks>>
     /\ UNCHANGED <<clock, edits, wanted, breaks>>

endChecks ==
  /\ run.pc = "next" /\ run.due = {}
  /\ run' = Asleep
  /\ UNCHANGED <<clock, monitors, edits, wanted, monitorChecks, breaks>>

runMonitors ==
  listDue \/ (\E d \in run.due : fetch(d)) \/ insertCheck \/ setLastCheck \/ endChecks

(* One of the two statements fails. *)
statementBreaks ==
  /\ breaks < MaxBreaks /\ breaks' = breaks + 1
  /\ \/ run.pc = "insert" /\ run' = [run EXCEPT !.pc = "update"]
     \/ run.pc = "update" /\ run' = [run EXCEPT !.pc = "next"]
  /\ UNCHANGED <<clock, monitors, edits, wanted, monitorChecks>>

(* The dashboard dies during a run and is started again. *)
restartLoop ==
  /\ breaks < MaxBreaks /\ breaks' = breaks + 1
  /\ run.pc # "wait" /\ run' = Asleep
  /\ UNCHANGED <<clock, monitors, edits, wanted, monitorChecks>>

tick ==
  /\ clock < MaxTicks /\ clock' = clock + 1
  /\ UNCHANGED <<monitors, edits, run, wanted, monitorChecks, breaks>>

MonitorsNext ==
  \/ tick \/ runMonitors \/ statementBreaks \/ restartLoop
  \/ \E m \in MonitorIds :
       \/ \E set \in Settings : createMonitor(m, set)
       \/ deleteMonitorRow(m)
       \/ \E e \in Edits, change \in Changes : readMonitor(e, m, change)
  \/ \E e \in Edits : writeMonitor(e) \/ editFails(e)

MonitorsSpec == MonitorsInit /\ [][MonitorsNext]_monitorVars

-----------------------------------------------------------------------------
(* The checks of a monitor are at least its interval apart, whatever else the     *)
(* run has to fetch first and however it is edited meanwhile; but for one whose  *)
(* last_check_at could not be set.                                           *)
ChecksSpaced ==
  [][\A m \in MonitorIds :
       LET old == monitorChecks[m]
       IN  monitorChecks'[m].count > old.count /\ old.count > 0 /\ old.recorded =>
             clock - old.at >= run.every]_monitorVars

(* A monitor whose interval is over does not stay so: it is checked, however     *)
(* often runs break, unless it is paused, edited or deleted.                    *)
IntervalOver(m) ==
  /\ There(m) /\ monitors[m].set.enabled
  /\ monitors[m].last = Unchecked \/ clock - monitors[m].last >= monitors[m].set.interval

DueIsChecked == \A m \in MonitorIds : IntervalOver(m) ~> ~IntervalOver(m)

(* A monitor has the settings that the requests, one after the other, have asked   *)
(* for, whatever the loop writes meanwhile, unless a request wrote back what it  *)
(* had read before another one wrote; and has the last address in any case.     *)
EditsStand ==
  \A m \in MonitorIds :
    /\ monitors[m].set.url = wanted[m].set.url
    /\ ~wanted[m].crossed => monitors[m].set = wanted[m].set
=============================================================================
