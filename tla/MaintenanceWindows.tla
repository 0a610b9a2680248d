------------------------- MODULE MaintenanceWindows -------------------------
(***************************************************************************)
(* The maintenance windows of a site (backend/cmd/dashboard/                *)
(* reliability.go) and the one thing they are for: deliverNextAlertEvent of  *)
(* alertloop.go keeps quiet about an event that happened within one.         *)
(* Windows come and go while an event waits; AlertOutbox models how the      *)
(* event waits and leaves.                                                  *)
(***************************************************************************)
EXTENDS Integers, FiniteSets

CONSTANTS
  MinutesPerDay,  \* 1440 in the code
  WeekDays,       \* 7 in the code
  MaxMinutes,     \* bound: the clock
  MaxWindows      \* bound: windows at a time

ASSUME WindowAssumption ==
  /\ MinutesPerDay \in Nat \ {0} /\ WeekDays \in Nat \ {0}
  /\ MaxMinutes \in Nat /\ MaxWindows \in Nat

VARIABLES
  minutes,   \* the clock
  windows,   \* the rows of maintenance_windows of a site
  pending,   \* when the alert event happened that waits, None if none does
  told       \* what became of the last one (history)

windowVars == <<minutes, windows, pending, told>>

None == -1
Minute(t) == t % MinutesPerDay
DayName(t) == (t \div MinutesPerDay) % WeekDays

-----------------------------------------------------------------------------
Window ==
  [days : SUBSET (0..(WeekDays - 1)) \ {{}},
   start : 0..(MinutesPerDay - 1), end : 0..(MinutesPerDay - 1)]

WindowsInit == minutes = 0 /\ windows = {} /\ pending = None /\ told = "nothing"

createMaintenance(w) ==
  /\ Cardinality(windows) < MaxWindows
  /\ windows' = windows \cup {w}
  /\ UNCHANGED <<minutes, pending, told>>

deleteMaintenance(w) ==
  /\ w \in windows /\ windows' = windows \ {w}
  /\ UNCHANGED <<minutes, pending, told>>

(* An event is inserted; its created_at stays with it however late it leaves.  *)
happens ==
  /\ pending = None
  /\ pending' = minutes
  /\ UNCHANGED <<minutes, windows, told>>

(* Mutant: the end of a window past midnight is taken exclusively. *)
NightOfOpen(w, t) == IF w.start > w.end /\ Minute(t) < w.end THEN t - MinutesPerDay ELSE t

(* The day whose window a minute may belong to: the day before for the part     *)
(* past midnight of a window that crosses it.                                *)
NightOf(w, t) == IF w.start > w.end /\ Minute(t) <= w.end THEN t - MinutesPerDay ELSE t

maintenanceMatches(w, t) ==
  /\ IF w.start <= w.end THEN Minute(t) \in w.start..w.end
                         ELSE Minute(t) >= w.start \/ Minute(t) <= w.end
  /\ DayName(NightOf(w, t)) \in w.days

inMaintenance == \E w \in windows : maintenanceMatches(w, pending)

(* The windows are those of the delivery.  If they cannot be read the event is  *)
(* delivered.                                                                *)
deliverNextAlertEvent ==
  /\ pending # None /\ pending' = None
  /\ told' \in {IF inMaintenance THEN "silenced" ELSE "sent", "sent unasked"}
  /\ UNCHANGED <<minutes, windows>>

minutePasses ==
  /\ minutes < MaxMinutes /\ minutes' = minutes + 1
  /\ UNCHANGED <<windows, pending, told>>

WindowsNext ==
  \/ minutePasses
  \/ \E w \in Window : createMaintenance(w) \/ deleteMaintenance(w)
  \/ happens \/ deliverNextAlertEvent

(* A window begins at its first minute on each of its days and lasts to its     *)
(* last, past midnight if that is not after the first (the columns of           *)
(* maintenance_windows in db/migrations/013_reliability.sql).                 *)
Lasts(w) == IF w.start < w.end THEN w.end - w.start ELSE w.end - w.start + MinutesPerDay

Covers(w, t) ==
  \E s \in (t - MinutesPerDay)..t :
    Minute(s) = w.start /\ DayName(s) \in w.days /\ t - s <= Lasts(w)

(* Of the windows whose end is their start the code takes one minute. *)
AllRound(w) == w.start = w.end

(* An event of a site is kept from its owner only if it happened within a       *)
(* window that began on one of its days, though it is delivered later; and is  *)
(* let out only if it happened in none but in windows that are AllRound, or    *)
(* because they could not be read.                                          *)
AlertsSilenced ==
  [][pending # None /\ pending' = None =>
       \/ told' = "silenced" /\ \E w \in windows : Covers(w, pending)
       \/ told' = "sent" /\ \A w \in windows : Covers(w, pending) => AllRound(w)
       \/ told' = "sent unasked"]_windowVars
=============================================================================
