------------------------------- MODULE MCLoops -------------------------------
(***************************************************************************)
(* Instances of Loops for TLC.                                             *)
(***************************************************************************)
EXTENDS Loops

CONSTANTS hourly, nightly

(* Two beats that fall silent at different times. *)
TwoPeriods == [h \in Beats |-> IF h = hourly THEN 1 ELSE 2]

(* The last day of February and the first two of March. *)
MonthEnds == [d \in 0..(MaxHours \div HoursPerDay) |-> IF d = 0 THEN 28 ELSE d]
=============================================================================
