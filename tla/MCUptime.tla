------------------------------ MODULE MCUptime ------------------------------
(***************************************************************************)
(* Instances of Uptime for TLC.                                            *)
(***************************************************************************)
EXTENDS Uptime

CONSTANTS s1, s2, alert, heartbeat, r1, r2, r3, down, up, u1, u2

(* Two rules for one event, one for the other. *)
ThreeRules == [r \in Rules |-> IF r = r3 THEN up ELSE down]

(* A request names one column: the switch, the interval or another address. *)
OneColumn ==
  LET nothing == [enabled |-> {}, interval |-> {}, url |-> {}]
  IN  {[nothing EXCEPT !.enabled = {on}] : on \in BOOLEAN}
        \cup {[nothing EXCEPT !.interval = {n}] : n \in Intervals}
        \cup {[nothing EXCEPT !.url = {u2}]}
=============================================================================
