-------------------------------- MODULE Loops --------------------------------
(***************************************************************************)
(* What the dashboard does by the clock, each loop beside the requests that  *)
(* edit its rows: heartbeatLoop, reportLoop, and the delivery of alert       *)
(* events within maintenance windows.  They share no row, so a behaviour is  *)
(* of one of them.                                                          *)
(***************************************************************************)
EXTENDS Heartbeats, ReportMails, MaintenanceWindows

VARIABLE part   \* the loop a behaviour is of

loopVars == <<part, vars, reportVars, windowVars>>

LoopsInit ==
  /\ part \in {"beats", "reports", "windows"}
  /\ Init /\ WindowsInit
  /\ IF part = "reports" THEN \E at \in Schedule : ReportsInit(at)
                         ELSE ReportsInit([frequency |-> "daily", day |-> 0,
                                       form |-> "plain", hour |-> 0])

Beating(A) == part = "beats" /\ A /\ UNCHANGED <<part, reportVars, windowVars>>

LoopsNext ==
  \/ Beating(Next)
  \/ part = "reports" /\ ReportsNext /\ UNCHANGED <<part, vars, windowVars>>
  \/ part = "windows" /\ WindowsNext /\ UNCHANGED <<part, vars, reportVars>>

(* Fairness of Heartbeats in a behaviour of its own. *)
LoopsSpec ==
  /\ LoopsInit /\ [][LoopsNext]_loopVars
  /\ WF_loopVars(Beating(BeginRun)) /\ WF_loopVars(Beating(Statement))
=============================================================================
