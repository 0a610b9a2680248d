------------------------------- MODULE Uptime -------------------------------
(***************************************************************************)
(* What the dashboard watches and tells of: the checks of sites and what     *)
(* alertLoop makes of them, the events that two loops drain, and the         *)
(* monitors that are fetched while they are edited.  The three write         *)
(* different rows, so a behaviour is of one of them.                        *)
(***************************************************************************)
EXTENDS SiteChecks, AlertOutbox, Monitors

VARIABLE part   \* what a behaviour is of

uptimeVars == <<part, checkVars, vars, monitorVars>>

UptimeInit ==
  /\ part \in {"sites", "outbox", "monitors"}
  /\ ChecksInit /\ Init /\ MonitorsInit

Checking(A) == part = "sites" /\ A /\ UNCHANGED <<part, vars, monitorVars>>
Draining(A) == part = "outbox" /\ A /\ UNCHANGED <<part, checkVars, monitorVars>>
Watching(A) == part = "monitors" /\ A /\ UNCHANGED <<part, checkVars, vars>>

UptimeNext == Checking(ChecksNext) \/ Draining(Next) \/ Watching(MonitorsNext)

UptimeSpec == UptimeInit /\ [][UptimeNext]_uptimeVars

(* Fairness of ChecksFairSpec and FairSpec in behaviours of their own; and      *)
(* runMonitors goes on, since the http.Client of a fetch has a timeout.         *)
UptimeFairSpec ==
  /\ UptimeSpec
  /\ WF_uptimeVars(Checking(AlertTick)) /\ WF_uptimeVars(Checking(ProcessSites))
  /\ \A l \in Loops :
       /\ WF_uptimeVars(Draining(StartDrain(l))) /\ SF_uptimeVars(Draining(Claim(l)))
       /\ WF_uptimeVars(Draining(Deliver(l))) /\ WF_uptimeVars(Draining(Delete(l)))
  /\ WF_uptimeVars(Watching(runMonitors))
=============================================================================
