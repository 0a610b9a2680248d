------------------------- MODULE NotificationsPage -------------------------
(***************************************************************************)
(* The notifications page (frontend/src/components/NotificationsView.tsx)  *)
(* with its providers, rules, reports and delivery log, and what the       *)
(* dashboard's handlers do for them.  Rows are                              *)
(*   "provider";  "hook", a rule with a webhook; "rule", one that mails     *)
(*   through provider .of; "report", through provider .of;                  *)
(*   "log", an entry of the delivery log, .on for a delivery that worked.   *)
(* Deleting a provider deletes its rules and reports in the database        *)
(* (ON DELETE CASCADE in db/migrations/005 and 006).                        *)
(***************************************************************************)
EXTENDS Page

Via(kind, id, p) == [Row(kind, id, TRUE) EXCEPT !.of = p]
Tests == {"testProvider", "testRule", "testReport"}
RuleKinds == {"rule", "hook"}

NotificationRows ==
  {Row("provider", -1, TRUE), Via("rule", -2, -1),
   Via("report", -3, -1)}

NotificationsInit ==
  Open("notifications", [rows |-> NotificationRows, made |-> 0],
       [rows |-> NotificationRows, busy |-> {}])

Ids(kinds) == {r.id : r \in {q \in ui.rows : q.kind \in kinds}}
Providers == Ids({"provider"})
Free(clicks) == {c \in clicks : ui.busy = {}}

(* What the four sections of the page offer; rows are known by their id. *)
ProvidersPanel ==
  Free({<<"addProvider", 0>>}) \cup {"testProvider", "deleteProvider"} \X Providers

RulesPanel ==
  Free({"addRule"} \X (Providers \cup {0}))
  \cup {"toggleRule", "testRule", "deleteRule"} \X Ids(RuleKinds)

ReportsPanel ==
  IF Providers = {} THEN {}
  ELSE Free({"addReport"} \X Providers)
       \cup {"toggleReport", "testReport", "deleteReport"} \X Ids({"report"})

LogsPanel == Free({c \in {<<"clearLogs", 0>>} : Ids({"log"}) # {}})

Busy == [ui EXCEPT !.busy = {"busy"}]
NotBusy == [ui EXCEPT !.busy = {}]
Here == section = "notifications"

-----------------------------------------------------------------------------
(* Forms: the button is busy until the row is in its list. *)
ThenAppend(n, op) ==
  \/ Answered(n, op, 1) /\ Finish(n, [NotBusy EXCEPT !.rows = @ \cup calls[n].got])
  \/ Thrown(n, op) /\ Finish(n, NotBusy)

addProvider ==
  /\ Here /\ <<"addProvider", 0>> \in ProvidersPanel /\ db.made < MaxMade
  /\ Send("addProvider", 0, Busy)

addProviderThen(n) == ThenAppend(n, "addProvider")

addRule(p) ==
  /\ Here /\ <<"addRule", p>> \in RulesPanel /\ db.made < MaxMade
  /\ Send("addRule", p, Busy)

addRuleThen(n) == ThenAppend(n, "addRule")

addReport(p) ==
  /\ Here /\ <<"addReport", p>> \in ReportsPanel /\ db.made < MaxMade
  /\ Send("addReport", p, Busy)

addReportThen(n) == ThenAppend(n, "addReport")

clearLogs ==
  /\ Here /\ <<"clearLogs", 0>> \in LogsPanel
  /\ Send("clearLogs", 0, Busy)

clearLogsThen(n) ==
  \/ /\ Answered(n, "clearLogs", 1)
     /\ Finish(n, [NotBusy EXCEPT !.rows = @ \ OfKind(@, "log")])
  \/ Thrown(n, "clearLogs") /\ Finish(n, NotBusy)

-----------------------------------------------------------------------------
(* The buttons of a row. *)
deleteProvider(p) ==
  /\ Here /\ <<"deleteProvider", p>> \in ProvidersPanel
  /\ Send("deleteProvider", p, ui)

(* The page keeps the rules, without their provider. *)
deleteProviderThen(n) ==
  \/ /\ Answered(n, "deleteProvider", 1)
     /\ LET p == calls[n].arg
        IN Finish(n, [ui EXCEPT !.rows =
             {IF r.kind = "rule" /\ r.of = p THEN [r EXCEPT !.of = 0] ELSE r :
                r \in Without(@, "provider", p)}])
  \/ Thrown(n, "deleteProvider") /\ Finish(n, ui)

(* Mutant: every row of the list is flipped. *)
FlipAll(n, op, kinds) ==
  \/ /\ Answered(n, op, 1)
     /\ Finish(n, [ui EXCEPT !.rows =
          {IF r.kind \in kinds THEN [r EXCEPT !.on = ~@] ELSE r : r \in @}])
  \/ Thrown(n, op) /\ Finish(n, ui)

(* The request is made from the rendered row, but what is shown afterwards  *)
(* is the opposite of what is shown then.                                   *)
ThenFlip(n, op, kinds) ==
  \/ /\ Answered(n, op, 1)
     /\ Finish(n, [ui EXCEPT !.rows =
          {IF r.kind \in kinds /\ r.id = calls[n].arg THEN [r EXCEPT !.on = ~@] ELSE r :
             r \in @}])
  \/ Thrown(n, op) /\ Finish(n, ui)

toggleRule(r) ==
  /\ Here /\ r.kind \in RuleKinds /\ <<"toggleRule", r.id>> \in RulesPanel
  /\ SendTo("toggleRule", r.id, ~r.on, ui)

toggleRuleThen(n) == ThenFlip(n, "toggleRule", RuleKinds)

deleteRule(id) ==
  /\ Here /\ <<"deleteRule", id>> \in RulesPanel
  /\ Send("deleteRule", id, ui)

deleteRuleThen(n) ==
  \/ /\ Answered(n, "deleteRule", 1)
     /\ Finish(n, [ui EXCEPT !.rows =
          {r \in @ : r.kind \notin RuleKinds \/ r.id # calls[n].arg}])
  \/ Thrown(n, "deleteRule") /\ Finish(n, ui)

toggleReport(r) ==
  /\ Here /\ r.kind = "report" /\ <<"toggleReport", r.id>> \in ReportsPanel
  /\ SendTo("toggleReport", r.id, ~r.on, ui)

toggleReportThen(n) == ThenFlip(n, "toggleReport", {"report"})

deleteReport(id) ==
  /\ Here /\ <<"deleteReport", id>> \in ReportsPanel
  /\ Send("deleteReport", id, ui)

deleteReportThen(n) == ThenDropRow(n, "deleteReport", "report")

testProvider(p) ==
  /\ Here /\ <<"testProvider", p>> \in ProvidersPanel /\ db.made < MaxMade
  /\ Send("testProvider", p, ui)

testRule(id) ==
  /\ Here /\ <<"testRule", id>> \in RulesPanel /\ db.made < MaxMade
  /\ Send("testRule", id, ui)

testReport(id) ==
  /\ Here /\ <<"testReport", id>> \in ReportsPanel /\ db.made < MaxMade
  /\ Send("testReport", id, ui)

(* A test that was delivered fetches the log again; refreshLogs swallows    *)
(* its own failures.                                                        *)
refreshLogs(n) ==
  \E op \in Tests :
    \/ Answered(n, op, 1) /\ Await(n, ui)
    \/ /\ Answered(n, op, 2)
       /\ Finish(n, [ui EXCEPT !.rows = (@ \ OfKind(@, "log")) \cup calls[n].got])
    \/ Thrown(n, op) /\ Finish(n, ui)

-----------------------------------------------------------------------------
(* The handlers of the dashboard. *)
HasRow(id) == \E r \in db.rows : r.id = id /\ r.kind # "log"

createWithProvider(n, op, kind) ==
  /\ Asked(n, op, 1)
  /\ LET r == Via(kind, NewId, calls[n].arg)
     IN IF Exists("provider", calls[n].arg) THEN Reply(n, WithRow(r), {r}) ELSE Refuse(n)

createRuleHandler(n) ==
  \/ calls[n].arg = 0 /\ Insert(n, "addRule", "hook")
  \/ calls[n].arg # 0 /\ createWithProvider(n, "addRule", "rule")

deleteProviderHandler(n) ==
  /\ Asked(n, "deleteProvider", 1)
  /\ LET p == calls[n].arg
     IN IF Exists("provider", p)
        THEN Reply(n, [db EXCEPT !.rows = {r \in Without(@, "provider", p) : r.of # p}], {})
        ELSE Refuse(n)

(* Delivery is tried and logged in either case; a failed one answers 502. *)
testHandler(n) ==
  /\ \E op \in Tests : Asked(n, op, 1)
  /\ IF ~HasRow(calls[n].arg) THEN Refuse(n)
     ELSE \/ Reply(n, WithRow(Row("log", NewId, TRUE)), {})
          \/ /\ db' = WithRow(Row("log", NewId, FALSE))
             /\ calls' = [calls EXCEPT ![n] = IF @.at = "left" THEN NoCall
                                              ELSE [@ EXCEPT !.at = "failed"]]
             /\ UNCHANGED <<section, ui, hist>>

NotificationsServer(n) ==
  \/ Insert(n, "addProvider", "provider")
  \/ createRuleHandler(n)
  \/ createWithProvider(n, "addReport", "report")
  \/ deleteProviderHandler(n)
  \/ \E k \in RuleKinds :
       /\ Exists(k, calls[n].arg)
       /\ Update(n, "toggleRule", k) \/ Delete(n, "deleteRule", k)
  \/ /\ Asked(n, "toggleRule", 1) \/ Asked(n, "deleteRule", 1)
     /\ ~HasRow(calls[n].arg) /\ Refuse(n)
  \/ Update(n, "toggleReport", "report")
  \/ Delete(n, "deleteReport", "report")
  \/ testHandler(n)
  \/ \E op \in Tests : List(n, op, OfKind(db.rows, "log"))
  \/ /\ Asked(n, "clearLogs", 1)
     /\ Reply(n, [db EXCEPT !.rows = @ \ OfKind(@, "log")], {})

NotificationsNext(n) ==
  /\ Here
  /\ \/ NotificationsServer(n)
     \/ addProviderThen(n) \/ addRuleThen(n) \/ addReportThen(n) \/ clearLogsThen(n)
     \/ deleteProviderThen(n) \/ toggleRuleThen(n) \/ deleteRuleThen(n)
     \/ toggleReportThen(n) \/ deleteReportThen(n) \/ refreshLogs(n)

NotificationsClick ==
  \/ addProvider \/ clearLogs
  \/ \E p \in Providers \cup {0} : addRule(p) \/ addReport(p)
  \/ \E r \in ui.rows :
       \/ deleteProvider(r.id) \/ testProvider(r.id)
       \/ toggleRule(r) \/ deleteRule(r.id) \/ testRule(r.id)
       \/ toggleReport(r) \/ deleteReport(r.id) \/ testReport(r.id)

(* The five lists are loaded together: if one fails, all are shown empty. *)
NotificationsLoad ==
  /\ Here
  /\ \/ Load([rows |-> db.rows, busy |-> {}], FALSE)
     \/ Load([rows |-> {}, busy |-> {}], TRUE)

-----------------------------------------------------------------------------
(* Rows that can still do something: not a log entry of a failed delivery,  *)
(* which the page does not fetch, and not a rule or report whose provider   *)
(* is gone, which the page keeps and the database does not.                 *)
Live(rows) ==
  {r \in rows : CASE r.kind = "log" -> r.on
                  [] r.kind \in {"rule", "report"} ->
                       \E p \in rows : p.kind = "provider" /\ p.id = r.of
                  [] OTHER -> TRUE}

(* A page at rest shows every live row as it is stored, and no other live   *)
(* row: after a provider with rules and reports was deleted, after toggles  *)
(* and tests, unless a connection broke or handlers of one row overlapped.  *)
NotificationsAgree == Here /\ Undisturbed => Live(ui.rows) = Live(db.rows)

=============================================================================
