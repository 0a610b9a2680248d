----------------------------- MODULE StatsPage -----------------------------
(***************************************************************************)
(* The statistics of a site (frontend/src/components/StatsView.tsx, with    *)
(* RealtimePanel.tsx, RecentVisitors.tsx and VisitorDetailView.tsx): the    *)
(* query in the address and the goals, the occurrences of an event, the     *)
(* two cards that fetch for themselves, and the panels that follow the      *)
(* visitors.  Figures are abstracted to the question they answer.           *)
(***************************************************************************)
EXTENDS Page

Spans == 0..2         \* two periods and a range of dates
CustomRange == 2

-----------------------------------------------------------------------------
(* Navigation and goals.  The page is rendered on the server for the query  *)
(* in the address; of two navigations under way the router drops the older. *)
GoalsInit ==
  Open("goals", [rows |-> {Row("goal", -1, TRUE)}, made |-> 0],
       [rows |-> {Row("goal", -1, TRUE)}, busy |-> {}, query |-> <<0, 0>>])

Push(q) ==
  /\ section = "goals"
  /\ Start("push", 2 * q[1] + q[2], FALSE, ui, 1)

(* The handlers start from the query that is rendered. *)
go(f) == Push(<<ui.query[1], f>>)
setFilter(f) == section = "goals" /\ f = 1 - ui.query[2] /\ go(f)
clearFilters == section = "goals" /\ ui.query[2] = 1 /\ go(0)
setPeriod(s) == section = "goals" /\ s # CustomRange /\ Push(<<s, ui.query[2]>>)

(* A range of dates is applied without the filters. *)
applyRange == Push(<<CustomRange, 0>>)

(* The server reads the goals; the page takes the new ones over. *)
SitePage(n) == Asked(n, "push", 1) /\ Reply(n, db, db.rows)

Newest(n) == \A i \in Calls \ {n} : calls[i].op # "push" \/ calls[i].at = "left"

setGoalsEffect(n) ==
  \/ /\ Answered(n, "push", 1) /\ Newest(n)
     /\ Finish(n, [ui EXCEPT !.rows = calls[n].got,
                             !.query = <<calls[n].arg \div 2, calls[n].arg % 2>>])
  \/ calls[n].op = "push" /\ ~Newest(n) /\ calls[n].at = "ok" /\ Finish(n, ui)
  \/ Thrown(n, "push") /\ Finish(n, ui)

GoalsPanel == {<<"addGoal", 0>>} \cup {"deleteGoal"} \X {g.id : g \in ui.rows}

addGoal ==
  /\ section = "goals" /\ <<"addGoal", 0>> \in GoalsPanel /\ db.made < MaxMade
  /\ Send("addGoal", 0, ui)

addGoalThen(n) ==
  \/ Answered(n, "addGoal", 1) /\ Finish(n, [ui EXCEPT !.rows = @ \cup calls[n].got])
  \/ Thrown(n, "addGoal") /\ Finish(n, ui)

deleteGoal(id) ==
  /\ section = "goals" /\ <<"deleteGoal", id>> \in GoalsPanel
  /\ Send("deleteGoal", id, ui)

deleteGoalThen(n) == ThenDropRow(n, "deleteGoal", "goal")

GoalsNext(n) ==
  \/ SitePage(n) \/ setGoalsEffect(n)
  \/ Insert(n, "addGoal", "goal") \/ addGoalThen(n)
  \/ Delete(n, "deleteGoal", "goal") \/ deleteGoalThen(n)

-----------------------------------------------------------------------------
(* Events.  open is the event that is unfolded, occ what is listed below it: *)
(* the event and span the list was fetched for.                             *)
Nothing == [rows |-> {}, made |-> 0]
EventsInit ==
  Open("events", Nothing, [rows |-> {}, busy |-> {}, span |-> 0, open |-> 0,
                           opened |-> 0, occ |-> {}])

toggleEvent(e) ==
  /\ section = "events"
  /\ IF ui.open = e
     THEN /\ ui' = [ui EXCEPT !.open = 0, !.occ = {}]
          /\ UNCHANGED <<section, db, calls, hist>>
     ELSE Start("occurrences", e, ui.span = 1,
                [ui EXCEPT !.open = e, !.opened = ui.span, !.occ = {}], 1)

toggleEventThen(n) ==
  \/ /\ Answered(n, "occurrences", 1)
     /\ Finish(n, [ui EXCEPT !.occ = calls[n].got])
  \/ Thrown(n, "occurrences") /\ Finish(n, ui)

eventOccurrences(n) ==
  /\ Asked(n, "occurrences", 1)
  /\ Reply(n, db, {<<calls[n].arg, IF calls[n].to THEN 1 ELSE 0>>})

(* Another period is rendered; what is unfolded stays as it is. *)
newPeriod ==
  /\ section = "events" /\ hist.clicks < MaxClicks
  /\ ui' = [ui EXCEPT !.span = 1 - @]
  /\ hist' = [hist EXCEPT !.clicks = @ + 1]
  /\ UNCHANGED <<section, db, calls>>

EventsNext(n) == eventOccurrences(n) \/ toggleEventThen(n)

-----------------------------------------------------------------------------
(* A card fetches in an effect whenever its question changes; the clean-up  *)
(* of the effect before clears the alive flag of the fetch under way, which *)
(* is then left to itself.                                                  *)
CardInit(s) ==
  Open(s, Nothing, [rows |-> {}, busy |-> {}, asks |-> 0, fetched |-> FALSE,
                    shows |-> {}])

(* Mutant: the effect has no clean-up. *)
askNoCleanup(q) ==
  /\ section \in {"engagement", "entry"} /\ q # ui.asks
  /\ ui.fetched /\ hist.clicks < MaxClicks
  /\ ui' = [ui EXCEPT !.asks = q, !.fetched = FALSE]
  /\ hist' = [hist EXCEPT !.clicks = @ + 1, !.lost = FALSE]
  /\ UNCHANGED <<section, db, calls>>

ask(q) ==
  /\ section \in {"engagement", "entry"} /\ q # ui.asks
  /\ ui.fetched /\ hist.clicks < MaxClicks
  /\ ui' = [ui EXCEPT !.asks = q, !.fetched = FALSE]
  /\ calls' = [n \in Calls |-> IF calls[n].at = "sent"
                               THEN [calls[n] EXCEPT !.at = "left"] ELSE NoCall]
  /\ hist' = [hist EXCEPT !.clicks = @ + 1, !.lost = FALSE]
  /\ UNCHANGED <<section, db>>

cardEffect ==
  /\ section \in {"engagement", "entry"} /\ ~ui.fetched
  /\ Start("card", ui.asks, FALSE, [ui EXCEPT !.fetched = TRUE], 0)

cardQuery(n) == Asked(n, "card", 1) /\ Reply(n, db, {calls[n].arg})

(* A failure leaves the engagement card as it was. *)
EngagementCard(n) ==
  /\ section = "engagement"
  /\ \/ Answered(n, "card", 1) /\ Finish(n, [ui EXCEPT !.shows = calls[n].got])
     \/ Thrown(n, "card") /\ Finish(n, ui)

(* The question of the other card has the tab in it; a failure empties it. *)
EntryExitCard(n) ==
  /\ section = "entry"
  /\ Answered(n, "card", 1) \/ Thrown(n, "card")
  /\ Finish(n, [ui EXCEPT !.shows = calls[n].got])

CardsNext(n) == cardQuery(n) \/ EngagementCard(n) \/ EntryExitCard(n)

-----------------------------------------------------------------------------
(* Panels that follow the visitors.  version counts the visits, data is the *)
(* version shown; seen is the version of the last answer (history).         *)
LiveInit(s, source) ==
  Open(s, [rows |-> {}, made |-> 0, version |-> 0, seen |-> 0],
       [rows |-> {}, busy |-> {"waiting"}, data |-> 0, source |-> source])

Panels == {"realtime", "visitors"}

visitorComes ==
  /\ section \in Panels /\ db.version < MaxMade
  /\ db' = [db EXCEPT !.version = @ + 1]
  /\ UNCHANGED <<section, ui, calls, hist>>

(* RealtimePanel listens to a stream; its first error closes it for good    *)
(* and starts to poll.                                                      *)
onmessage ==
  /\ section = "realtime" /\ ui.source = "stream"
  /\ ui' = [ui EXCEPT !.data = db.version, !.busy = {}]
  /\ db' = [db EXCEPT !.seen = db.version]
  /\ UNCHANGED <<section, calls, hist>>

onerror ==
  /\ section = "realtime" /\ ui.source = "stream"
  /\ Start("load", 0, FALSE, [ui EXCEPT !.source = "poll"], 0)

RealtimePanel == onmessage \/ onerror

(* RecentVisitors and VisitorDetailView load at once. *)
mountPanel ==
  /\ section = "visitors" /\ ui.source = "none"
  /\ Start("load", 0, FALSE, [ui EXCEPT !.source = "poll"], 0)

(* setInterval: a load every half minute, whether or not the last is back.  *)
interval ==
  /\ section \in Panels /\ ui.source = "poll"
  /\ Start("load", 0, FALSE, ui, 1)

loadPanel(n) ==
  /\ Asked(n, "load", 1)
  /\ Reply(n, [db EXCEPT !.seen = db.version], {db.version})

loadThen(n) ==
  \/ /\ Answered(n, "load", 1)
     /\ \E v \in calls[n].got : Finish(n, [ui EXCEPT !.data = v, !.busy = {}])
  \/ Thrown(n, "load") /\ Finish(n, [ui EXCEPT !.busy = {}])

PanelsNext(n) == loadPanel(n) \/ loadThen(n)

-----------------------------------------------------------------------------
StatsInit ==
  \/ GoalsInit \/ EventsInit
  \/ CardInit("engagement") \/ CardInit("entry")
  \/ LiveInit("realtime", "stream") \/ LiveInit("visitors", "none")

StatsClick ==
  \/ \E f \in 0..1 : setFilter(f)
  \/ clearFilters \/ applyRange
  \/ \E s \in Spans : setPeriod(s)
  \/ addGoal
  \/ \E g \in ui.rows : deleteGoal(g.id)
  \/ \E e \in 1..2 : toggleEvent(e)
  \/ newPeriod
  \/ \E q \in 0..1 : ask(q)
  \/ visitorComes \/ interval

StatsEffects == cardEffect \/ mountPanel \/ RealtimePanel

StatsNext(n) == GoalsNext(n) \/ EventsNext(n) \/ CardsNext(n) \/ PanelsNext(n)

-----------------------------------------------------------------------------
(* What the parts show is the answer to what they ask now: the occurrences  *)
(* are those of the unfolded event, in the period it was unfolded in; a     *)
(* card answers its present question, whatever answers are still on their   *)
(* way, and the entry card never shows an old answer; a panel shows the     *)
(* last answer.  Excepted are lists and panels whose requests overlapped.   *)
StatsCurrent ==
  /\ section = "events" /\ ~hist.raced /\ ui.open # 0
       => ui.occ \subseteq {<<ui.open, ui.opened>>}
  /\ section = "engagement" /\ Quiet /\ ui.fetched /\ ~hist.lost => ui.shows = {ui.asks}
  /\ section = "entry" /\ Quiet /\ ui.fetched => ui.shows \subseteq {ui.asks}
  /\ section \in Panels /\ Undisturbed => ui.data = db.seen

=============================================================================
