----------------------------- MODULE TrackerPage -----------------------------
(***************************************************************************)
(* What the tracker (tracker/track.js) reports of a page: its routes and    *)
(* scroll depths, its Web Vitals, and the visit they belong to.  The three   *)
(* share no state; each is a variable of its own.  TrackerQueue models how   *)
(* what is reported here gets to the service.                               *)
(***************************************************************************)
EXTENDS Integers, Sequences

CONSTANTS
  Routes,          \* routes of the page: path, search and hash
  MaxRoutes,       \* bound: route changes in a behaviour
  SESSION_TIMEOUT, \* 30 minutes in the code
  MaxTime          \* bound: the clock

ASSUME TrackerPageAssumption ==
  Routes # {} /\ MaxRoutes \in Nat /\ SESSION_TIMEOUT \in Nat \ {0} /\ MaxTime \in Nat

VARIABLES page, vitals, visit

-----------------------------------------------------------------------------
(* Routes.  at is the location; visited, changes and counts are history:      *)
(* visited the routes the user has been at, counts how often a depth was      *)
(* reported in each of these visits, early that the route had changed before  *)
(* the page was loaded.                                                      *)
Depths == 1..2   \* 25, 50, 75 and 100 percent in the code

(* r is the route when the script runs, complete says whether the document is  *)
(* at least interactive by then.                                             *)
PageInit(r, complete) ==
  page = [at |-> r, lastPath |-> r, loaded |-> complete, seen |-> {}, seenRoute |-> "",
          reports |-> IF complete THEN <<r>> ELSE <<>>,
          visited |-> <<r>>, early |-> FALSE,
          counts |-> [v \in (1..(MaxRoutes + 1)) \X Depths |-> 0]]

(* The load event, when the script had run before it. *)
load ==
  /\ ~page.loaded
  /\ page' = [page EXCEPT !.loaded = TRUE, !.reports = Append(@, page.at)]

onRoute(p) ==
  IF p.at = p.lastPath THEN p
  ELSE [p EXCEPT !.lastPath = p.at, !.reports = Append(@, p.at)]

(* pushState, replaceState, popstate or hashchange; one change may fire two   *)
(* of them, and a call may leave the route as it is.                         *)
hook(r) ==
  /\ r # page.at => Len(page.visited) <= MaxRoutes
  /\ page' = onRoute([page EXCEPT
       !.at = r,
       !.visited = IF r # page.at THEN Append(@, r) ELSE @,
       !.early = @ \/ (~page.loaded /\ r # page.at)])

(* seen is of the route that was last scrolled. *)
scroll(pct) ==
  LET seen == IF page.seenRoute = page.at THEN page.seen ELSE {}
      new == {d \in Depths : d <= pct /\ d \notin seen}
      visitNo == Len(page.visited)
  IN page' = [page EXCEPT
       !.seen = seen \cup new, !.seenRoute = page.at,
       !.counts = [v \in DOMAIN @ |-> IF v[1] = visitNo /\ v[2] \in new
                                      THEN @[v] + 1 ELSE @[v]]]

PageNext ==
  \/ load
  \/ \E r \in Routes : hook(r)
  \/ \E pct \in 0..2 : scroll(pct)

-----------------------------------------------------------------------------
(* Web Vitals.  value is the number of the last observation, -1 for null; cls *)
(* and inp begin with 0.  said are the values that were reported.            *)
Metrics == {"ttfb", "lcp", "cls"}

VitalsInit ==
  vitals = [value |-> [m \in Metrics |-> IF m = "cls" THEN 0 ELSE -1],
            timers |-> {}, sent |-> {}, said |-> [m \in Metrics |-> <<>>], hidden |-> FALSE]

(* Mutant: sent is not looked at. *)
SaidAgain(v, m) ==
  [v EXCEPT !.sent = @ \cup {m}, !.timers = @ \ {m}, !.said[m] = Append(@, v.value[m])]

report(v, m) ==
  IF m \in v.sent \/ v.value[m] = -1 THEN v
  ELSE [v EXCEPT !.sent = @ \cup {m}, !.timers = @ \ {m},
                 !.said[m] = Append(@, v.value[m])]

(* An observer sees the metric again, and the timer is started anew. *)
observe(m) ==
  /\ vitals.value[m] < 2
  /\ vitals' = [vitals EXCEPT !.value[m] = @ + 1,
                              !.timers = IF m \in vitals.sent THEN @ ELSE @ \cup {m}]

timer(m) ==
  /\ m \in vitals.timers
  /\ vitals' = report([vitals EXCEPT !.timers = @ \ {m}], m)

(* visibilitychange to hidden, and pagehide. *)
flushAll ==
  vitals' = [report(report(report(vitals, "ttfb"), "lcp"), "cls") EXCEPT !.hidden = TRUE]

VitalsNext == flushAll \/ \E m \in Metrics : observe(m) \/ timer(m)

-----------------------------------------------------------------------------
ReportsNext ==
  \/ PageNext /\ UNCHANGED vitals
  \/ VitalsNext /\ UNCHANGED page

ReportsSpec ==
  /\ \E r \in Routes, complete \in BOOLEAN : PageInit(r, complete)
  /\ VitalsInit
  /\ [][ReportsNext]_<<page, vitals>>

(* A page reports every route once, in the order they were shown, unless the  *)
(* route changed before the page was loaded; the last report is of the route  *)
(* that is shown.  A scroll depth is reported at most once each time a route  *)
(* is shown.  Each vital is reported at most once; when the page has been      *)
(* hidden, whatever was observed is, and a timer still running has a vital     *)
(* that was not.                                                             *)
PageReports ==
  /\ page.loaded => page.reports[Len(page.reports)] = page.at
  /\ page.loaded /\ ~page.early => page.reports = page.visited
  /\ \A v \in DOMAIN page.counts : page.counts[v] <= 1
  /\ \A m \in Metrics :
       /\ Len(vitals.said[m]) <= 1
       /\ m \in vitals.timers => vitals.said[m] = <<>> /\ vitals.value[m] # -1
       /\ vitals.hidden /\ vitals.value[m] # -1 /\ vitals.said[m] = <<>>
            => m \in vitals.timers

-----------------------------------------------------------------------------
(* Visits: the id that all tabs of a browser share.  last is the answer to the *)
(* last call of getSessionId in any tab, and the tab (history).               *)
PageTabs == {"left", "right"}
NoSession == [id |-> 0, last |-> 0]

(* works: localStorage can be written. *)
VisitInit(works) ==
  visit = [now |-> 1, works |-> works, stored |-> NoSession, made |-> 0,
           mem |-> [t \in PageTabs |-> NoSession],
           last |-> [id |-> 0, at |-> 0, tab |-> "left"]]

(* Mutant: <= instead of <. *)
RunningLonger(s) == s.id # 0 /\ s.last <= visit.now /\ visit.now - s.last <= SESSION_TIMEOUT

Running(s) == s.id # 0 /\ s.last <= visit.now /\ visit.now - s.last < SESSION_TIMEOUT

getSessionId(t) ==
  LET session == IF Running(visit.stored) THEN visit.stored ELSE visit.mem[t]
      id == IF Running(session) THEN session.id ELSE visit.made + 1
      new == [id |-> id, last |-> visit.now]
  IN visit' = [visit EXCEPT
       !.made = IF id > @ THEN id ELSE @,
       !.mem[t] = new,
       !.stored = IF visit.works THEN new ELSE @,
       !.last = [id |-> id, at |-> visit.now, tab |-> t]]

clockTick == visit.now < MaxTime /\ visit' = [visit EXCEPT !.now = @ + 1]

(* The clock is set back, the store is cleared, a tab is loaded anew. *)
clockBack == visit.now > 1 /\ visit' = [visit EXCEPT !.now = @ - 1]
clearStorage == visit' = [visit EXCEPT !.stored = NoSession]
reloadTab(t) == visit' = [visit EXCEPT !.mem[t] = NoSession]

VisitNext ==
  \/ \E t \in PageTabs : visit.made < MaxRoutes + 1 /\ getSessionId(t)
  \/ clockTick \/ clockBack \/ clearStorage
  \/ \E t \in PageTabs : reloadTab(t)

VisitSpec == (\E works \in BOOLEAN : VisitInit(works)) /\ [][VisitNext]_visit

(* What a tab reports belongs to the visit of the report before it, made in    *)
(* whichever tab, exactly when less than SESSION_TIMEOUT has passed; where     *)
(* the clock was not set back (no time in the tab's memory is later than the   *)
(* last report), and the id is in the store or in the memory of the tab.      *)
VisitRule ==
  [][LET before == visit.last
         after == visit'.last
         known == \/ visit.stored.id = before.id
                  \/ before.tab = after.tab /\ visit.mem[after.tab].id # 0
         forward == before.at <= after.at /\ visit.mem[after.tab].last <= before.at
     IN before # after /\ before.id # 0 /\ forward /\ known =>
          (before.id = after.id <=> after.at - before.at < SESSION_TIMEOUT)]_visit

=============================================================================
