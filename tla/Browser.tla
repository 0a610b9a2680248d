------------------------------ MODULE Browser ------------------------------
(***************************************************************************)
(* The program in the browser: the pages of the dashboard, with the         *)
(* handlers of the dashboard that they call, and the tracker on the pages   *)
(* of a measured site.  No two sections of it share state, so a behaviour   *)
(* is about one: a section of a page, or a part of the tracker.             *)
(***************************************************************************)
EXTENDS SiteSettings, NotificationsPage, AccountPages, StatsPage, Accounts,
        TrackerQueue, TrackerPage

trackerVars == <<page, vitals, visit>>
vars == <<section, db, ui, calls, hist,
          opted, queue, open, flights, rows, made, times, gone,
          page, vitals, visit>>

Tracker == {"queue", "routes", "vitals", "visits"}
AnyRoute == CHOOSE r \in Routes : TRUE

Init ==
  /\ QueueInit
  /\ VitalsInit
  /\ \/ /\ SettingsInit \/ NotificationsInit \/ PagesInit \/ StatsInit \/ AccountsInit
        /\ PageInit(AnyRoute, TRUE) /\ VisitInit(TRUE)
     \/ \E s \in {"queue", "vitals"} :
          Open(s, Nothing, Idle) /\ PageInit(AnyRoute, TRUE) /\ VisitInit(TRUE)
     \/ /\ Open("routes", Nothing, Idle) /\ VisitInit(TRUE)
        /\ \E r \in Routes, complete \in BOOLEAN : PageInit(r, complete)
     \/ /\ Open("visits", Nothing, Idle) /\ PageInit(AnyRoute, TRUE)
        /\ \E works \in BOOLEAN : VisitInit(works)

Elsewhere == UNCHANGED <<opted, queue, open, flights, rows, made, times, gone,
                         page, vitals, visit>>

(* What users do, and what the weather of the network does. *)
Click ==
  /\ SettingsClick \/ NotificationsClick \/ PagesClick \/ StatsClick \/ AccountsClick
  /\ Elsewhere

Reload ==
  /\ SiteSettingsPage \/ NotificationsLoad \/ AdminUsersPage \/ SitesPage \/ AccountPage
  /\ Elsewhere

Break(n) == (Lose(n) \/ failInvite(n)) /\ Elsewhere

(* What the program does when it can: a handler goes on, on the server or in   *)
(* the browser, and the effects of React and of timers run.                   *)
Progress(n) ==
  /\ \/ SettingsNext(n) \/ NotificationsNext(n) \/ PagesNext(n) \/ StatsNext(n)
     \/ AccountsNext(n)
  /\ Elsewhere

Effect == (mountEffect \/ StatsEffects \/ toLogin) /\ Elsewhere

TrackerStep ==
  /\ \/ section = "queue" /\ QueueNext /\ UNCHANGED trackerVars
     \/ /\ section = "routes" /\ PageNext
        /\ UNCHANGED <<opted, queue, open, flights, rows, made, times, gone, vitals, visit>>
     \/ /\ section = "vitals" /\ VitalsNext
        /\ UNCHANGED <<opted, queue, open, flights, rows, made, times, gone, page, visit>>
     \/ /\ section = "visits" /\ VisitNext
        /\ UNCHANGED <<opted, queue, open, flights, rows, made, times, gone, page, vitals>>
  /\ UNCHANGED <<section, db, ui, calls, hist>>

Next ==
  \/ Click \/ Reload \/ Effect \/ TrackerStep
  \/ \E n \in Calls : Progress(n) \/ Break(n)

(* Fair: the server answers what has reached it, the browser runs what an      *)
(* answer, an effect or a timer has made ready.  Not fair: clicks, reloads,    *)
(* and connections that break.                                               *)
Spec == Init /\ [][Next]_vars /\ WF_vars(Effect) /\ \A n \in Calls : WF_vars(Progress(n))

-----------------------------------------------------------------------------
Lists == {"team", "monitors", "heartbeats", "maintenance", "funnel", "users", "sites",
          "account", "goals"}

(* A list at rest shows the rows that are stored, after clicks on several rows *)
(* and handlers that overlap, delete and toggle what another is about to       *)
(* show; excepted are a connection that broke, and two handlers of the same    *)
(* row or one that fetches the list while another changes it.                 *)
RowsAgree ==
  /\ section \in Lists /\ Undisturbed
  /\ section = "users" => db.session
  /\ section = "account" => ui.fetched
  => ui.rows = db.rows

(* A public dashboard always has a token, whichever two requests of            *)
(* updateSettingsHandler overlap between the read of the columns and their     *)
(* write; and the link that the settings page shows at rest is the one that    *)
(* works.                                                                    *)
PublicDashboard ==
  section = "privacy" =>
    /\ db.enabled = 1 => db.token # 0
    /\ Undisturbed => ui.enabled = db.enabled /\ ui.token = db.token

(* A form or card that is busy becomes ready again, whether its requests are   *)
(* answered, refused or lost.  The login form is excepted when the connection  *)
(* breaks: onSubmit has no catch.                                            *)
BusyEnds == []<>(ui.busy = {} \/ (section = "sessions" /\ hist.lost))

=============================================================================
