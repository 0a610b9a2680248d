---------------------------- MODULE SiteSettings ----------------------------
(***************************************************************************)
(* The settings page of a site (frontend/src/components/SiteSettings.tsx): *)
(* its sections general, team, privacy, funnel, monitors, heartbeats and   *)
(* maintenance, with what the dashboard's handlers do for them.            *)
(*                                                                         *)
(* A panel is the set of clicks <<handler, row>> that the rendered section *)
(* offers.  Texts, messages and the "Copied" labels are left out.          *)
(***************************************************************************)
EXTENDS Page

Owner == 1         \* the user who made the site
Registered == 2    \* a user whose email has an account
Stranger == 0      \* an email without one
Steps == {0, 1, 2} \* what the funnel's input holds: 0 is fewer than two steps

Idle == [rows |-> {}, busy |-> {}]

-----------------------------------------------------------------------------
(* Team: members and invites. *)
TeamDb == [rows |-> {Row("member", Owner, TRUE)}, made |-> 0]

TeamPanel ==
  {<<"sendInvite", e>> : e \in {Stranger, Registered}}
  \cup {<<"removeMember", r.id>> : r \in {m \in OfKind(ui.rows, "member") : m.id # Owner}}
  \cup {<<"deleteInvite", r.id>> : r \in OfKind(ui.rows, "invite")}

sendInvite(e) ==
  /\ section = "team" /\ <<"sendInvite", e>> \in TeamPanel
  /\ e = Stranger => db.made < MaxMade
  /\ Send("sendInvite", e, ui)

(* A registered email becomes a member at once, any other gets an invite. *)
createInviteHandler(n) ==
  /\ Asked(n, "sendInvite", 1)
  /\ IF calls[n].arg = Registered
     THEN Reply(n, [db EXCEPT !.rows = @ \cup {Row("member", Registered, TRUE)}], {})
     ELSE LET r == Row("invite", NewId, TRUE) IN Reply(n, WithRow(r), {r})

sendInviteThen(n) ==
  \/ Answered(n, "sendInvite", 1) /\ calls[n].got = {} /\ Await(n, ui)
  \/ /\ Answered(n, "sendInvite", 1) /\ calls[n].got # {}
     /\ Finish(n, [ui EXCEPT !.rows = @ \cup calls[n].got])
  \/ /\ Answered(n, "sendInvite", 2)
     /\ Finish(n, [ui EXCEPT !.rows = OfKind(@, "invite") \cup calls[n].got])
  \/ Thrown(n, "sendInvite") /\ Finish(n, ui)

deleteInvite(id) ==
  /\ section = "team" /\ <<"deleteInvite", id>> \in TeamPanel
  /\ Send("deleteInvite", id, ui)

removeMember(u) ==
  /\ section = "team" /\ <<"removeMember", u>> \in TeamPanel
  /\ Send("removeMember", u, ui)

TeamServer(n) ==
  \/ createInviteHandler(n)
  \/ List(n, "sendInvite", OfKind(db.rows, "member"))
  \/ Delete(n, "deleteInvite", "invite")
  \/ Delete(n, "removeMember", "member")

(* Mutant: a removed member stays on the page. *)
removeMemberKeeps(n) ==
  (Answered(n, "removeMember", 1) \/ Thrown(n, "removeMember")) /\ Finish(n, ui)

deleteInviteThen(n) == ThenDropRow(n, "deleteInvite", "invite")
removeMemberThen(n) == ThenDropRow(n, "removeMember", "member")

TeamNext(n) ==
  TeamServer(n) \/ sendInviteThen(n) \/ deleteInviteThen(n) \/ removeMemberThen(n)

-----------------------------------------------------------------------------
(* Monitors.  checks holds the ids whose last checks are unfolded. *)
MonitorsDb == [rows |-> {Row("monitor", 1, TRUE)}, made |-> 1]

MonitorsPanel ==
  {<<"addMonitor", 0>>} \cup
  {"toggleMonitor", "loadChecks", "deleteMonitor"} \X {r.id : r \in ui.rows}

addMonitor ==
  /\ section = "monitors" /\ <<"addMonitor", 0>> \in MonitorsPanel
  /\ db.made < MaxMade
  /\ Send("addMonitor", 0, ui)

addMonitorThen(n) == ThenShowList(n, "addMonitor")

(* The body is made from the row as it was rendered. *)
toggleMonitor(m) ==
  /\ section = "monitors" /\ <<"toggleMonitor", m.id>> \in MonitorsPanel
  /\ SendTo("toggleMonitor", m.id, ~m.on, ui)

toggleMonitorThen(n) ==
  \/ Thrown(n, "toggleMonitor") /\ Finish(n, ui)
  \/ /\ Answered(n, "toggleMonitor", 1)
     /\ Finish(n, [ui EXCEPT !.rows = SetOn(@, "monitor", calls[n].arg, calls[n].to)])

deleteMonitor(m) ==
  /\ section = "monitors" /\ <<"deleteMonitor", m.id>> \in MonitorsPanel
  /\ Send("deleteMonitor", m.id, ui)

deleteMonitorThen(n) == ThenDropRow(n, "deleteMonitor", "monitor")

(* Folds without a request, unfolds when the checks have come; a failure     *)
(* unfolds an empty list.                                                   *)
loadChecks(m) ==
  /\ section = "monitors" /\ <<"loadChecks", m.id>> \in MonitorsPanel
  /\ IF m.id \in ui.checks
     THEN /\ ui' = [ui EXCEPT !.checks = @ \ {m.id}]
          /\ UNCHANGED <<section, db, calls, hist>>
     ELSE Send("loadChecks", m.id, ui)

loadChecksThen(n) ==
  /\ Answered(n, "loadChecks", 1) \/ Thrown(n, "loadChecks")
  /\ Finish(n, [ui EXCEPT !.checks = @ \cup {calls[n].arg}])

(* updateMonitorHandler reads the row and writes it back; nobody else writes *)
(* it here, so the two statements are one step.                             *)
MonitorsServer(n) ==
  \/ Insert(n, "addMonitor", "monitor")
  \/ List(n, "addMonitor", db.rows)
  \/ Update(n, "toggleMonitor", "monitor")
  \/ Delete(n, "deleteMonitor", "monitor")
  \/ Asked(n, "loadChecks", 1) /\ Reply(n, db, {})

MonitorsNext(n) ==
  \/ MonitorsServer(n) \/ addMonitorThen(n) \/ toggleMonitorThen(n)
  \/ deleteMonitorThen(n) \/ loadChecksThen(n)

-----------------------------------------------------------------------------
(* Heartbeats and maintenance windows: lists of the same make. *)
HeartbeatsPanel ==
  {<<"addHeartbeat", 0>>} \cup {"deleteHeartbeat"} \X {r.id : r \in ui.rows}

addHeartbeat ==
  /\ section = "heartbeats" /\ <<"addHeartbeat", 0>> \in HeartbeatsPanel
  /\ db.made < MaxMade
  /\ Send("addHeartbeat", 0, ui)

addHeartbeatThen(n) == ThenShowList(n, "addHeartbeat")

deleteHeartbeat(id) ==
  /\ section = "heartbeats" /\ <<"deleteHeartbeat", id>> \in HeartbeatsPanel
  /\ Send("deleteHeartbeat", id, ui)

deleteHeartbeatThen(n) == ThenDropRow(n, "deleteHeartbeat", "heartbeat")

HeartbeatsServer(n) ==
  \/ Insert(n, "addHeartbeat", "heartbeat")
  \/ List(n, "addHeartbeat", db.rows)
  \/ Delete(n, "deleteHeartbeat", "heartbeat")

HeartbeatsNext(n) ==
  HeartbeatsServer(n) \/ addHeartbeatThen(n) \/ deleteHeartbeatThen(n)

(* days: whether any weekday is picked; the submit button needs one. *)
MaintenancePanel ==
  {<<"pickDays", 0>>} \cup {c \in {<<"addMaintenance", 0>>} : ui.days}
  \cup {"deleteMaintenance"} \X {r.id : r \in ui.rows}

pickDays ==
  /\ section = "maintenance" /\ <<"pickDays", 0>> \in MaintenancePanel
  /\ ui' = [ui EXCEPT !.days = ~@]
  /\ UNCHANGED <<section, db, calls, hist>>

addMaintenance ==
  /\ section = "maintenance" /\ <<"addMaintenance", 0>> \in MaintenancePanel
  /\ db.made < MaxMade
  /\ Send("addMaintenance", 0, ui)

addMaintenanceThen(n) == ThenShowList(n, "addMaintenance")

deleteMaintenance(id) ==
  /\ section = "maintenance" /\ <<"deleteMaintenance", id>> \in MaintenancePanel
  /\ Send("deleteMaintenance", id, ui)

deleteMaintenanceThen(n) == ThenDropRow(n, "deleteMaintenance", "window")

MaintenanceServer(n) ==
  \/ Insert(n, "addMaintenance", "window")
  \/ List(n, "addMaintenance", db.rows)
  \/ Delete(n, "deleteMaintenance", "window")

MaintenanceNext(n) ==
  MaintenanceServer(n) \/ addMaintenanceThen(n) \/ deleteMaintenanceThen(n)

-----------------------------------------------------------------------------
(* General: the form of name and domain, and the certificate check, which   *)
(* asks about the domain that is stored.  Domain 0 is none.                 *)
GeneralDb == [rows |-> {}, made |-> 0, domain |-> 0]
GeneralLoaded == [rows |-> {}, busy |-> {}, domain |-> db.domain, checked |-> 0]

GeneralPanel ==
  {<<"edit", d>> : d \in 0..2}
  \cup {c \in {<<"save", 0>>} : "saving" \notin ui.busy}
  \cup {c \in {<<"checkSsl", 0>>} : "checking" \notin ui.busy /\ ui.domain # 0}

edit(d) ==
  /\ section = "general" /\ <<"edit", d>> \in GeneralPanel
  /\ ui' = [ui EXCEPT !.domain = d]
  /\ UNCHANGED <<section, db, calls, hist>>

save ==
  /\ section = "general" /\ <<"save", 0>> \in GeneralPanel
  /\ Send("save", ui.domain, [ui EXCEPT !.busy = @ \cup {"saving"}])

(* Mutant: a failed save leaves its button disabled. *)
saveStuck(n) ==
  \/ Answered(n, "save", 1) /\ Finish(n, [ui EXCEPT !.busy = @ \ {"saving"}])
  \/ Thrown(n, "save") /\ Finish(n, ui)

saveThen(n) ==
  /\ Answered(n, "save", 1) \/ Thrown(n, "save")
  /\ Finish(n, [ui EXCEPT !.busy = @ \ {"saving"}])

checkSsl ==
  /\ section = "general" /\ <<"checkSsl", 0>> \in GeneralPanel
  /\ Send("checkSsl", 0, [ui EXCEPT !.busy = @ \cup {"checking"}, !.checked = 0])

checkSslThen(n) ==
  \/ /\ Answered(n, "checkSsl", 1)
     /\ \E d \in calls[n].got :
          Finish(n, [ui EXCEPT !.busy = @ \ {"checking"}, !.checked = d])
  \/ Thrown(n, "checkSsl") /\ Finish(n, [ui EXCEPT !.busy = @ \ {"checking"}])

GeneralServer(n) ==
  \/ Asked(n, "save", 1) /\ Reply(n, [db EXCEPT !.domain = calls[n].arg], {})
  \/ /\ Asked(n, "checkSsl", 1)
     /\ IF db.domain = 0 THEN Refuse(n) ELSE Reply(n, db, {db.domain})

GeneralNext(n) == GeneralServer(n) \/ saveThen(n) \/ checkSslThen(n)

-----------------------------------------------------------------------------
(* Funnel: its steps are one row, which a save replaces in a transaction. *)
FunnelDb == [rows |-> {}, made |-> 0]
FunnelLoaded == [rows |-> db.rows, busy |-> {}, input |-> 0]

FunnelPanel ==
  {<<"type", s>> : s \in Steps} \cup {c \in {<<"saveFunnel", 0>>} : ui.busy = {}}

type(s) ==
  /\ section = "funnel" /\ <<"type", s>> \in FunnelPanel
  /\ ui' = [ui EXCEPT !.input = s]
  /\ UNCHANGED <<section, db, calls, hist>>

(* With fewer than two steps nothing is sent. *)
saveFunnel ==
  /\ section = "funnel" /\ <<"saveFunnel", 0>> \in FunnelPanel
  /\ ui.input # 0
  /\ Send("saveFunnel", ui.input, [ui EXCEPT !.busy = {"funnel"}])

saveFunnelThen(n) ==
  \/ Answered(n, "saveFunnel", 1) /\ Await(n, ui)
  \/ /\ Answered(n, "saveFunnel", 2)
     /\ Finish(n, [ui EXCEPT !.rows = calls[n].got, !.busy = {}])
  \/ Thrown(n, "saveFunnel") /\ Finish(n, [ui EXCEPT !.busy = {}])

replaceFunnelHandler(n) ==
  /\ Asked(n, "saveFunnel", 1)
  /\ Reply(n, [db EXCEPT !.rows = {Row("funnel", calls[n].arg, TRUE)}], {})

FunnelNext(n) ==
  replaceFunnelHandler(n) \/ List(n, "saveFunnel", db.rows) \/ saveFunnelThen(n)

-----------------------------------------------------------------------------
(* Privacy and public dashboard share one endpoint, updateSettingsHandler:  *)
(* for the public part it reads the column the request does not name, then  *)
(* writes both, then reads the answer.  enabled is 0 or 1, token 0 is none. *)
(* The retention travels with the hashing.                                  *)
PrivacyDb == [rows |-> {}, made |-> 0, hashing |-> TRUE, enabled |-> 0, token |-> 0]
PrivacyLoaded == [rows |-> {}, busy |-> {}, hashing |-> db.hashing,
                  enabled |-> db.enabled, token |-> db.token]

(* What the page shows when its settings could not be loaded. *)
PrivacyDefaults == [rows |-> {}, busy |-> {}, hashing |-> TRUE, enabled |-> 0,
                    token |-> 0]

PrivacyPanel ==
  {<<"tick", 0>>} \cup {c \in {<<"saveSettings", 0>>} : ui.busy = {}}

tick ==
  /\ section = "privacy" /\ <<"tick", 0>> \in PrivacyPanel
  /\ ui' = [ui EXCEPT !.hashing = ~@]
  /\ UNCHANGED <<section, db, calls, hist>>

saveSettings ==
  /\ section = "privacy" /\ <<"saveSettings", 0>> \in PrivacyPanel
  /\ SendTo("saveSettings", 0, ui.hashing, [ui EXCEPT !.busy = {"privacy"}])

saveSettingsThen(n) ==
  /\ Answered(n, "saveSettings", 1) \/ Thrown(n, "saveSettings")
  /\ Finish(n, [ui EXCEPT !.busy = {}])

(* The checkbox, and beneath it the link with its button. *)
PublicPanel ==
  {<<"savePublic", 1 - ui.enabled>>}
  \cup {c \in {<<"regenPublic", 0>>} : ui.enabled = 1 /\ ui.token # 0}

savePublic(enabled) ==
  /\ section = "privacy" /\ <<"savePublic", enabled>> \in PublicPanel
  /\ db.made < MaxMade
  /\ Send("savePublic", enabled, ui)

savePublicThen(n) ==
  \/ /\ Answered(n, "savePublic", 1)
     /\ \E s \in calls[n].got :
          Finish(n, [ui EXCEPT !.enabled = s.enabled, !.token = s.token])
  \/ Thrown(n, "savePublic") /\ Finish(n, ui)

regenPublic ==
  /\ section = "privacy" /\ <<"regenPublic", 0>> \in PublicPanel
  /\ db.made < MaxMade
  /\ Send("regenPublic", 0, ui)

regenPublicThen(n) ==
  \/ /\ Answered(n, "regenPublic", 1)
     /\ \E s \in calls[n].got : Finish(n, [ui EXCEPT !.token = s.token])
  \/ Thrown(n, "regenPublic") /\ Finish(n, ui)

PublicAt(n, pc) ==
  /\ Asked(n, "savePublic", 1) \/ Asked(n, "regenPublic", 1)
  /\ \E g \in calls[n].got : g.pc = pc

Shared == [enabled |-> db.enabled, token |-> db.token]

readShared(n) ==
  /\ Asked(n, "savePublic", 1) \/ Asked(n, "regenPublic", 1)
  /\ calls[n].got = {}
  /\ Within(n, [pc |-> "read", enabled |-> db.enabled, token |-> db.token])
  /\ UNCHANGED db

(* Mutant: the token is written as it was read. *)
NoMint(enabled, token) == token

(* Never publish a dashboard behind an empty token: mint one. *)
Mint(enabled, token) == IF token = 0 /\ enabled = 1 THEN NewId ELSE token

(* regenPublic sends an empty token and no enabled, so one is minted. *)
writeShared(n) ==
  /\ PublicAt(n, "read")
  /\ \E g \in calls[n].got :
       LET on == IF calls[n].op = "savePublic" THEN calls[n].arg ELSE g.enabled
           token == IF calls[n].op = "savePublic" THEN Mint(on, g.token) ELSE Mint(1, 0)
       IN /\ db' = [db EXCEPT !.enabled = on, !.token = token,
                              !.made = IF token = NewId THEN @ + 1 ELSE @]
          /\ Within(n, [g EXCEPT !.pc = "written"])

PrivacyServer(n) ==
  \/ Asked(n, "saveSettings", 1) /\ Reply(n, [db EXCEPT !.hashing = calls[n].to], {})
  \/ readShared(n)
  \/ writeShared(n)
  \/ PublicAt(n, "written") /\ Reply(n, db, {Shared})

PrivacyNext(n) ==
  \/ PrivacyServer(n) \/ saveSettingsThen(n) \/ savePublicThen(n) \/ regenPublicThen(n)

-----------------------------------------------------------------------------
(* The sections of this page, the clicks of its user, and the steps of a    *)
(* handler that is under way.                                               *)
SettingsInit ==
  \/ Open("team", TeamDb, [Idle EXCEPT !.rows = TeamDb.rows])
  \/ Open("monitors", MonitorsDb, [rows |-> MonitorsDb.rows, busy |-> {}, checks |-> {}])
  \/ \E s \in {"heartbeats", "maintenance"} :
       Open(s, [rows |-> {}, made |-> 0], [rows |-> {}, busy |-> {}, days |-> TRUE])
  \/ Open("general", GeneralDb, [rows |-> {}, busy |-> {}, domain |-> 0, checked |-> 0])
  \/ Open("funnel", FunnelDb, [rows |-> {}, busy |-> {}, input |-> 0])
  \/ Open("privacy", PrivacyDb, PrivacyDefaults)

SettingsClick ==
  \/ \E e \in {Stranger, Registered} : sendInvite(e)
  \/ \E r \in ui.rows : deleteInvite(r.id) \/ removeMember(r.id)
  \/ addMonitor
  \/ \E m \in ui.rows : toggleMonitor(m) \/ deleteMonitor(m) \/ loadChecks(m)
  \/ addHeartbeat
  \/ \E r \in ui.rows : deleteHeartbeat(r.id)
  \/ pickDays \/ addMaintenance
  \/ \E r \in ui.rows : deleteMaintenance(r.id)
  \/ \E d \in 0..2 : edit(d)
  \/ save \/ checkSsl
  \/ \E s \in Steps : type(s)
  \/ saveFunnel
  \/ tick \/ saveSettings
  \/ \E on \in 0..1 : savePublic(on)
  \/ regenPublic

SettingsNext(n) ==
  \/ TeamNext(n) \/ MonitorsNext(n) \/ HeartbeatsNext(n) \/ MaintenanceNext(n)
  \/ GeneralNext(n) \/ FunnelNext(n) \/ PrivacyNext(n)

(* The lists are loaded one by one, and one that fails is shown empty. *)
SiteSettingsPage ==
  \/ /\ section \in {"team", "heartbeats", "maintenance", "monitors", "funnel"}
     /\ \/ Load([ui EXCEPT !.rows = db.rows, !.busy = {}], FALSE)
        \/ Load([ui EXCEPT !.rows = {}, !.busy = {}], TRUE)
  \/ section = "general" /\ Load(GeneralLoaded, FALSE)
  \/ section = "privacy" /\ (Load(PrivacyLoaded, FALSE) \/ Load(PrivacyDefaults, TRUE))

=============================================================================
