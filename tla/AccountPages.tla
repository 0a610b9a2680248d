---------------------------- MODULE AccountPages ----------------------------
(***************************************************************************)
(* Three pages around accounts: the users of an instance, for its admins   *)
(* (frontend/src/components/AdminUsers.tsx), the sites of a user           *)
(* (SiteList.tsx), and the password and API keys of a user                 *)
(* (AccountView.tsx).                                                      *)
(***************************************************************************)
EXTENDS Page

Self == -1   \* the admin who looks at the users
Other == -2  \* another user, .on for an admin

-----------------------------------------------------------------------------
(* Users.  session says whether the session of the page is still in the     *)
(* table: updateUserHandler deletes every session of the user it changes.   *)
UserRows == {Row("user", Self, TRUE), Row("user", Other, FALSE)}
UsersInit ==
  Open("users", [rows |-> UserRows, made |-> 0, session |-> TRUE],
       [rows |-> UserRows, busy |-> {}])

UsersPanel ==
  {c \in {<<"addUser", 0>>} : ui.busy = {}}
  \cup {"changeRole", "resetPassword"} \X {u.id : u \in ui.rows}
  \cup {"removeUser"} \X ({u.id : u \in ui.rows} \ {Self})

addUser ==
  /\ section = "users" /\ <<"addUser", 0>> \in UsersPanel /\ db.made < MaxMade
  /\ Send("addUser", 0, [ui EXCEPT !.busy = {"creating"}])

addUserThen(n) ==
  \/ /\ Answered(n, "addUser", 1)
     /\ Finish(n, [ui EXCEPT !.busy = {}, !.rows = @ \cup calls[n].got])
  \/ Thrown(n, "addUser") /\ Finish(n, [ui EXCEPT !.busy = {}])

changeRole(u) ==
  /\ section = "users" /\ <<"changeRole", u.id>> \in UsersPanel
  /\ SendTo("changeRole", u.id, ~u.on, ui)

changeRoleThen(n) ==
  \/ /\ Answered(n, "changeRole", 1)
     /\ Finish(n, [ui EXCEPT !.rows = SetOn(@, "user", calls[n].arg, calls[n].to)])
  \/ Thrown(n, "changeRole") /\ Finish(n, ui)

resetPassword(u) ==
  /\ section = "users" /\ <<"resetPassword", u>> \in UsersPanel
  /\ Send("resetPassword", u, ui)

resetPasswordThen(n) ==
  /\ Answered(n, "resetPassword", 1) \/ Thrown(n, "resetPassword")
  /\ Finish(n, ui)

removeUser(u) ==
  /\ section = "users" /\ <<"removeUser", u>> \in UsersPanel
  /\ Send("removeUser", u, ui)

removeUserThen(n) == ThenDropRow(n, "removeUser", "user")

Admins == {u \in db.rows : u.kind = "user" /\ u.on}

(* A role or a password is written together with the end of the user's      *)
(* sessions.  Nobody demotes himself or the last admin.                     *)
updateUserHandler(n) ==
  LET u == calls[n].arg
      demotes == calls[n].op = "changeRole" /\ ~calls[n].to
      newdb == IF calls[n].op = "changeRole"
               THEN [db EXCEPT !.rows = SetOn(@, "user", u, calls[n].to)] ELSE db
  IN /\ Asked(n, "changeRole", 1) \/ Asked(n, "resetPassword", 1)
     /\ IF \/ ~Exists("user", u)
           \/ demotes /\ (u = Self \/ Admins \ {Row("user", u, TRUE)} = {})
        THEN Refuse(n)
        ELSE Reply(n, [newdb EXCEPT !.session = @ /\ u # Self], {})

UsersServer(n) ==
  \/ /\ db.session
     /\ \/ Insert(n, "addUser", "user")
        \/ updateUserHandler(n)
        \/ calls[n].arg # Self /\ Delete(n, "removeUser", "user")
  \/ /\ section = "users" /\ ~db.session
     /\ calls[n].at \in {"sent", "left"} /\ Refuse(n)

UsersNext(n) ==
  \/ section = "users" /\ UsersServer(n)
  \/ addUserThen(n) \/ changeRoleThen(n) \/ resetPasswordThen(n) \/ removeUserThen(n)

-----------------------------------------------------------------------------
(* Sites. *)
SitesInit == Open("sites", [rows |-> {Row("site", -1, TRUE)}, made |-> 0],
                  [rows |-> {Row("site", -1, TRUE)}, busy |-> {}])

SitesPanel ==
  {c \in {<<"create", 0>>} : ui.busy = {}} \cup {"remove"} \X {s.id : s \in ui.rows}

create ==
  /\ section = "sites" /\ <<"create", 0>> \in SitesPanel /\ db.made < MaxMade
  /\ Send("create", 0, [ui EXCEPT !.busy = {"creating"}])

createThen(n) ==
  \/ /\ Answered(n, "create", 1)
     /\ Finish(n, [ui EXCEPT !.busy = {}, !.rows = @ \cup calls[n].got])
  \/ Thrown(n, "create") /\ Finish(n, [ui EXCEPT !.busy = {}])

remove(id) ==
  /\ section = "sites" /\ <<"remove", id>> \in SitesPanel
  /\ Send("remove", id, ui)

removeThen(n) == ThenDropRow(n, "remove", "site")

SitesNext(n) ==
  \/ Insert(n, "create", "site") \/ Delete(n, "remove", "site")
  \/ createThen(n) \/ removeThen(n)

-----------------------------------------------------------------------------
(* Account.  The keys are fetched by an effect when the page is mounted and *)
(* again when one was made.                                                 *)
Mounting(fetched) == [rows |-> {}, busy |-> {"keys"}, fetched |-> fetched]
AccountInit ==
  Open("account", [rows |-> {Row("key", -1, TRUE)}, made |-> 0], Mounting(FALSE))

AccountPanel ==
  {<<"createKey", 0>>} \cup {c \in {<<"changePassword", 0>>} : "saving" \notin ui.busy}
  \cup {"revoke"} \X {k.id : k \in ui.rows}

mountEffect ==
  /\ section = "account" /\ ~ui.fetched
  /\ Start("loadKeys", 0, FALSE, Mounting(TRUE), 0)

loadKeys(n) ==
  LET done == [ui EXCEPT !.busy = @ \ {"keys"}]
      asking == calls[n].stage = IF calls[n].op = "createKey" THEN 2 ELSE 1
  IN /\ calls[n].op \in {"loadKeys", "createKey"} /\ asking
     /\ \/ calls[n].at = "ok" /\ Finish(n, [done EXCEPT !.rows = calls[n].got])
        \/ calls[n].at = "failed" /\ Finish(n, done)

createKey ==
  /\ section = "account" /\ <<"createKey", 0>> \in AccountPanel /\ db.made < MaxMade
  /\ Send("createKey", 0, ui)

createKeyThen(n) ==
  \/ Answered(n, "createKey", 1) /\ Await(n, [ui EXCEPT !.busy = @ \cup {"keys"}])
  \/ Thrown(n, "createKey") /\ calls[n].stage = 1 /\ Finish(n, ui)

revoke(id) ==
  /\ section = "account" /\ <<"revoke", id>> \in AccountPanel
  /\ Send("revoke", id, ui)

revokeThen(n) == ThenDropRow(n, "revoke", "key")

changePassword ==
  /\ section = "account" /\ <<"changePassword", 0>> \in AccountPanel
  /\ Send("changePassword", 0, [ui EXCEPT !.busy = @ \cup {"saving"}])

changePasswordThen(n) ==
  /\ Answered(n, "changePassword", 1) \/ Thrown(n, "changePassword")
  /\ Finish(n, [ui EXCEPT !.busy = @ \ {"saving"}])

(* The sessions that a changed password ends are those of other browsers.   *)
AccountServer(n) ==
  \/ Insert(n, "createKey", "key")
  \/ Asked(n, "loadKeys", 1) /\ Reply(n, db, db.rows)
  \/ List(n, "createKey", db.rows)
  \/ Delete(n, "revoke", "key")
  \/ Asked(n, "changePassword", 1) /\ (Reply(n, db, {}) \/ Refuse(n))

AccountNext(n) ==
  \/ AccountServer(n) \/ loadKeys(n) \/ createKeyThen(n) \/ revokeThen(n)
  \/ changePasswordThen(n)

-----------------------------------------------------------------------------
PagesInit == UsersInit \/ SitesInit \/ AccountInit

PagesClick ==
  \/ addUser
  \/ \E u \in ui.rows : changeRole(u) \/ resetPassword(u.id) \/ removeUser(u.id)
  \/ create
  \/ \E s \in ui.rows : remove(s.id)
  \/ createKey \/ changePassword
  \/ \E k \in ui.rows : revoke(k.id)

PagesNext(n) == UsersNext(n) \/ SitesNext(n) \/ AccountNext(n)

(* Without a session, or when a request fails, the lists are empty. *)
AdminUsersPage ==
  /\ section = "users"
  /\ \/ db.session /\ Load([rows |-> db.rows, busy |-> {}], FALSE)
     \/ Load([rows |-> {}, busy |-> {}], TRUE)

SitesPage ==
  /\ section = "sites"
  /\ \/ Load([rows |-> db.rows, busy |-> {}], FALSE)
     \/ Load([rows |-> {}, busy |-> {}], TRUE)

AccountPage == section = "account" /\ Load(Mounting(FALSE), FALSE)

=============================================================================
