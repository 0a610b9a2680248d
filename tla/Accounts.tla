------------------------------ MODULE Accounts ------------------------------
(***************************************************************************)
(* Accounts under concurrent requests: sessions and passwords (loginHandler *)
(* and changePasswordHandler of the dashboard, the sign-in of NextAuth in   *)
(* frontend/src/lib/auth.ts and the login page), the last admin             *)
(* (updateUserHandler and deleteUserHandler) and the acceptance of an       *)
(* invite (acceptInviteHandler and AcceptInvite.tsx), statement by          *)
(* statement where a handler is not one transaction.                        *)
(***************************************************************************)
EXTENDS Page

Known(n, pc) == \E g \in calls[n].got : g.pc = pc

-----------------------------------------------------------------------------
(* Sessions.  pw is the version of the password, a session remembers the     *)
(* version it was opened with; token is the id of the session whose token    *)
(* the browser of the page has in its cookie, 0 for none, asker the one that  *)
(* the last change of the password was asked with.  A second device logs in   *)
(* as well; overtaken are the logins whose password was checked before a      *)
(* change of it was written and whose session was not there yet (history).    *)
Session(id, pw) == [id |-> id, pw |-> pw]
SessionsInit ==
  Open("sessions",
       [rows |-> {Session(10, 0), Session(11, 0)}, made |-> 0, pw |-> 0, overtaken |-> {}],
       [rows |-> {}, busy |-> {}, token |-> 10, asker |-> 10])

Own == {s \in db.rows : s.id = ui.asker}

LoginPanel ==
  {c \in {<<"login", pw>> : pw \in 0..db.pw} : ui.token = 0 /\ "loading" \notin ui.busy}

onSubmit(pw) ==
  /\ section = "sessions" /\ <<"login", pw>> \in LoginPanel /\ db.made < MaxMade
  /\ Send("login", pw, [ui EXCEPT !.busy = @ \cup {"loading"}])

deviceLogin(pw) ==
  /\ section = "sessions" /\ db.made < MaxMade /\ pw \in 0..db.pw
  /\ Send("device", pw, ui)

(* The password is checked against the row that was read; the session is     *)
(* inserted by a later statement.                                           *)
loginHandler(n) ==
  \/ /\ calls[n].got = {}
     /\ Asked(n, "login", 1) \/ Asked(n, "device", 1)
     /\ IF calls[n].arg # db.pw THEN Refuse(n)
        ELSE /\ Within(n, [pc |-> "checked", id |-> NewId])
             /\ db' = [db EXCEPT !.made = @ + 1]
  \/ /\ Known(n, "checked")
     /\ Asked(n, "login", 1) \/ Asked(n, "device", 1)
     /\ \E g \in calls[n].got :
          Reply(n, [db EXCEPT !.rows = @ \cup {Session(g.id, calls[n].arg)}], {g})

(* authorize and the callbacks of NextAuth: the token goes into the cookie.  *)
authorize(n) ==
  \/ /\ Answered(n, "login", 1)
     /\ \E g \in calls[n].got : Finish(n, [ui EXCEPT !.busy = @ \ {"loading"}, !.token = g.id])
  \/ /\ Thrown(n, "login")
     /\ Finish(n, IF hist.lost THEN ui ELSE [ui EXCEPT !.busy = @ \ {"loading"}])
  \/ /\ calls[n].op = "device" /\ calls[n].at \in {"ok", "failed"}
     /\ Finish(n, ui)

(* The row is read and compared first; the transaction writes only over the  *)
(* hash that was read, and ends every session but the caller's own.          *)
submitPassword ==
  /\ section = "sessions" /\ ui.token # 0 /\ "saving" \notin ui.busy
  /\ db.pw < MaxMade
  /\ Send("password", db.pw, [ui EXCEPT !.busy = @ \cup {"saving"}, !.asker = ui.token])

Overtaken == {g.id : g \in UNION {calls[n].got : n \in
                {m \in Calls : calls[m].op \in {"login", "device"} /\ Known(m, "checked")}}}

(* The sessions that a change of the password leaves: DELETE FROM sessions   *)
(* WHERE user_id = $1 AND token_hash <> $2.                                 *)
OnlyOwn(own) == own

passwordWritten(own) ==
  [db EXCEPT !.pw = @ + 1, !.overtaken = @ \cup Overtaken,
             !.rows = {[s EXCEPT !.pw = IF s \in own THEN db.pw + 1 ELSE @] :
                         s \in OnlyOwn(own)}]

changePasswordHandler(n) ==
  /\ Asked(n, "password", 1)
  /\ \/ /\ calls[n].got = {}
        /\ IF calls[n].arg # db.pw \/ Own = {} THEN Refuse(n)
           ELSE Within(n, [pc |-> "compared"]) /\ UNCHANGED db
     \/ /\ Known(n, "compared")
        /\ IF calls[n].arg # db.pw THEN Refuse(n)
           ELSE Reply(n, passwordWritten(Own), {})

submitPasswordThen(n) ==
  /\ Answered(n, "password", 1) \/ Thrown(n, "password")
  /\ Finish(n, [ui EXCEPT !.busy = @ \ {"saving"}])

(* An admin sets a new password: all sessions end with it. *)
resetByAdmin ==
  /\ section = "sessions" /\ db.pw < MaxMade /\ hist.clicks < MaxClicks
  /\ db' = passwordWritten({})
  /\ hist' = [hist EXCEPT !.clicks = @ + 1]
  /\ UNCHANGED <<section, ui, calls>>

(* Signing out asks the dashboard to end the session and does not mind when  *)
(* it fails.                                                                *)
signOut ==
  /\ section = "sessions" /\ ui.token # 0
  /\ Send("logout", ui.token, ui)

logoutHandler(n) ==
  /\ Asked(n, "logout", 1)
  /\ Reply(n, [db EXCEPT !.rows = {s \in @ : s.id # calls[n].arg}], {})

signOutThen(n) ==
  /\ Answered(n, "logout", 1) \/ Thrown(n, "logout")
  /\ Finish(n, [ui EXCEPT !.token = 0])

SessionsNext(n) ==
  /\ section = "sessions"
  /\ \/ loginHandler(n) \/ authorize(n) \/ changePasswordHandler(n)
     \/ submitPasswordThen(n) \/ logoutHandler(n) \/ signOutThen(n)

(* After a change of the password no session that was opened with an older   *)
(* one is left, except the changer's own and those of a login that had its    *)
(* password checked before the change was written and stored its session      *)
(* after it.                                                                *)
OldPasswordSessions ==
  section = "sessions" =>
    \A s \in db.rows : s.pw = db.pw \/ s.id \in db.overtaken

(* What main.go says of the sessions table, "This makes logout and password      *)
(* changes revoke tokens", and changePasswordHandler of its DELETE, "Revoke     *)
(* every other session": once the password has changed, no session is there   *)
(* that an older one has opened.                                             *)
OthersRevoked == section = "sessions" => \A s \in db.rows : s.pw = db.pw

-----------------------------------------------------------------------------
(* The last admin.  Two admins demote and delete each other; .on is the role *)
(* and signed the users with a session; both, that a request wrote while the   *)
(* other one had counted the admins already (history).                       *)
AdminsInit ==
  Open("admins", [rows |-> {Row("user", u, TRUE) : u \in 1..2}, made |-> 0,
                  signed |-> 1..2, both |-> FALSE],
       [rows |-> {}, busy |-> {}])

TheAdmins == {r \in db.rows : r.on}

(* The user with the other number asks for u to be demoted or deleted. *)
demote(op, u) ==
  /\ section = "admins" /\ op \in {"demote", "delete"}
  /\ Send(op, u, ui)

Caller(n) == 3 - calls[n].arg

(* Mutant: admins <= 1 is not looked at. *)
AnyMayGo == TRUE

MayGo == Cardinality(TheAdmins) > 1

(* Middleware, then the count of the admins, then the write. *)
lastAdminCheck(n) ==
  /\ calls[n].op \in {"demote", "delete"} /\ calls[n].at = "sent"
  /\ \/ /\ calls[n].got = {}
        /\ IF Caller(n) \in db.signed
           THEN Within(n, [pc |-> "known"]) /\ UNCHANGED db ELSE Refuse(n)
     \/ /\ Known(n, "known")
        /\ IF Row("user", calls[n].arg, TRUE) \in db.rows /\ ~MayGo THEN Refuse(n)
           ELSE Within(n, [pc |-> "counted"]) /\ UNCHANGED db

writeUser(n) ==
  /\ calls[n].op \in {"demote", "delete"} /\ calls[n].at = "sent" /\ Known(n, "counted")
  /\ LET u == calls[n].arg
         gone == {r \in db.rows : r.id # u}
     IN db' = [db EXCEPT !.rows = IF calls[n].op = "delete" THEN gone
                                  ELSE gone \cup {[r EXCEPT !.on = FALSE] : r \in db.rows \ gone},
                         !.signed = @ \ {u},
                         !.both = @ \/ \E m \in Calls \ {n} :
                                        calls[m].at = "sent" /\ Known(m, "counted")]
  /\ calls' = [calls EXCEPT ![n] = NoCall]
  /\ UNCHANGED <<section, ui, hist>>

adminTold(n) ==
  /\ calls[n].op \in {"demote", "delete"} /\ calls[n].at = "failed" /\ Finish(n, ui)

AdminsNext(n) == section = "admins" /\ (lastAdminCheck(n) \/ writeUser(n) \/ adminTold(n))

(* Somebody stays admin, unless two requests had both counted the admins      *)
(* before one of them wrote: a request that was let in before the other one   *)
(* was written still meets the count.                                       *)
LastAdmin == section = "admins" /\ TheAdmins = {} => db.both

-----------------------------------------------------------------------------
(* An invite is accepted in five statements outside a transaction, maybe in  *)
(* two tabs at once.  pw is the password of the account, 0 for no account,   *)
(* 9 for the one an account had before.                                     *)
InviteInit ==
  \E pw \in {0, 9} :
    Open("invite", [rows |-> {}, made |-> 0, invite |-> TRUE, before |-> pw, pw |-> pw,
                    member |-> FALSE],
         [rows |-> {}, busy |-> {}, said |-> "form"])

InvitePanel == {c \in {"submit"} \X (1..2) : ui.said # "left"}

(* Two tabs: the disabled button of one does not stop the other. *)
submit(pw) ==
  /\ section = "invite" /\ <<"submit", pw>> \in InvitePanel
  /\ Send("accept", pw, [ui EXCEPT !.busy = {"accepting"}])

At(n, pc) == Asked(n, "accept", 1) /\ Known(n, pc)
GoTo(n, pc, existed) == Within(n, [pc |-> pc, existed |-> existed])

readInvite(n) ==
  /\ Asked(n, "accept", 1) /\ calls[n].got = {}
  /\ IF db.invite THEN GoTo(n, "user", FALSE) /\ UNCHANGED db ELSE Refuse(n)

(* Mutant: ON CONFLICT DO UPDATE instead of DO NOTHING. *)
Upsert(pw) == pw

(* ON CONFLICT (email) DO NOTHING: an account keeps its password. *)
UserPassword(pw) == IF db.pw = 0 THEN pw ELSE db.pw

insertUser(n) ==
  /\ At(n, "user")
  /\ GoTo(n, "member", db.pw # 0)
  /\ db' = [db EXCEPT !.pw = UserPassword(calls[n].arg)]

insertMember(n) ==
  /\ At(n, "member")
  /\ \E g \in calls[n].got : GoTo(n, "delete", g.existed)
  /\ db' = [db EXCEPT !.member = TRUE]

(* The error of the DELETE is ignored. *)
deleteTheInvite(n) ==
  /\ At(n, "delete")
  /\ \E g \in calls[n].got : GoTo(n, "session", g.existed)
  /\ db' \in {db, [db EXCEPT !.invite = FALSE]}

(* A new account gets a session, an old one only the message. *)
answerInvite(n) ==
  /\ At(n, "session")
  /\ \E g \in calls[n].got : Reply(n, db, {g})

failInvite(n) == Asked(n, "accept", 1) /\ Refuse(n)

acceptInviteHandler(n) ==
  \/ readInvite(n) \/ insertUser(n) \/ insertMember(n) \/ deleteTheInvite(n)
  \/ answerInvite(n)

(* With exists the form waits for the redirect to the login page; else the   *)
(* new password is used to sign in, and a refusal leads to the login page;    *)
(* an error of the connection leads back to the form.                        *)
submitThen(n) ==
  \/ /\ Answered(n, "accept", 1)
     /\ \E g \in calls[n].got :
          IF g.existed THEN Finish(n, [ui EXCEPT !.said = "exists"]) ELSE Await(n, ui)
  \/ Asked(n, "accept", 2) /\ (IF calls[n].arg = db.pw THEN Reply(n, db, {}) ELSE Refuse(n))
  \/ Answered(n, "accept", 2) /\ Finish(n, [ui EXCEPT !.said = "left", !.busy = {}])
  \/ /\ Thrown(n, "accept")
     /\ \E said \in IF calls[n].stage = 1 THEN {ui.said}
                     ELSE {"left"} \cup {x \in {ui.said} : hist.lost} :
          Finish(n, [ui EXCEPT !.busy = {}, !.said = said])

toLogin ==
  /\ section = "invite" /\ ui.said = "exists"
  /\ ui' = [ui EXCEPT !.said = "left", !.busy = {}]
  /\ UNCHANGED <<section, db, calls, hist>>

InviteNext(n) == section = "invite" /\ (acceptInviteHandler(n) \/ submitThen(n))

(* Whatever statement fails, and with two tabs at it: an invite is only gone *)
(* when its membership is there, so a failed attempt can be repeated; an      *)
(* account that existed keeps its password; and whoever is sent on has the    *)
(* membership.                                                              *)
InviteSpentForMembership ==
  section = "invite" =>
    /\ db.invite \/ db.member
    /\ db.before # 0 => db.pw = db.before
    /\ ui.said \in {"exists", "left"} => db.member

-----------------------------------------------------------------------------
AccountsInit == SessionsInit \/ AdminsInit \/ InviteInit

AccountsClick ==
  \/ \E pw \in 0..MaxMade : onSubmit(pw) \/ deviceLogin(pw)
  \/ submitPassword \/ resetByAdmin \/ signOut
  \/ \E op \in {"demote", "delete"}, u \in 1..2 : demote(op, u)
  \/ \E pw \in 1..2 : submit(pw)

AccountsNext(n) == SessionsNext(n) \/ AdminsNext(n) \/ InviteNext(n)

(* What happens in these sections. *)
AccountsStep ==
  \/ AccountsClick \/ toLogin
  \/ \E n \in Calls : AccountsNext(n) \/ Lose(n) \/ failInvite(n)

=============================================================================
