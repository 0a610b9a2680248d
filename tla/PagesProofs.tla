---------------------------- MODULE PagesProofs ----------------------------
(***************************************************************************)
(* Proofs about Browser, for any number of requests, clicks and rows.       *)
(*                                                                         *)
(* First Accounts by itself: sessions after a change of the password, the   *)
(* last admin, and an invite.  Its three parts share the requests under way  *)
(* and nothing else, so each has an invariant of its own, about its tables   *)
(* and about what a request has learnt between two statements.  Then the     *)
(* pages: what a step of Page does to requests, page and history, that no    *)
(* step opens another section, and per section the invariant that a         *)
(* property needs.  The lists of nine sections share one: what is shown, with *)
(* the answers that are under way taken over, is what is stored.  The         *)
(* notifications page pairs its rows with the stored ones by their ids.  At   *)
(* last the tracker, which Browser runs as its own specifications say.        *)
(***************************************************************************)
EXTENDS Browser, TrackerProofs, FiniteSetTheorems

-----------------------------------------------------------------------------
(* The requests under way. *)
IsCall(c) ==
  c = [op |-> c.op, stage |-> c.stage, at |-> c.at, arg |-> c.arg, to |-> c.to,
       got |-> c.got]

CallsOK == calls = [n \in Calls |-> calls[n]] /\ \A n \in Calls : IsCall(calls[n])

Others(n) == \A m \in Calls \ {n} : calls'[m] = calls[m]
SameRequest(n) == calls'[n].op = calls[n].op /\ calls'[n].stage = calls[n].stage
Ended(n) == calls'[n] = NoCall \/ (calls'[n].at = "failed" /\ SameRequest(n))
Replied(n) == calls'[n] = NoCall \/ (calls'[n].at \in {"ok", "failed"} /\ SameRequest(n))

LEMMA NoCallFacts ==
  IsCall(NoCall) /\ NoCall.op = "none" /\ NoCall.at = "none" /\ NoCall.got = {}
BY DEF IsCall, NoCall

(* Two or three fields changed at once, one after the other for the provers.  *)
LEMMA ExceptTwo ==
  ASSUME NEW c, IsCall(c), NEW at, NEW got
  PROVE  [c EXCEPT !.at = at, !.got = got]
           = [op |-> c.op, stage |-> c.stage, at |-> at, arg |-> c.arg, to |-> c.to, got |-> got]
<1> DEFINE d == [c EXCEPT !.at = at]
<1>1. [c EXCEPT !.at = at, !.got = got] = [d EXCEPT !.got = got]
  BY DEF IsCall
<1>2. d = [op |-> c.op, stage |-> c.stage, at |-> at, arg |-> c.arg, to |-> c.to, got |-> c.got]
  BY DEF IsCall
<1> HIDE DEF d
<1>3. [d EXCEPT !.got = got]
        = [op |-> c.op, stage |-> c.stage, at |-> at, arg |-> c.arg, to |-> c.to, got |-> got]
  BY <1>2
<1> QED BY <1>1, <1>3

LEMMA ExceptThree ==
  ASSUME NEW c, IsCall(c), NEW stage, NEW at, NEW got
  PROVE  [c EXCEPT !.stage = stage, !.at = at, !.got = got]
           = [op |-> c.op, stage |-> stage, at |-> at, arg |-> c.arg, to |-> c.to, got |-> got]
<1> DEFINE d == [c EXCEPT !.stage = stage]
<1>1. [c EXCEPT !.stage = stage, !.at = at, !.got = got] = [d EXCEPT !.at = at, !.got = got]
  BY DEF IsCall
<1>2. d = [op |-> c.op, stage |-> stage, at |-> c.at, arg |-> c.arg, to |-> c.to, got |-> c.got]
  BY DEF IsCall
<1> HIDE DEF d
<1>3. /\ IsCall(d) /\ d.op = c.op /\ d.stage = stage /\ d.arg = c.arg /\ d.to = c.to
  BY <1>2 DEF IsCall
<1>4. [d EXCEPT !.at = at, !.got = got]
        = [op |-> d.op, stage |-> d.stage, at |-> at, arg |-> d.arg, to |-> d.to, got |-> got]
  BY <1>3, ExceptTwo, Zenon
<1> QED BY <1>1, <1>3, <1>4

LEMMA Written ==
  ASSUME CallsOK, NEW n \in Calls, NEW c, IsCall(c), calls' = [calls EXCEPT ![n] = c]
  PROVE  CallsOK' /\ calls'[n] = c /\ Others(n)
BY DEF CallsOK, Others

LEMMA StartFacts ==
  ASSUME CallsOK, NEW op, NEW arg, NEW to, NEW newui, NEW clicks,
         Start(op, arg, to, newui, clicks)
  PROVE  /\ CallsOK' /\ UNCHANGED <<section, db>> /\ ui' = newui
         /\ \A m \in Calls : \/ calls'[m] = calls[m]
                             \/ /\ calls'[m].op = op /\ calls'[m].stage = 1
                                /\ calls'[m].at = "sent" /\ calls'[m].got = {}
<1> DEFINE c == [op |-> op, stage |-> 1, at |-> "sent", arg |-> arg, to |-> to, got |-> {}]
<1>1. PICK n : calls' = [calls EXCEPT ![n] = c]
  BY DEF Start
<1>2. UNCHANGED <<section, db>> /\ ui' = newui
  BY DEF Start
<1>3. IsCall(c) /\ c.op = op /\ c.stage = 1 /\ c.at = "sent" /\ c.got = {}
  BY DEF IsCall
<1> HIDE DEF c
<1>4. \A m \in Calls : calls'[m] = calls[m] \/ calls'[m] = c
  BY <1>1 DEF CallsOK
<1>5. calls' = [m \in Calls |-> calls'[m]]
  BY <1>1 DEF CallsOK
<1> QED BY <1>2, <1>3, <1>4, <1>5 DEF CallsOK

LEMMA ReplyFacts ==
  ASSUME CallsOK, NEW n \in Calls, NEW newdb, NEW got, Reply(n, newdb, got)
  PROVE  CallsOK' /\ UNCHANGED <<section, ui>> /\ db' = newdb /\ Others(n) /\ Replied(n)
<1>1. UNCHANGED <<section, ui>> /\ db' = newdb
  BY DEF Reply
<1>2. IsCall(calls[n])
  BY DEF CallsOK
<1>3. CASE calls' = [calls EXCEPT ![n].at = "ok", ![n].got = got]
  <2> DEFINE c == [calls[n] EXCEPT !.at = "ok", !.got = got]
  <2>0. c = [op |-> calls[n].op, stage |-> calls[n].stage, at |-> "ok",
             arg |-> calls[n].arg, to |-> calls[n].to, got |-> got]
    BY <1>2, ExceptTwo
  <2> HIDE DEF c
  <2>1. IsCall(c) /\ c.at = "ok" /\ c.op = calls[n].op /\ c.stage = calls[n].stage
    BY <2>0 DEF IsCall
  <2> USE DEF c
  <2>2. calls' = [calls EXCEPT ![n] = c]
    BY <1>3 DEF CallsOK
  <2> HIDE DEF c
  <2> QED BY <1>1, <2>1, <2>2, Written DEF Replied, SameRequest
<1>4. CASE calls' = [calls EXCEPT ![n].at = "failed"]
  <2> DEFINE c == [calls[n] EXCEPT !.at = "failed"]
  <2>1. IsCall(c) /\ c.at = "failed" /\ c.op = calls[n].op /\ c.stage = calls[n].stage
    BY <1>2 DEF IsCall
  <2>2. calls' = [calls EXCEPT ![n] = c]
    BY <1>4
  <2> HIDE DEF c
  <2> QED BY <1>1, <2>1, <2>2, Written DEF Replied, SameRequest
<1>5. CASE calls' = [calls EXCEPT ![n] = NoCall]
  BY <1>1, <1>5, Written, NoCallFacts DEF Replied
<1> QED BY <1>3, <1>4, <1>5 DEF Reply

LEMMA EndFacts ==
  ASSUME CallsOK, NEW n \in Calls,
         calls' = [calls EXCEPT ![n] = IF @.at = "left" THEN NoCall
                                       ELSE [@ EXCEPT !.at = "failed"]]
  PROVE  CallsOK' /\ Others(n) /\ Ended(n)
<1>1. IsCall(calls[n])
  BY DEF CallsOK
<1>2. CASE calls[n].at = "left"
  <2>1. calls' = [calls EXCEPT ![n] = NoCall]
    BY <1>2 DEF CallsOK
  <2> QED BY <2>1, Written, NoCallFacts DEF Ended
<1>3. CASE calls[n].at # "left"
  <2> DEFINE c == [calls[n] EXCEPT !.at = "failed"]
  <2>1. IsCall(c) /\ c.at = "failed" /\ c.op = calls[n].op /\ c.stage = calls[n].stage
    BY <1>1 DEF IsCall
  <2>2. calls' = [calls EXCEPT ![n] = c]
    BY <1>3 DEF CallsOK
  <2> HIDE DEF c
  <2> QED BY <2>1, <2>2, Written DEF Ended, SameRequest
<1> QED BY <1>2, <1>3

LEMMA RefuseFacts ==
  ASSUME CallsOK, NEW n \in Calls, Refuse(n)
  PROVE  CallsOK' /\ UNCHANGED <<section, db, ui>> /\ Others(n) /\ Ended(n)
BY EndFacts DEF Refuse

LEMMA LoseFacts ==
  ASSUME CallsOK, NEW n \in Calls, Lose(n)
  PROVE  CallsOK' /\ UNCHANGED <<section, db, ui>> /\ Others(n) /\ Ended(n)
BY EndFacts DEF Lose

LEMMA WithinFacts ==
  ASSUME CallsOK, NEW n \in Calls, NEW got, Within(n, got)
  PROVE  /\ CallsOK' /\ UNCHANGED <<section, ui>> /\ Others(n) /\ SameRequest(n)
         /\ calls'[n].got = {got} /\ calls'[n].at = calls[n].at
         /\ calls'[n].arg = calls[n].arg
<1> DEFINE c == [calls[n] EXCEPT !.got = {got}]
<1>1. /\ IsCall(c) /\ c.at = calls[n].at /\ c.op = calls[n].op /\ c.stage = calls[n].stage
      /\ c.got = {got} /\ c.arg = calls[n].arg
  BY DEF CallsOK, IsCall
<1>2. calls' = [calls EXCEPT ![n] = c] /\ UNCHANGED <<section, ui>>
  BY DEF Within
<1> HIDE DEF c
<1> QED BY <1>1, <1>2, Written DEF SameRequest

LEMMA AwaitFacts ==
  ASSUME CallsOK, NEW n \in Calls, NEW newui, Await(n, newui)
  PROVE  /\ CallsOK' /\ UNCHANGED <<section, db>> /\ ui' = newui /\ Others(n)
         /\ calls'[n].op = calls[n].op /\ calls'[n].at = "sent" /\ calls'[n].got = {}
<1> DEFINE c == [calls[n] EXCEPT !.stage = calls[n].stage + 1, !.at = "sent", !.got = {}]
<1>0. c = [op |-> calls[n].op, stage |-> calls[n].stage + 1, at |-> "sent",
           arg |-> calls[n].arg, to |-> calls[n].to, got |-> {}]
  <2>1. IsCall(calls[n])
    BY DEF CallsOK
  <2> DEFINE r == calls[n]
             st == r.stage + 1
             none == {}
             sent == "sent"
  <2> HIDE DEF r, st, none, sent
  <2>2. [r EXCEPT !.stage = st, !.at = sent, !.got = none]
          = [op |-> r.op, stage |-> st, at |-> sent, arg |-> r.arg, to |-> r.to, got |-> none]
    <3>1. IsCall(r)
      BY <2>1 DEF r
    <3> QED BY <3>1, ExceptThree, Zenon
  <2> QED BY <2>2, Zenon DEF r, st, none, sent
<1> HIDE DEF c
<1>1. IsCall(c) /\ c.op = calls[n].op /\ c.at = "sent" /\ c.got = {}
  BY <1>0 DEF IsCall
<1> USE DEF c
<1>2. calls' = [calls EXCEPT ![n] = c] /\ UNCHANGED <<section, db>> /\ ui' = newui
  BY DEF Await, CallsOK
<1> HIDE DEF c
<1> QED BY <1>1, <1>2, Written

LEMMA FinishFacts ==
  ASSUME CallsOK, NEW n \in Calls, NEW newui, Finish(n, newui)
  PROVE  /\ CallsOK' /\ UNCHANGED <<section, db>> /\ ui' = newui /\ Others(n)
         /\ calls'[n] = NoCall
BY Written, NoCallFacts DEF Finish

LEMMA OpenFacts ==
  ASSUME NEW s, NEW newdb, NEW newui, Open(s, newdb, newui)
  PROVE  /\ CallsOK /\ section = s /\ db = newdb /\ ui = newui
         /\ \A n \in Calls : calls[n] = NoCall
BY NoCallFacts DEF Open, CallsOK

-----------------------------------------------------------------------------
(* Sessions.  A login that has compared the password did so with the one that *)
(* is stored now, or a change has overtaken it.                             *)
Compared(c) ==
  c.op \in {"login", "device"} /\ c.at \in {"sent", "left"} =>
    \A g \in c.got : g.pc = "checked" /\ (c.arg = db.pw \/ g.id \in db.overtaken)

SessionRow(s) ==
  s = [id |-> s.id, pw |-> s.pw] /\ (s.pw = db.pw \/ s.id \in db.overtaken)

SessionTables ==
  db = [rows |-> db.rows, made |-> db.made, pw |-> db.pw, overtaken |-> db.overtaken]

SessionsInv ==
  /\ SessionTables
  /\ \A s \in db.rows : SessionRow(s)
  /\ \A n \in Calls : Compared(calls[n])

(* A request that is answered, refused, new or over has compared nothing. *)
LEMMA NothingCompared ==
  ASSUME NEW c, c.at \in {"ok", "failed", "none"} \/ c.op \notin {"login", "device"} \/ c.got = {}
  PROVE  Compared(c)
BY DEF Compared

LEMMA SessionsFrame ==
  ASSUME SessionsInv, UNCHANGED db, \A n \in Calls : Compared(calls'[n])
  PROVE  SessionsInv'
BY DEF SessionsInv, SessionTables, SessionRow, Compared

LEMMA PasswordWritten ==
  ASSUME SessionsInv, NEW own, own \subseteq db.rows, db' = passwordWritten(own),
         \A n \in Calls : \/ calls'[n] = calls[n]
                          \/ calls'[n].at \in {"ok", "failed", "none"}
  PROVE  SessionsInv'
<1> DEFINE newrows == {[s EXCEPT !.pw = db.pw + 1] : s \in own}
           over == db.overtaken \cup Overtaken
<1>1. db' = [db EXCEPT !.pw = db.pw + 1, !.overtaken = over, !.rows = newrows]
  <2>1. {[s EXCEPT !.pw = IF s \in own THEN db.pw + 1 ELSE s.pw] : s \in own} = newrows
    OBVIOUS
  <2> QED BY <2>1 DEF passwordWritten, OnlyOwn
<1> HIDE DEF newrows, over
<1>2. db'.rows = newrows /\ db'.pw = db.pw + 1 /\ db'.overtaken = over
      /\ SessionTables'
  <2>1. db' = [rows |-> newrows, made |-> db.made, pw |-> db.pw + 1, overtaken |-> over]
    BY <1>1 DEF SessionsInv, SessionTables
  <2> QED BY <2>1 DEF SessionTables
<1>3. \A s \in newrows : s = [id |-> s.id, pw |-> s.pw] /\ s.pw = db.pw + 1
  <2>1. \A s \in own : s = [id |-> s.id, pw |-> s.pw]
    BY DEF SessionsInv, SessionRow
  <2> QED BY <2>1 DEF newrows
<1>4. \A n \in Calls : Compared(calls[n])'
  <2> TAKE n \in Calls
  <2>1. CASE calls'[n] = calls[n]
    <3> SUFFICES ASSUME calls[n].op \in {"login", "device"}, calls[n].at \in {"sent", "left"},
                        NEW g \in calls[n].got
                 PROVE  g.pc = "checked" /\ g.id \in over
      BY <1>2, <2>1 DEF Compared
    <3>1. g.pc = "checked"
      BY DEF SessionsInv, Compared
    <3>2. g.id \in Overtaken
      BY <3>1 DEF Overtaken, Known
    <3> QED BY <3>1, <3>2 DEF over
  <2>2. CASE calls'[n].at \in {"ok", "failed", "none"}
    BY <2>2 DEF Compared
  <2> QED BY <2>1, <2>2
<1> QED BY <1>2, <1>3, <1>4 DEF SessionsInv, SessionRow

LEMMA LoginPreserves ==
  ASSUME CallsOK, SessionsInv, NEW n \in Calls, loginHandler(n)
  PROVE  CallsOK' /\ UNCHANGED section /\ SessionsInv'
<1>1. CASE calls[n].got = {} /\ Refuse(n)
  <2>1. CallsOK' /\ UNCHANGED <<section, db, ui>> /\ Others(n) /\ Ended(n)
    BY <1>1, RefuseFacts
  <2>2. \A m \in Calls : Compared(calls'[m])
    BY <2>1, NothingCompared, NoCallFacts DEF Others, Ended, SessionsInv
  <2> QED BY <2>1, <2>2, SessionsFrame
<1>2. CASE /\ calls[n].arg = db.pw
           /\ Within(n, [pc |-> "checked", id |-> NewId])
           /\ db' = [db EXCEPT !.made = @ + 1]
  <2>1. /\ CallsOK' /\ UNCHANGED <<section, ui>> /\ Others(n) /\ SameRequest(n)
        /\ calls'[n].got = {[pc |-> "checked", id |-> NewId]}
        /\ calls'[n].arg = calls[n].arg
    BY <1>2, WithinFacts
  <2>2. db' = [rows |-> db.rows, made |-> db.made + 1, pw |-> db.pw, overtaken |-> db.overtaken]
    BY <1>2 DEF SessionsInv, SessionTables
  <2>3. SessionTables' /\ db'.rows = db.rows /\ db'.pw = db.pw /\ db'.overtaken = db.overtaken
    BY <2>2 DEF SessionTables
  <2>4. \A m \in Calls : Compared(calls[m])'
    <3> TAKE m \in Calls
    <3>1. CASE m = n
      <4>1. \A g \in calls'[n].got : g.pc = "checked"
        BY <2>1
      <4>2. calls'[n].arg = db'.pw
        BY <1>2, <2>1, <2>3
      <4> QED BY <3>1, <4>1, <4>2 DEF Compared
    <3>2. CASE m # n
      BY <2>1, <2>3, <3>2 DEF Others, SessionsInv, Compared
    <3> QED BY <3>1, <3>2
  <2> QED BY <2>1, <2>3, <2>4 DEF SessionsInv, SessionRow
<1>3. CASE /\ Asked(n, "login", 1) \/ Asked(n, "device", 1)
           /\ \E g \in calls[n].got :
                Reply(n, [db EXCEPT !.rows = @ \cup {Session(g.id, calls[n].arg)}], {g})
  <2>1. PICK g \in calls[n].got :
          Reply(n, [db EXCEPT !.rows = @ \cup {Session(g.id, calls[n].arg)}], {g})
    BY <1>3
  <2> DEFINE new == Session(g.id, calls[n].arg)
             newrows == db.rows \cup {new}
  <2>2. CallsOK' /\ UNCHANGED <<section, ui>> /\ Others(n) /\ Replied(n)
        /\ db' = [db EXCEPT !.rows = newrows]
    BY <2>1, ReplyFacts
  <2>3. new.id = g.id /\ new.pw = calls[n].arg /\ new = [id |-> new.id, pw |-> new.pw]
    BY DEF Session
  <2>4. calls[n].arg = db.pw \/ g.id \in db.overtaken
    BY <1>3 DEF SessionsInv, Compared, Asked
  <2> HIDE DEF new, newrows
  <2>5. db' = [rows |-> newrows, made |-> db.made, pw |-> db.pw, overtaken |-> db.overtaken]
    BY <2>2 DEF SessionsInv, SessionTables
  <2>6. SessionTables' /\ db'.rows = newrows /\ db'.pw = db.pw /\ db'.overtaken = db.overtaken
    BY <2>5 DEF SessionTables
  <2>7. \A s \in newrows : SessionRow(s)
    BY <2>3, <2>4 DEF newrows, SessionsInv, SessionRow
  <2>8. \A m \in Calls : Compared(calls[m])'
    <3>1. \A m \in Calls : Compared(calls'[m])
      BY <2>2, NothingCompared, NoCallFacts DEF Others, Replied, SessionsInv
    <3> QED BY <3>1, <2>6 DEF Compared
  <2> QED BY <2>2, <2>6, <2>7, <2>8 DEF SessionsInv, SessionRow
<1> QED BY <1>1, <1>2, <1>3 DEF loginHandler

LEMMA ChangePasswordPreserves ==
  ASSUME CallsOK, SessionsInv, NEW n \in Calls, changePasswordHandler(n)
  PROVE  CallsOK' /\ UNCHANGED section /\ SessionsInv'
<1>1. calls[n].op = "password"
  BY DEF changePasswordHandler, Asked
<1>2. CASE Refuse(n)
  <2>1. CallsOK' /\ UNCHANGED <<section, db, ui>> /\ Others(n) /\ Ended(n)
    BY <1>2, RefuseFacts
  <2>2. \A m \in Calls : Compared(calls'[m])
    BY <2>1, NothingCompared, NoCallFacts DEF Others, Ended, SessionsInv
  <2> QED BY <2>1, <2>2, SessionsFrame
<1>3. CASE Within(n, [pc |-> "compared"]) /\ UNCHANGED db
  <2>1. CallsOK' /\ UNCHANGED <<section, db>> /\ Others(n) /\ SameRequest(n)
    BY <1>3, WithinFacts
  <2>2. calls'[n].op = "password"
    BY <1>1, <2>1 DEF SameRequest
  <2>3. \A m \in Calls : Compared(calls'[m])
    BY <2>1, <2>2, NothingCompared DEF Others, SessionsInv
  <2> QED BY <2>1, <2>3, SessionsFrame
<1>4. CASE Reply(n, passwordWritten(Own), {})
  <2>1. /\ CallsOK' /\ UNCHANGED <<section, ui>> /\ Others(n) /\ Replied(n)
        /\ db' = passwordWritten(Own)
    BY <1>4, ReplyFacts
  <2>2. Own \subseteq db.rows
    BY DEF Own
  <2>3. \A m \in Calls : \/ calls'[m] = calls[m]
                         \/ calls'[m].at \in {"ok", "failed", "none"}
    BY <2>1, NoCallFacts DEF Others, Replied
  <2>4. SessionsInv'
    BY <2>1, <2>2, <2>3, PasswordWritten
  <2> QED BY <2>1, <2>4
<1> QED BY <1>2, <1>3, <1>4 DEF changePasswordHandler

LEMMA LogoutPreserves ==
  ASSUME CallsOK, SessionsInv, NEW n \in Calls, logoutHandler(n)
  PROVE  CallsOK' /\ UNCHANGED section /\ SessionsInv'
<1> DEFINE newrows == {s \in db.rows : s.id # calls[n].arg}
<1>1. /\ CallsOK' /\ UNCHANGED <<section, ui>> /\ Others(n) /\ Replied(n)
      /\ db' = [db EXCEPT !.rows = newrows]
  <2>1. Reply(n, [db EXCEPT !.rows = newrows], {})
    BY DEF logoutHandler
  <2> QED BY <2>1, ReplyFacts
<1>2. newrows \subseteq db.rows
  OBVIOUS
<1> HIDE DEF newrows
<1>3. db' = [rows |-> newrows, made |-> db.made, pw |-> db.pw, overtaken |-> db.overtaken]
  BY <1>1 DEF SessionsInv, SessionTables
<1>4. SessionTables' /\ db'.rows = newrows /\ db'.pw = db.pw /\ db'.overtaken = db.overtaken
  BY <1>3 DEF SessionTables
<1>5. \A m \in Calls : Compared(calls'[m])
  BY <1>1, NothingCompared, NoCallFacts DEF Others, Replied, SessionsInv
<1>6. \A m \in Calls : Compared(calls[m])'
  BY <1>4, <1>5 DEF Compared
<1> QED BY <1>1, <1>2, <1>4, <1>6 DEF SessionsInv, SessionRow

(* The browser's part: it asks, and it ends a handler. *)
LEMMA SessionsStart ==
  ASSUME CallsOK, SessionsInv, NEW op, NEW arg, NEW newui, Send(op, arg, newui)
  PROVE  CallsOK' /\ UNCHANGED section /\ SessionsInv'
<1>1. /\ CallsOK' /\ UNCHANGED <<section, db>>
      /\ \A m \in Calls : calls'[m] = calls[m] \/ calls'[m].got = {}
  BY StartFacts DEF Send
<1>2. \A m \in Calls : Compared(calls'[m])
  BY <1>1, NothingCompared DEF SessionsInv
<1> QED BY <1>1, <1>2, SessionsFrame

LEMMA SessionsFinish ==
  ASSUME CallsOK, SessionsInv, NEW n \in Calls, NEW newui, Finish(n, newui)
  PROVE  CallsOK' /\ UNCHANGED section /\ SessionsInv'
<1>1. CallsOK' /\ UNCHANGED <<section, db>> /\ Others(n) /\ calls'[n] = NoCall
  BY FinishFacts
<1>2. \A m \in Calls : Compared(calls'[m])
  BY <1>1, NothingCompared, NoCallFacts DEF Others, SessionsInv
<1> QED BY <1>1, <1>2, SessionsFrame

LEMMA ResetPreserves ==
  ASSUME CallsOK, SessionsInv, resetByAdmin
  PROVE  CallsOK' /\ UNCHANGED section /\ SessionsInv'
<1>1. db' = passwordWritten({}) /\ UNCHANGED <<section, ui, calls>> /\ {} \subseteq db.rows
  BY DEF resetByAdmin
<1>2. CallsOK'
  BY <1>1 DEF CallsOK
<1> QED BY <1>1, <1>2, PasswordWritten

LEMMA SessionsPreserved ==
  ASSUME CallsOK, section = "sessions", SessionsInv, AccountsStep
  PROVE  CallsOK' /\ UNCHANGED section /\ SessionsInv'
<1>1. CASE AccountsClick
  <2>1. ASSUME NEW pw, onSubmit(pw) \/ deviceLogin(pw)
        PROVE  CallsOK' /\ UNCHANGED section /\ SessionsInv'
    BY <2>1, SessionsStart DEF onSubmit, deviceLogin
  <2>2. CASE submitPassword
    BY <2>2, SessionsStart DEF submitPassword
  <2>3. CASE resetByAdmin
    BY <2>3, ResetPreserves
  <2>4. CASE signOut
    BY <2>4, SessionsStart DEF signOut
  <2>5. ASSUME NEW op, NEW u, demote(op, u) PROVE FALSE
    BY <2>5 DEF demote
  <2>6. ASSUME NEW pw, submit(pw) PROVE FALSE
    BY <2>6 DEF submit
  <2> QED BY <1>1, <2>1, <2>2, <2>3, <2>4, <2>5, <2>6 DEF AccountsClick
<1>2. CASE toLogin
  BY <1>2 DEF toLogin
<1>3. ASSUME NEW n \in Calls, AccountsNext(n)
      PROVE  CallsOK' /\ UNCHANGED section /\ SessionsInv'
  <2>1. SessionsNext(n)
    BY <1>3 DEF AccountsNext, AdminsNext, InviteNext
  <2>2. CASE loginHandler(n)
    BY <2>2, LoginPreserves
  <2>3. CASE authorize(n)
    <3>1. PICK newui : Finish(n, newui)
      BY <2>3 DEF authorize
    <3> QED BY <3>1, SessionsFinish
  <2>4. CASE changePasswordHandler(n)
    BY <2>4, ChangePasswordPreserves
  <2>5. CASE submitPasswordThen(n)
    BY <2>5, SessionsFinish DEF submitPasswordThen
  <2>6. CASE logoutHandler(n)
    BY <2>6, LogoutPreserves
  <2>7. CASE signOutThen(n)
    BY <2>7, SessionsFinish DEF signOutThen
  <2> QED BY <2>1, <2>2, <2>3, <2>4, <2>5, <2>6, <2>7 DEF SessionsNext
<1>4. ASSUME NEW n \in Calls, Lose(n) \/ failInvite(n)
      PROVE  CallsOK' /\ UNCHANGED section /\ SessionsInv'
  <2>1. CallsOK' /\ UNCHANGED <<section, db, ui>> /\ Others(n) /\ Ended(n)
    BY <1>4, LoseFacts, RefuseFacts DEF failInvite
  <2>2. \A m \in Calls : Compared(calls'[m])
    BY <2>1, NothingCompared, NoCallFacts DEF Others, Ended, SessionsInv
  <2> QED BY <2>1, <2>2, SessionsFrame
<1> QED BY <1>1, <1>2, <1>3, <1>4 DEF AccountsStep

-----------------------------------------------------------------------------
(* The last admin.  A request that has counted the admins, and would take one  *)
(* away, found two, and no request has written since.                       *)
Admin(u) == Row("user", u, TRUE)
TwoAdmins == {Admin(1), Admin(2)}

CountedTwo(c) ==
  /\ c.op \in {"demote", "delete"} /\ c.at = "sent"
  /\ \E g \in c.got : g.pc = "counted"
  /\ Admin(c.arg) \in db.rows
  => db.both \/ TheAdmins = TwoAdmins

UserRow(r) ==
  r = [kind |-> "user", id |-> r.id, on |-> r.on, of |-> 0] /\ r.id \in {1, 2}
  /\ r.on \in BOOLEAN

AdminTables ==
  /\ db = [rows |-> db.rows, made |-> db.made, signed |-> db.signed, both |-> db.both]
  /\ db.both \in BOOLEAN
  /\ \A r \in db.rows : UserRow(r)

AdminsInv ==
  /\ AdminTables
  /\ TheAdmins = {} => db.both
  /\ \A n \in Calls : CountedTwo(calls[n])

LEMMA AdminFacts ==
  \A u : /\ Admin(u) = [kind |-> "user", id |-> u, on |-> TRUE, of |-> 0]
         /\ Admin(u).id = u /\ Admin(u).on = TRUE
BY DEF Admin, Row

LEMMA AdminsAmongTwo ==
  ASSUME AdminsInv
  PROVE  /\ TheAdmins \subseteq TwoAdmins
         /\ \A r \in TheAdmins : r = Admin(r.id)
<1>1. ASSUME NEW r \in TheAdmins PROVE r = Admin(r.id) /\ r.id \in {1, 2}
  <2>1. r \in db.rows /\ r.on
    BY DEF TheAdmins
  <2>2. UserRow(r)
    BY <2>1 DEF AdminsInv, AdminTables
  <2>3. r.on = TRUE
    BY <2>1, <2>2 DEF UserRow
  <2> QED BY <2>2, <2>3, AdminFacts DEF UserRow
<1> QED BY <1>1 DEF TwoAdmins

LEMMA MoreThanOneIsTwo ==
  ASSUME NEW A, A \subseteq TwoAdmins, Cardinality(A) > 1
  PROVE  A = TwoAdmins
<1>1. \/ A = {} \/ A = {Admin(1)} \/ A = {Admin(2)} \/ A = TwoAdmins
  BY DEF TwoAdmins
<1>2. A # {}
  BY FS_EmptySet
<1>3. \A x : Cardinality({x}) = 1
  BY FS_Singleton
<1>4. Cardinality({Admin(1)}) = 1 /\ Cardinality({Admin(2)}) = 1
  BY <1>3, Zenon
<1>5. A # {Admin(1)} /\ A # {Admin(2)}
  BY <1>4
<1> QED BY <1>1, <1>2, <1>5

LEMMA AdminsFrame ==
  ASSUME AdminsInv, UNCHANGED db, \A n \in Calls : CountedTwo(calls'[n])
  PROVE  AdminsInv'
BY DEF AdminsInv, AdminTables, CountedTwo, TheAdmins, UserRow

LEMMA CheckPreserves ==
  ASSUME CallsOK, AdminsInv, NEW n \in Calls, lastAdminCheck(n)
  PROVE  CallsOK' /\ UNCHANGED section /\ AdminsInv'
<1>1. CASE Refuse(n)
  <2>1. CallsOK' /\ UNCHANGED <<section, db, ui>> /\ Others(n) /\ Ended(n)
    BY <1>1, RefuseFacts
  <2>2. \A m \in Calls : CountedTwo(calls'[m])
    BY <2>1, NoCallFacts DEF Others, Ended, AdminsInv, CountedTwo
  <2> QED BY <2>1, <2>2, AdminsFrame
<1>2. CASE Within(n, [pc |-> "known"]) /\ UNCHANGED db
  <2>1. CallsOK' /\ UNCHANGED <<section, db>> /\ Others(n) /\ calls'[n].got = {[pc |-> "known"]}
    BY <1>2, WithinFacts
  <2>2. \A g \in calls'[n].got : g.pc # "counted"
    BY <2>1
  <2>3. \A m \in Calls : CountedTwo(calls'[m])
    BY <2>1, <2>2 DEF Others, AdminsInv, CountedTwo
  <2> QED BY <2>1, <2>3, AdminsFrame
<1>3. CASE /\ ~(Row("user", calls[n].arg, TRUE) \in db.rows /\ ~MayGo)
           /\ Within(n, [pc |-> "counted"]) /\ UNCHANGED db
  <2>1. CallsOK' /\ UNCHANGED <<section, db>> /\ Others(n) /\ calls'[n].arg = calls[n].arg
    BY <1>3, WithinFacts
  <2>2. Admin(calls[n].arg) \in db.rows => TheAdmins = TwoAdmins
    BY <1>3, AdminsAmongTwo, MoreThanOneIsTwo DEF Admin, MayGo
  <2>3. \A m \in Calls : CountedTwo(calls'[m])
    BY <2>1, <2>2 DEF Others, AdminsInv, CountedTwo
  <2> QED BY <2>1, <2>3, AdminsFrame
<1> QED BY <1>1, <1>2, <1>3 DEF lastAdminCheck

LEMMA WriteUserPreserves ==
  ASSUME CallsOK, AdminsInv, NEW n \in Calls, writeUser(n)
  PROVE  CallsOK' /\ UNCHANGED section /\ AdminsInv'
<1> DEFINE u == calls[n].arg
           others == {r \in db.rows : r.id # u}
           off == {[r EXCEPT !.on = FALSE] : r \in db.rows \ others}
           newrows == IF calls[n].op = "delete" THEN others ELSE others \cup off
           Raced == \E m \in Calls \ {n} : calls[m].at = "sent" /\ Known(m, "counted")
           both == db.both \/ Raced
           signed == db.signed \ {u}
<1>1. db' = [db EXCEPT !.rows = newrows, !.signed = signed, !.both = both]
  BY DEF writeUser, AdminsInv, AdminTables
<1>2. calls' = [calls EXCEPT ![n] = NoCall] /\ UNCHANGED section
  BY DEF writeUser
<1>3. CallsOK' /\ calls'[n] = NoCall /\ Others(n)
  BY <1>2, Written, NoCallFacts
<1>4. \A r \in off : UserRow(r) /\ r.on = FALSE
  <2> SUFFICES ASSUME NEW s \in off PROVE UserRow(s) /\ s.on = FALSE
    OBVIOUS
  <2>1. PICK r \in db.rows : s = [r EXCEPT !.on = FALSE]
    OBVIOUS
  <2>2. UserRow(r)
    BY DEF AdminsInv, AdminTables
  <2>3. r = [kind |-> "user", id |-> r.id, on |-> r.on, of |-> 0] /\ r.id \in {1, 2}
    BY <2>2 DEF UserRow
  <2>4. s = [kind |-> "user", id |-> r.id, on |-> FALSE, of |-> 0]
    <3>1. ASSUME NEW no PROVE [r EXCEPT !.on = no] = [kind |-> "user", id |-> r.id, on |-> no, of |-> 0]
      BY <2>3
    <3> QED BY <2>1, <3>1, Zenon
  <2> QED BY <2>3, <2>4 DEF UserRow
<1>5. \A r \in newrows : UserRow(r)
  BY <1>4 DEF AdminsInv, AdminTables
<1>6. {r \in newrows : r.on} = {r \in TheAdmins : r.id # u}
  <2> HIDE DEF off, u
  <2> QED BY <1>4 DEF TheAdmins
<1>7. both \in BOOLEAN
  BY DEF AdminsInv, AdminTables
<1> HIDE DEF newrows, both, signed
<1>8. AdminTables' /\ db'.rows = newrows /\ db'.both = both
  <2>1. db' = [rows |-> newrows, made |-> db.made, signed |-> signed, both |-> both]
    BY <1>1 DEF AdminsInv, AdminTables
  <2> QED BY <2>1, <1>5, <1>7 DEF AdminTables, UserRow
<1>9. TheAdmins' = {r \in TheAdmins : r.id # u}
  BY <1>6, <1>8 DEF TheAdmins
<1>10. db.both => db'.both
  BY <1>8 DEF both
<1>11. TheAdmins' = {} => db'.both
  <2> SUFFICES ASSUME ~db.both PROVE TheAdmins' # {}
    BY <1>10
  <2>1. CASE Admin(u) \in db.rows
    <3>1. TheAdmins = TwoAdmins
      BY <2>1 DEF writeUser, AdminsInv, CountedTwo, Known
    <3>2. Admin(1) \in TheAdmins /\ Admin(2) \in TheAdmins
      BY <3>1 DEF TwoAdmins
    <3>3. Admin(1).id # u \/ Admin(2).id # u
      BY AdminFacts
    <3> QED BY <1>9, <3>2, <3>3
  <2>2. CASE Admin(u) \notin db.rows
    <3>1. \A r \in TheAdmins : r.id # u
      BY <2>2, AdminsAmongTwo DEF TheAdmins
    <3>2. TheAdmins # {}
      BY DEF AdminsInv
    <3> QED BY <1>9, <3>1, <3>2
  <2> QED BY <2>1, <2>2
<1>12. \A m \in Calls : CountedTwo(calls[m])'
  <2> TAKE m \in Calls
  <2>1. CASE m = n
    BY <1>3, <2>1, NoCallFacts DEF CountedTwo
  <2>2. CASE m # n
    <3>1. calls'[m] = calls[m]
      BY <1>3, <2>2 DEF Others
    <3>2. calls[m].at = "sent" /\ (\E g \in calls[m].got : g.pc = "counted") => db'.both
      BY <1>8, <2>2 DEF both, Known
    <3> QED BY <3>1, <3>2 DEF CountedTwo
  <2> QED BY <2>1, <2>2
<1> QED BY <1>2, <1>3, <1>8, <1>11, <1>12 DEF AdminsInv

LEMMA AdminsPreserved ==
  ASSUME CallsOK, section = "admins", AdminsInv, AccountsStep
  PROVE  CallsOK' /\ UNCHANGED section /\ AdminsInv'
<1>1. CASE AccountsClick
  <2>1. PICK op, u : demote(op, u)
    BY <1>1 DEF AccountsClick, onSubmit, deviceLogin, submitPassword, resetByAdmin, signOut,
                submit
  <2>2. /\ CallsOK' /\ UNCHANGED <<section, db>>
        /\ \A m \in Calls : calls'[m] = calls[m] \/ calls'[m].got = {}
    BY <2>1, StartFacts DEF demote, Send
  <2>3. \A m \in Calls : CountedTwo(calls'[m])
    BY <2>2 DEF AdminsInv, CountedTwo
  <2> QED BY <2>2, <2>3, AdminsFrame
<1>2. CASE toLogin
  BY <1>2 DEF toLogin
<1>3. ASSUME NEW n \in Calls, AccountsNext(n)
      PROVE  CallsOK' /\ UNCHANGED section /\ AdminsInv'
  <2>1. AdminsNext(n)
    BY <1>3 DEF AccountsNext, SessionsNext, InviteNext
  <2>2. CASE lastAdminCheck(n)
    BY <2>2, CheckPreserves
  <2>3. CASE writeUser(n)
    BY <2>3, WriteUserPreserves
  <2>4. CASE adminTold(n)
    <3>1. CallsOK' /\ UNCHANGED <<section, db>> /\ Others(n) /\ calls'[n] = NoCall
      BY <2>4, FinishFacts DEF adminTold
    <3>2. \A m \in Calls : CountedTwo(calls'[m])
      BY <3>1, NoCallFacts DEF Others, AdminsInv, CountedTwo
    <3> QED BY <3>1, <3>2, AdminsFrame
  <2> QED BY <2>1, <2>2, <2>3, <2>4 DEF AdminsNext
<1>4. ASSUME NEW n \in Calls, Lose(n) \/ failInvite(n)
      PROVE  CallsOK' /\ UNCHANGED section /\ AdminsInv'
  <2>1. CallsOK' /\ UNCHANGED <<section, db, ui>> /\ Others(n) /\ Ended(n)
    BY <1>4, LoseFacts, RefuseFacts DEF failInvite
  <2>2. \A m \in Calls : CountedTwo(calls'[m])
    BY <2>1, NoCallFacts DEF Others, Ended, AdminsInv, CountedTwo
  <2> QED BY <2>1, <2>2, AdminsFrame
<1> QED BY <1>1, <1>2, <1>3, <1>4 DEF AccountsStep

-----------------------------------------------------------------------------
(* The invite.  A request that has come as far as its DELETE, or has been      *)
(* answered, has written the membership.                                    *)
Joined(c) ==
  c.op = "accept" /\ (\/ c.stage # 1
                      \/ c.at = "ok"
                      \/ /\ c.at \in {"sent", "left"}
                         /\ \E g \in c.got : g.pc \in {"delete", "session"})
  => db.member

InviteTables ==
  /\ db = [rows |-> db.rows, made |-> db.made, invite |-> db.invite, before |-> db.before,
           pw |-> db.pw, member |-> db.member]
  /\ ui = [rows |-> ui.rows, busy |-> ui.busy, said |-> ui.said]
  /\ db.member \in BOOLEAN /\ db.invite \in BOOLEAN

Spent ==
  /\ db.invite \/ db.member
  /\ db.before # 0 => db.pw = db.before
  /\ ui.said \in {"exists", "left"} => db.member

InviteInv == InviteTables /\ Spent /\ \A n \in Calls : Joined(calls[n])

(* Where the tables stay as they are. *)
LEMMA InviteFrame ==
  ASSUME InviteInv, UNCHANGED db,
         ui' = [rows |-> ui'.rows, busy |-> ui'.busy, said |-> ui'.said],
         ui'.said = ui.said \/ db.member,
         \A n \in Calls : Joined(calls'[n])
  PROVE  InviteInv'
<1>1. InviteTables'
  BY DEF InviteInv, InviteTables
<1>2. Spent'
  BY DEF InviteInv, Spent
<1>3. \A n \in Calls : Joined(calls[n])'
  BY DEF Joined
<1> QED BY <1>1, <1>2, <1>3 DEF InviteInv

LEMMA InviteUi ==
  ASSUME InviteInv
  PROVE  /\ ui = [rows |-> ui.rows, busy |-> ui.busy, said |-> ui.said]
         /\ \A busy : [ui EXCEPT !.busy = busy] = [rows |-> ui.rows, busy |-> busy, said |-> ui.said]
         /\ \A said : [ui EXCEPT !.said = said] = [rows |-> ui.rows, busy |-> ui.busy, said |-> said]
BY DEF InviteInv, InviteTables

LEMMA InviteUiTwo ==
  ASSUME InviteInv, NEW busy, NEW said
  PROVE  [ui EXCEPT !.busy = busy, !.said = said] = [rows |-> ui.rows, busy |-> busy, said |-> said]
<1> DEFINE v == [ui EXCEPT !.busy = busy]
<1>1. [ui EXCEPT !.busy = busy, !.said = said] = [v EXCEPT !.said = said]
  BY InviteUi
<1>2. v = [rows |-> ui.rows, busy |-> busy, said |-> ui.said]
  BY InviteUi
<1> HIDE DEF v
<1>3. [v EXCEPT !.said = said] = [rows |-> ui.rows, busy |-> busy, said |-> said]
  BY <1>2
<1> QED BY <1>1, <1>3

LEMMA EndedJoined ==
  ASSUME InviteInv, NEW n \in Calls, Others(n), Ended(n)
  PROVE  \A m \in Calls : Joined(calls'[m])
<1> TAKE m \in Calls
<1>1. CASE m # n
  BY <1>1 DEF Others, InviteInv
<1>2. CASE m = n
  BY <1>2, NoCallFacts DEF Ended, SameRequest, InviteInv, Joined
<1> QED BY <1>1, <1>2

LEMMA AcceptPreserves ==
  ASSUME CallsOK, InviteInv, NEW n \in Calls, acceptInviteHandler(n)
  PROVE  CallsOK' /\ UNCHANGED section /\ InviteInv'
<1>1. CASE Refuse(n)
  <2>1. CallsOK' /\ UNCHANGED <<section, db, ui>> /\ Others(n) /\ Ended(n)
    BY <1>1, RefuseFacts
  <2> QED BY <2>1, EndedJoined, InviteFrame, InviteUi
<1>2. CASE GoTo(n, "user", FALSE) /\ UNCHANGED db
  <2>1. /\ CallsOK' /\ UNCHANGED <<section, ui, db>> /\ Others(n) /\ SameRequest(n)
        /\ calls'[n].got = {[pc |-> "user", existed |-> FALSE]} /\ calls'[n].at = calls[n].at
    BY <1>2, WithinFacts DEF GoTo
  <2>2. \A g \in calls'[n].got : g.pc \notin {"delete", "session"}
    BY <2>1
  <2>3. \A m \in Calls : Joined(calls'[m])
    BY <2>1, <2>2 DEF Others, SameRequest, InviteInv, Joined
  <2> QED BY <2>1, <2>3, InviteFrame, InviteUi
<1>3. CASE insertUser(n)
  <2>1. GoTo(n, "member", db.pw # 0) /\ db' = [db EXCEPT !.pw = UserPassword(calls[n].arg)]
    BY <1>3 DEF insertUser
  <2>2. /\ CallsOK' /\ UNCHANGED <<section, ui>> /\ Others(n) /\ SameRequest(n)
        /\ calls'[n].got = {[pc |-> "member", existed |-> db.pw # 0]}
        /\ calls'[n].at = calls[n].at
    BY <2>1, WithinFacts DEF GoTo
  <2>3. \A g \in calls'[n].got : g.pc = "member"
    BY <2>2
  <2>4. db' = [rows |-> db.rows, made |-> db.made, invite |-> db.invite, before |-> db.before,
               pw |-> UserPassword(calls[n].arg), member |-> db.member]
    BY <2>1 DEF InviteInv, InviteTables
  <2>5. /\ db'.member = db.member /\ db'.invite = db.invite /\ db'.before = db.before
        /\ db'.pw = UserPassword(calls[n].arg) /\ InviteTables'
    BY <2>2, <2>4 DEF InviteInv, InviteTables
  <2>6. Spent'
    BY <2>2, <2>5 DEF InviteInv, Spent, UserPassword
  <2>7. \A m \in Calls : Joined(calls[m])'
    BY <2>2, <2>3, <2>5 DEF Others, SameRequest, InviteInv, Joined
  <2> QED BY <2>2, <2>5, <2>6, <2>7 DEF InviteInv
<1>4. CASE insertMember(n)
  <2>1. PICK g \in calls[n].got : GoTo(n, "delete", g.existed)
    BY <1>4 DEF insertMember
  <2>2. CallsOK' /\ UNCHANGED <<section, ui>>
    BY <2>1, WithinFacts DEF GoTo
  <2>3. db' = [rows |-> db.rows, made |-> db.made, invite |-> db.invite, before |-> db.before,
               pw |-> db.pw, member |-> TRUE]
    <3>1. db' = [db EXCEPT !.member = TRUE]
      BY <1>4 DEF insertMember
    <3>2. ASSUME NEW yes
          PROVE  [db EXCEPT !.member = yes]
                   = [rows |-> db.rows, made |-> db.made, invite |-> db.invite,
                      before |-> db.before, pw |-> db.pw, member |-> yes]
      BY DEF InviteInv, InviteTables
    <3> QED BY <3>1, <3>2, Zenon
  <2>4. /\ db'.member = TRUE /\ db'.before = db.before /\ db'.pw = db.pw /\ InviteTables'
    BY <2>2, <2>3 DEF InviteInv, InviteTables
  <2>5. Spent'
    BY <2>4 DEF InviteInv, Spent
  <2>6. \A m \in Calls : Joined(calls[m])'
    BY <2>4 DEF Joined
  <2> QED BY <2>2, <2>4, <2>5, <2>6 DEF InviteInv
<1>5. CASE deleteTheInvite(n)
  <2>1. PICK g \in calls[n].got : GoTo(n, "session", g.existed)
    BY <1>5 DEF deleteTheInvite
  <2>2. CallsOK' /\ UNCHANGED <<section, ui>>
    BY <2>1, WithinFacts DEF GoTo
  <2>3. db.member
    BY <1>5 DEF deleteTheInvite, At, Asked, Known, InviteInv, Joined
  <2>4. CASE db' = db
    <3>1. \A m \in Calls : Joined(calls'[m])
      BY <2>3 DEF Joined
    <3> QED BY <2>2, <2>4, <3>1, InviteFrame, InviteUi
  <2>5. CASE db' = [db EXCEPT !.invite = FALSE]
    <3>1. ASSUME NEW no
          PROVE  [db EXCEPT !.invite = no]
                   = [rows |-> db.rows, made |-> db.made, invite |-> no,
                      before |-> db.before, pw |-> db.pw, member |-> db.member]
      BY DEF InviteInv, InviteTables
    <3>2. db' = [rows |-> db.rows, made |-> db.made, invite |-> FALSE,
                 before |-> db.before, pw |-> db.pw, member |-> db.member]
      BY <2>5, <3>1, Zenon
    <3>3. /\ db'.member = db.member /\ db'.before = db.before /\ db'.pw = db.pw
          /\ InviteTables'
      BY <2>2, <3>2 DEF InviteInv, InviteTables
    <3>4. Spent'
      BY <2>3, <3>3 DEF InviteInv, Spent
    <3>5. \A m \in Calls : Joined(calls[m])'
      BY <2>3, <3>3 DEF Joined
    <3> QED BY <2>2, <3>3, <3>4, <3>5 DEF InviteInv
  <2> QED BY <1>5, <2>4, <2>5 DEF deleteTheInvite
<1>6. CASE answerInvite(n)
  <2>1. PICK g \in calls[n].got : Reply(n, db, {g})
    BY <1>6 DEF answerInvite
  <2>2. CallsOK' /\ UNCHANGED <<section, ui, db>>
    BY <2>1, ReplyFacts
  <2>3. db.member
    BY <1>6 DEF answerInvite, At, Asked, Known, InviteInv, Joined
  <2>4. \A m \in Calls : Joined(calls'[m])
    BY <2>3 DEF Joined
  <2> QED BY <2>2, <2>4, InviteFrame, InviteUi
<1> QED BY <1>1, <1>2, <1>3, <1>4, <1>5, <1>6 DEF acceptInviteHandler, readInvite

(* Once there is a member, a step that leaves the tables alone is harmless.    *)
LEMMA MemberStep ==
  ASSUME InviteInv, UNCHANGED db, db.member,
         ui' = [rows |-> ui'.rows, busy |-> ui'.busy, said |-> ui'.said]
  PROVE  InviteInv'
<1>1. \A m \in Calls : Joined(calls'[m])
  BY DEF Joined
<1> QED BY <1>1, InviteFrame

LEMMA SubmitThenPreserves ==
  ASSUME CallsOK, InviteInv, NEW n \in Calls, submitThen(n)
  PROVE  CallsOK' /\ UNCHANGED section /\ InviteInv'
<1>1. CASE Answered(n, "accept", 1)
           /\ \E g \in calls[n].got :
                IF g.existed THEN Finish(n, [ui EXCEPT !.said = "exists"]) ELSE Await(n, ui)
  <2>1. db.member
    BY <1>1 DEF Answered, InviteInv, Joined
  <2>2. CASE Finish(n, [ui EXCEPT !.said = "exists"])
    <3>1. CallsOK' /\ UNCHANGED <<section, db>> /\ ui' = [ui EXCEPT !.said = "exists"]
      BY <2>2, FinishFacts
    <3>2. ui' = [rows |-> ui.rows, busy |-> ui.busy, said |-> "exists"]
      BY <3>1, InviteUi, Zenon
    <3> QED BY <2>1, <3>1, <3>2, MemberStep
  <2>3. CASE Await(n, ui)
    BY <2>1, <2>3, AwaitFacts, MemberStep, InviteUi
  <2> QED BY <1>1, <2>2, <2>3
<1>2. CASE Asked(n, "accept", 2) /\ (Reply(n, db, {}) \/ Refuse(n))
  <2>1. db.member
    BY <1>2 DEF Asked, InviteInv, Joined
  <2>2. CallsOK' /\ UNCHANGED <<section, db, ui>>
    BY <1>2, ReplyFacts, RefuseFacts
  <2> QED BY <2>1, <2>2, MemberStep, InviteUi
<1>3. CASE Answered(n, "accept", 2) /\ Finish(n, [ui EXCEPT !.said = "left", !.busy = {}])
  <2>1. db.member
    BY <1>3 DEF Answered, InviteInv, Joined
  <2>2. /\ CallsOK' /\ UNCHANGED <<section, db>>
        /\ ui' = [ui EXCEPT !.said = "left", !.busy = {}]
    BY <1>3, FinishFacts
  <2>3. ui' = [rows |-> ui'.rows, busy |-> ui'.busy, said |-> ui'.said]
    BY <2>2 DEF InviteInv, InviteTables
  <2> QED BY <2>1, <2>2, <2>3, MemberStep
<1>4. CASE /\ Thrown(n, "accept")
           /\ \E said \in IF calls[n].stage = 1 THEN {ui.said}
                          ELSE {"left"} \cup {x \in {ui.said} : hist.lost} :
                Finish(n, [ui EXCEPT !.busy = {}, !.said = said])
  <2>1. PICK said : /\ said = ui.said \/ calls[n].stage # 1
                    /\ Finish(n, [ui EXCEPT !.busy = {}, !.said = said])
    BY <1>4
  <2>2. said = ui.said \/ db.member
    BY <1>4, <2>1 DEF Thrown, InviteInv, Joined
  <2>3. /\ CallsOK' /\ UNCHANGED <<section, db>> /\ Others(n) /\ calls'[n] = NoCall
        /\ ui' = [ui EXCEPT !.busy = {}, !.said = said]
    BY <2>1, FinishFacts
  <2>4. ui' = [rows |-> ui.rows, busy |-> {}, said |-> said]
    BY <2>3, InviteUiTwo, Zenon
  <2>5. ui'.said = said /\ ui' = [rows |-> ui'.rows, busy |-> ui'.busy, said |-> ui'.said]
    BY <2>4
  <2>6. \A m \in Calls : Joined(calls'[m])
    BY <2>3, EndedJoined DEF Ended
  <2> QED BY <2>2, <2>3, <2>5, <2>6, InviteFrame
<1> QED BY <1>1, <1>2, <1>3, <1>4 DEF submitThen

LEMMA InvitePreserved ==
  ASSUME CallsOK, section = "invite", InviteInv, AccountsStep
  PROVE  CallsOK' /\ UNCHANGED section /\ InviteInv'
<1>1. CASE AccountsClick
  <2>1. PICK pw : submit(pw)
    BY <1>1 DEF AccountsClick, onSubmit, deviceLogin, submitPassword, resetByAdmin, signOut,
                demote
  <2>2. /\ CallsOK' /\ UNCHANGED <<section, db>> /\ ui' = [ui EXCEPT !.busy = {"accepting"}]
        /\ \A m \in Calls : \/ calls'[m] = calls[m]
                            \/ /\ calls'[m].stage = 1 /\ calls'[m].at = "sent"
                               /\ calls'[m].got = {}
    <3> DEFINE newui == [ui EXCEPT !.busy = {"accepting"}]
    <3>1. Start("accept", pw, FALSE, newui, 1)
      BY <2>1 DEF submit, Send
    <3> HIDE DEF newui
    <3>2. /\ CallsOK' /\ UNCHANGED <<section, db>> /\ ui' = newui
          /\ \A m \in Calls : \/ calls'[m] = calls[m]
                              \/ /\ calls'[m].op = "accept" /\ calls'[m].stage = 1
                                 /\ calls'[m].at = "sent" /\ calls'[m].got = {}
      BY <3>1, StartFacts
    <3> QED BY <3>2 DEF newui
  <2>3. ui' = [rows |-> ui.rows, busy |-> {"accepting"}, said |-> ui.said]
    BY <2>2, InviteUi, Zenon
  <2>4. ui'.said = ui.said /\ ui' = [rows |-> ui'.rows, busy |-> ui'.busy, said |-> ui'.said]
    BY <2>3
  <2>5. \A m \in Calls : Joined(calls'[m])
    BY <2>2 DEF InviteInv, Joined
  <2> QED BY <2>2, <2>4, <2>5, InviteFrame
<1>2. CASE toLogin
  <2>1. /\ ui.said = "exists" /\ UNCHANGED <<section, db, calls>>
        /\ ui' = [ui EXCEPT !.said = "left", !.busy = {}]
    BY <1>2 DEF toLogin
  <2>2. db.member
    BY <2>1 DEF InviteInv, Spent
  <2>3. ui' = [rows |-> ui'.rows, busy |-> ui'.busy, said |-> ui'.said]
    BY <2>1 DEF InviteInv, InviteTables
  <2>4. CallsOK'
    BY <2>1 DEF CallsOK
  <2> QED BY <2>1, <2>2, <2>3, <2>4, MemberStep
<1>3. ASSUME NEW n \in Calls, AccountsNext(n)
      PROVE  CallsOK' /\ UNCHANGED section /\ InviteInv'
  <2>1. acceptInviteHandler(n) \/ submitThen(n)
    BY <1>3 DEF AccountsNext, SessionsNext, AdminsNext, InviteNext
  <2> QED BY <2>1, AcceptPreserves, SubmitThenPreserves
<1>4. ASSUME NEW n \in Calls, Lose(n) \/ failInvite(n)
      PROVE  CallsOK' /\ UNCHANGED section /\ InviteInv'
  <2>1. CallsOK' /\ UNCHANGED <<section, db, ui>> /\ Others(n) /\ Ended(n)
    BY <1>4, LoseFacts, RefuseFacts DEF failInvite
  <2> QED BY <2>1, EndedJoined, InviteFrame, InviteUi
<1> QED BY <1>1, <1>2, <1>3, <1>4 DEF AccountsStep

-----------------------------------------------------------------------------
(* One part is open, and its invariant holds. *)
AccountsInv ==
  /\ CallsOK
  /\ section \in {"sessions", "admins", "invite"}
  /\ section = "sessions" => SessionsInv
  /\ section = "admins" => AdminsInv
  /\ section = "invite" => InviteInv

LEMMA AccountsInitInv ==
  ASSUME AccountsInit
  PROVE  AccountsInv
<1>1. CASE SessionsInit
  <2>1. /\ CallsOK /\ section = "sessions" /\ \A n \in Calls : calls[n] = NoCall
        /\ db = [rows |-> {Session(10, 0), Session(11, 0)}, made |-> 0, pw |-> 0,
                 overtaken |-> {}]
    BY <1>1, OpenFacts DEF SessionsInit
  <2>2. SessionTables /\ \A s \in db.rows : SessionRow(s)
    BY <2>1 DEF SessionTables, SessionRow, Session
  <2>3. \A n \in Calls : Compared(calls[n])
    BY <2>1, NothingCompared, NoCallFacts
  <2> QED BY <2>1, <2>2, <2>3 DEF AccountsInv, SessionsInv
<1>2. CASE AdminsInit
  <2>1. /\ CallsOK /\ section = "admins" /\ \A n \in Calls : calls[n] = NoCall
        /\ db = [rows |-> {Row("user", u, TRUE) : u \in 1..2}, made |-> 0, signed |-> 1..2,
                 both |-> FALSE]
    BY <1>2, OpenFacts DEF AdminsInit
  <2>2. db.rows = {Row("user", u, TRUE) : u \in 1..2} /\ db.both = FALSE
        /\ db = [rows |-> db.rows, made |-> db.made, signed |-> db.signed, both |-> db.both]
    BY <2>1
  <2>3. \A r \in db.rows : UserRow(r)
    <3> SUFFICES ASSUME NEW u \in 1..2 PROVE UserRow(Admin(u))
      BY <2>2 DEF Admin
    <3>1. u \in {1, 2}
      OBVIOUS
    <3> QED BY <3>1, AdminFacts DEF UserRow
  <2>4. Admin(1) \in TheAdmins
    <3>1. Admin(1) \in db.rows
      BY <2>2 DEF Admin
    <3> QED BY <3>1, AdminFacts DEF TheAdmins
  <2>5. \A n \in Calls : CountedTwo(calls[n])
    BY <2>1, NoCallFacts DEF CountedTwo
  <2> QED BY <2>1, <2>2, <2>3, <2>4, <2>5 DEF AccountsInv, AdminsInv, AdminTables
<1>3. CASE InviteInit
  <2>1. PICK pw \in {0, 9} :
          Open("invite", [rows |-> {}, made |-> 0, invite |-> TRUE, before |-> pw, pw |-> pw,
                          member |-> FALSE],
               [rows |-> {}, busy |-> {}, said |-> "form"])
    BY <1>3 DEF InviteInit
  <2>2. /\ CallsOK /\ section = "invite" /\ \A n \in Calls : calls[n] = NoCall
        /\ db = [rows |-> {}, made |-> 0, invite |-> TRUE, before |-> pw, pw |-> pw,
                 member |-> FALSE]
        /\ ui = [rows |-> {}, busy |-> {}, said |-> "form"]
    BY <2>1, OpenFacts
  <2>3. InviteTables /\ Spent
    BY <2>2 DEF InviteTables, Spent
  <2>4. \A n \in Calls : Joined(calls[n])
    BY <2>2, NoCallFacts DEF Joined
  <2> QED BY <2>2, <2>3, <2>4 DEF AccountsInv, InviteInv
<1> QED BY <1>1, <1>2, <1>3 DEF AccountsInit

-----------------------------------------------------------------------------
(* The steps of Page in full: what becomes of the request, of the page and of  *)
(* the history.                                                             *)
HistOK == hist = [lost |-> hist.lost, raced |-> hist.raced, clicks |-> hist.clicks]
PageOK ==
  /\ CallsOK /\ HistOK
  /\ \A n \in Calls : calls[n].at = "none" => calls[n] = NoCall

Calm == ~hist.lost /\ ~hist.raced

(* Call n is the same request as before, further on. *)
Further(n, at, got) ==
  /\ calls'[n].op = calls[n].op /\ calls'[n].stage = calls[n].stage
  /\ calls'[n].arg = calls[n].arg /\ calls'[n].to = calls[n].to
  /\ calls'[n].at = at /\ calls'[n].got = got

(* There is a first free slot if there is a free one. *)
LEMMA FirstFree ==
  ASSUME NEW n \in Calls, calls[n].at = "none"
  PROVE  \E i \in Calls : calls[i].at = "none" /\ \A j \in 1..(i - 1) : calls[j].at # "none"
<1> DEFINE free == {i \in Calls : calls[i].at = "none"}
<1>1. free \subseteq Nat /\ free # {}
  BY DEF Calls
<1>2. PICK i \in free : \A j \in free : ~(<<j, i>> \in OpToRel(<, Nat))
  BY <1>1, WFMin, NatLessThanWellFounded
<1>3. \A j \in free : ~(j < i)
  BY <1>1, <1>2 DEF OpToRel
<1>4. \A j \in 1..(i - 1) : j \in Calls /\ j < i
  BY PageAssumption DEF Calls
<1>5. QED
  BY <1>3, <1>4

LEMMA StartStep ==
  ASSUME PageOK, NEW op, NEW arg, NEW to, NEW newui, NEW clicks,
         Start(op, arg, to, newui, clicks)
  PROVE  /\ PageOK' /\ UNCHANGED <<section, db>> /\ ui' = newui
         /\ hist'.lost = hist.lost /\ (hist.raced => hist'.raced)
         /\ \E n \in Calls :
              /\ calls[n] = NoCall /\ Others(n)
              /\ calls'[n].op = op /\ calls'[n].stage = 1 /\ calls'[n].at = "sent"
              /\ calls'[n].arg = arg /\ calls'[n].to = to /\ calls'[n].got = {}
         /\ ~hist'.raced =>
              \A i \in Calls : calls[i].at # "none" =>
                /\ op \notin Refetching /\ calls[i].op \notin Refetching
                /\ arg = 0 \/ calls[i].arg # arg
<1> DEFINE c == [op |-> op, stage |-> 1, at |-> "sent", arg |-> arg, to |-> to, got |-> {}]
           First(i) == calls[i].at = "none" /\ \A j \in 1..(i - 1) : calls[j].at # "none"
           n == CHOOSE i \in Calls : First(i)
           races == \E i \in {m \in Calls : calls[m].at # "none"} :
                      \/ {op, calls[i].op} \cap Refetching # {}
                      \/ arg # 0 /\ calls[i].arg = arg
<1>1. /\ \E i \in Calls : calls[i].at = "none"
      /\ calls' = [calls EXCEPT ![n] = c]
      /\ hist' = [hist EXCEPT !.clicks = @ + clicks, !.raced = @ \/ races]
      /\ ui' = newui /\ UNCHANGED <<section, db>>
  BY DEF Start
<1>2. n \in Calls /\ calls[n].at = "none"
  <2>1. \E i \in Calls : First(i)
    BY <1>1, FirstFree
  <2> HIDE DEF First
  <2>2. n \in Calls /\ First(n)
    BY <2>1
  <2> QED BY <2>2 DEF First
<1>3. IsCall(c) /\ c.op = op /\ c.stage = 1 /\ c.at = "sent" /\ c.arg = arg /\ c.to = to
      /\ c.got = {}
  BY DEF IsCall
<1> HIDE DEF c, n
<1>4. CallsOK' /\ calls'[n] = c /\ Others(n)
  BY <1>1, <1>2, <1>3, Written DEF PageOK
<1>5. calls[n] = NoCall
  BY <1>2 DEF PageOK
<1>6. hist' = [lost |-> hist.lost, raced |-> hist.raced \/ races, clicks |-> hist.clicks + clicks]
  <2> HIDE DEF races
  <2> QED BY <1>1 DEF PageOK, HistOK
<1>7. HistOK' /\ hist'.lost = hist.lost /\ hist'.raced = (hist.raced \/ races)
  <2> HIDE DEF races
  <2> QED BY <1>6 DEF HistOK
<1>8. ~hist'.raced =>
        \A i \in Calls : calls[i].at # "none" =>
          /\ op \notin Refetching /\ calls[i].op \notin Refetching
          /\ arg = 0 \/ calls[i].arg # arg
  BY <1>7
<1>9. \A m \in Calls : calls'[m].at = "none" => calls'[m] = NoCall
  BY <1>3, <1>4 DEF Others, PageOK
<1> HIDE DEF races
<1> QED BY <1>1, <1>2, <1>3, <1>4, <1>5, <1>7, <1>8, <1>9 DEF PageOK

(* The same for the many requests that carry no value. *)
Started(op, arg, newui) ==
  /\ UNCHANGED <<section, db>> /\ ui' = newui
  /\ hist'.lost = hist.lost /\ (hist.raced => hist'.raced)
  /\ \E n \in Calls :
       /\ calls[n] = NoCall /\ Others(n)
       /\ calls'[n].op = op /\ calls'[n].stage = 1 /\ calls'[n].at = "sent"
       /\ calls'[n].arg = arg /\ calls'[n].got = {}
  /\ ~hist'.raced =>
       \A i \in Calls : calls[i].at # "none" =>
         /\ op \notin Refetching /\ calls[i].op \notin Refetching
         /\ arg = 0 \/ calls[i].arg # arg

LEMMA StartNo ==
  ASSUME PageOK, NEW op, NEW arg, NEW newui, NEW clicks, Start(op, arg, FALSE, newui, clicks)
  PROVE  PageOK' /\ Started(op, arg, newui)
<1> DEFINE to == FALSE
<1>1. Start(op, arg, to, newui, clicks)
  OBVIOUS
<1> HIDE DEF to
<1> QED BY <1>1, StartStep DEF Started

(* How a changed request gets back to PageOK. *)
LEMMA OneWritten ==
  ASSUME PageOK, NEW n \in Calls, NEW c, IsCall(c), c.at = "none" => c = NoCall,
         calls' = [calls EXCEPT ![n] = c], HistOK'
  PROVE  PageOK' /\ calls'[n] = c /\ Others(n)
<1>1. CallsOK' /\ calls'[n] = c /\ Others(n)
  BY Written DEF PageOK
<1>2. \A m \in Calls : calls'[m].at = "none" => calls'[m] = NoCall
  BY <1>1 DEF PageOK, Others
<1> QED BY <1>1, <1>2 DEF PageOK

LEMMA LostFacts ==
  ASSUME HistOK, hist' = [hist EXCEPT !.lost = TRUE]
  PROVE  HistOK' /\ hist'.lost = TRUE /\ hist'.raced = hist.raced
BY DEF HistOK

LEMMA ReplyStep ==
  ASSUME PageOK, NEW n \in Calls, NEW newdb, NEW got, Reply(n, newdb, got)
  PROVE  /\ PageOK' /\ UNCHANGED <<section, ui>> /\ db' = newdb /\ Others(n)
         /\ \/ calls[n].at = "sent" /\ hist' = hist /\ Further(n, "ok", got)
            \/ calls[n].at = "sent" /\ hist'.lost /\ hist'.raced = hist.raced
               /\ Further(n, "failed", calls[n].got)
            \/ calls[n].at = "left" /\ hist' = hist /\ calls'[n] = NoCall
<1>1. UNCHANGED <<section, ui>> /\ db' = newdb
  BY DEF Reply
<1>2. IsCall(calls[n]) /\ CallsOK /\ HistOK
  BY DEF PageOK, CallsOK
<1>3. CASE calls[n].at = "sent" /\ UNCHANGED hist
           /\ calls' = [calls EXCEPT ![n].at = "ok", ![n].got = got]
  <2> DEFINE c == [calls[n] EXCEPT !.at = "ok", !.got = got]
  <2>0. c = [op |-> calls[n].op, stage |-> calls[n].stage, at |-> "ok",
             arg |-> calls[n].arg, to |-> calls[n].to, got |-> got]
    BY <1>2, ExceptTwo
  <2>2. calls' = [calls EXCEPT ![n] = c]
    BY <1>2, <1>3 DEF CallsOK
  <2> HIDE DEF c
  <2>1. /\ IsCall(c) /\ c.at = "ok" /\ c.op = calls[n].op /\ c.stage = calls[n].stage
        /\ c.arg = calls[n].arg /\ c.to = calls[n].to /\ c.got = got
    BY <2>0 DEF IsCall
  <2>3. HistOK'
    BY <1>2, <1>3 DEF HistOK
  <2> QED BY <1>1, <1>3, <2>1, <2>2, <2>3, OneWritten DEF Further
<1>4. CASE calls[n].at = "sent" /\ hist' = [hist EXCEPT !.lost = TRUE]
           /\ calls' = [calls EXCEPT ![n].at = "failed"]
  <2> DEFINE c == [calls[n] EXCEPT !.at = "failed"]
  <2>1. /\ IsCall(c) /\ c.at = "failed" /\ c.op = calls[n].op /\ c.stage = calls[n].stage
        /\ c.arg = calls[n].arg /\ c.to = calls[n].to /\ c.got = calls[n].got
    BY <1>2 DEF IsCall
  <2>2. calls' = [calls EXCEPT ![n] = c]
    BY <1>4
  <2> HIDE DEF c
  <2>3. HistOK' /\ hist'.lost /\ hist'.raced = hist.raced
    BY <1>2, <1>4, LostFacts
  <2> QED BY <1>1, <1>4, <2>1, <2>2, <2>3, OneWritten DEF Further
<1>5. CASE calls[n].at = "left" /\ UNCHANGED hist /\ calls' = [calls EXCEPT ![n] = NoCall]
  <2>1. HistOK'
    BY <1>2, <1>5 DEF HistOK
  <2> QED BY <1>1, <1>5, <2>1, OneWritten, NoCallFacts
<1> QED BY <1>3, <1>4, <1>5 DEF Reply

(* A request that fails, on its way or at the server. *)
Fails(n) ==
  \/ calls[n].at = "left" /\ calls'[n] = NoCall
  \/ calls[n].at # "left" /\ Further(n, "failed", calls[n].got)

LEMMA FailsStep ==
  ASSUME PageOK, HistOK', NEW n \in Calls,
         calls' = [calls EXCEPT ![n] = IF @.at = "left" THEN NoCall
                                       ELSE [@ EXCEPT !.at = "failed"]]
  PROVE  PageOK' /\ Others(n) /\ Fails(n)
<1>1. IsCall(calls[n]) /\ CallsOK
  BY DEF PageOK, CallsOK
<1>2. CASE calls[n].at = "left"
  <2>1. calls' = [calls EXCEPT ![n] = NoCall]
    BY <1>1, <1>2 DEF CallsOK
  <2> QED BY <1>2, <2>1, OneWritten, NoCallFacts DEF Fails
<1>3. CASE calls[n].at # "left"
  <2> DEFINE c == [calls[n] EXCEPT !.at = "failed"]
  <2>1. /\ IsCall(c) /\ c.at = "failed" /\ c.op = calls[n].op /\ c.stage = calls[n].stage
        /\ c.arg = calls[n].arg /\ c.to = calls[n].to /\ c.got = calls[n].got
    BY <1>1 DEF IsCall
  <2>2. calls' = [calls EXCEPT ![n] = c]
    BY <1>1, <1>3 DEF CallsOK
  <2> HIDE DEF c
  <2> QED BY <1>3, <2>1, <2>2, OneWritten DEF Fails, Further
<1> QED BY <1>2, <1>3

LEMMA RefuseStep ==
  ASSUME PageOK, NEW n \in Calls, Refuse(n)
  PROVE  PageOK' /\ UNCHANGED <<section, db, ui, hist>> /\ Others(n) /\ Fails(n)
<1>1. HistOK'
  BY DEF Refuse, PageOK, HistOK
<1> QED BY <1>1, FailsStep DEF Refuse

LEMMA LoseStep ==
  ASSUME PageOK, NEW n \in Calls, Lose(n)
  PROVE  /\ PageOK' /\ UNCHANGED <<section, db, ui>> /\ Others(n) /\ Fails(n)
         /\ calls[n].at \in {"sent", "left"} /\ hist'.lost /\ hist'.raced = hist.raced
<1>1. HistOK' /\ hist'.lost /\ hist'.raced = hist.raced
  BY LostFacts DEF Lose, PageOK
<1> QED BY <1>1, FailsStep DEF Lose

LEMMA WithinStep ==
  ASSUME PageOK, NEW n \in Calls, calls[n].at # "none", NEW got, Within(n, got)
  PROVE  /\ PageOK' /\ UNCHANGED <<section, ui, hist>> /\ Others(n)
         /\ Further(n, calls[n].at, {got})
<1> DEFINE c == [calls[n] EXCEPT !.got = {got}]
<1>1. IsCall(calls[n])
  BY DEF PageOK, CallsOK
<1>2. /\ IsCall(c) /\ c.at = calls[n].at /\ c.op = calls[n].op /\ c.stage = calls[n].stage
      /\ c.got = {got} /\ c.arg = calls[n].arg /\ c.to = calls[n].to
  BY <1>1 DEF IsCall
<1>3. calls' = [calls EXCEPT ![n] = c] /\ UNCHANGED <<section, ui, hist>>
  BY DEF Within
<1> HIDE DEF c
<1>4. HistOK'
  BY <1>3 DEF PageOK, HistOK
<1> QED BY <1>2, <1>3, <1>4, OneWritten DEF Further

LEMMA AwaitStep ==
  ASSUME PageOK, NEW n \in Calls, NEW newui, Await(n, newui)
  PROVE  /\ PageOK' /\ UNCHANGED <<section, db, hist>> /\ ui' = newui /\ Others(n)
         /\ calls'[n].op = calls[n].op /\ calls'[n].stage = calls[n].stage + 1
         /\ calls'[n].arg = calls[n].arg /\ calls'[n].to = calls[n].to
         /\ calls'[n].at = "sent" /\ calls'[n].got = {}
<1> DEFINE c == [calls[n] EXCEPT !.stage = calls[n].stage + 1, !.at = "sent", !.got = {}]
<1>0. c = [op |-> calls[n].op, stage |-> calls[n].stage + 1, at |-> "sent",
           arg |-> calls[n].arg, to |-> calls[n].to, got |-> {}]
  <2>1. IsCall(calls[n])
    BY DEF PageOK, CallsOK
  <2> DEFINE r == calls[n]
             st == r.stage + 1
             none == {}
             sent == "sent"
  <2> HIDE DEF r, st, none, sent
  <2>2. [r EXCEPT !.stage = st, !.at = sent, !.got = none]
          = [op |-> r.op, stage |-> st, at |-> sent, arg |-> r.arg, to |-> r.to, got |-> none]
    <3>1. IsCall(r)
      BY <2>1 DEF r
    <3> QED BY <3>1, ExceptThree, Zenon
  <2> QED BY <2>2, Zenon DEF r, st, none, sent
<1>2. calls' = [calls EXCEPT ![n] = c] /\ UNCHANGED <<section, db, hist>> /\ ui' = newui
  BY DEF Await, PageOK, CallsOK
<1> HIDE DEF c
<1>1. /\ IsCall(c) /\ c.op = calls[n].op /\ c.at = "sent" /\ c.got = {}
      /\ c.stage = calls[n].stage + 1 /\ c.arg = calls[n].arg /\ c.to = calls[n].to
  BY <1>0 DEF IsCall
<1>3. HistOK'
  BY <1>2 DEF PageOK, HistOK
<1> QED BY <1>1, <1>2, <1>3, OneWritten

LEMMA FinishStep ==
  ASSUME PageOK, NEW n \in Calls, NEW newui, Finish(n, newui)
  PROVE  /\ PageOK' /\ UNCHANGED <<section, db, hist>> /\ ui' = newui /\ Others(n)
         /\ calls'[n] = NoCall
<1>1. HistOK'
  BY DEF Finish, PageOK, HistOK
<1> QED BY <1>1, OneWritten, NoCallFacts DEF Finish

LEMMA LoadStep ==
  ASSUME PageOK, NEW newui, NEW lost, Load(newui, lost)
  PROVE  /\ PageOK' /\ UNCHANGED <<section, db>> /\ ui' = newui
         /\ hist'.lost = lost
         /\ hist'.raced = (\E n \in Calls : calls[n].at \in {"sent", "left"})
         /\ \A n \in Calls :
              \/ calls[n].at \in {"sent", "left"} /\ Further(n, "left", calls[n].got)
              \/ calls[n].at \notin {"sent", "left"} /\ calls'[n] = NoCall
<1> DEFINE races == \E n \in Calls : calls[n].at \in {"sent", "left"}
           Left(c) == IF c.at \in {"sent", "left"} THEN [c EXCEPT !.at = "left"] ELSE NoCall
<1>1. /\ calls' = [n \in Calls |-> Left(calls[n])]
      /\ hist' = [hist EXCEPT !.clicks = @ + 1, !.lost = lost, !.raced = races]
      /\ UNCHANGED <<section, db>> /\ ui' = newui
  BY DEF Load
<1> HIDE DEF races
<1>2. HistOK' /\ hist'.lost = lost /\ hist'.raced = races
  <2>1. hist' = [lost |-> lost, raced |-> races, clicks |-> hist.clicks + 1]
    BY <1>1 DEF PageOK, HistOK
  <2> QED BY <2>1 DEF HistOK
<1>3. \A n \in Calls : calls'[n] = Left(calls[n]) /\ IsCall(calls[n])
  BY <1>1 DEF PageOK, CallsOK
<1>4. \A n \in Calls :
        /\ IsCall(calls'[n]) /\ (calls'[n].at = "none" => calls'[n] = NoCall)
        /\ \/ calls[n].at \in {"sent", "left"} /\ Further(n, "left", calls[n].got)
           \/ calls[n].at \notin {"sent", "left"} /\ calls'[n] = NoCall
  <2> TAKE n \in Calls
  <2>1. CASE calls[n].at \in {"sent", "left"}
    <3>1. calls'[n] = [calls[n] EXCEPT !.at = "left"]
      BY <2>1, <1>3
    <3> QED BY <2>1, <3>1, <1>3 DEF IsCall, Further
  <2>2. CASE calls[n].at \notin {"sent", "left"}
    BY <2>2, <1>3, NoCallFacts
  <2> QED BY <2>1, <2>2
<1>5. CallsOK'
  BY <1>1, <1>3, <1>4 DEF CallsOK
<1> QED BY <1>1, <1>2, <1>4, <1>5 DEF PageOK, races

LEMMA OpenStep ==
  ASSUME NEW s, NEW newdb, NEW newui, Open(s, newdb, newui)
  PROVE  /\ PageOK /\ section = s /\ db = newdb /\ ui = newui /\ Calm
         /\ \A n \in Calls : calls[n] = NoCall
BY NoCallFacts DEF Open, PageOK, CallsOK, HistOK, Calm

-----------------------------------------------------------------------------
(* No step opens another section. *)
LEMMA StartKeeps ==
  \A op, arg, to, newui, clicks : Start(op, arg, to, newui, clicks) => section' = section
BY DEF Start

LEMMA PageKeeps ==
  ASSUME NEW n
  PROVE  /\ \A newdb, got : Reply(n, newdb, got) => section' = section
         /\ \A got : Within(n, got) => section' = section
         /\ \A newui : Await(n, newui) \/ Finish(n, newui) => section' = section
         /\ Refuse(n) \/ Lose(n) => section' = section
BY DEF Reply, Within, Await, Finish, Refuse, Lose

LEMMA ShapesKeep ==
  ASSUME NEW n
  PROVE  /\ \A op : ThenShowList(n, op) => section' = section
         /\ \A op, kind : ThenDropRow(n, op, kind) \/ Insert(n, op, kind)
                            \/ Delete(n, op, kind) \/ Update(n, op, kind) => section' = section
         /\ \A op, list : List(n, op, list) => section' = section
BY PageKeeps DEF ThenShowList, ThenDropRow, Insert, List, Delete, Update

LEMMA SettingsClickKeeps == SettingsClick => section' = section
BY StartKeeps DEF SettingsClick, Send, SendTo, sendInvite, deleteInvite, removeMember, addMonitor, toggleMonitor,
  deleteMonitor, loadChecks, addHeartbeat, deleteHeartbeat, pickDays, addMaintenance,
  deleteMaintenance, edit, save, checkSsl, type, saveFunnel, tick, saveSettings, savePublic,
  regenPublic

LEMMA OtherClicksKeep ==
  NotificationsClick \/ PagesClick \/ StatsClick \/ AccountsClick => section' = section
<1>1. NotificationsClick => section' = section
  BY StartKeeps DEF NotificationsClick, Send, SendTo, addProvider, clearLogs, addRule, addReport,
    deleteProvider, testProvider, toggleRule, deleteRule, testRule, toggleReport, deleteReport,
    testReport
<1>2. PagesClick => section' = section
  BY StartKeeps DEF PagesClick, Send, SendTo, addUser, changeRole, resetPassword, removeUser,
    create, remove, createKey, changePassword, revoke
<1>3. StatsClick => section' = section
  BY StartKeeps DEF StatsClick, Send, setFilter, clearFilters, applyRange, setPeriod, go, Push,
    addGoal, deleteGoal, toggleEvent, newPeriod, ask, visitorComes, interval
<1>4. AccountsClick => section' = section
  BY StartKeeps DEF AccountsClick, Send, onSubmit, deviceLogin, submitPassword, resetByAdmin,
    signOut, demote, submit
<1> QED BY <1>1, <1>2, <1>3, <1>4

LEMMA SettingsKeep == ASSUME NEW n, SettingsNext(n) PROVE section' = section
<1>1. TeamNext(n) => section' = section
  BY PageKeeps, ShapesKeep DEF TeamNext, TeamServer, createInviteHandler, sendInviteThen,
    deleteInviteThen, removeMemberThen
<1>2. MonitorsNext(n) => section' = section
  BY PageKeeps, ShapesKeep DEF MonitorsNext, MonitorsServer, addMonitorThen, toggleMonitorThen,
    deleteMonitorThen, loadChecksThen
<1>3. HeartbeatsNext(n) => section' = section
  BY PageKeeps, ShapesKeep DEF HeartbeatsNext, HeartbeatsServer, addHeartbeatThen,
    deleteHeartbeatThen
<1>4. MaintenanceNext(n) => section' = section
  BY PageKeeps, ShapesKeep DEF MaintenanceNext, MaintenanceServer, addMaintenanceThen,
    deleteMaintenanceThen
<1>5. GeneralNext(n) => section' = section
  BY PageKeeps DEF GeneralNext, GeneralServer, saveThen, checkSslThen
<1>6. FunnelNext(n) => section' = section
  BY PageKeeps, ShapesKeep DEF FunnelNext, replaceFunnelHandler, saveFunnelThen
<1>7. PrivacyNext(n) => section' = section
  BY PageKeeps DEF PrivacyNext, PrivacyServer, readShared, writeShared, saveSettingsThen,
    savePublicThen, regenPublicThen
<1> QED BY <1>1, <1>2, <1>3, <1>4, <1>5, <1>6, <1>7 DEF SettingsNext

LEMMA NotificationsKeep == ASSUME NEW n, NotificationsNext(n) PROVE section' = section
<1>1. NotificationsServer(n) => section' = section
  BY PageKeeps, ShapesKeep DEF NotificationsServer, createRuleHandler, createWithProvider,
    deleteProviderHandler, testHandler
<1>2. ~NotificationsServer(n) => section' = section
  BY PageKeeps, ShapesKeep DEF NotificationsNext, addProviderThen, addRuleThen, addReportThen,
    ThenAppend, clearLogsThen, deleteProviderThen, toggleRuleThen, deleteRuleThen,
    toggleReportThen, deleteReportThen, refreshLogs, ThenFlip
<1> QED BY <1>1, <1>2

LEMMA PagesKeep == ASSUME NEW n, PagesNext(n) PROVE section' = section
<1>1. UsersNext(n) => section' = section
  BY PageKeeps, ShapesKeep DEF UsersNext, UsersServer, updateUserHandler, addUserThen,
    changeRoleThen, resetPasswordThen, removeUserThen
<1>2. SitesNext(n) => section' = section
  BY PageKeeps, ShapesKeep DEF SitesNext, createThen, removeThen
<1>3. AccountNext(n) => section' = section
  BY PageKeeps, ShapesKeep DEF AccountNext, AccountServer, loadKeys, createKeyThen, revokeThen,
    changePasswordThen
<1> QED BY <1>1, <1>2, <1>3 DEF PagesNext

LEMMA StatsKeep == ASSUME NEW n, StatsNext(n) PROVE section' = section
BY PageKeeps, ShapesKeep DEF StatsNext, GoalsNext, SitePage, setGoalsEffect, addGoalThen,
  deleteGoalThen, EventsNext, eventOccurrences, toggleEventThen, CardsNext, cardQuery,
  EngagementCard, EntryExitCard, PanelsNext, loadPanel, loadThen

LEMMA AccountsKeep == ASSUME NEW n, AccountsNext(n) PROVE section' = section
<1>1. SessionsNext(n) => section' = section
  BY PageKeeps DEF SessionsNext, loginHandler, authorize, changePasswordHandler,
    submitPasswordThen, logoutHandler, signOutThen
<1>2. AdminsNext(n) => section' = section
  BY PageKeeps DEF AdminsNext, lastAdminCheck, writeUser, adminTold
<1>3. InviteNext(n) => section' = section
  <2>1. acceptInviteHandler(n) => section' = section
    BY PageKeeps DEF acceptInviteHandler, GoTo, readInvite, insertUser, insertMember,
      deleteTheInvite, answerInvite
  <2>2. submitThen(n) => section' = section
    BY PageKeeps DEF submitThen
  <2> QED BY <2>1, <2>2 DEF InviteNext
<1> QED BY <1>1, <1>2, <1>3 DEF AccountsNext

LEMMA LoadKeeps == \A newui, lost : Load(newui, lost) => section' = section
BY DEF Load

LEMMA SectionStays == [Next]_vars => section' = section
<1>1. Click => section' = section
  BY SettingsClickKeeps, OtherClicksKeep DEF Click
<1>2. Reload => section' = section
  BY LoadKeeps DEF Reload, SiteSettingsPage, NotificationsLoad, AdminUsersPage, SitesPage,
    AccountPage
<1>3. Effect => section' = section
  BY StartKeeps DEF Effect, mountEffect, StatsEffects, cardEffect, mountPanel, RealtimePanel,
    onmessage, onerror, toLogin
<1>4. TrackerStep => section' = section
  BY DEF TrackerStep
<1>5. \A n \in Calls : Progress(n) => section' = section
  BY SettingsKeep, NotificationsKeep, PagesKeep, StatsKeep, AccountsKeep DEF Progress
<1>6. \A n \in Calls : Break(n) => section' = section
  BY PageKeeps DEF Break, failInvite
<1>7. UNCHANGED vars => section' = section
  BY DEF vars
<1> QED BY <1>1, <1>2, <1>3, <1>4, <1>5, <1>6, <1>7 DEF Next

-----------------------------------------------------------------------------
(* Whose steps a handler's steps are: the operation of its call tells, or the  *)
(* section.                                                                 *)
TeamOps == {"sendInvite", "deleteInvite", "removeMember"}
MonitorsOps == {"addMonitor", "toggleMonitor", "deleteMonitor", "loadChecks"}
HeartbeatsOps == {"addHeartbeat", "deleteHeartbeat"}
MaintenanceOps == {"addMaintenance", "deleteMaintenance"}
UsersOps == {"addUser", "changeRole", "resetPassword", "removeUser"}
AccountOps == {"loadKeys", "createKey", "revoke", "changePassword"}
GoalsOps == {"push", "addGoal", "deleteGoal"}
Public == {"savePublic", "regenPublic"}

LEMMA ShapeOps ==
  ASSUME NEW n
  PROVE  /\ \A op : ThenShowList(n, op) => calls[n].op = op
         /\ \A op, kind : ThenDropRow(n, op, kind) \/ Insert(n, op, kind)
                            \/ Delete(n, op, kind) \/ Update(n, op, kind) => calls[n].op = op
         /\ \A op, list : List(n, op, list) => calls[n].op = op
         /\ \A op, stage : Asked(n, op, stage) \/ Answered(n, op, stage) => calls[n].op = op
         /\ \A op : Thrown(n, op) => calls[n].op = op
BY DEF ThenShowList, ThenDropRow, Insert, List, Delete, Update, Asked, Answered, Thrown

LEMMA SettingsOps ==
  ASSUME NEW n
  PROVE  /\ TeamNext(n) => calls[n].op \in TeamOps
         /\ MonitorsNext(n) => calls[n].op \in MonitorsOps
         /\ HeartbeatsNext(n) => calls[n].op \in HeartbeatsOps
         /\ MaintenanceNext(n) => calls[n].op \in MaintenanceOps
         /\ GeneralNext(n) => calls[n].op \in {"save", "checkSsl"}
         /\ FunnelNext(n) => calls[n].op = "saveFunnel"
         /\ PrivacyNext(n) => calls[n].op \in Public \cup {"saveSettings"}
<1>1. TeamNext(n) => calls[n].op \in TeamOps
  BY ShapeOps DEF TeamNext, TeamServer, createInviteHandler, sendInviteThen,
    deleteInviteThen, removeMemberThen, TeamOps
<1>2. MonitorsNext(n) => calls[n].op \in MonitorsOps
  BY ShapeOps DEF MonitorsNext, MonitorsServer, addMonitorThen, toggleMonitorThen,
    deleteMonitorThen, loadChecksThen, MonitorsOps
<1>3. HeartbeatsNext(n) => calls[n].op \in HeartbeatsOps
  BY ShapeOps DEF HeartbeatsNext, HeartbeatsServer, addHeartbeatThen, deleteHeartbeatThen,
    HeartbeatsOps
<1>4. MaintenanceNext(n) => calls[n].op \in MaintenanceOps
  BY ShapeOps DEF MaintenanceNext, MaintenanceServer, addMaintenanceThen,
    deleteMaintenanceThen, MaintenanceOps
<1>5. GeneralNext(n) => calls[n].op \in {"save", "checkSsl"}
  BY ShapeOps DEF GeneralNext, GeneralServer, saveThen, checkSslThen
<1>6. FunnelNext(n) => calls[n].op = "saveFunnel"
  BY ShapeOps DEF FunnelNext, replaceFunnelHandler, saveFunnelThen
<1>7. PrivacyNext(n) => calls[n].op \in Public \cup {"saveSettings"}
  BY ShapeOps DEF PrivacyNext, PrivacyServer, readShared, writeShared, PublicAt,
    saveSettingsThen, savePublicThen, regenPublicThen, Public
<1> QED BY <1>1, <1>2, <1>3, <1>4, <1>5, <1>6, <1>7

LEMMA OtherOps ==
  ASSUME NEW n
  PROVE  /\ UsersNext(n) => section = "users" \/ calls[n].op \in UsersOps
         /\ SitesNext(n) => calls[n].op \in {"create", "remove"}
         /\ AccountNext(n) => calls[n].op \in AccountOps
         /\ GoalsNext(n) => calls[n].op \in GoalsOps
         /\ EventsNext(n) => calls[n].op = "occurrences"
         /\ CardsNext(n) => calls[n].op = "card"
         /\ PanelsNext(n) => calls[n].op = "load"
         /\ NotificationsNext(n) => section = "notifications"
         /\ AccountsNext(n) => section \in {"sessions", "admins", "invite"}
<1>1. UsersNext(n) => section = "users" \/ calls[n].op \in UsersOps
  BY ShapeOps DEF UsersNext, addUserThen, changeRoleThen, resetPasswordThen, removeUserThen,
    UsersOps
<1>2. SitesNext(n) => calls[n].op \in {"create", "remove"}
  BY ShapeOps DEF SitesNext, createThen, removeThen
<1>3. AccountNext(n) => calls[n].op \in AccountOps
  BY ShapeOps DEF AccountNext, AccountServer, loadKeys, createKeyThen, revokeThen,
    changePasswordThen, AccountOps
<1>4. GoalsNext(n) => calls[n].op \in GoalsOps
  BY ShapeOps DEF GoalsNext, SitePage, setGoalsEffect, addGoalThen, deleteGoalThen, GoalsOps
<1>5. /\ EventsNext(n) => calls[n].op = "occurrences"
      /\ CardsNext(n) => calls[n].op = "card"
      /\ PanelsNext(n) => calls[n].op = "load"
  BY ShapeOps DEF EventsNext, eventOccurrences, toggleEventThen, CardsNext, cardQuery,
    EngagementCard, EntryExitCard, PanelsNext, loadPanel, loadThen
<1>6. /\ NotificationsNext(n) => section = "notifications"
      /\ AccountsNext(n) => section \in {"sessions", "admins", "invite"}
  BY DEF NotificationsNext, Here, AccountsNext, SessionsNext, AdminsNext, InviteNext
<1> QED BY <1>1, <1>2, <1>3, <1>4, <1>5, <1>6

(* Where the clicks, reloads and effects are. *)
LEMMA SettingsClickSections ==
  SettingsClick =>
    \/ section = "team" /\ \/ \E e \in {Stranger, Registered} : sendInvite(e)
                           \/ \E r \in ui.rows : deleteInvite(r.id) \/ removeMember(r.id)
    \/ section = "monitors" /\ \/ addMonitor
                               \/ \E m \in ui.rows : toggleMonitor(m) \/ deleteMonitor(m)
                                                       \/ loadChecks(m)
    \/ section = "heartbeats" /\ (addHeartbeat \/ \E r \in ui.rows : deleteHeartbeat(r.id))
    \/ section = "maintenance" /\ \/ pickDays \/ addMaintenance
                                  \/ \E r \in ui.rows : deleteMaintenance(r.id)
    \/ section = "general" /\ ((\E d \in 0..2 : edit(d)) \/ save \/ checkSsl)
    \/ section = "funnel" /\ ((\E s \in Steps : type(s)) \/ saveFunnel)
    \/ section = "privacy" /\ \/ tick \/ saveSettings
                              \/ \E on \in 0..1 : savePublic(on)
                              \/ regenPublic
BY DEF SettingsClick, sendInvite, deleteInvite, removeMember, addMonitor, toggleMonitor,
  deleteMonitor, loadChecks, addHeartbeat, deleteHeartbeat, pickDays, addMaintenance,
  deleteMaintenance, edit, save, checkSsl, type, saveFunnel, tick, saveSettings, savePublic,
  regenPublic

LEMMA OtherClickSections ==
  /\ NotificationsClick => section = "notifications"
  /\ PagesClick =>
       \/ section = "users" /\ \/ addUser
                               \/ \E u \in ui.rows : changeRole(u) \/ resetPassword(u.id)
                                                       \/ removeUser(u.id)
       \/ section = "sites" /\ (create \/ \E s \in ui.rows : remove(s.id))
       \/ section = "account" /\ \/ createKey \/ changePassword
                                 \/ \E k \in ui.rows : revoke(k.id)
  /\ StatsClick =>
       \/ section = "goals" /\ \/ \E q : Push(q)
                               \/ addGoal \/ \E g \in ui.rows : deleteGoal(g.id)
       \/ section = "events" /\ (newPeriod \/ \E e \in 1..2 : toggleEvent(e))
       \/ section \in {"engagement", "entry"} /\ \E q \in 0..1 : ask(q)
       \/ section \in Panels /\ (visitorComes \/ interval)
  /\ AccountsClick => section \in {"sessions", "admins", "invite"}
<1>1. NotificationsClick => section = "notifications"
  BY DEF NotificationsClick, addProvider, clearLogs, addRule, addReport, deleteProvider,
    testProvider, toggleRule, deleteRule, testRule, toggleReport, deleteReport, testReport, Here
<1>2. PagesClick =>
       \/ section = "users" /\ \/ addUser
                               \/ \E u \in ui.rows : changeRole(u) \/ resetPassword(u.id)
                                                       \/ removeUser(u.id)
       \/ section = "sites" /\ (create \/ \E s \in ui.rows : remove(s.id))
       \/ section = "account" /\ \/ createKey \/ changePassword
                                 \/ \E k \in ui.rows : revoke(k.id)
  BY DEF PagesClick, addUser, changeRole, resetPassword, removeUser, create, remove,
    createKey, changePassword, revoke
<1>3. StatsClick =>
       \/ section = "goals" /\ \/ \E q : Push(q)
                               \/ addGoal \/ \E g \in ui.rows : deleteGoal(g.id)
       \/ section = "events" /\ (newPeriod \/ \E e \in 1..2 : toggleEvent(e))
       \/ section \in {"engagement", "entry"} /\ \E q \in 0..1 : ask(q)
       \/ section \in Panels /\ (visitorComes \/ interval)
  <2>1. \A q : Push(q) => section = "goals"
    BY DEF Push
  <2>2. (\E f \in 0..1 : setFilter(f)) \/ clearFilters \/ applyRange
          \/ (\E s \in Spans : setPeriod(s)) => \E q : Push(q)
    BY DEF setFilter, clearFilters, applyRange, setPeriod, go
  <2>3. addGoal \/ (\E g \in ui.rows : deleteGoal(g.id)) => section = "goals"
    BY DEF addGoal, deleteGoal
  <2>4. newPeriod \/ (\E e \in 1..2 : toggleEvent(e)) => section = "events"
    BY DEF newPeriod, toggleEvent
  <2>5. (\E q \in 0..1 : ask(q)) => section \in {"engagement", "entry"}
    BY DEF ask
  <2>6. visitorComes \/ interval => section \in Panels
    BY DEF visitorComes, interval
  <2> QED BY <2>1, <2>2, <2>3, <2>4, <2>5, <2>6 DEF StatsClick
<1>4. AccountsClick => section \in {"sessions", "admins", "invite"}
  BY DEF AccountsClick, onSubmit, deviceLogin, submitPassword, resetByAdmin, signOut, demote,
    submit
<1> QED BY <1>1, <1>2, <1>3, <1>4

LEMMA EffectSections ==
  Effect =>
    \/ section = "account" /\ mountEffect
    \/ section \in {"engagement", "entry"} /\ cardEffect
    \/ section = "visitors" /\ mountPanel
    \/ section = "realtime" /\ RealtimePanel
    \/ section = "invite"
BY DEF Effect, mountEffect, StatsEffects, cardEffect, mountPanel, RealtimePanel, onmessage,
  onerror, toLogin

-----------------------------------------------------------------------------
(* The accounts beside the pages: a request under way in one of their sections *)
(* is theirs, so a step there is one of AccountsStep.                       *)
LEMMA OpKept ==
  ASSUME CallsOK, NEW n \in Calls,
         \/ \E newdb, got : Reply(n, newdb, got)
         \/ \E got : Within(n, got)
         \/ \E newui : Await(n, newui) \/ Finish(n, newui)
         \/ Refuse(n) \/ Lose(n)
  PROVE  /\ \A m \in Calls \ {n} : calls'[m] = calls[m]
         /\ calls'[n].op = calls[n].op \/ calls'[n].op = "none"
BY ReplyFacts, WithinFacts, AwaitFacts, FinishFacts, RefuseFacts, LoseFacts, NoCallFacts
  DEF Replied, Ended, SameRequest, Others

AccountsOps == {"login", "device", "password", "logout", "demote", "delete", "accept"}
AccountsCalls == \A n \in Calls : calls[n].op \in AccountsOps \cup {"none"}

LEMMA AccountsClicked ==
  ASSUME CallsOK, AccountsCalls, AccountsClick
  PROVE  AccountsCalls'
<1>1. ASSUME NEW op \in AccountsOps, NEW arg, NEW newui, Send(op, arg, newui)
      PROVE  AccountsCalls'
  <2>1. Start(op, arg, FALSE, newui, 1)
    BY <1>1 DEF Send
  <2>2. \A m \in Calls : calls'[m] = calls[m] \/ calls'[m].op = op
    BY <2>1, StartFacts
  <2> QED BY <1>1, <2>2 DEF AccountsCalls
<1>2. CASE resetByAdmin
  BY <1>2 DEF resetByAdmin, AccountsCalls
<1>3. CASE submitPassword \/ signOut
  BY <1>1, <1>3 DEF submitPassword, signOut, AccountsOps
<1>4. ASSUME NEW pw, onSubmit(pw) \/ deviceLogin(pw) \/ submit(pw) PROVE AccountsCalls'
  BY <1>1, <1>4 DEF onSubmit, deviceLogin, submit, AccountsOps
<1>5. ASSUME NEW op, NEW u, demote(op, u) PROVE AccountsCalls'
  BY <1>1, <1>5 DEF demote, AccountsOps
<1> QED BY <1>2, <1>3, <1>4, <1>5 DEF AccountsClick

LEMMA AccountsGoOn ==
  ASSUME CallsOK, AccountsCalls, NEW n \in Calls, AccountsNext(n) \/ Lose(n) \/ failInvite(n)
  PROVE  AccountsCalls'
<1>1. CASE \/ \E newdb, got : Reply(n, newdb, got)
           \/ \E got : Within(n, got)
           \/ \E newui : Await(n, newui) \/ Finish(n, newui)
           \/ Refuse(n) \/ Lose(n)
  BY <1>1, OpKept DEF AccountsCalls
<1>2. CASE writeUser(n)
  <2>1. calls' = [calls EXCEPT ![n] = NoCall]
    BY <1>2 DEF writeUser
  <2>2. Others(n) /\ calls'[n] = NoCall
    BY <2>1, Written, NoCallFacts
  <2> QED BY <2>2, NoCallFacts DEF Others, AccountsCalls
<1>3. CASE SessionsNext(n)
  BY <1>1, <1>3 DEF SessionsNext, loginHandler, authorize, changePasswordHandler,
    submitPasswordThen, logoutHandler, signOutThen
<1>4. CASE AdminsNext(n)
  BY <1>1, <1>2, <1>4 DEF AdminsNext, lastAdminCheck, adminTold
<1>5. CASE acceptInviteHandler(n)
  BY <1>1, <1>5 DEF acceptInviteHandler, GoTo, readInvite, insertUser, insertMember,
    deleteTheInvite, answerInvite
<1>6. CASE submitThen(n)
  BY <1>1, <1>6 DEF submitThen
<1>7. CASE failInvite(n)
  BY <1>1, <1>7 DEF failInvite
<1> QED BY <1>1, <1>3, <1>4, <1>5, <1>6, <1>7 DEF AccountsNext, InviteNext

(* What goes on in a section of the accounts is a step of theirs. *)
LEMMA AccountsSteps ==
  ASSUME section \in {"sessions", "admins", "invite"}, AccountsCalls, Next
  PROVE  AccountsStep \/ UNCHANGED pageVars
<1>1. CASE Click
  <2>1. AccountsClick
    BY <1>1, SettingsClickSections, OtherClickSections DEF Click, Panels
  <2> QED BY <2>1 DEF AccountsStep
<1>2. CASE Reload
  BY <1>2 DEF Reload, SiteSettingsPage, NotificationsLoad, Here, AdminUsersPage, SitesPage,
    AccountPage
<1>3. CASE Effect
  <2>1. toLogin
    BY <1>3 DEF Effect, mountEffect, StatsEffects, cardEffect, mountPanel, RealtimePanel,
      onmessage, onerror
  <2> QED BY <2>1 DEF AccountsStep
<1>4. CASE TrackerStep
  BY <1>4 DEF TrackerStep, pageVars
<1>5. ASSUME NEW n \in Calls, Progress(n) PROVE AccountsStep
  <2>1. calls[n].op \in AccountsOps \cup {"none"}
    BY DEF AccountsCalls
  <2>2. AccountsNext(n)
    BY <1>5, <2>1, SettingsOps, OtherOps DEF Progress, SettingsNext, PagesNext, StatsNext,
      TeamOps, MonitorsOps, HeartbeatsOps, MaintenanceOps, UsersOps, AccountOps, GoalsOps,
      Public, AccountsOps
  <2> QED BY <2>2 DEF AccountsStep
<1>6. ASSUME NEW n \in Calls, Break(n) PROVE AccountsStep
  BY <1>6 DEF Break, AccountsStep
<1> QED BY <1>1, <1>2, <1>3, <1>4, <1>5, <1>6 DEF Next

AccountsHere == section \in {"sessions", "admins", "invite"} => AccountsInv /\ AccountsCalls

LEMMA AccountsStay == AccountsHere /\ [Next]_vars => AccountsHere'
<1> SUFFICES ASSUME section \in {"sessions", "admins", "invite"}, AccountsInv, AccountsCalls,
                    [Next]_vars
             PROVE  AccountsInv' /\ AccountsCalls'
  BY SectionStays DEF AccountsHere
<1>1. CASE UNCHANGED pageVars
  BY <1>1 DEF pageVars, AccountsInv, CallsOK, SessionsInv, SessionTables, SessionRow,
              Compared, AdminsInv, AdminTables, CountedTwo, TheAdmins, InviteInv,
              InviteTables, Spent, Joined, AccountsCalls
<1>2. CASE AccountsStep
  <2>1. AccountsInv'
    BY <1>2, SessionsPreserved, AdminsPreserved, InvitePreserved DEF AccountsInv
  <2>2. AccountsCalls'
    <3>1. CASE toLogin
      BY <3>1 DEF toLogin, AccountsCalls
    <3> QED BY <1>2, <3>1, AccountsClicked, AccountsGoOn DEF AccountsStep, AccountsInv
  <2> QED BY <2>1, <2>2
<1> QED BY <1>1, <1>2, AccountsSteps DEF vars, pageVars

LEMMA AccountsAlways == Spec => []AccountsHere
<1>1. Init => AccountsHere
  <2> SUFFICES ASSUME Init, section \in {"sessions", "admins", "invite"}
               PROVE  AccountsInv /\ AccountsCalls
    BY DEF AccountsHere
  <2>1. AccountsInit
    BY DEF Init, SettingsInit, NotificationsInit, PagesInit, UsersInit, SitesInit, AccountInit,
      StatsInit, GoalsInit, EventsInit, CardInit, LiveInit, Open
  <2>2. \A n \in Calls : calls[n] = NoCall
    BY <2>1, OpenFacts DEF AccountsInit, SessionsInit, AdminsInit, InviteInit
  <2> QED BY <2>1, <2>2, AccountsInitInv, NoCallFacts DEF AccountsCalls
<1> QED BY <1>1, AccountsStay, PTL DEF Spec

(* A change of the password leaves no session of an older one, but the        *)
(* changer's own and those of logins it has overtaken: OldPasswordSessions.  *)
THEOREM NoOldSessions == Spec => []OldPasswordSessions
<1>1. AccountsHere => OldPasswordSessions
  BY DEF AccountsHere, AccountsInv, SessionsInv, SessionRow, OldPasswordSessions
<1> QED BY <1>1, AccountsAlways, PTL

(* The last admin stays, unless two requests had counted two: LastAdmin.      *)
THEOREM LastAdminStays == Spec => []LastAdmin
<1>1. AccountsHere => LastAdmin
  BY DEF AccountsHere, AccountsInv, AdminsInv, LastAdmin
<1> QED BY <1>1, AccountsAlways, PTL

(* However its statements fail, an invite is spent for a membership only:     *)
(* InviteSpentForMembership.                                                *)
THEOREM InviteNeverLost == Spec => []InviteSpentForMembership
<1>1. AccountsHere => InviteSpentForMembership
  BY DEF AccountsHere, AccountsInv, InviteInv, InviteTables, Spent, InviteSpentForMembership
<1> QED BY <1>1, AccountsAlways, PTL

-----------------------------------------------------------------------------
(* Privacy.  What is shown is what is stored, but between the write of a      *)
(* request and the end of its handler; and a request that has read the columns *)
(* remembers them as they are, if no other handler disturbs it.              *)
PrivacyTables ==
  /\ db = [rows |-> db.rows, made |-> db.made, hashing |-> db.hashing,
           enabled |-> db.enabled, token |-> db.token]
  /\ ui = [rows |-> ui.rows, busy |-> ui.busy, hashing |-> ui.hashing,
           enabled |-> ui.enabled, token |-> ui.token]
  /\ db.made \in Nat

Agreeing == ui.enabled = db.enabled /\ ui.token = db.token

ReadGot(g) ==
  g = [pc |-> g.pc, enabled |-> g.enabled, token |-> g.token] /\ g.pc \in {"read", "written"}

PublicCall(c) ==
  /\ c.op \in Public \cup {"saveSettings", "none"}
  /\ c.op \in Public => c.at # "none"
  /\ c.at \in {"sent", "left"} /\ c.op \in Public =>
       \A g \in c.got : ReadGot(g) /\ c.got = {g}

PublicCalm(c) ==
  /\ c.at \in {"none", "sent", "ok", "failed"}
  /\ c.op \in Public =>
     /\ c.at # "failed"
     /\ c.at = "sent" /\ c.got = {} => Agreeing
     /\ c.at = "sent" => \A g \in c.got : g.pc = "read" =>
          Agreeing /\ g.enabled = db.enabled /\ g.token = db.token
     /\ c.op = "regenPublic" => ui.enabled = db.enabled
     /\ c.at = "ok" => c.got = {Shared}

PrivacyCalm ==
  /\ \A n \in Calls : PublicCalm(calls[n])
  /\ \A m, n \in Calls : calls[m].op \in Public /\ calls[n].at # "none" => m = n
  /\ (\A n \in Calls : calls[n].op \notin Public) => Agreeing

PrivacyState ==
  /\ PageOK /\ PrivacyTables
  /\ db.enabled = 1 => db.token # 0
  /\ \A n \in Calls : PublicCall(calls[n])
  /\ Calm => PrivacyCalm

LEMMA NoneCall ==
  ASSUME NEW c, c = NoCall
  PROVE  PublicCall(c) /\ PublicCalm(c) /\ c.op \notin Public /\ c.at = "none"
BY NoCallFacts DEF PublicCall, PublicCalm, Public

(* A step that stores nothing, and shows the same settings. *)
LEMMA PrivacyFrame ==
  ASSUME PrivacyState, PageOK', PrivacyTables', UNCHANGED db,
         ui'.enabled = ui.enabled, ui'.token = ui.token,
         NEW n \in Calls, Others(n), PublicCall(calls[n])',
         Calm' => /\ Calm /\ PublicCalm(calls[n])'
                  /\ calls'[n].op \in Public => \A m \in Calls \ {n} : calls[m].at = "none"
                  /\ calls'[n].at # "none" => \A m \in Calls \ {n} : calls[m].op \notin Public
                  /\ calls'[n].op \notin Public => calls[n].op \notin Public \/ Agreeing
  PROVE  PrivacyState'
<1>1. Agreeing' = Agreeing
  BY DEF Agreeing
<1>2. \A m \in Calls : PublicCall(calls[m])'
  BY DEF Others, PrivacyState, PublicCall, ReadGot
<1>3. Calm' => PrivacyCalm'
  <2> SUFFICES ASSUME Calm' PROVE PrivacyCalm'
    OBVIOUS
  <2>1. PrivacyCalm
    BY DEF PrivacyState
  <2>2. \A m \in Calls : PublicCalm(calls[m])'
    BY <1>1, <2>1 DEF Others, PrivacyCalm, PublicCalm, Shared
  <2>3. \A m, k \in Calls : calls'[m].op \in Public /\ calls'[k].at # "none" => m = k
    BY <2>1 DEF Others, PrivacyCalm
  <2>4. (\A m \in Calls : calls'[m].op \notin Public) => Agreeing'
    BY <1>1, <2>1 DEF Others, PrivacyCalm
  <2> QED BY <2>2, <2>3, <2>4 DEF PrivacyCalm
<1> QED BY <1>2, <1>3 DEF PrivacyState

LEMMA PrivacyStarts ==
  ASSUME PrivacyState, NEW op, op \in Public \cup {"saveSettings"}, NEW arg, NEW to, NEW newui,
         Start(op, arg, to, newui, 1), PrivacyTables',
         newui.enabled = ui.enabled, newui.token = ui.token
  PROVE  PrivacyState'
<1>1. /\ PageOK' /\ UNCHANGED db /\ ui' = newui
      /\ Calm' => Calm
      /\ \E n \in Calls :
           /\ calls[n] = NoCall /\ Others(n)
           /\ calls'[n].op = op /\ calls'[n].stage = 1 /\ calls'[n].at = "sent"
           /\ calls'[n].got = {}
      /\ Calm' => \A i \in Calls : calls[i].at # "none" =>
                    op \notin Refetching /\ calls[i].op \notin Refetching
  BY StartStep DEF PrivacyState, Calm
<1>2. PICK n \in Calls :
           /\ calls[n] = NoCall /\ Others(n)
           /\ calls'[n].op = op /\ calls'[n].stage = 1 /\ calls'[n].at = "sent"
           /\ calls'[n].got = {}
  BY <1>1
<1>3. PublicCall(calls[n])'
  BY <1>2 DEF PublicCall
<1>4. Public \subseteq Refetching /\ "saveSettings" \notin Public /\ "none" \notin Public
  BY DEF Public, Refetching
<1>5. ASSUME Calm'
      PROVE  /\ Calm /\ PublicCalm(calls[n])'
             /\ calls'[n].op \in Public => \A m \in Calls \ {n} : calls[m].at = "none"
             /\ calls'[n].at # "none" => \A m \in Calls \ {n} : calls[m].op \notin Public
             /\ calls'[n].op \notin Public => calls[n].op \notin Public \/ Agreeing
  <2>1. Calm /\ PrivacyCalm
    BY <1>1, <1>5 DEF PrivacyState
  <2>2. op \in Public => \A m \in Calls : calls[m].at = "none"
    BY <1>1, <1>4, <1>5
  <2>3. \A m \in Calls : calls[m].op \notin Public
    BY <1>1, <1>4, <1>5 DEF PrivacyState, PublicCall
  <2>4. Agreeing
    BY <2>1, <2>3 DEF PrivacyCalm
  <2>5. PublicCalm(calls[n])'
    BY <1>1, <1>2, <2>4 DEF PublicCalm, Agreeing
  <2> QED BY <1>2, <2>1, <2>2, <2>3, <2>4, <2>5
<1> QED BY <1>1, <1>2, <1>3, <1>5, PrivacyFrame

(* A handler that ends or a request that fails, with nothing stored or shown. *)
LEMMA PrivacyFails ==
  ASSUME PrivacyState, PageOK', UNCHANGED <<db, ui>>, NEW n \in Calls, Others(n),
         Fails(n), calls[n].op \in Public => ~Calm', Calm' => Calm,
         calls[n].at # "none"
  PROVE  PrivacyState'
<1>1. PrivacyTables'
  BY DEF PrivacyState, PrivacyTables
<1>2. PublicCall(calls[n])'
  BY NoneCall DEF Fails, Further, PrivacyState, PublicCall
<1>3. ASSUME Calm'
      PROVE  /\ Calm /\ PublicCalm(calls[n])'
             /\ calls'[n].op \in Public => \A m \in Calls \ {n} : calls[m].at = "none"
             /\ calls'[n].at # "none" => \A m \in Calls \ {n} : calls[m].op \notin Public
             /\ calls'[n].op \notin Public => calls[n].op \notin Public \/ Agreeing
  <2>1. Calm /\ PrivacyCalm /\ calls[n].op \notin Public
    BY <1>3 DEF PrivacyState
  <2>2. PublicCalm(calls[n])' /\ calls'[n].op \notin Public
    BY <2>1, NoneCall DEF Fails, Further, PublicCalm
  <2> QED BY <2>1, <2>2 DEF PrivacyCalm
<1> QED BY <1>1, <1>2, <1>3, PrivacyFrame

LEMMA PrivacyFinishes ==
  ASSUME PrivacyState, NEW n \in Calls, NEW newui, Finish(n, newui), PrivacyTables',
         newui.enabled = ui.enabled, newui.token = ui.token,
         Calm /\ calls[n].op \in Public => Agreeing
  PROVE  PrivacyState'
<1>1. /\ PageOK' /\ UNCHANGED <<db, hist>> /\ ui' = newui /\ Others(n) /\ calls'[n] = NoCall
  BY FinishStep DEF PrivacyState
<1>2. PublicCall(calls[n])' /\ PublicCalm(calls[n])' /\ calls'[n].op \notin Public
      /\ calls'[n].at = "none"
  BY <1>1, NoneCall DEF PublicCall, PublicCalm
<1>3. Calm' => Calm
  BY <1>1 DEF Calm
<1> QED BY <1>1, <1>2, <1>3, PrivacyFrame

(* The only handler that changes what is stored or shown knows how it stands. *)
LEMMA PrivacyAlone ==
  ASSUME PrivacyState, PageOK', PrivacyTables', UNCHANGED hist, db'.enabled = 1 => db'.token # 0,
         NEW n \in Calls, Others(n), calls[n].op \in Public, PublicCall(calls[n])',
         Calm => /\ PublicCalm(calls[n])'
                 /\ calls'[n].op \notin Public => Agreeing'
  PROVE  PrivacyState'
<1>1. \A m \in Calls : PublicCall(calls[m])'
  BY DEF Others, PrivacyState, PublicCall, ReadGot
<1>2. ASSUME Calm' PROVE PrivacyCalm'
  <2>1. Calm /\ PrivacyCalm
    BY <1>2 DEF Calm, PrivacyState
  <2>2. \A m \in Calls \ {n} : calls'[m] = NoCall
    BY <2>1 DEF PrivacyCalm, PrivacyState, PageOK, Others
  <2>3. \A m \in Calls \ {n} : PublicCalm(calls[m])' /\ calls'[m].at = "none"
                               /\ calls'[m].op \notin Public
    BY <2>2, NoneCall DEF PublicCalm
  <2> QED BY <2>1, <2>3 DEF PrivacyCalm
<1> QED BY <1>1, <1>2 DEF PrivacyState

LEMMA TablesKept == PrivacyTables /\ UNCHANGED <<db, ui>> => PrivacyTables'
BY DEF PrivacyTables

LEMMA ReadPreserves ==
  ASSUME PrivacyState, NEW n \in Calls, readShared(n)
  PROVE  PrivacyState'
<1> DEFINE g == [pc |-> "read", enabled |-> db.enabled, token |-> db.token]
<1>1. Within(n, g) /\ calls[n].got = {} /\ calls[n].at \in {"sent", "left"}
      /\ calls[n].op \in Public /\ UNCHANGED db
  BY DEF readShared, Asked, Public
<1>2. ReadGot(g) /\ g.pc = "read" /\ g.enabled = db.enabled /\ g.token = db.token
  BY DEF ReadGot
<1> HIDE DEF g
<1>3. /\ PageOK' /\ UNCHANGED <<section, ui, hist>> /\ Others(n)
      /\ Further(n, calls[n].at, {g})
  BY <1>1, WithinStep DEF PrivacyState
<1>4. PublicCall(calls[n])'
  BY <1>1, <1>2, <1>3 DEF PublicCall, Further, ReadGot
<1>5. Calm => PublicCalm(calls[n])'
  <2> SUFFICES ASSUME Calm PROVE PublicCalm(calls[n])'
    OBVIOUS
  <2>1. Agreeing
    BY <1>1 DEF PrivacyState, PrivacyCalm, PublicCalm
  <2>2. calls'[n].at = "sent" /\ calls'[n].got = {g} /\ calls'[n].op = calls[n].op
    BY <1>1, <1>3 DEF Further, PrivacyState, PrivacyCalm, PublicCalm
  <2> QED BY <1>1, <1>2, <1>3, <2>1, <2>2 DEF PublicCalm, Agreeing
<1>6. PrivacyTables'
  BY <1>1, <1>3, TablesKept DEF PrivacyState
<1>7. calls'[n].op \in Public
  BY <1>1, <1>3 DEF Further
<1> QED BY <1>1, <1>3, <1>4, <1>5, <1>6, <1>7, PrivacyAlone DEF PrivacyState

LEMMA WritePreserves ==
  ASSUME PrivacyState, NEW n \in Calls, writeShared(n)
  PROVE  PrivacyState'
<1>1. calls[n].op \in Public /\ calls[n].at \in {"sent", "left"}
  BY DEF writeShared, PublicAt, Asked, Public
<1>2. PICK g \in calls[n].got :
        LET on == IF calls[n].op = "savePublic" THEN calls[n].arg ELSE g.enabled
            token == IF calls[n].op = "savePublic" THEN Mint(on, g.token) ELSE Mint(1, 0)
        IN /\ db' = [db EXCEPT !.enabled = on, !.token = token,
                               !.made = IF token = NewId THEN @ + 1 ELSE @]
           /\ Within(n, [g EXCEPT !.pc = "written"])
  BY DEF writeShared
<1> DEFINE on == IF calls[n].op = "savePublic" THEN calls[n].arg ELSE g.enabled
           token == IF calls[n].op = "savePublic" THEN Mint(on, g.token) ELSE Mint(1, 0)
           minted == IF token = NewId THEN db.made + 1 ELSE db.made
           w == [g EXCEPT !.pc = "written"]
<1>3. db' = [db EXCEPT !.enabled = on, !.token = token, !.made = minted] /\ Within(n, w)
  BY <1>2
<1>4. minted \in Nat /\ (on = 1 => token # 0)
  BY DEF PrivacyState, PrivacyTables, Mint, NewId
<1>5. ReadGot(w) /\ w.pc = "written" /\ g.pc = "read"
  <2>1. ReadGot(g) /\ calls[n].got = {g}
    BY <1>1 DEF PrivacyState, PublicCall
  <2>2. g.pc = "read"
    BY <2>1 DEF writeShared, PublicAt
  <2> QED BY <2>1, <2>2 DEF ReadGot
<1>6. calls[n].op = "regenPublic" => on = g.enabled
  OBVIOUS
<1> HIDE DEF w, on, token, minted
<1>7. db' = [rows |-> db.rows, made |-> minted, hashing |-> db.hashing, enabled |-> on,
             token |-> token]
  BY <1>3 DEF PrivacyState, PrivacyTables
<1>8. /\ PageOK' /\ UNCHANGED <<section, ui, hist>> /\ Others(n)
      /\ Further(n, calls[n].at, {w})
  BY <1>1, <1>3, WithinStep DEF PrivacyState
<1>9. PrivacyTables' /\ db'.enabled = on /\ db'.token = token
  BY <1>4, <1>7, <1>8 DEF PrivacyState, PrivacyTables
<1>10. PublicCall(calls[n])'
  BY <1>1, <1>5, <1>8 DEF PublicCall, Further, ReadGot
<1>11. Calm => PublicCalm(calls[n])'
  <2> SUFFICES ASSUME Calm PROVE PublicCalm(calls[n])'
    OBVIOUS
  <2>1. PublicCalm(calls[n])
    BY DEF PrivacyState, PrivacyCalm
  <2>2. /\ calls'[n].at = "sent" /\ calls'[n].got = {w} /\ calls'[n].op = calls[n].op
        /\ calls[n].at = "sent"
    BY <1>1, <1>8, <2>1 DEF Further, PublicCalm
  <2>3. calls[n].op = "regenPublic" => ui'.enabled = db'.enabled
    <3> SUFFICES ASSUME calls[n].op = "regenPublic" PROVE ui'.enabled = db'.enabled
      OBVIOUS
    <3>1. on = g.enabled
      BY <1>6
    <3>2. ui.enabled = db.enabled /\ g.enabled = db.enabled
      BY <1>5, <2>1, <2>2 DEF PublicCalm, Public
    <3> QED BY <3>1, <3>2, <1>8, <1>9
  <2> QED BY <1>5, <2>2, <2>3 DEF PublicCalm, ReadGot
<1>12. calls'[n].op \in Public
  BY <1>1, <1>8 DEF Further
<1> QED BY <1>1, <1>4, <1>8, <1>9, <1>10, <1>11, <1>12, PrivacyAlone

LEMMA PublicReplies ==
  ASSUME PrivacyState, NEW n \in Calls, PublicAt(n, "written"), Reply(n, db, {Shared})
  PROVE  PrivacyState'
<1>1. calls[n].op \in Public
  BY DEF PublicAt, Asked, Public
<1>2. /\ PageOK' /\ UNCHANGED <<section, ui>> /\ db' = db /\ Others(n)
      /\ \/ calls[n].at = "sent" /\ hist' = hist /\ Further(n, "ok", {Shared})
         \/ calls[n].at = "sent" /\ hist'.lost /\ hist'.raced = hist.raced
            /\ Further(n, "failed", calls[n].got)
         \/ calls[n].at = "left" /\ hist' = hist /\ calls'[n] = NoCall
  BY ReplyStep DEF PrivacyState
<1>3. CASE calls[n].at = "sent" /\ hist' = hist /\ Further(n, "ok", {Shared})
  <2>1. PublicCall(calls[n])' /\ calls'[n].op \in Public
    BY <1>1, <1>3 DEF PublicCall, Further
  <2>2. Calm => PublicCalm(calls[n])'
    BY <1>1, <1>2, <1>3 DEF PrivacyState, PrivacyCalm, PublicCalm, Further, Shared
  <2>3. PrivacyTables'
    BY <1>2, TablesKept DEF PrivacyState
  <2> QED BY <1>1, <1>2, <1>3, <2>1, <2>2, <2>3, PrivacyAlone DEF PrivacyState
<1>4. CASE calls[n].at = "sent" /\ hist'.lost /\ hist'.raced = hist.raced
           /\ Further(n, "failed", calls[n].got)
  BY <1>1, <1>2, <1>4, PrivacyFails DEF Fails, Calm
<1>5. CASE calls[n].at = "left" /\ hist' = hist /\ calls'[n] = NoCall
  <2>1. ~Calm
    BY <1>1, <1>5 DEF PrivacyState, PrivacyCalm, PublicCalm
  <2> QED BY <1>1, <1>2, <1>5, <2>1, PrivacyFails DEF Fails, Calm
<1> QED BY <1>2, <1>3, <1>4, <1>5

(* The end of a handler shows what its answer says. *)
LEMMA PublicShown ==
  ASSUME PrivacyState, NEW n \in Calls, savePublicThen(n) \/ regenPublicThen(n)
  PROVE  PrivacyState'
<1>1. CASE (Thrown(n, "savePublic") \/ Thrown(n, "regenPublic")) /\ Finish(n, ui)
  <2>1. calls[n].op \in Public /\ calls[n].at = "failed"
    BY <1>1 DEF Thrown, Public
  <2>2. ~Calm
    BY <2>1 DEF PrivacyState, PrivacyCalm, PublicCalm
  <2>3. PrivacyTables'
    BY <1>1, TablesKept DEF PrivacyState, Finish
  <2> QED BY <1>1, <2>2, <2>3, PrivacyFinishes
<1>2. ASSUME calls[n].op \in Public, calls[n].at = "ok", NEW s \in calls[n].got, NEW newui,
             Finish(n, newui),
             \/ newui = [ui EXCEPT !.enabled = s.enabled, !.token = s.token]
             \/ newui = [ui EXCEPT !.token = s.token] /\ calls[n].op = "regenPublic"
      PROVE  PrivacyState'
  <2>1. /\ PageOK' /\ UNCHANGED <<section, db, hist>> /\ ui' = newui /\ Others(n)
        /\ calls'[n] = NoCall
    BY <1>2, FinishStep DEF PrivacyState
  <2>2. /\ newui.token = s.token
        /\ \/ newui.enabled = s.enabled
           \/ newui.enabled = ui.enabled /\ calls[n].op = "regenPublic"
        /\ newui = [rows |-> newui.rows, busy |-> newui.busy, hashing |-> newui.hashing,
                    enabled |-> newui.enabled, token |-> newui.token]
    <3> DEFINE shown == [ui EXCEPT !.enabled = s.enabled]
    <3>1. shown = [rows |-> ui.rows, busy |-> ui.busy, hashing |-> ui.hashing,
                   enabled |-> s.enabled, token |-> ui.token]
      BY DEF PrivacyState, PrivacyTables
    <3>2. \/ newui = [shown EXCEPT !.token = s.token]
          \/ newui = [ui EXCEPT !.token = s.token] /\ calls[n].op = "regenPublic"
      BY <1>2
    <3> HIDE DEF shown
    <3>3. CASE newui = [shown EXCEPT !.token = s.token]
      BY <3>1, <3>3
    <3>4. CASE newui = [ui EXCEPT !.token = s.token] /\ calls[n].op = "regenPublic"
      BY <3>4 DEF PrivacyState, PrivacyTables
    <3> QED BY <3>2, <3>3, <3>4
  <2>3. PrivacyTables'
    BY <2>1, <2>2 DEF PrivacyState, PrivacyTables
  <2>4. PublicCall(calls[n])'
    BY <2>1, NoneCall DEF PublicCall
  <2>5. ASSUME Calm PROVE PublicCalm(calls[n])' /\ Agreeing'
    <3>1. s.enabled = db.enabled /\ s.token = db.token
          /\ (calls[n].op = "regenPublic" => ui.enabled = db.enabled)
      BY <1>2, <2>5 DEF PrivacyState, PrivacyCalm, PublicCalm, Shared
    <3>2. PublicCalm(calls[n])'
      BY <2>1, NoneCall DEF PublicCalm
    <3> QED BY <2>1, <2>2, <3>1, <3>2 DEF Agreeing
  <2> QED BY <1>2, <2>1, <2>3, <2>4, <2>5, PrivacyAlone DEF PrivacyState
<1> QED BY <1>1, <1>2 DEF savePublicThen, regenPublicThen, Answered, Public, Thrown

LEMMA SavesPreserve ==
  ASSUME PrivacyState, NEW n \in Calls,
         \/ Asked(n, "saveSettings", 1) /\ Reply(n, [db EXCEPT !.hashing = calls[n].to], {})
         \/ saveSettingsThen(n)
  PROVE  PrivacyState'
<1>1. calls[n].op = "saveSettings" /\ "saveSettings" \notin Public
  BY DEF saveSettingsThen, Asked, Answered, Thrown, Public
<1>2. CASE saveSettingsThen(n)
  <2> DEFINE newui == [ui EXCEPT !.busy = {}]
  <2>1. Finish(n, newui)
    BY <1>2 DEF saveSettingsThen
  <2>2. newui = [rows |-> ui.rows, busy |-> {}, hashing |-> ui.hashing,
                 enabled |-> ui.enabled, token |-> ui.token]
    BY DEF PrivacyState, PrivacyTables
  <2> HIDE DEF newui
  <2>3. PrivacyTables'
    BY <2>1, <2>2 DEF PrivacyState, PrivacyTables, Finish
  <2> QED BY <1>1, <2>1, <2>2, <2>3, PrivacyFinishes
<1>3. CASE Asked(n, "saveSettings", 1) /\ Reply(n, [db EXCEPT !.hashing = calls[n].to], {})
  <2> DEFINE newdb == [db EXCEPT !.hashing = calls[n].to]
  <2>1. newdb = [rows |-> db.rows, made |-> db.made, hashing |-> calls[n].to,
                 enabled |-> db.enabled, token |-> db.token]
    BY DEF PrivacyState, PrivacyTables
  <2> HIDE DEF newdb
  <2>2. Reply(n, newdb, {})
    BY <1>3 DEF newdb
  <2>3. /\ PageOK' /\ UNCHANGED <<section, ui>> /\ db' = newdb /\ Others(n)
        /\ \/ calls[n].at = "sent" /\ hist' = hist /\ Further(n, "ok", {})
           \/ calls[n].at = "sent" /\ hist'.lost /\ hist'.raced = hist.raced
              /\ Further(n, "failed", calls[n].got)
           \/ calls[n].at = "left" /\ hist' = hist /\ calls'[n] = NoCall
    BY <2>2, ReplyStep DEF PrivacyState
  <2>4. PrivacyTables' /\ db'.enabled = db.enabled /\ db'.token = db.token
    BY <2>1, <2>3 DEF PrivacyState, PrivacyTables
  <2>5. \A m \in Calls : PublicCall(calls[m])'
    <3>1. PublicCall(calls[n])'
      BY <1>1, <2>3, NoneCall DEF Further, PublicCall
    <3> QED BY <2>3, <3>1 DEF PrivacyState, Others, PublicCall, ReadGot
  <2>6. ASSUME Calm' PROVE PrivacyCalm'
    <3>1. Calm /\ PrivacyCalm /\ calls[n].at # "none"
      BY <1>1, <2>3, <2>6 DEF Calm, PrivacyState, PageOK, NoCall
    <3>2. PublicCalm(calls[n])' /\ calls'[n].op \notin Public
      BY <1>1, <2>3, NoneCall DEF Further, PublicCalm
    <3>3. \A m \in Calls : calls[m].op \notin Public
      BY <1>1, <3>1 DEF PrivacyCalm
    <3>4. Agreeing' /\ \A m \in Calls \ {n} : calls'[m] = calls[m]
      BY <2>3, <2>4, <3>1, <3>3 DEF PrivacyCalm, Agreeing, Others
    <3>5. \A m \in Calls : PublicCalm(calls[m])'
      BY <3>1, <3>2, <3>3, <3>4 DEF PrivacyCalm, PublicCalm
    <3> QED BY <3>2, <3>3, <3>4, <3>5 DEF PrivacyCalm
  <2> QED BY <2>3, <2>4, <2>5, <2>6 DEF PrivacyState
<1> QED BY <1>2, <1>3

LEMMA PrivacyClicks ==
  ASSUME PrivacyState, \/ tick \/ saveSettings \/ regenPublic
                       \/ \E on \in 0..1 : savePublic(on)
  PROVE  PrivacyState'
<1>1. CASE tick
  <2>1. ui' = [ui EXCEPT !.hashing = ~@] /\ UNCHANGED <<section, db, calls, hist>>
    BY <1>1 DEF tick
  <2>2. PrivacyTables' /\ ui'.enabled = ui.enabled /\ ui'.token = ui.token
    <3>1. ui' = [rows |-> ui.rows, busy |-> ui.busy, hashing |-> ~ui.hashing,
                 enabled |-> ui.enabled, token |-> ui.token]
      BY <2>1 DEF PrivacyState, PrivacyTables
    <3> QED BY <2>1, <3>1 DEF PrivacyState, PrivacyTables
  <2>3. PageOK' /\ \A n \in Calls : PublicCall(calls[n])'
    BY <2>1 DEF PrivacyState, PageOK, CallsOK, HistOK, PublicCall, ReadGot
  <2>4. Calm' => PrivacyCalm'
    BY <2>1, <2>2 DEF PrivacyState, Calm, PrivacyCalm, PublicCalm, Agreeing, Shared
  <2> QED BY <2>1, <2>2, <2>3, <2>4 DEF PrivacyState
<1>2. CASE saveSettings
  <2> DEFINE newui == [ui EXCEPT !.busy = {"privacy"}]
  <2>1. Start("saveSettings", 0, ui.hashing, newui, 1)
    BY <1>2 DEF saveSettings, SendTo
  <2>2. newui = [rows |-> ui.rows, busy |-> {"privacy"}, hashing |-> ui.hashing,
                 enabled |-> ui.enabled, token |-> ui.token]
    BY DEF PrivacyState, PrivacyTables
  <2> HIDE DEF newui
  <2>3. PrivacyTables'
    BY <2>1, <2>2 DEF PrivacyState, PrivacyTables, Start
  <2> QED BY <2>1, <2>2, <2>3, PrivacyStarts
<1>3. ASSUME NEW op \in Public, NEW arg, Send(op, arg, ui) PROVE PrivacyState'
  <2>1. Start(op, arg, FALSE, ui, 1)
    BY <1>3 DEF Send
  <2>2. PrivacyTables'
    BY <2>1, TablesKept DEF PrivacyState, Start
  <2> QED BY <2>1, <2>2, PrivacyStarts
<1> QED BY <1>1, <1>2, <1>3 DEF regenPublic, savePublic, Public

LEMMA PrivacyLoads ==
  ASSUME PrivacyState, Load(PrivacyLoaded, FALSE) \/ Load(PrivacyDefaults, TRUE)
  PROVE  PrivacyState'
<1>1. PICK newui \in {PrivacyLoaded, PrivacyDefaults}, lost \in BOOLEAN :
        Load(newui, lost) /\ (lost = FALSE => newui = PrivacyLoaded)
  OBVIOUS
<1>2. /\ PageOK' /\ UNCHANGED <<section, db>> /\ ui' = newui
      /\ hist'.lost = lost
      /\ hist'.raced = (\E n \in Calls : calls[n].at \in {"sent", "left"})
      /\ \A n \in Calls :
           \/ calls[n].at \in {"sent", "left"} /\ Further(n, "left", calls[n].got)
           \/ calls[n].at \notin {"sent", "left"} /\ calls'[n] = NoCall
  BY <1>1, LoadStep DEF PrivacyState
<1>3. PrivacyTables'
  BY <1>2 DEF PrivacyLoaded, PrivacyDefaults, PrivacyState, PrivacyTables
<1>4. \A n \in Calls : PublicCall(calls[n])'
  BY <1>2, NoneCall DEF Further, PrivacyState, PublicCall, ReadGot
<1>5. ASSUME Calm' PROVE PrivacyCalm'
  <2>1. \A n \in Calls : calls'[n] = NoCall
    BY <1>2, <1>5 DEF Calm
  <2>2. Agreeing'
    BY <1>1, <1>2, <1>5 DEF Calm, Agreeing, PrivacyLoaded
  <2>3. \A n \in Calls : PublicCalm(calls[n])' /\ calls'[n].op \notin Public
                         /\ calls'[n].at = "none"
    BY <2>1, NoneCall DEF PublicCalm
  <2> QED BY <2>2, <2>3 DEF PrivacyCalm
<1> QED BY <1>2, <1>3, <1>4, <1>5 DEF PrivacyState

LEMMA PrivacyLoses ==
  ASSUME PrivacyState, NEW n \in Calls, Lose(n)
  PROVE  PrivacyState'
<1>1. /\ PageOK' /\ UNCHANGED <<section, db, ui>> /\ Others(n) /\ Fails(n)
      /\ calls[n].at \in {"sent", "left"} /\ hist'.lost
  BY LoseStep DEF PrivacyState
<1> QED BY <1>1, PrivacyFails DEF Calm

LEMMA PrivacyInit ==
  ASSUME section = "privacy", SettingsInit
  PROVE  PrivacyState
<1>1. Open("privacy", PrivacyDb, PrivacyDefaults)
  BY DEF SettingsInit, Open
<1>2. /\ PageOK /\ db = PrivacyDb /\ ui = PrivacyDefaults
      /\ \A n \in Calls : calls[n] = NoCall
  BY <1>1, OpenStep
<1>3. \A n \in Calls : PublicCall(calls[n]) /\ PublicCalm(calls[n]) /\ calls[n].op \notin Public
                       /\ calls[n].at = "none"
  BY <1>2, NoneCall
<1>4. PrivacyTables /\ Agreeing /\ db.enabled = 0
  BY <1>2 DEF PrivacyTables, PrivacyDb, PrivacyDefaults, Agreeing
<1> QED BY <1>2, <1>3, <1>4 DEF PrivacyState, PrivacyCalm

LEMMA PrivacyStep ==
  ASSUME section = "privacy", PrivacyState, [Next]_vars
  PROVE  PrivacyState'
<1>1. CASE Click
  <2>1. tick \/ saveSettings \/ regenPublic \/ \E on \in 0..1 : savePublic(on)
    BY <1>1, SettingsClickSections, OtherClickSections DEF Click, Panels
  <2> QED BY <2>1, PrivacyClicks
<1>2. CASE Reload
  <2>1. Load(PrivacyLoaded, FALSE) \/ Load(PrivacyDefaults, TRUE)
    BY <1>2 DEF Reload, SiteSettingsPage, NotificationsLoad, Here, AdminUsersPage, SitesPage,
      AccountPage
  <2> QED BY <2>1, PrivacyLoads
<1>3. CASE Effect
  BY <1>3, EffectSections
<1>4. CASE TrackerStep
  BY <1>4 DEF TrackerStep
<1>5. ASSUME NEW n \in Calls, Progress(n) PROVE PrivacyState'
  <2>1. calls[n].op \in Public \cup {"saveSettings", "none"}
    BY DEF PrivacyState, PublicCall
  <2>2. PrivacyNext(n)
    BY <1>5, <2>1, SettingsOps, OtherOps DEF Progress, SettingsNext, PagesNext, StatsNext,
      TeamOps, MonitorsOps, HeartbeatsOps, MaintenanceOps, UsersOps, AccountOps, GoalsOps, Public
  <2>3. CASE Asked(n, "saveSettings", 1) /\ Reply(n, [db EXCEPT !.hashing = calls[n].to], {})
    BY <2>3, SavesPreserve
  <2>4. CASE saveSettingsThen(n)
    BY <2>4, SavesPreserve
  <2>5. CASE readShared(n)
    BY <2>5, ReadPreserves
  <2>6. CASE writeShared(n)
    BY <2>6, WritePreserves
  <2>7. CASE PublicAt(n, "written") /\ Reply(n, db, {Shared})
    BY <2>7, PublicReplies
  <2>8. CASE savePublicThen(n) \/ regenPublicThen(n)
    BY <2>8, PublicShown
  <2> QED BY <2>2, <2>3, <2>4, <2>5, <2>6, <2>7, <2>8 DEF PrivacyNext, PrivacyServer
<1>6. ASSUME NEW n \in Calls, Break(n) PROVE PrivacyState'
  <2>1. calls[n].op \in Public \cup {"saveSettings", "none"}
    BY DEF PrivacyState, PublicCall
  <2>2. Lose(n)
    BY <1>6, <2>1 DEF Break, failInvite, Asked, Public
  <2> QED BY <2>2, PrivacyLoses
<1>7. CASE UNCHANGED vars
  BY <1>7 DEF vars, PrivacyState, PrivacyTables, PageOK, CallsOK, HistOK, Calm, PrivacyCalm,
    PublicCall, PublicCalm, Agreeing, ReadGot, Shared
<1>8. CASE UNCHANGED <<section, db, ui, calls, hist>>
  BY <1>8 DEF PrivacyState, PrivacyTables, PageOK, CallsOK, HistOK, Calm, PrivacyCalm,
    PublicCall, PublicCalm, Agreeing, ReadGot, Shared
<1> QED BY <1>1, <1>2, <1>3, <1>4, <1>5, <1>6, <1>7, <1>8 DEF Next, TrackerStep

PrivacyInv == section = "privacy" => PrivacyState

(* However many requests of updateSettingsHandler overlap, wherever they stand *)
(* between their read and their write, an enabled dashboard has a token, and   *)
(* the link the settings page shows at rest is the one that works:           *)
(* PublicDashboard.                                                         *)
THEOREM PublicDashboardHolds == Spec => []PublicDashboard
<1>1. Init => PrivacyInv
  <2> SUFFICES ASSUME Init, section = "privacy" PROVE PrivacyState
    BY DEF PrivacyInv
  <2>1. SettingsInit
    BY DEF Init, NotificationsInit, PagesInit, UsersInit, SitesInit, AccountInit, StatsInit,
      GoalsInit, EventsInit, CardInit, LiveInit, AccountsInit, SessionsInit, AdminsInit,
      InviteInit, Open
  <2> QED BY <2>1, PrivacyInit
<1>2. PrivacyInv /\ [Next]_vars => PrivacyInv'
  BY SectionStays, PrivacyStep DEF PrivacyInv
<1>3. PrivacyInv => PublicDashboard
  <2> SUFFICES ASSUME section = "privacy", PrivacyState, Undisturbed PROVE Agreeing
    BY DEF PrivacyInv, PublicDashboard, PrivacyState, Agreeing
  <2>1. Calm /\ \A n \in Calls : calls[n] = NoCall
    BY DEF Undisturbed, Quiet, Calm, PrivacyState, PageOK
  <2> QED BY <2>1, NoneCall DEF PrivacyState, PrivacyCalm
<1> QED BY <1>1, <1>2, <1>3, PTL DEF Spec

-----------------------------------------------------------------------------
(* Events: the request under way, if no other has disturbed it, asks for what  *)
(* is unfolded.                                                             *)
EventsTables ==
  /\ ui = [rows |-> ui.rows, busy |-> ui.busy, span |-> ui.span, open |-> ui.open,
           opened |-> ui.opened, occ |-> ui.occ]
  /\ ui.span \in 0..1 /\ ui.opened \in 0..1

Unfolded == <<ui.open, ui.opened>>

EventCall(c) ==
  ui.open # 0 /\ c.at # "none" =>
    /\ c.arg = ui.open /\ c.to = (ui.opened = 1)
    /\ c.at = "ok" => c.got = {Unfolded}

EventsState ==
  /\ PageOK /\ EventsTables
  /\ \A n \in Calls : calls[n].op \in {"occurrences", "none"}
  /\ ~hist.raced =>
     /\ \A m, n \in Calls : calls[m].at # "none" /\ calls[n].at # "none" => m = n
     /\ ui.open # 0 => ui.occ \subseteq {Unfolded}
     /\ \A n \in Calls : EventCall(calls[n])

(* One request goes on, and what is unfolded stays. *)
LEMMA EventsGoOn ==
  ASSUME EventsState, PageOK', EventsTables', hist'.raced = hist.raced, NEW n \in Calls, Others(n),
         calls[n].at # "none", calls'[n].op \in {"occurrences", "none"},
         ui'.open = ui.open, ui'.opened = ui.opened,
         ~hist.raced => EventCall(calls[n])' /\ (ui.open # 0 => ui'.occ \subseteq {Unfolded})
  PROVE  EventsState'
<1>1. Unfolded' = Unfolded
  BY DEF Unfolded
<1>2. \A m \in Calls \ {n} : calls'[m] = calls[m]
  BY DEF Others
<1> QED BY <1>1, <1>2 DEF EventsState, EventCall

LEMMA ToggleStarts ==
  ASSUME EventsState, NEW e \in 1..2,
         Start("occurrences", e, ui.span = 1,
               [ui EXCEPT !.open = e, !.opened = ui.span, !.occ = {}], 1)
  PROVE  EventsState'
<1> DEFINE newui == [ui EXCEPT !.open = e, !.opened = ui.span, !.occ = {}]
<1>1. newui = [rows |-> ui.rows, busy |-> ui.busy, span |-> ui.span, open |-> e,
               opened |-> ui.span, occ |-> {}]
  <2> DEFINE a == [ui EXCEPT !.open = e]
             b == [a EXCEPT !.opened = ui.span]
  <2>1. a = [rows |-> ui.rows, busy |-> ui.busy, span |-> ui.span, open |-> e,
             opened |-> ui.opened, occ |-> ui.occ]
    BY DEF EventsState, EventsTables
  <2>2. newui = [b EXCEPT !.occ = {}]
    OBVIOUS
  <2>3. b = [a EXCEPT !.opened = ui.span]
    OBVIOUS
  <2> HIDE DEF a, b
  <2>4. b = [rows |-> ui.rows, busy |-> ui.busy, span |-> ui.span, open |-> e,
             opened |-> ui.span, occ |-> ui.occ]
    BY <2>1, <2>3
  <2> QED BY <2>2, <2>4
<1>2. Start("occurrences", e, ui.span = 1, newui, 1)
  OBVIOUS
<1> HIDE DEF newui
<1>3. /\ PageOK' /\ UNCHANGED <<section, db>> /\ ui' = newui
      /\ \E n \in Calls :
           /\ calls[n] = NoCall /\ Others(n)
           /\ calls'[n].op = "occurrences" /\ calls'[n].stage = 1 /\ calls'[n].at = "sent"
           /\ calls'[n].arg = e /\ calls'[n].to = (ui.span = 1) /\ calls'[n].got = {}
      /\ ~hist'.raced => \A i \in Calls : calls[i].at = "none"
  <2>1. "occurrences" \in Refetching
    BY DEF Refetching
  <2> QED BY <1>2, <2>1, StartStep DEF EventsState
<1>4. EventsTables' /\ ui'.open = e /\ ui'.opened = ui.span /\ ui'.occ = {}
  BY <1>1, <1>3 DEF EventsState, EventsTables
<1>5. \A n \in Calls : calls'[n].op \in {"occurrences", "none"}
  BY <1>3 DEF EventsState, Others
<1>6. ASSUME ~hist'.raced
      PROVE  /\ \A m, n \in Calls : calls'[m].at # "none" /\ calls'[n].at # "none" => m = n
             /\ \A n \in Calls : EventCall(calls[n])'
  <2>1. PICK n \in Calls :
           /\ \A m \in Calls \ {n} : calls'[m].at = "none"
           /\ calls'[n].at = "sent" /\ calls'[n].arg = e /\ calls'[n].to = (ui.span = 1)
    BY <1>3, <1>6 DEF Others
  <2> QED BY <1>4, <2>1 DEF EventCall
<1> QED BY <1>3, <1>4, <1>5, <1>6 DEF EventsState

LEMMA EventsClicks ==
  ASSUME EventsState, section = "events", newPeriod \/ \E e \in 1..2 : toggleEvent(e)
  PROVE  EventsState'
<1>1. CASE newPeriod
  <2>1. ui' = [rows |-> ui.rows, busy |-> ui.busy, span |-> 1 - ui.span, open |-> ui.open,
               opened |-> ui.opened, occ |-> ui.occ]
    BY <1>1 DEF newPeriod, EventsState, EventsTables
  <2>2. EventsTables' /\ UNCHANGED calls /\ ui'.occ = ui.occ
        /\ ui'.open = ui.open /\ ui'.opened = ui.opened
    BY <1>1, <2>1 DEF newPeriod, EventsState, EventsTables
  <2>3. HistOK' /\ hist'.raced = hist.raced
    <3>1. hist' = [lost |-> hist.lost, raced |-> hist.raced, clicks |-> hist.clicks + 1]
      BY <1>1 DEF newPeriod, EventsState, PageOK, HistOK
    <3> QED BY <3>1 DEF HistOK
  <2>4. PageOK'
    BY <2>2, <2>3 DEF EventsState, PageOK, CallsOK
  <2> QED BY <2>2, <2>3, <2>4 DEF EventsState, EventCall, Unfolded
<1>2. ASSUME NEW e \in 1..2, toggleEvent(e) PROVE EventsState'
  <2>1. CASE ui.open = e
    <3>1. ui' = [ui EXCEPT !.open = 0, !.occ = {}] /\ UNCHANGED <<calls, hist>>
      BY <1>2, <2>1 DEF toggleEvent
    <3>2. ui' = [rows |-> ui.rows, busy |-> ui.busy, span |-> ui.span, open |-> 0,
                 opened |-> ui.opened, occ |-> {}]
      BY <3>1 DEF EventsState, EventsTables
    <3>3. EventsTables' /\ ui'.open = 0
      BY <3>2 DEF EventsState, EventsTables
    <3> QED BY <3>1, <3>3 DEF EventsState, EventCall, PageOK, CallsOK, HistOK
  <2>2. CASE ui.open # e
    BY <1>2, <2>2, ToggleStarts DEF toggleEvent
  <2> QED BY <2>1, <2>2
<1> QED BY <1>1, <1>2

LEMMA EventsAnswers ==
  ASSUME EventsState, NEW n \in Calls, eventOccurrences(n)
  PROVE  EventsState'
<1> DEFINE got == {<<calls[n].arg, IF calls[n].to THEN 1 ELSE 0>>}
<1>1. Reply(n, db, got) /\ calls[n].at \in {"sent", "left"} /\ calls[n].op = "occurrences"
  BY DEF eventOccurrences, Asked
<1>2. ~hist.raced /\ ui.open # 0 => got = {Unfolded}
  <2> SUFFICES ASSUME ~hist.raced, ui.open # 0 PROVE got = {Unfolded}
    OBVIOUS
  <2>1. calls[n].arg = ui.open /\ calls[n].to = (ui.opened = 1) /\ ui.opened \in 0..1
    BY <1>1 DEF EventsState, EventsTables, EventCall
  <2>2. (IF ui.opened = 1 THEN 1 ELSE 0) = ui.opened
    BY <2>1
  <2>3. (IF calls[n].to THEN 1 ELSE 0) = (IF ui.opened = 1 THEN 1 ELSE 0)
    BY <2>1, Zenon
  <2> QED BY <2>1, <2>2, <2>3 DEF Unfolded
<1> HIDE DEF got
<1>3. /\ PageOK' /\ UNCHANGED <<section, ui>> /\ Others(n) /\ hist'.raced = hist.raced
      /\ \/ Further(n, "ok", got) \/ Further(n, "failed", calls[n].got) \/ calls'[n] = NoCall
  BY <1>1, ReplyStep DEF EventsState
<1>4. calls'[n].op \in {"occurrences", "none"}
  BY <1>1, <1>3, NoCallFacts DEF Further
<1>5. EventsTables'
  BY <1>3 DEF EventsState, EventsTables
<1>6. ~hist.raced => EventCall(calls[n])'
  BY <1>1, <1>2, <1>3, NoCallFacts DEF Further, EventsState, EventCall, Unfolded
<1> QED BY <1>1, <1>3, <1>4, <1>5, <1>6, EventsGoOn DEF EventsState

LEMMA EventsLose ==
  ASSUME EventsState, NEW n \in Calls, Lose(n)
  PROVE  EventsState'
<1>1. /\ PageOK' /\ UNCHANGED <<section, db, ui>> /\ Others(n) /\ Fails(n)
      /\ calls[n].at \in {"sent", "left"} /\ hist'.raced = hist.raced
  BY LoseStep DEF EventsState
<1>2. calls'[n].op \in {"occurrences", "none"}
  BY <1>1, NoCallFacts DEF Fails, Further, EventsState
<1>3. EventsTables'
  BY <1>1 DEF EventsState, EventsTables
<1>4. ~hist.raced => EventCall(calls[n])'
  BY <1>1, NoCallFacts DEF Fails, Further, EventsState, EventCall, Unfolded
<1> QED BY <1>1, <1>2, <1>3, <1>4, EventsGoOn DEF EventsState

LEMMA EventsShown ==
  ASSUME EventsState, NEW n \in Calls, toggleEventThen(n)
  PROVE  EventsState'
<1>1. CASE Answered(n, "occurrences", 1) /\ Finish(n, [ui EXCEPT !.occ = calls[n].got])
  <2> DEFINE newui == [ui EXCEPT !.occ = calls[n].got]
  <2>1. Finish(n, newui) /\ calls[n].at = "ok"
    BY <1>1 DEF Answered
  <2>2. newui = [rows |-> ui.rows, busy |-> ui.busy, span |-> ui.span, open |-> ui.open,
                 opened |-> ui.opened, occ |-> calls[n].got]
    BY DEF EventsState, EventsTables
  <2> HIDE DEF newui
  <2>3. PageOK' /\ UNCHANGED hist /\ ui' = newui /\ Others(n) /\ calls'[n] = NoCall
    BY <2>1, FinishStep DEF EventsState
  <2>4. EventsTables' /\ ui'.open = ui.open /\ ui'.opened = ui.opened /\ ui'.occ = calls[n].got
    BY <2>2, <2>3 DEF EventsState, EventsTables
  <2>5. ~hist.raced => EventCall(calls[n])' /\ (ui.open # 0 => ui'.occ \subseteq {Unfolded})
    BY <2>1, <2>3, <2>4, NoCallFacts DEF EventsState, EventCall
  <2> QED BY <2>1, <2>3, <2>4, <2>5, NoCallFacts, EventsGoOn
<1>2. CASE Thrown(n, "occurrences") /\ Finish(n, ui)
  <2>1. PageOK' /\ UNCHANGED <<hist, ui>> /\ Others(n) /\ calls'[n] = NoCall
    BY <1>2, FinishStep DEF EventsState
  <2>2. EventsTables' /\ EventCall(calls[n])'
    BY <2>1, NoCallFacts DEF EventsState, EventsTables, EventCall
  <2> QED BY <1>2, <2>1, <2>2, NoCallFacts, EventsGoOn DEF Thrown, EventsState
<1> QED BY <1>1, <1>2 DEF toggleEventThen

LEMMA EventsStep ==
  ASSUME section = "events", EventsState, [Next]_vars
  PROVE  EventsState'
<1>1. CASE Click
  <2>1. newPeriod \/ \E e \in 1..2 : toggleEvent(e)
    BY <1>1, SettingsClickSections, OtherClickSections DEF Click, Panels
  <2> QED BY <2>1, EventsClicks
<1>2. CASE Reload
  BY <1>2 DEF Reload, SiteSettingsPage, NotificationsLoad, Here, AdminUsersPage, SitesPage,
      AccountPage
<1>3. CASE Effect
  BY <1>3, EffectSections
<1>4. CASE TrackerStep
  BY <1>4 DEF TrackerStep
<1>5. ASSUME NEW n \in Calls, Progress(n) PROVE EventsState'
  <2>1. calls[n].op \in {"occurrences", "none"}
    BY DEF EventsState
  <2>2. EventsNext(n)
    BY <1>5, <2>1, SettingsOps, OtherOps DEF Progress, SettingsNext, PagesNext, StatsNext,
      TeamOps, MonitorsOps, HeartbeatsOps, MaintenanceOps, UsersOps, AccountOps, GoalsOps, Public
  <2> QED BY <2>2, EventsAnswers, EventsShown DEF EventsNext
<1>6. ASSUME NEW n \in Calls, Break(n) PROVE EventsState'
  <2>1. calls[n].op \in {"occurrences", "none"}
    BY DEF EventsState
  <2>2. Lose(n)
    BY <1>6, <2>1 DEF Break, failInvite, Asked
  <2> QED BY <2>2, EventsLose
<1>7. CASE UNCHANGED vars
  BY <1>7 DEF vars, EventsState, EventsTables, EventCall, Unfolded, PageOK, CallsOK, HistOK
<1> QED BY <1>1, <1>2, <1>3, <1>4, <1>5, <1>6, <1>7 DEF Next

LEMMA EventsBegin ==
  ASSUME section = "events", StatsInit
  PROVE  EventsState
<1> DEFINE shown == [rows |-> {}, busy |-> {}, span |-> 0, open |-> 0, opened |-> 0, occ |-> {}]
<1>1. Open("events", Nothing, shown)
  BY DEF StatsInit, GoalsInit, EventsInit, CardInit, LiveInit, Open
<1>2. PageOK /\ ui = shown /\ \A n \in Calls : calls[n] = NoCall
  BY <1>1, OpenStep
<1> QED BY <1>2, NoCallFacts DEF EventsState, EventsTables, EventCall

-----------------------------------------------------------------------------
(* Cards: at most one request asks for the card, and asks its present question; *)
(* when none does, its answer is shown.                                     *)
Asking(c) == c.at \in {"sent", "ok", "failed"}

CardsTables ==
  ui = [rows |-> ui.rows, busy |-> ui.busy, asks |-> ui.asks, fetched |-> ui.fetched,
        shows |-> ui.shows]

CardCall(c) ==
  /\ c.op \in {"card", "none"}
  /\ c.at \in {"none", "sent", "left", "ok", "failed"}
  /\ Asking(c) =>
     /\ ui.fetched /\ c.arg = ui.asks
     /\ c.got = IF c.at = "ok" THEN {ui.asks} ELSE {}
     /\ c.at = "failed" => hist.lost

CardShown ==
  IF section = "entry" THEN ui.shows \subseteq {ui.asks}
  ELSE hist.lost \/ ui.shows = {ui.asks}

CardsState ==
  /\ PageOK /\ CardsTables
  /\ \A n \in Calls : CardCall(calls[n])
  /\ \A m, n \in Calls : Asking(calls[m]) /\ Asking(calls[n]) => m = n
  /\ ui.fetched => CardShown \/ \E n \in Calls : Asking(calls[n])

LEMMA NoCard ==
  ASSUME NEW c, c = NoCall PROVE CardCall(c) /\ ~Asking(c)
BY NoCallFacts DEF CardCall, Asking

(* One request goes on or ends, and the question stays. *)
LEMMA CardsGoOn ==
  ASSUME CardsState, section' = section, PageOK', CardsTables', NEW n \in Calls, Others(n),
         CardCall(calls[n])', ui'.asks = ui.asks, ui'.fetched = ui.fetched,
         Asking(calls'[n]) => Asking(calls[n]),
         Asking(calls[n]) => Asking(calls'[n]) \/ CardShown',
         hist.lost => hist'.lost,
         ~Asking(calls[n]) => ui'.shows = ui.shows
  PROVE  CardsState'
<1>1. \A m \in Calls : CardCall(calls[m])'
  BY DEF Others, CardsState, CardCall, Asking
<1>2. \A m, k \in Calls : Asking(calls'[m]) /\ Asking(calls'[k]) => m = k
  BY DEF Others, CardsState
<1>3. CardShown /\ ~Asking(calls[n]) => CardShown'
  BY DEF CardShown
<1>4. ui.fetched => CardShown' \/ \E m \in Calls : Asking(calls'[m])
  <2>1. CASE Asking(calls[n])
    BY <2>1
  <2>2. CASE ~Asking(calls[n])
    BY <1>3, <2>2 DEF Others, CardsState
  <2> QED BY <2>1, <2>2
<1>5. (\A m, k \in Calls : Asking(calls[m]) /\ Asking(calls[k]) => m = k)'
      /\ (ui.fetched => CardShown \/ \E m \in Calls : Asking(calls[m]))'
  BY <1>2, <1>4 DEF Asking
<1> QED BY <1>1, <1>5 DEF CardsState

LEMMA AskPreserves ==
  ASSUME CardsState, NEW q, ask(q)
  PROVE  CardsState'
<1> DEFINE Left(c) == IF c.at = "sent" THEN [c EXCEPT !.at = "left"] ELSE NoCall
<1>1. /\ ui' = [ui EXCEPT !.asks = q, !.fetched = FALSE]
      /\ calls' = [n \in Calls |-> Left(calls[n])]
      /\ hist' = [hist EXCEPT !.clicks = @ + 1, !.lost = FALSE]
      /\ UNCHANGED section
  BY DEF ask
<1>2. CardsTables' /\ ui'.fetched = FALSE
  <2>1. ui' = [rows |-> ui.rows, busy |-> ui.busy, asks |-> q, fetched |-> FALSE,
               shows |-> ui.shows]
    BY <1>1 DEF CardsState, CardsTables
  <2> QED BY <2>1 DEF CardsTables
<1>3. HistOK'
  <2>1. hist' = [lost |-> FALSE, raced |-> hist.raced, clicks |-> hist.clicks + 1]
    BY <1>1 DEF CardsState, PageOK, HistOK
  <2> QED BY <2>1 DEF HistOK
<1>4. \A n \in Calls : calls'[n] = Left(calls[n]) /\ IsCall(calls[n])
  BY <1>1 DEF CardsState, PageOK, CallsOK
<1>5. \A n \in Calls : /\ IsCall(calls'[n]) /\ (calls'[n].at = "none" => calls'[n] = NoCall)
                       /\ CardCall(calls[n])' /\ ~Asking(calls'[n])
  <2> TAKE n \in Calls
  <2>1. CASE calls[n].at = "sent"
    <3>1. calls'[n] = [calls[n] EXCEPT !.at = "left"]
      BY <1>4, <2>1
    <3>2. IsCall(calls'[n]) /\ calls'[n].at = "left" /\ calls'[n].op = calls[n].op
      BY <1>4, <3>1 DEF IsCall
    <3> QED BY <3>2 DEF CardsState, CardCall, Asking
  <2>2. CASE calls[n].at # "sent"
    BY <1>4, <2>2, NoCallFacts DEF CardCall, Asking
  <2> QED BY <2>1, <2>2
<1>6. PageOK'
  BY <1>1, <1>3, <1>5 DEF PageOK, CallsOK
<1>7. (\A n \in Calls : ~Asking(calls[n]))'
  BY <1>5 DEF Asking
<1> QED BY <1>2, <1>5, <1>6, <1>7 DEF CardsState

LEMMA CardEffectPreserves ==
  ASSUME CardsState, cardEffect
  PROVE  CardsState'
<1> DEFINE yes == TRUE
           newui == [ui EXCEPT !.fetched = yes]
<1>1. ~ui.fetched /\ Start("card", ui.asks, FALSE, newui, 0) /\ yes
  BY DEF cardEffect
<1> HIDE DEF yes
<1>2. newui = [rows |-> ui.rows, busy |-> ui.busy, asks |-> ui.asks, fetched |-> yes,
               shows |-> ui.shows]
  BY DEF CardsState, CardsTables
<1> HIDE DEF newui
<1>3. /\ PageOK' /\ UNCHANGED <<section, db>> /\ ui' = newui
      /\ \E n \in Calls :
           /\ calls[n] = NoCall /\ Others(n)
           /\ calls'[n].op = "card" /\ calls'[n].stage = 1 /\ calls'[n].at = "sent"
           /\ calls'[n].arg = ui.asks /\ calls'[n].got = {}
  <2>1. PageOK' /\ Started("card", ui.asks, newui)
    BY <1>1, StartNo DEF CardsState
  <2> QED BY <2>1 DEF Started
<1>4. PICK n \in Calls :
           /\ calls[n] = NoCall /\ Others(n)
           /\ calls'[n].op = "card" /\ calls'[n].at = "sent"
           /\ calls'[n].arg = ui.asks /\ calls'[n].got = {}
  BY <1>3
<1>5. CardsTables' /\ ui'.asks = ui.asks /\ ui'.fetched
  BY <1>1, <1>2, <1>3 DEF CardsTables
<1>6. \A m \in Calls : ~Asking(calls[m]) /\ CardCall(calls[m])
  BY <1>1 DEF CardsState, CardCall
<1>7. \A m \in Calls \ {n} : CardCall(calls[m])' /\ ~Asking(calls'[m])
  BY <1>4, <1>6 DEF Others, CardCall, Asking
<1>8. CardCall(calls[n])' /\ Asking(calls'[n])
  BY <1>4, <1>5 DEF CardCall, Asking
<1>9. (\E m \in Calls : Asking(calls[m]))'
      /\ (\A m, k \in Calls : Asking(calls[m]) /\ Asking(calls[k]) => m = k)'
  BY <1>7, <1>8 DEF Asking
<1> QED BY <1>3, <1>5, <1>7, <1>8, <1>9 DEF CardsState

LEMMA CardQueryPreserves ==
  ASSUME CardsState, NEW n \in Calls, cardQuery(n)
  PROVE  CardsState'
<1>1. Reply(n, db, {calls[n].arg}) /\ calls[n].op = "card"
  BY DEF cardQuery, Asked
<1>2. /\ PageOK' /\ UNCHANGED <<section, ui>> /\ Others(n)
      /\ \/ calls[n].at = "sent" /\ hist' = hist /\ Further(n, "ok", {calls[n].arg})
         \/ calls[n].at = "sent" /\ hist'.lost /\ Further(n, "failed", calls[n].got)
         \/ calls[n].at = "left" /\ hist' = hist /\ calls'[n] = NoCall
  BY <1>1, ReplyStep DEF CardsState
<1>3. CardsTables'
  BY <1>2 DEF CardsState, CardsTables
<1>4. CardCall(calls[n])' /\ (Asking(calls'[n]) <=> Asking(calls[n]))
  BY <1>1, <1>2, NoCallFacts DEF Further, CardsState, CardCall, Asking
<1> QED BY <1>2, <1>3, <1>4, CardsGoOn

LEMMA CardsLose ==
  ASSUME CardsState, NEW n \in Calls, Lose(n)
  PROVE  CardsState'
<1>1. /\ PageOK' /\ UNCHANGED <<section, db, ui>> /\ Others(n) /\ Fails(n)
      /\ calls[n].at \in {"sent", "left"} /\ hist'.lost
  BY LoseStep DEF CardsState
<1>2. CardsTables'
  BY <1>1 DEF CardsState, CardsTables
<1>3. CardCall(calls[n])' /\ (Asking(calls'[n]) <=> Asking(calls[n]))
  BY <1>1, NoCallFacts DEF Fails, Further, CardsState, CardCall, Asking
<1> QED BY <1>1, <1>2, <1>3, CardsGoOn

LEMMA CardsShownNow ==
  ASSUME CardsState, NEW n \in Calls, EngagementCard(n) \/ EntryExitCard(n)
  PROVE  CardsState'
<1> DEFINE newui == [ui EXCEPT !.shows = calls[n].got]
<1>0. newui = [rows |-> ui.rows, busy |-> ui.busy, asks |-> ui.asks, fetched |-> ui.fetched,
               shows |-> calls[n].got]
  BY DEF CardsState, CardsTables
<1> HIDE DEF newui
<1>1. /\ calls[n].at \in {"ok", "failed"}
      /\ \/ Finish(n, newui) /\ (section = "entry" \/ calls[n].at = "ok")
         \/ Finish(n, ui) /\ section = "engagement" /\ calls[n].at = "failed"
  BY DEF EngagementCard, EntryExitCard, Answered, Thrown, newui
<1>2. Asking(calls[n]) /\ CardCall(calls[n])
  BY <1>1 DEF Asking, CardsState
<1>3. CASE Finish(n, newui) /\ (section = "entry" \/ calls[n].at = "ok")
  <2>1. /\ PageOK' /\ UNCHANGED <<section, db, hist>> /\ ui' = newui /\ Others(n)
        /\ calls'[n] = NoCall
    BY <1>3, FinishStep DEF CardsState
  <2>2. CardsTables' /\ ui'.asks = ui.asks /\ ui'.fetched = ui.fetched
        /\ ui'.shows = calls[n].got
    BY <1>0, <2>1 DEF CardsTables
  <2>3. CardShown'
    BY <1>2, <1>3, <2>1, <2>2 DEF CardCall, CardShown
  <2>4. CardCall(calls[n])' /\ ~Asking(calls'[n])
    BY <2>1, NoCallFacts DEF CardCall, Asking
  <2> QED BY <1>2, <2>1, <2>2, <2>3, <2>4, CardsGoOn
<1>4. CASE Finish(n, ui) /\ section = "engagement" /\ calls[n].at = "failed"
  <2>1. /\ PageOK' /\ UNCHANGED <<section, db, hist, ui>> /\ Others(n)
        /\ calls'[n] = NoCall
    BY <1>4, FinishStep DEF CardsState
  <2>2. CardsTables' /\ CardShown'
    BY <1>2, <1>4, <2>1 DEF CardsState, CardsTables, CardCall, CardShown
  <2>3. CardCall(calls[n])' /\ ~Asking(calls'[n])
    BY <2>1, NoCallFacts DEF CardCall, Asking
  <2> QED BY <1>2, <2>1, <2>2, <2>3, CardsGoOn
<1> QED BY <1>1, <1>3, <1>4

LEMMA CardsStep ==
  ASSUME section \in {"engagement", "entry"}, CardsState, [Next]_vars
  PROVE  CardsState'
<1>1. CASE Click
  <2>1. \E q \in 0..1 : ask(q)
    BY <1>1, SettingsClickSections, OtherClickSections DEF Click, Panels
  <2> QED BY <2>1, AskPreserves
<1>2. CASE Reload
  BY <1>2 DEF Reload, SiteSettingsPage, NotificationsLoad, Here, AdminUsersPage, SitesPage,
      AccountPage
<1>3. CASE Effect
  BY <1>3, EffectSections, CardEffectPreserves
<1>4. CASE TrackerStep
  BY <1>4 DEF TrackerStep
<1>5. ASSUME NEW n \in Calls, Progress(n) PROVE CardsState'
  <2>1. calls[n].op \in {"card", "none"}
    BY DEF CardsState, CardCall
  <2>2. CardsNext(n)
    BY <1>5, <2>1, SettingsOps, OtherOps DEF Progress, SettingsNext, PagesNext, StatsNext,
      TeamOps, MonitorsOps, HeartbeatsOps, MaintenanceOps, UsersOps, AccountOps, GoalsOps, Public
  <2> QED BY <2>2, CardQueryPreserves, CardsShownNow DEF CardsNext
<1>6. ASSUME NEW n \in Calls, Break(n) PROVE CardsState'
  <2>1. calls[n].op \in {"card", "none"}
    BY DEF CardsState, CardCall
  <2>2. Lose(n)
    BY <1>6, <2>1 DEF Break, failInvite, Asked
  <2> QED BY <2>2, CardsLose
<1>7. CASE UNCHANGED vars
  BY <1>7 DEF vars, CardsState, CardsTables, CardCall, CardShown, PageOK, CallsOK, HistOK, Asking
<1> QED BY <1>1, <1>2, <1>3, <1>4, <1>5, <1>6, <1>7 DEF Next

LEMMA CardsBegin ==
  ASSUME section \in {"engagement", "entry"}, StatsInit
  PROVE  CardsState
<1> DEFINE shown == [rows |-> {}, busy |-> {}, asks |-> 0, fetched |-> FALSE, shows |-> {}]
<1>1. Open(section, Nothing, shown)
  BY DEF StatsInit, GoalsInit, EventsInit, CardInit, LiveInit, Open
<1>2. PageOK /\ ui = shown /\ \A n \in Calls : calls[n] = NoCall
  BY <1>1, OpenStep
<1> QED BY <1>2, NoCard DEF CardsState, CardsTables

-----------------------------------------------------------------------------
(* Panels: if no connection broke and no two loads were under way together,   *)
(* the answer under way is the last one, and else the last one is shown.      *)
PanelsTables ==
  /\ db = [rows |-> db.rows, made |-> db.made, version |-> db.version, seen |-> db.seen]
  /\ ui = [rows |-> ui.rows, busy |-> ui.busy, data |-> ui.data, source |-> ui.source]

PanelCall(c) ==
  /\ c.at \in {"none", "sent", "ok"}
  /\ c.at = "ok" => c.got = {db.seen}

PanelsState ==
  /\ PageOK /\ PanelsTables
  /\ \A n \in Calls : calls[n].op \in {"load", "none"}
  /\ ui.source # "poll" => Calm /\ \A n \in Calls : calls[n].at = "none"
  /\ Calm =>
     /\ \A m, n \in Calls : calls[m].at # "none" /\ calls[n].at # "none" => m = n
     /\ \A n \in Calls : PanelCall(calls[n])
     /\ (\A n \in Calls : calls[n].at # "ok") => ui.data = db.seen

LEMMA PanelsStart ==
  ASSUME PanelsState, NEW newui, NEW clicks, Start("load", 0, FALSE, newui, clicks),
         newui = [rows |-> ui.rows, busy |-> ui.busy, data |-> ui.data, source |-> "poll"]
  PROVE  PanelsState'
<1>1. /\ PageOK' /\ UNCHANGED <<section, db>> /\ ui' = newui
      /\ Calm' => Calm
      /\ \E n \in Calls :
           /\ calls[n] = NoCall /\ Others(n)
           /\ calls'[n].op = "load" /\ calls'[n].stage = 1 /\ calls'[n].at = "sent"
           /\ calls'[n].got = {}
      /\ Calm' => \A i \in Calls : calls[i].at = "none"
  <2>1. "load" \in Refetching
    BY DEF Refetching
  <2>2. PageOK' /\ Started("load", 0, newui)
    BY StartNo DEF PanelsState
  <2> QED BY <2>1, <2>2 DEF Started, Calm
<1>2. PanelsTables' /\ ui'.source = "poll" /\ ui'.data = ui.data
  BY <1>1 DEF PanelsState, PanelsTables
<1>3. \A n \in Calls : calls'[n].op \in {"load", "none"}
  BY <1>1 DEF Others, PanelsState
<1>4. ASSUME Calm'
      PROVE  /\ \A m, n \in Calls : calls'[m].at # "none" /\ calls'[n].at # "none" => m = n
             /\ \A n \in Calls : PanelCall(calls[n])'
             /\ (\A n \in Calls : calls'[n].at # "ok") => ui'.data = db'.seen
  <2>1. PICK n \in Calls : calls'[n].at = "sent" /\ \A m \in Calls \ {n} : calls'[m].at = "none"
    BY <1>1, <1>4 DEF Others
  <2>2. ui.data = db.seen
    BY <1>1, <1>4 DEF PanelsState
  <2>3. \A m \in Calls : PanelCall(calls[m])'
    BY <2>1 DEF PanelCall
  <2> QED BY <1>1, <1>2, <2>1, <2>2, <2>3
<1> QED BY <1>1, <1>2, <1>3, <1>4 DEF PanelsState

(* One request goes on or ends. *)
LEMMA PanelsGoOn ==
  ASSUME PanelsState, PageOK', PanelsTables', NEW n \in Calls, Others(n), calls[n].at # "none",
         calls'[n].op \in {"load", "none"}, ui'.source = ui.source,
         Calm' => /\ Calm /\ PanelCall(calls[n])'
                  /\ calls'[n].at # "ok" => ui'.data = db'.seen
  PROVE  PanelsState'
<1>1. ui.source = "poll"
  BY DEF PanelsState
<1>2. ASSUME Calm'
      PROVE  /\ \A m, k \in Calls : calls'[m].at # "none" /\ calls'[k].at # "none" => m = k
             /\ \A m \in Calls : PanelCall(calls[m])'
             /\ (\A m \in Calls : calls'[m].at # "ok") => ui'.data = db'.seen
  <2>1. \A m \in Calls \ {n} : calls'[m].at = "none"
    BY <1>2 DEF PanelsState, Others
  <2>2. \A m \in Calls : PanelCall(calls[m])'
    BY <1>2, <2>1 DEF PanelCall
  <2> QED BY <1>2, <2>1, <2>2
<1> QED BY <1>1, <1>2 DEF PanelsState, Others

LEMMA PanelsLose ==
  ASSUME PanelsState, NEW n \in Calls, Lose(n)
  PROVE  PanelsState'
<1>1. /\ PageOK' /\ UNCHANGED <<section, db, ui>> /\ Others(n) /\ Fails(n)
      /\ calls[n].at \in {"sent", "left"} /\ hist'.lost
  BY LoseStep DEF PanelsState
<1>2. PanelsTables' /\ calls'[n].op \in {"load", "none"}
  BY <1>1, NoCallFacts DEF Fails, Further, PanelsState, PanelsTables
<1> QED BY <1>1, <1>2, PanelsGoOn DEF Calm

LEMMA LoadPanelPreserves ==
  ASSUME PanelsState, NEW n \in Calls, loadPanel(n)
  PROVE  PanelsState'
<1> DEFINE newdb == [db EXCEPT !.seen = db.version]
           got == {db.version}
<1>1. Reply(n, newdb, got) /\ calls[n].op = "load" /\ calls[n].at \in {"sent", "left"}
  BY DEF loadPanel, Asked
<1>2. newdb = [rows |-> db.rows, made |-> db.made, version |-> db.version, seen |-> db.version]
  BY DEF PanelsState, PanelsTables
<1> HIDE DEF newdb
<1>3. /\ PageOK' /\ UNCHANGED <<section, ui>> /\ db' = newdb /\ Others(n)
      /\ \/ calls[n].at = "sent" /\ hist' = hist /\ Further(n, "ok", got)
         \/ calls[n].at = "sent" /\ hist'.lost /\ Further(n, "failed", calls[n].got)
         \/ calls[n].at = "left" /\ hist' = hist /\ calls'[n] = NoCall
  BY <1>1, ReplyStep DEF PanelsState
<1>4. PanelsTables' /\ db'.seen = db.version
  BY <1>2, <1>3 DEF PanelsState, PanelsTables
<1>5. calls'[n].op \in {"load", "none"}
  BY <1>1, <1>3, NoCallFacts DEF Further
<1>6. Calm' => /\ Calm /\ PanelCall(calls[n])'
               /\ calls'[n].at # "ok" => ui'.data = db'.seen
  BY <1>1, <1>3, <1>4 DEF Calm, PanelCall, Further, PanelsState
<1> QED BY <1>1, <1>3, <1>4, <1>5, <1>6, PanelsGoOn

LEMMA LoadThenPreserves ==
  ASSUME PanelsState, NEW n \in Calls, loadThen(n)
  PROVE  PanelsState'
<1>1. PICK data, at : /\ Finish(n, [ui EXCEPT !.data = data, !.busy = {}])
                      /\ calls[n].at = at /\ at \in {"ok", "failed"}
                      /\ at = "ok" => data \in calls[n].got
  <2>1. CASE Answered(n, "load", 1) /\ \E v \in calls[n].got : Finish(n, [ui EXCEPT !.data = v, !.busy = {}])
    BY <2>1 DEF Answered
  <2>2. CASE Thrown(n, "load") /\ Finish(n, [ui EXCEPT !.busy = {}])
    <3>1. [ui EXCEPT !.busy = {}] = [ui EXCEPT !.data = ui.data, !.busy = {}]
      <4> DEFINE same == [ui EXCEPT !.data = ui.data]
      <4>1. same = ui
        BY DEF PanelsState, PanelsTables
      <4>2. [ui EXCEPT !.data = ui.data, !.busy = {}] = [same EXCEPT !.busy = {}]
        OBVIOUS
      <4> HIDE DEF same
      <4> QED BY <4>1, <4>2
    <3> QED BY <2>2, <3>1 DEF Thrown
  <2> QED BY <2>1, <2>2 DEF loadThen
<1> DEFINE newui == [ui EXCEPT !.data = data, !.busy = {}]
<1>2. newui = [rows |-> ui.rows, busy |-> {}, data |-> data, source |-> ui.source]
  <2> DEFINE a == [ui EXCEPT !.data = data]
  <2>1. a = [rows |-> ui.rows, busy |-> ui.busy, data |-> data, source |-> ui.source]
    BY DEF PanelsState, PanelsTables
  <2>2. newui = [a EXCEPT !.busy = {}]
    OBVIOUS
  <2> HIDE DEF a
  <2> QED BY <2>1, <2>2
<1>3. Finish(n, newui)
  BY <1>1
<1> HIDE DEF newui
<1>4. /\ PageOK' /\ UNCHANGED <<section, db, hist>> /\ ui' = newui /\ Others(n)
      /\ calls'[n] = NoCall
  BY <1>3, FinishStep DEF PanelsState
<1>5. PanelsTables' /\ ui'.source = ui.source /\ ui'.data = data
  BY <1>2, <1>4 DEF PanelsState, PanelsTables
<1>6. Calm' => /\ Calm /\ PanelCall(calls[n])'
               /\ calls'[n].at # "ok" => ui'.data = db'.seen
  BY <1>1, <1>4, <1>5, NoCallFacts DEF Calm, PanelCall, PanelsState
<1> QED BY <1>1, <1>4, <1>5, <1>6, NoCallFacts, PanelsGoOn

LEMMA StreamPreserves ==
  ASSUME PanelsState, \/ visitorComes \/ interval \/ onmessage \/ onerror \/ mountPanel
  PROVE  PanelsState'
<1>1. CASE visitorComes
  <2>1. db' = [rows |-> db.rows, made |-> db.made, version |-> db.version + 1, seen |-> db.seen]
        /\ UNCHANGED <<ui, calls, hist>>
    BY <1>1 DEF visitorComes, PanelsState, PanelsTables
  <2>2. PanelsTables' /\ db'.seen = db.seen
    BY <2>1 DEF PanelsState, PanelsTables
  <2> QED BY <2>1, <2>2 DEF PanelsState, PanelCall, PageOK, CallsOK, HistOK, Calm
<1>2. CASE interval \/ onerror \/ mountPanel
  <2> DEFINE newui == [ui EXCEPT !.source = "poll"]
  <2>1. PICK clicks : Start("load", 0, FALSE, newui, clicks)
    <3>1. interval => newui = ui
      BY DEF interval, PanelsState, PanelsTables
    <3> QED BY <1>2, <3>1 DEF interval, onerror, mountPanel
  <2>2. newui = [rows |-> ui.rows, busy |-> ui.busy, data |-> ui.data, source |-> "poll"]
    BY DEF PanelsState, PanelsTables
  <2> HIDE DEF newui
  <2> QED BY <2>1, <2>2, PanelsStart
<1>3. CASE onmessage
  <2>1. ui.source = "stream" /\ UNCHANGED <<section, calls, hist>>
    BY <1>3 DEF onmessage
  <2>2. ui' = [ui EXCEPT !.data = db.version, !.busy = {}]
        /\ db' = [db EXCEPT !.seen = db.version]
    BY <1>3 DEF onmessage
  <2>3. db' = [rows |-> db.rows, made |-> db.made, version |-> db.version, seen |-> db.version]
    BY <2>2 DEF PanelsState, PanelsTables
  <2>4. ui' = [rows |-> ui.rows, busy |-> {}, data |-> db.version, source |-> ui.source]
    <3> DEFINE a == [ui EXCEPT !.data = db.version]
    <3>1. a = [rows |-> ui.rows, busy |-> ui.busy, data |-> db.version, source |-> ui.source]
      BY DEF PanelsState, PanelsTables
    <3>2. ui' = [a EXCEPT !.busy = {}]
      BY <2>2
    <3> HIDE DEF a
    <3> QED BY <3>1, <3>2
  <2>5. PanelsTables' /\ ui'.data = db'.seen /\ ui'.source = ui.source
    BY <2>3, <2>4 DEF PanelsTables
  <2>6. \A n \in Calls : PanelCall(calls[n])'
    BY <2>1 DEF PanelsState, PanelCall
  <2> QED BY <2>1, <2>5, <2>6 DEF PanelsState, PageOK, CallsOK, HistOK, Calm
<1> QED BY <1>1, <1>2, <1>3

LEMMA PanelsStep ==
  ASSUME section \in Panels, PanelsState, [Next]_vars
  PROVE  PanelsState'
<1>1. CASE Click
  <2>1. visitorComes \/ interval
    BY <1>1, SettingsClickSections, OtherClickSections DEF Click, Panels
  <2> QED BY <2>1, StreamPreserves
<1>2. CASE Reload
  BY <1>2 DEF Reload, SiteSettingsPage, NotificationsLoad, Here, AdminUsersPage, SitesPage,
      AccountPage, Panels
<1>3. CASE Effect
  BY <1>3, EffectSections, StreamPreserves DEF RealtimePanel, Panels
<1>4. CASE TrackerStep
  BY <1>4 DEF TrackerStep, Panels
<1>5. ASSUME NEW n \in Calls, Progress(n) PROVE PanelsState'
  <2>1. calls[n].op \in {"load", "none"}
    BY DEF PanelsState
  <2>2. PanelsNext(n)
    BY <1>5, <2>1, SettingsOps, OtherOps DEF Progress, SettingsNext, PagesNext, StatsNext,
      TeamOps, MonitorsOps, HeartbeatsOps, MaintenanceOps, UsersOps, AccountOps, GoalsOps,
      Public, Panels
  <2> QED BY <2>2, LoadPanelPreserves, LoadThenPreserves DEF PanelsNext
<1>6. ASSUME NEW n \in Calls, Break(n) PROVE PanelsState'
  <2>1. calls[n].op \in {"load", "none"}
    BY DEF PanelsState
  <2>2. Lose(n)
    BY <1>6, <2>1 DEF Break, failInvite, Asked
  <2> QED BY <2>2, PanelsLose
<1>7. CASE UNCHANGED vars
  BY <1>7 DEF vars, PanelsState, PanelsTables, PanelCall, PageOK, CallsOK, HistOK, Calm
<1> QED BY <1>1, <1>2, <1>3, <1>4, <1>5, <1>6, <1>7 DEF Next

LEMMA PanelsBegin ==
  ASSUME section \in Panels, StatsInit
  PROVE  PanelsState
<1>1. PICK source \in {"stream", "none"} : LiveInit(section, source)
  BY DEF StatsInit, GoalsInit, EventsInit, CardInit, LiveInit, Open, Panels
<1>2. /\ PageOK /\ Calm /\ \A n \in Calls : calls[n] = NoCall
      /\ db = [rows |-> {}, made |-> 0, version |-> 0, seen |-> 0]
      /\ ui = [rows |-> {}, busy |-> {"waiting"}, data |-> 0, source |-> source]
  BY <1>1, OpenStep DEF LiveInit
<1>3. PanelsTables /\ ui.data = db.seen
  BY <1>2 DEF PanelsTables
<1> QED BY <1>2, <1>3, NoCallFacts DEF PanelsState, PanelCall

-----------------------------------------------------------------------------
StatsInv ==
  /\ section = "events" => EventsState
  /\ section \in {"engagement", "entry"} => CardsState
  /\ section \in Panels => PanelsState

(* In whatever order answers arrive, an unfolded event, a card and a panel of  *)
(* the statistics page at rest show the answer to the question asked last:    *)
(* StatsCurrent.                                                            *)
THEOREM StatsAreCurrent == Spec => []StatsCurrent
<1>1. Init => StatsInv
  <2> SUFFICES ASSUME Init, section \in {"events", "engagement", "entry"} \cup Panels
               PROVE  StatsInv
    BY DEF StatsInv
  <2>1. StatsInit
    BY DEF Init, SettingsInit, NotificationsInit, PagesInit, UsersInit, SitesInit, AccountInit,
      AccountsInit, SessionsInit, AdminsInit, InviteInit, Open, Panels
  <2> QED BY <2>1, EventsBegin, CardsBegin, PanelsBegin DEF StatsInv
<1>2. StatsInv /\ [Next]_vars => StatsInv'
  BY SectionStays, EventsStep, CardsStep, PanelsStep DEF StatsInv
<1>3. StatsInv => StatsCurrent
  <2> SUFFICES ASSUME StatsInv PROVE StatsCurrent
    OBVIOUS
  <2>1. section = "events" /\ ~hist.raced /\ ui.open # 0 => ui.occ \subseteq {<<ui.open, ui.opened>>}
    BY DEF StatsInv, EventsState, Unfolded
  <2>2. /\ section = "engagement" /\ Quiet /\ ui.fetched /\ ~hist.lost => ui.shows = {ui.asks}
        /\ section = "entry" /\ Quiet /\ ui.fetched => ui.shows \subseteq {ui.asks}
    BY DEF StatsInv, CardsState, CardShown, Asking, Quiet
  <2>3. section \in Panels /\ Undisturbed => ui.data = db.seen
    BY DEF StatsInv, PanelsState, Undisturbed, Quiet, Calm
  <2> QED BY <2>1, <2>2, <2>3 DEF StatsCurrent
<1> QED BY <1>1, <1>2, <1>3, PTL DEF Spec

-----------------------------------------------------------------------------
(* Lists.  Handlers of a list either fetch it again, and are alone when nothing *)
(* disturbs them; or they take over what was done to a row of theirs, or add   *)
(* one.                                                                     *)
DropOps == {"deleteInvite", "removeMember", "deleteMonitor", "deleteHeartbeat",
            "deleteMaintenance", "removeUser", "remove", "revoke", "deleteGoal"}
SetOps == {"toggleMonitor", "changeRole"}
TakesRow == DropOps \cup SetOps
Appending == {"addUser", "create", "addGoal"}
Alone == {"sendInvite", "saveFunnel", "addMonitor", "addHeartbeat", "addMaintenance",
          "createKey", "loadKeys", "push"}

KindOf(op) ==
  CASE op = "deleteInvite" -> "invite"
    [] op = "removeMember" -> "member"
    [] op \in {"deleteMonitor", "toggleMonitor"} -> "monitor"
    [] op = "deleteHeartbeat" -> "heartbeat"
    [] op = "deleteMaintenance" -> "window"
    [] op \in {"removeUser", "changeRole"} -> "user"
    [] op = "remove" -> "site"
    [] op = "revoke" -> "key"
    [] OTHER -> "goal"

(* What an answered request is going to do to the list that is shown. *)
Its(c, r) == r.kind = KindOf(c.op) /\ r.id = c.arg
Drops(c, r) == c.at = "ok" /\ c.op \in DropOps /\ Its(c, r)
Sets(c, r) == c.at = "ok" /\ c.op \in SetOps /\ Its(c, r)
Adds(c) == {r \in c.got : c.at = "ok" /\ c.op \in Appending}
Acts(c) == c.at = "ok" /\ c.op \in TakesRow \cup Appending

(* The list when all answers have been taken over. *)
Dropped(cs, r) == \E n \in Calls : Drops(cs[n], r)
IsSet(cs, r) == \E n \in Calls : Sets(cs[n], r)
On(cs, r) == IF IsSet(cs, r) THEN cs[CHOOSE n \in Calls : Sets(cs[n], r)].to ELSE r.on
Shown(cs, r) == [kind |-> r.kind, id |-> r.id, on |-> On(cs, r), of |-> r.of]
Added(cs) == UNION {Adds(cs[n]) : n \in Calls}
After(cs, list) == {Shown(cs, r) : r \in {q \in list : ~Dropped(cs, q)}} \cup Added(cs)

OneOfARow(cs) ==
  \A m, n \in Calls :
    cs[m].op \in TakesRow /\ cs[n].at # "none" /\ cs[n].arg = cs[m].arg => m = n

RowShape(r) == r = [kind |-> r.kind, id |-> r.id, on |-> r.on, of |-> r.of]

LEMMA Separate ==
  /\ DropOps \cap SetOps = {} /\ TakesRow \cap Appending = {} /\ TakesRow \cap Alone = {}
  /\ Appending \cap Alone = {} /\ "none" \notin TakesRow \cup Appending \cup Alone
  /\ Alone \subseteq Refetching /\ TakesRow \cap Refetching = {}
BY DEF DropOps, SetOps, TakesRow, Appending, Alone, Refetching

LEMMA OnSet ==
  ASSUME NEW cs, OneOfARow(cs), NEW n \in Calls, NEW r, Sets(cs[n], r)
  PROVE  On(cs, r) = cs[n].to
<1> DEFINE m == CHOOSE i \in Calls : Sets(cs[i], r)
<1>1. m \in Calls /\ Sets(cs[m], r)
  <2> HIDE DEF Sets
  <2> QED OBVIOUS
<1>2. On(cs, r) = cs[m].to
  BY DEF On, IsSet
<1> HIDE DEF m
<1>3. m = n
  BY <1>1 DEF OneOfARow, Sets, Its, TakesRow
<1> QED BY <1>2, <1>3

LEMMA NotSet ==
  ASSUME NEW cs, NEW r, ~IsSet(cs, r)
  PROVE  On(cs, r) = r.on
BY DEF On

LEMMA NoActs ==
  ASSUME NEW c, ~Acts(c)
  PROVE  Adds(c) = {} /\ \A r : ~Drops(c, r) /\ ~Sets(c, r)
BY DEF Acts, Adds, Drops, Sets, TakesRow

LEMMA AddedIs ==
  \A cs, r : r \in Added(cs) <=> \E n \in Calls : r \in Adds(cs[n])
BY DEF Added

LEMMA AddedSame ==
  ASSUME NEW cs, NEW ds, \A n \in Calls : Adds(ds[n]) = Adds(cs[n])
  PROVE  Added(ds) = Added(cs)
<1>1. \A r : r \in Added(ds) <=> r \in Added(cs)
  BY AddedIs
<1> QED BY <1>1 DEF Added

LEMMA ShownIs ==
  ASSUME NEW cs, NEW list, NEW s
  PROVE  s \in After(cs, list) <=>
           \/ s \in Added(cs)
           \/ \E r \in list : ~Dropped(cs, r) /\ s = Shown(cs, r)
BY DEF After

LEMMA ShownKeeps ==
  ASSUME NEW cs, NEW r
  PROVE  /\ Shown(cs, r).kind = r.kind /\ Shown(cs, r).id = r.id /\ Shown(cs, r).of = r.of
         /\ Shown(cs, r).on = On(cs, r)
BY DEF Shown

(* Nothing is going to change. *)
LEMMA AfterQuiet ==
  ASSUME NEW cs, NEW list, \A n \in Calls : ~Acts(cs[n]), \A r \in list : RowShape(r)
  PROVE  After(cs, list) = list
<1>1. Added(cs) = {} /\ \A r : ~Dropped(cs, r) /\ ~IsSet(cs, r)
  BY NoActs, AddedIs DEF Dropped, IsSet
<1>2. \A r \in list : Shown(cs, r) = r
  BY <1>1, NotSet DEF Shown, RowShape
<1> QED BY <1>1, <1>2 DEF After

(* A request goes on that does nothing before or after. *)
LEMMA AfterSame ==
  ASSUME NEW cs, NEW ds, NEW n \in Calls, \A m \in Calls \ {n} : ds[m] = cs[m],
         OneOfARow(cs), OneOfARow(ds), ~Acts(cs[n]), ~Acts(ds[n]), NEW list
  PROVE  After(ds, list) = After(cs, list)
<1>1. \A r : \A m \in Calls : /\ Drops(ds[m], r) <=> Drops(cs[m], r)
                              /\ Sets(ds[m], r) <=> Sets(cs[m], r)
  BY NoActs
<1>2. Added(ds) = Added(cs)
  <2>1. \A m \in Calls : Adds(ds[m]) = Adds(cs[m])
    BY NoActs
  <2> QED BY <2>1, AddedSame
<1>3. \A r : Dropped(ds, r) <=> Dropped(cs, r)
  BY <1>1 DEF Dropped
<1>4. \A r : On(ds, r) = On(cs, r)
  <2> TAKE r
  <2>1. CASE IsSet(cs, r)
    <3>1. PICK m \in Calls : Sets(cs[m], r)
      BY <2>1 DEF IsSet
    <3>2. Sets(ds[m], r) /\ m # n
      BY <1>1, <3>1, NoActs
    <3> QED BY <3>1, <3>2, OnSet
  <2>2. CASE ~IsSet(cs, r)
    BY <1>1, <2>2, NotSet DEF IsSet
  <2> QED BY <2>1, <2>2
<1>5. \A r : Shown(ds, r) = Shown(cs, r)
  BY <1>4 DEF Shown
<1> QED BY <1>2, <1>3, <1>5 DEF After

(* The same with a request that will add rows, or has. *)
LEMMA AfterAdd ==
  ASSUME NEW cs, NEW ds, NEW n \in Calls, \A m \in Calls \ {n} : ds[m] = cs[m],
         OneOfARow(cs), OneOfARow(ds), ~Acts(cs[n]), ds[n].at = "ok", ds[n].op \in Appending,
         NEW list
  PROVE  After(ds, list) = After(cs, list) \cup ds[n].got
<1>0. Adds(ds[n]) = ds[n].got /\ Adds(cs[n]) = {}
      /\ \A r : ~Drops(ds[n], r) /\ ~Sets(ds[n], r) /\ ~Drops(cs[n], r) /\ ~Sets(cs[n], r)
  BY NoActs, Separate DEF Adds, Drops, Sets, TakesRow
<1>1. \A r : \A m \in Calls : /\ Drops(ds[m], r) <=> Drops(cs[m], r)
                              /\ Sets(ds[m], r) <=> Sets(cs[m], r)
  BY <1>0
<1>2. Added(ds) = Added(cs) \cup ds[n].got
  <2>1. \A r : r \in Added(ds) <=> r \in Added(cs) \/ r \in ds[n].got
    BY <1>0, AddedIs
  <2> QED BY <2>1
<1>3. \A r : Dropped(ds, r) <=> Dropped(cs, r)
  BY <1>1 DEF Dropped
<1>4. \A r : On(ds, r) = On(cs, r)
  <2> TAKE r
  <2>1. CASE IsSet(cs, r)
    <3>1. PICK m \in Calls : Sets(cs[m], r)
      BY <2>1 DEF IsSet
    <3>2. Sets(ds[m], r) /\ m # n
      BY <1>0, <1>1, <3>1
    <3> QED BY <3>1, <3>2, OnSet
  <2>2. CASE ~IsSet(cs, r)
    BY <1>1, <2>2, NotSet DEF IsSet
  <2> QED BY <2>1, <2>2
<1>5. \A r : Shown(ds, r) = Shown(cs, r)
  BY <1>4 DEF Shown
<1> QED BY <1>2, <1>3, <1>5 DEF After

LEMMA AfterAdded ==
  ASSUME NEW cs, NEW ds, NEW n \in Calls, \A m \in Calls \ {n} : ds[m] = cs[m],
         OneOfARow(cs), OneOfARow(ds), ~Acts(ds[n]), cs[n].at = "ok", cs[n].op \in Appending,
         NEW list,
         \A r \in cs[n].got : RowShape(r) /\ \A m \in Calls : cs[m].arg # r.id
  PROVE  After(ds, list \cup cs[n].got) = After(cs, list)
<1> DEFINE got == cs[n].got
<1>1. After(cs, list) = After(ds, list) \cup got
  BY AfterAdd
<1>2. \A r \in got : ~Dropped(ds, r) /\ ~IsSet(ds, r)
  BY NoActs DEF Dropped, IsSet, Drops, Sets, Its
<1>3. \A r \in got : Shown(ds, r) = r
  BY <1>2, NotSet DEF Shown, RowShape
<1> HIDE DEF got
<1>4. After(ds, list \cup got) = After(ds, list) \cup got
  BY <1>2, <1>3 DEF After
<1> QED BY <1>1, <1>4 DEF got

(* A request has deleted its row; then its row goes from the list. *)
LEMMA AfterDrop ==
  ASSUME NEW cs, NEW ds, NEW n \in Calls, \A m \in Calls \ {n} : ds[m] = cs[m],
         OneOfARow(cs), OneOfARow(ds), ~Acts(cs[n]), ds[n].at = "ok", ds[n].op \in DropOps,
         NEW list, \A r \in Added(cs) : r.id # ds[n].arg
  PROVE  After(ds, list) = Without(After(cs, list), KindOf(ds[n].op), ds[n].arg)
<1>0. /\ Adds(ds[n]) = {} /\ Adds(cs[n]) = {}
      /\ \A r : ~Drops(cs[n], r) /\ ~Sets(ds[n], r) /\ ~Sets(cs[n], r)
      /\ \A r : Drops(ds[n], r) <=> Its(ds[n], r)
  BY NoActs, Separate DEF Adds, Drops, Sets, TakesRow
<1>1. \A r : Dropped(ds, r) <=> Dropped(cs, r) \/ Its(ds[n], r)
  BY <1>0 DEF Dropped
<1>2. Added(ds) = Added(cs)
  <2>1. \A m \in Calls : Adds(ds[m]) = Adds(cs[m])
    BY <1>0
  <2> QED BY <2>1, AddedSame
<1>3. \A r : On(ds, r) = On(cs, r)
  <2> TAKE r
  <2>1. CASE IsSet(cs, r)
    <3>1. PICK m \in Calls : Sets(cs[m], r)
      BY <2>1 DEF IsSet
    <3>2. Sets(ds[m], r) /\ m # n
      BY <1>0, <3>1
    <3> QED BY <3>1, <3>2, OnSet
  <2>2. CASE ~IsSet(cs, r)
    BY <1>0, <2>2, NotSet DEF IsSet
  <2> QED BY <2>1, <2>2
<1>4. \A r : Shown(ds, r) = Shown(cs, r)
  BY <1>3 DEF Shown
<1>5. \A r : Its(ds[n], Shown(cs, r)) <=> Its(ds[n], r)
  BY ShownKeeps DEF Its
<1>6. \A s : s \in After(ds, list) <=> s \in After(cs, list) /\ ~Its(ds[n], s)
  <2> TAKE s
  <2>1. s \in After(ds, list) <=>
           \/ s \in Added(cs)
           \/ \E r \in list : ~Dropped(cs, r) /\ ~Its(ds[n], r) /\ s = Shown(cs, r)
    BY <1>1, <1>2, <1>4, ShownIs
  <2>2. s \in After(cs, list) <=>
           \/ s \in Added(cs)
           \/ \E r \in list : ~Dropped(cs, r) /\ s = Shown(cs, r)
    BY ShownIs
  <2>3. s \in Added(cs) => ~Its(ds[n], s)
    BY DEF Its
  <2> QED BY <1>5, <2>1, <2>2, <2>3
<1> QED BY <1>6 DEF Without, Its

LEMMA AfterDropped ==
  ASSUME NEW cs, NEW ds, NEW n \in Calls, \A m \in Calls \ {n} : ds[m] = cs[m],
         OneOfARow(cs), OneOfARow(ds), ~Acts(ds[n]), cs[n].at = "ok", cs[n].op \in DropOps,
         NEW list, \A r \in Added(cs) : r.id # cs[n].arg
  PROVE  After(ds, Without(list, KindOf(cs[n].op), cs[n].arg)) = After(cs, list)
<1>0. Added(ds) = Added(cs)
  <2>1. Adds(ds[n]) = {} /\ Adds(cs[n]) = {}
    BY NoActs, Separate DEF Adds, TakesRow
  <2>2. \A m \in Calls : Adds(ds[m]) = Adds(cs[m])
    BY <2>1
  <2> QED BY <2>2, AddedSame
<1>1. After(cs, list) = Without(After(ds, list), KindOf(cs[n].op), cs[n].arg)
  BY <1>0, AfterDrop
<1>2. \A r : r \in Without(list, KindOf(cs[n].op), cs[n].arg) <=> r \in list /\ ~Its(cs[n], r)
  BY DEF Without, Its
<1>3. \A s : s \in After(cs, list) <=> s \in After(ds, list) /\ ~Its(cs[n], s)
  BY <1>1 DEF Without, Its
<1>4. \A r : Its(cs[n], Shown(ds, r)) <=> Its(cs[n], r)
  BY ShownKeeps DEF Its
<1>5. \A s \in Added(cs) : ~Its(cs[n], s)
  BY DEF Its
<1>6. \A s : s \in After(ds, Without(list, KindOf(cs[n].op), cs[n].arg)) <=> s \in After(cs, list)
  <2> TAKE s
  <2>1. s \in After(ds, Without(list, KindOf(cs[n].op), cs[n].arg)) <=>
           \/ s \in Added(cs)
           \/ \E r \in list : ~Its(cs[n], r) /\ ~Dropped(ds, r) /\ s = Shown(ds, r)
    BY <1>0, <1>2, ShownIs
  <2>2. s \in After(ds, list) <=>
           \/ s \in Added(cs)
           \/ \E r \in list : ~Dropped(ds, r) /\ s = Shown(ds, r)
    BY <1>0, ShownIs
  <2> QED BY <1>3, <1>4, <1>5, <2>1, <2>2
<1> QED BY <1>6

(* A request has written its row; then its row is written in the list. *)
Write(c, r) == IF Its(c, r) THEN [r EXCEPT !.on = c.to] ELSE r

LEMMA SetOnIs ==
  ASSUME NEW c, NEW list
  PROVE  SetOn(list, KindOf(c.op), c.arg, c.to) = {Write(c, r) : r \in list}
BY DEF SetOn, Write, Its

LEMMA AfterSet ==
  ASSUME NEW cs, NEW ds, NEW n \in Calls, \A m \in Calls \ {n} : ds[m] = cs[m],
         OneOfARow(cs), OneOfARow(ds), ~Acts(cs[n]), ds[n].at = "ok", ds[n].op \in SetOps,
         NEW list, \A r \in Added(cs) : r.id # ds[n].arg
  PROVE  After(ds, list) = SetOn(After(cs, list), KindOf(ds[n].op), ds[n].arg, ds[n].to)
<1>0. /\ Adds(ds[n]) = {} /\ Adds(cs[n]) = {}
      /\ \A r : ~Drops(cs[n], r) /\ ~Drops(ds[n], r) /\ ~Sets(cs[n], r)
      /\ \A r : Sets(ds[n], r) <=> Its(ds[n], r)
  BY NoActs, Separate DEF Adds, Drops, Sets, TakesRow
<1>1. \A r : Dropped(ds, r) <=> Dropped(cs, r)
  BY <1>0 DEF Dropped
<1>2. Added(ds) = Added(cs)
  <2>1. \A m \in Calls : Adds(ds[m]) = Adds(cs[m])
    BY <1>0
  <2> QED BY <2>1, AddedSame
<1>3. \A r : On(ds, r) = IF Its(ds[n], r) THEN ds[n].to ELSE On(cs, r)
  <2> TAKE r
  <2>0. CASE Its(ds[n], r)
    BY <1>0, <2>0, OnSet
  <2>1. CASE ~Its(ds[n], r) /\ IsSet(cs, r)
    <3>1. PICK m \in Calls : Sets(cs[m], r)
      BY <2>1 DEF IsSet
    <3>2. Sets(ds[m], r) /\ m # n
      BY <1>0, <3>1
    <3> QED BY <2>1, <3>1, <3>2, OnSet
  <2>2. CASE ~Its(ds[n], r) /\ ~IsSet(cs, r)
    <3>1. ~IsSet(ds, r)
      BY <1>0, <2>2 DEF IsSet
    <3> QED BY <2>2, <3>1, NotSet
  <2> QED BY <2>0, <2>1, <2>2
<1>4. \A r : Shown(ds, r) = Write(ds[n], Shown(cs, r))
  <2> TAKE r
  <2>1. Its(ds[n], Shown(cs, r)) <=> Its(ds[n], r)
    BY ShownKeeps DEF Its
  <2>2. CASE Its(ds[n], r)
    <3>1. On(ds, r) = ds[n].to
      BY <1>3, <2>2
    <3> QED BY <2>1, <2>2, <3>1 DEF Shown, Write
  <2>3. CASE ~Its(ds[n], r)
    BY <1>3, <2>1, <2>3 DEF Shown, Write
  <2> QED BY <2>2, <2>3
<1>5. \A r \in Added(cs) : Write(ds[n], r) = r
  BY DEF Write, Its
<1>6. After(ds, list) = {Write(ds[n], s) : s \in After(cs, list)}
  BY <1>1, <1>2, <1>4, <1>5 DEF After
<1> QED BY <1>6, SetOnIs

LEMMA AfterWritten ==
  ASSUME NEW cs, NEW ds, NEW n \in Calls, \A m \in Calls \ {n} : ds[m] = cs[m],
         OneOfARow(cs), OneOfARow(ds), ~Acts(ds[n]), cs[n].at = "ok", cs[n].op \in SetOps,
         NEW list, \A r \in list : RowShape(r)
  PROVE  After(ds, SetOn(list, KindOf(cs[n].op), cs[n].arg, cs[n].to)) = After(cs, list)
<1>0. /\ Adds(ds[n]) = {} /\ Adds(cs[n]) = {}
      /\ \A r : ~Drops(cs[n], r) /\ ~Drops(ds[n], r) /\ ~Sets(ds[n], r)
      /\ \A r : Sets(cs[n], r) <=> Its(cs[n], r)
  BY NoActs, Separate DEF Adds, Drops, Sets, TakesRow
<1>1. \A r : Dropped(ds, r) <=> Dropped(cs, r)
  BY <1>0 DEF Dropped
<1>2. Added(ds) = Added(cs)
  <2>1. \A m \in Calls : Adds(ds[m]) = Adds(cs[m])
    BY <1>0
  <2> QED BY <2>1, AddedSame
<1>3. \A r \in list : /\ Write(cs[n], r).kind = r.kind /\ Write(cs[n], r).id = r.id
                      /\ Write(cs[n], r).of = r.of
                      /\ Write(cs[n], r).on = IF Its(cs[n], r) THEN cs[n].to ELSE r.on
  BY DEF Write, RowShape
<1>4. \A r \in list : On(cs, r) = On(ds, Write(cs[n], r))
  <2> TAKE r \in list
  <2> DEFINE w == Write(cs[n], r)
  <2>0. w.kind = r.kind /\ w.id = r.id /\ w.on = IF Its(cs[n], r) THEN cs[n].to ELSE r.on
    BY <1>3
  <2> HIDE DEF w
  <2>1. \A m \in Calls : Sets(ds[m], w) <=> Sets(ds[m], r)
    BY <2>0 DEF Sets, Its
  <2>2. CASE Its(cs[n], r)
    <3>1. On(cs, r) = cs[n].to
      BY <1>0, <2>2, OnSet
    <3>2. \A m \in Calls : ~Sets(ds[m], r)
      <4> SUFFICES ASSUME NEW m \in Calls, Sets(ds[m], r) PROVE FALSE
        OBVIOUS
      <4>1. m # n /\ Sets(cs[m], r)
        BY <1>0
      <4> QED BY <2>2, <4>1 DEF OneOfARow, Sets, Its, TakesRow
    <3>3. ~IsSet(ds, w)
      BY <2>1, <3>2 DEF IsSet
    <3> QED BY <2>0, <2>2, <3>1, <3>3, NotSet DEF w
  <2>3. CASE ~Its(cs[n], r) /\ IsSet(cs, r)
    <3>1. PICK m \in Calls : Sets(cs[m], r)
      BY <2>3 DEF IsSet
    <3>2. Sets(ds[m], w) /\ m # n
      BY <1>0, <2>1, <2>3, <3>1
    <3> QED BY <3>1, <3>2, OnSet DEF w
  <2>4. CASE ~Its(cs[n], r) /\ ~IsSet(cs, r)
    <3>1. ~IsSet(ds, w)
      BY <1>0, <2>1, <2>4 DEF IsSet
    <3> QED BY <2>0, <2>4, <3>1, NotSet DEF w
  <2> QED BY <2>2, <2>3, <2>4
<1>5. \A r \in list : Shown(ds, Write(cs[n], r)) = Shown(cs, r)
  BY <1>3, <1>4 DEF Shown
<1>6. \A r \in list : Dropped(ds, Write(cs[n], r)) <=> Dropped(ds, r)
  BY <1>3 DEF Dropped, Drops, Its
<1> DEFINE written == {Write(cs[n], r) : r \in list}
<1>7. \A s : s \in After(ds, written) <=> s \in After(cs, list)
  <2> TAKE s
  <2>1. s \in After(ds, written) <=>
           \/ s \in Added(cs)
           \/ \E w \in written : ~Dropped(ds, w) /\ s = Shown(ds, w)
    BY <1>2, ShownIs
  <2>2. (\E w \in written : ~Dropped(ds, w) /\ s = Shown(ds, w))
          <=> \E r \in list : ~Dropped(cs, r) /\ s = Shown(cs, r)
    BY <1>1, <1>5, <1>6
  <2>3. s \in After(cs, list) <=>
           \/ s \in Added(cs)
           \/ \E r \in list : ~Dropped(cs, r) /\ s = Shown(cs, r)
    BY ShownIs
  <2> QED BY <2>1, <2>2, <2>3
<1>8. After(ds, written) = After(cs, list)
  <2> HIDE DEF written
  <2> QED BY <1>7
<1> QED BY <1>8, SetOnIs

InList(op) ==
  \/ section = "team" /\ op \in TeamOps
  \/ section = "monitors" /\ op \in MonitorsOps
  \/ section = "heartbeats" /\ op \in HeartbeatsOps
  \/ section = "maintenance" /\ op \in MaintenanceOps
  \/ section = "funnel" /\ op = "saveFunnel"
  \/ section = "users" /\ op \in UsersOps
  \/ section = "sites" /\ op \in {"create", "remove"}
  \/ section = "account" /\ op \in AccountOps
  \/ section = "goals" /\ op \in GoalsOps

(* The sections that add a row to the list from the answer. *)
Growing == {"users", "sites", "goals"}

GoodRow(r) ==
  /\ RowShape(r)
  /\ section # "funnel" => r.id \in Int /\ r.id # 0
  /\ section = "team" => r.kind \in {"member", "invite"}
  /\ section \in Growing => r.id <= db.made

ListTables ==
  /\ {"rows", "made"} \subseteq DOMAIN db /\ {"rows", "busy"} \subseteq DOMAIN ui
  /\ section = "users" => "session" \in DOMAIN db
  /\ section = "account" => "fetched" \in DOMAIN ui
  /\ db.made \in Nat
  /\ \A r \in db.rows : GoodRow(r)

Resting == (section = "users" => db.session) /\ (section = "account" => ui.fetched)

(* A handler that fetches the list again: before it has done anything, after,  *)
(* and when it has the list.                                                *)
Adding == {"saveFunnel", "addMonitor", "addHeartbeat", "addMaintenance", "createKey"}
InvitesAgree == OfKind(ui.rows, "invite") = OfKind(db.rows, "invite")

AloneOK(c) ==
  \/ c.stage = 1 /\ c.at \in {"sent", "failed"} /\ c.op # "loadKeys" /\ db.rows = ui.rows
  \/ c.op = "loadKeys" /\ c.stage = 1 /\ c.at = "sent"
  \/ c.op \in {"loadKeys", "push"} /\ c.stage = 1 /\ c.at = "ok" /\ c.got = db.rows
  \/ c.op \in Adding /\ c.stage = 1 /\ c.at = "ok"
  \/ c.op \in Adding /\ c.stage = 2 /\ c.at = "sent"
  \/ c.op \in Adding /\ c.stage = 2 /\ c.at = "ok" /\ c.got = db.rows
  \/ /\ c.op = "sendInvite" /\ c.stage = 1 /\ c.at = "ok" /\ c.got # {}
     /\ db.rows = ui.rows \cup c.got
  \/ c.op = "sendInvite" /\ c.stage = 1 /\ c.at = "ok" /\ c.got = {} /\ InvitesAgree
  \/ c.op = "sendInvite" /\ c.stage = 2 /\ c.at = "sent" /\ InvitesAgree
  \/ /\ c.op = "sendInvite" /\ c.stage = 2 /\ c.at = "ok" /\ InvitesAgree
     /\ c.got = OfKind(db.rows, "member")

(* Rows that are going to be added are new, for the list and for every request. *)
Fresh ==
  /\ \A n \in Calls : calls[n].op # "push" => calls[n].arg \in Int /\ calls[n].arg <= db.made
  /\ \A n \in Calls : \A r \in Adds(calls[n]) :
       /\ RowShape(r) /\ r.id \in Int /\ r.id > 0 /\ r.id <= db.made
       /\ \A q \in ui.rows : q.id # r.id
       /\ \A m \in Calls : calls[m].arg # r.id
       /\ \A m \in Calls \ {n} : \A q \in Adds(calls[m]) : q.id # r.id

NoneAlone == \A n \in Calls : calls[n].op \notin Alone

CalmList ==
  /\ \A n \in Calls : calls[n].at \in {"none", "sent", "ok", "failed"}
  /\ \A m, n \in Calls : calls[m].op \in Alone /\ calls[n].at # "none" => m = n
  /\ OneOfARow(calls)
  /\ \A n \in Calls : calls[n].op \in TakesRow => calls[n].arg # 0
  /\ \A n \in Calls : calls[n].op \in Alone => AloneOK(calls[n])
  /\ NoneAlone => db.rows = After(calls, ui.rows)
  /\ \A r \in ui.rows : GoodRow(r)
  /\ section \in Growing => Fresh

ListState ==
  /\ PageOK /\ ListTables
  /\ \A n \in Calls : InList(calls[n].op) \/ calls[n].op = "none"
  /\ Calm /\ Resting => CalmList

-----------------------------------------------------------------------------
LEMMA NoCallActs == NoCall.op = "none" /\ NoCall.arg = 0 /\ ~Acts(NoCall) /\ Adds(NoCall) = {}
BY NoCallFacts, Separate DEF NoCall, Acts, Adds

LEMMA OpsKept ==
  ASSUME section' = section, \A n \in Calls : InList(calls[n].op) \/ calls[n].op = "none",
         NEW n \in Calls, Others(n), InList(calls'[n].op) \/ calls'[n].op = "none"
  PROVE  \A m \in Calls : InList(calls[m].op)' \/ calls'[m].op = "none"
BY DEF Others, InList

LEMMA InListKept ==
  section' = section => \A op : InList(op)' <=> InList(op)
BY DEF InList

(* A step after which the section is disturbed, or does not rest. *)
LEMMA ListDisturbed ==
  ASSUME ListState, PageOK', ListTables', section' = section, NEW n \in Calls, Others(n),
         calls'[n] = NoCall \/ calls'[n].op = calls[n].op, ~(Calm' /\ Resting')
  PROVE  ListState'
<1>1. InList(calls'[n].op) \/ calls'[n].op = "none"
  BY NoCallFacts DEF ListState
<1>2. \A m \in Calls : InList(calls[m].op)' \/ calls'[m].op = "none"
  BY <1>1, OpsKept DEF ListState
<1> QED BY <1>2 DEF ListState, Calm

(* A step of a handler that is alone. *)
LEMMA ListAlone ==
  ASSUME ListState, PageOK', ListTables', section' = section, NEW n \in Calls, Others(n),
         calls[n].op \in Alone, calls'[n] = NoCall \/ calls'[n].op = calls[n].op,
         Calm' => Calm, Resting' => Resting,
         Calm' /\ Resting' =>
           /\ \A r \in ui'.rows : GoodRow(r)'
           /\ (calls'[n] = NoCall /\ db'.rows = ui'.rows) \/ AloneOK(calls[n])'
  PROVE  ListState'
<1>1. InList(calls'[n].op) \/ calls'[n].op = "none"
  BY NoCallFacts DEF ListState
<1>2. \A m \in Calls : InList(calls[m].op)' \/ calls'[m].op = "none"
  BY <1>1, OpsKept DEF ListState
<1>3. ASSUME Calm', Resting' PROVE CalmList'
  <2>1. CalmList
    BY <1>3 DEF ListState
  <2>2. \A m \in Calls \ {n} : calls'[m] = NoCall
    BY <2>1 DEF CalmList, ListState, PageOK, Others
  <2>3. \A m \in Calls \ {n} : /\ calls'[m].at = "none" /\ calls'[m].op = "none"
                               /\ calls'[m].op \notin TakesRow \cup Alone /\ ~Acts(calls'[m])
                               /\ calls'[m].arg = 0 /\ Adds(calls'[m]) = {}
    BY <2>2, NoCallFacts, NoCallActs, Separate
  <2>4. calls'[n].op \notin TakesRow /\ ~Acts(calls'[n]) /\ Adds(calls'[n]) = {}
    <3>1. CASE calls'[n] = NoCall
      BY <3>1, NoCallFacts, NoCallActs, Separate
    <3>2. CASE calls'[n].op = calls[n].op
      BY <3>2, Separate DEF Acts, Adds
    <3> QED BY <3>1, <3>2
  <2>5. calls'[n].at \in {"none", "sent", "ok", "failed"}
    BY <1>3, NoCallFacts DEF AloneOK
  <2>6. OneOfARow(calls')
    BY <2>3, <2>4 DEF OneOfARow
  <2>7. After(calls', ui'.rows) = ui'.rows
    BY <1>3, <2>3, <2>4, AfterQuiet DEF GoodRow
  <2>8. \A m \in Calls : calls'[m].op \in Alone => AloneOK(calls[m])'
    BY <1>3, <2>3, NoCallFacts, Separate
  <2>9. (NoneAlone => db.rows = After(calls, ui.rows))'
    <3>1. CASE calls'[n] = NoCall /\ db'.rows = ui'.rows
      BY <2>7, <3>1
    <3>2. CASE AloneOK(calls[n])' /\ calls'[n].op = calls[n].op
      BY <3>2 DEF NoneAlone
    <3>3. CASE AloneOK(calls[n])' /\ calls'[n] = NoCall
      BY <3>3, NoCallFacts DEF AloneOK
    <3> QED BY <1>3, <3>1, <3>2, <3>3
  <2>10. section' \in Growing => Fresh'
    <3> SUFFICES ASSUME section \in Growing PROVE Fresh'
      OBVIOUS
    <3>1. calls'[n].op = "push" \/ calls'[n] = NoCall
      BY <1>1 DEF InList, Growing, Alone, UsersOps, GoalsOps
    <3>2. db'.made \in Nat
      BY DEF ListTables
    <3> QED BY <2>3, <2>4, <3>1, <3>2, NoCallFacts, NoCallActs DEF Fresh
  <2> QED BY <1>3, <2>3, <2>4, <2>5, <2>6, <2>8, <2>9, <2>10 DEF CalmList
<1> QED BY <1>2, <1>3 DEF ListState, Calm

(* A step of another handler. *)
LEMMA ListGoes ==
  ASSUME ListState, PageOK', ListTables', section' = section, NEW n \in Calls, Others(n),
         calls[n].op \notin Alone, calls[n].at # "none",
         \/ calls'[n] = NoCall
         \/ /\ calls'[n].op = calls[n].op /\ calls'[n].arg = calls[n].arg
            /\ calls'[n].at \in {"sent", "ok", "failed"},
         Calm' => Calm, Resting' => Resting, db.made <= db'.made,
         Calm' /\ Resting' =>
           /\ \A r \in ui'.rows : GoodRow(r)'
           /\ db.rows = After(calls, ui.rows) => db'.rows = After(calls', ui'.rows)
           /\ section \in Growing => Fresh'
  PROVE  ListState'
<1>1. InList(calls'[n].op) \/ calls'[n].op = "none"
  BY NoCallFacts DEF ListState
<1>2. \A m \in Calls : InList(calls[m].op)' \/ calls'[m].op = "none"
  BY <1>1, OpsKept DEF ListState
<1>3. ASSUME Calm', Resting' PROVE CalmList'
  <2>1. CalmList
    BY <1>3 DEF ListState
  <2>2. \A m \in Calls : calls[m].op \notin Alone
    BY <2>1 DEF CalmList
  <2>3. \A m \in Calls : calls'[m].op \notin Alone
    BY <2>2, NoCallFacts, Separate DEF Others
  <2>4. OneOfARow(calls')
    BY <2>1, NoCallFacts, Separate DEF OneOfARow, Others, CalmList
  <2>5. \A m \in Calls : calls'[m].at \in {"none", "sent", "ok", "failed"}
    BY <2>1, NoCallFacts DEF CalmList, Others
  <2>6. \A m \in Calls : calls'[m].op \in TakesRow => calls'[m].arg # 0
    BY <2>1, NoCallFacts, Separate DEF CalmList, Others
  <2>7. db'.rows = After(calls', ui'.rows)
    BY <1>3, <2>1, <2>2 DEF CalmList, NoneAlone
  <2> QED BY <1>3, <2>3, <2>4, <2>5, <2>6, <2>7 DEF CalmList
<1> QED BY <1>2, <1>3 DEF ListState, Calm

(* A new request. *)
LEMMA ListStarts ==
  ASSUME ListState, section \in Lists, PageOK', NEW op, NEW arg, NEW newui,
         Started(op, arg, newui), InList(op), ListTables',
         \/ newui.rows = ui.rows /\ (Resting' => Resting)
         \/ newui.rows = {} /\ op = "loadKeys",
         op \in TakesRow => \E r \in ui.rows : r.id = arg,
         section \in Growing /\ op # "push" => arg = 0 \/ \E r \in ui.rows : r.id = arg
  PROVE  ListState'
<1>1. UNCHANGED <<section, db>> /\ ui' = newui /\ (Calm' => Calm)
  BY DEF Started, Calm
<1>2. PICK n \in Calls :
       /\ calls[n] = NoCall /\ Others(n)
       /\ calls'[n].op = op /\ calls'[n].stage = 1 /\ calls'[n].at = "sent"
       /\ calls'[n].arg = arg /\ calls'[n].got = {}
  BY DEF Started
<1>3. \A m \in Calls : InList(calls[m].op)' \/ calls'[m].op = "none"
  BY <1>1, <1>2, OpsKept DEF ListState
<1>4. ASSUME Calm', Resting' PROVE CalmList'
  <2>0. \A m \in Calls : calls[m].at # "none" =>
          /\ op \notin Refetching /\ calls[m].op \notin Refetching
          /\ arg = 0 \/ calls[m].arg # arg
    BY <1>4 DEF Started, Calm
  <2>1. ~Acts(calls[n]) /\ ~Acts(calls'[n]) /\ Adds(calls'[n]) = {} /\ Adds(calls[n]) = {}
    BY <1>2, NoCallActs DEF Acts, Adds
  <2>2. CASE op \in Alone
    <3>1. \A m \in Calls : calls[m] = NoCall
      BY <2>0, <2>2, Separate DEF ListState, PageOK
    <3>2. \A m \in Calls \ {n} : /\ calls'[m].at = "none" /\ calls'[m].op = "none"
                                 /\ calls'[m].op \notin TakesRow \cup Alone
                                 /\ ~Acts(calls'[m]) /\ Adds(calls'[m]) = {} /\ calls'[m].arg = 0
      BY <1>2, <3>1, NoCallActs, NoCallFacts, Separate DEF Others
    <3>3. \A r \in ui'.rows : GoodRow(r)'
      <4>1. \A r : GoodRow(r)' <=> GoodRow(r)
        BY <1>1 DEF GoodRow
      <4>2. newui.rows = {} \/ \A r \in newui.rows : GoodRow(r)
        BY <1>1, <1>4 DEF ListState, CalmList
      <4> QED BY <1>1, <4>1, <4>2
    <3>4. AloneOK(calls[n])'
      <4>1. CASE op = "loadKeys"
        BY <1>2, <4>1 DEF AloneOK
      <4>2. CASE op # "loadKeys"
        <5>1. CalmList /\ newui.rows = ui.rows
          BY <1>1, <1>4, <4>2 DEF ListState
        <5>2. \A m \in Calls : ~Acts(calls[m]) /\ calls[m].op \notin Alone
          BY <3>1, NoCallActs, NoCallFacts, Separate
        <5>3. db.rows = ui.rows
          BY <5>1, <5>2, AfterQuiet DEF CalmList, NoneAlone, GoodRow
        <5> QED BY <1>1, <1>2, <4>2, <5>1, <5>3 DEF AloneOK
      <4> QED BY <4>1, <4>2
    <3>5. section' \in Growing => Fresh'
      <4> SUFFICES ASSUME section \in Growing PROVE Fresh'
        BY <1>1
      <4>1. op = "push" /\ db'.made \in Nat
        BY <2>2 DEF InList, Growing, Alone, UsersOps, GoalsOps, ListTables
      <4> QED BY <1>2, <2>1, <3>2, <4>1 DEF Fresh
    <3>6. OneOfARow(calls')
      BY <1>2, <2>2, <3>2, Separate DEF OneOfARow
    <3>7. calls'[n].op \notin TakesRow
      BY <1>2, <2>2, Separate
    <3> QED BY <1>2, <2>2, <3>2, <3>3, <3>4, <3>5, <3>6, <3>7 DEF CalmList, NoneAlone
  <2>3. CASE op \notin Alone
    <3>1. Resting /\ CalmList /\ newui.rows = ui.rows
      BY <1>1, <1>4, <2>3 DEF ListState, Alone
    <3>2. \A m \in Calls : calls[m].op \notin Alone /\ calls'[m].op \notin Alone
      <4>1. \A m \in Calls : calls[m].op \notin Alone
        <5>1. "none" \notin Alone
          BY Separate
        <5>2. \A m \in Calls : calls[m].at # "none" \/ calls[m] = NoCall
          BY DEF ListState, PageOK
        <5>3. SUFFICES ASSUME NEW m \in Calls, calls[m].op \in Alone, calls[m].at # "none" PROVE FALSE
          BY <5>1, <5>2, NoCallFacts
        <5> QED BY <2>0, <5>3, Separate
      <4> QED BY <1>2, <2>3, <4>1 DEF Others
    <3>3. op \in TakesRow => arg # 0
      <4>1. "saveFunnel" \notin TakesRow
        BY DEF TakesRow, DropOps, SetOps
      <4> QED BY <3>1, <4>1 DEF CalmList, GoodRow, InList
    <3>4. OneOfARow(calls')
      <4> SUFFICES ASSUME NEW m \in Calls, NEW k \in Calls, calls'[m].op \in TakesRow,
                          calls'[k].at # "none", calls'[k].arg = calls'[m].arg
                   PROVE  m = k
        BY DEF OneOfARow
      <4>1. CASE m # n /\ k # n
        BY <1>2, <3>1, <4>1 DEF Others, CalmList, OneOfARow
      <4>2. CASE m = n /\ k # n
        BY <1>2, <2>0, <3>3, <4>2 DEF Others
      <4>3. CASE m # n /\ k = n
        <5>1. calls[m].op \in TakesRow /\ calls[m].arg = arg
          BY <1>2, <4>3 DEF Others
        <5>2. arg # 0
          BY <3>1, <5>1 DEF CalmList
        <5>3. calls[m].at # "none"
          BY <5>1, NoCallFacts, Separate DEF ListState, PageOK
        <5> QED BY <2>0, <5>1, <5>2, <5>3
      <4> QED BY <4>1, <4>2, <4>3
    <3>5. db'.rows = After(calls', ui'.rows)
      BY <1>1, <1>2, <2>1, <3>1, <3>2, <3>4, AfterSame DEF CalmList, Others, NoneAlone
    <3>6. section' \in Growing => Fresh'
      <4> SUFFICES ASSUME section \in Growing PROVE Fresh'
        BY <1>1
      <4>1. Fresh /\ db.made \in Nat /\ \A r \in ui.rows : r.id \in Int /\ r.id <= db.made
        BY <3>1 DEF CalmList, ListState, ListTables, GoodRow, Growing
      <4>2. arg = 0 \/ \E r \in ui.rows : r.id = arg
        BY <2>3 DEF Alone
      <4>3. arg \in Int /\ arg <= db.made
        BY <4>1, <4>2
      <4>4. \A m \in Calls : \A r \in Adds(calls[m]) : r.id # arg
        BY <4>1, <4>2 DEF Fresh
      <4>5. \A m \in Calls : Adds(calls'[m]) = Adds(calls[m])
        BY <1>2, <2>1 DEF Others
      <4>6. \A m \in Calls : calls'[m].op # "push" => calls'[m].arg \in Int /\ calls'[m].arg <= db.made
        BY <1>2, <4>1, <4>3 DEF Fresh, Others
      <4>7. \A m, k \in Calls : \A r \in Adds(calls[m]) : calls'[k].arg # r.id
        BY <1>2, <4>1, <4>4 DEF Fresh, Others
      <4>8. ui'.rows = ui.rows /\ db'.made = db.made
        BY <1>1, <3>1
      <4> QED BY <4>1, <4>5, <4>6, <4>7, <4>8 DEF Fresh
    <3>7. \A r \in ui'.rows : GoodRow(r)'
      BY <1>1, <3>1 DEF CalmList, GoodRow
    <3>8. \A m \in Calls : /\ calls'[m].at \in {"none", "sent", "ok", "failed"}
                           /\ calls'[m].op \in TakesRow => calls'[m].arg # 0
      BY <1>2, <3>1, <3>3 DEF CalmList, Others
    <3> QED BY <3>2, <3>4, <3>5, <3>6, <3>7, <3>8 DEF CalmList
  <2> QED BY <2>2, <2>3
<1> QED BY <1>3, <1>4 DEF ListState, Calm

LEMMA SendStep ==
  ASSUME PageOK, NEW op, NEW arg, NEW newui
  PROVE  /\ Send(op, arg, newui) => PageOK' /\ Started(op, arg, newui)
         /\ \A to : SendTo(op, arg, to, newui) => PageOK' /\ Started(op, arg, newui)
<1>1. Send(op, arg, newui) => PageOK' /\ Started(op, arg, newui)
  BY StartNo, Zenon DEF Send
<1>2. ASSUME NEW to, SendTo(op, arg, to, newui) PROVE PageOK' /\ Started(op, arg, newui)
  BY <1>2, StartStep DEF SendTo, Started
<1> QED BY <1>1, <1>2

-----------------------------------------------------------------------------
(* What handlers do to the tables and to the page. *)
DbIs(new, list, top) ==
  /\ {"rows", "made"} \subseteq DOMAIN new /\ new.rows = list /\ new.made = top
  /\ section = "users" => "session" \in DOMAIN new /\ (new.session => db.session)

UiIs(new, list) ==
  /\ {"rows", "busy"} \subseteq DOMAIN new /\ new.rows = list
  /\ section = "account" => "fetched" \in DOMAIN new /\ new.fetched = ui.fetched

LEMMA DbSame == ListTables => DbIs(db, db.rows, db.made)
BY DEF ListTables, DbIs

LEMMA DbRows ==
  ASSUME ListTables, NEW list
  PROVE  DbIs([db EXCEPT !.rows = list], list, db.made)
BY DEF ListTables, DbIs

LEMMA DbWithRow ==
  ASSUME ListTables, NEW r
  PROVE  DbIs(WithRow(r), db.rows \cup {r}, db.made + 1)
<1> DEFINE d == [db EXCEPT !.rows = db.rows \cup {r}]
<1>1. WithRow(r) = [d EXCEPT !.made = db.made + 1]
  BY DEF WithRow, ListTables
<1>2. DbIs(d, db.rows \cup {r}, db.made)
  BY DbRows
<1> HIDE DEF d
<1> QED BY <1>1, <1>2 DEF DbIs

LEMMA UiSame == ListTables => UiIs(ui, ui.rows)
BY DEF ListTables, UiIs

LEMMA UiRows ==
  ASSUME ListTables, NEW list
  PROVE  UiIs([ui EXCEPT !.rows = list], list)
BY DEF ListTables, UiIs

LEMMA UiBusy ==
  ASSUME ListTables, NEW busy
  PROVE  UiIs([ui EXCEPT !.busy = busy], ui.rows)
BY DEF ListTables, UiIs

LEMMA UiBusyRows ==
  ASSUME ListTables, NEW busy, NEW list
  PROVE  /\ UiIs([ui EXCEPT !.busy = busy, !.rows = list], list)
         /\ UiIs([ui EXCEPT !.rows = list, !.busy = busy], list)
<1>1. UiIs([[ui EXCEPT !.busy = busy] EXCEPT !.rows = list], list)
  BY UiBusy DEF UiIs
<1>2. UiIs([[ui EXCEPT !.rows = list] EXCEPT !.busy = busy], list)
  BY UiRows DEF UiIs
<1> QED BY <1>1, <1>2

LEMMA GoodKept ==
  ASSUME ListTables, db'.made \in Nat, db.made <= db'.made, section' = section,
         NEW r, GoodRow(r)
  PROVE  GoodRow(r)'
<1>1. section \in Growing => r.id \in Int
  BY DEF GoodRow, Growing
<1>2. section \in Growing => r.id <= db'.made
  BY <1>1 DEF GoodRow, ListTables
<1> QED BY <1>2 DEF GoodRow

LEMMA TablesFrom ==
  ASSUME ListTables, section' = section, NEW list, NEW top \in Nat, NEW shown,
         DbIs(db', list, top), UiIs(ui', shown), \A r \in list : GoodRow(r)'
  PROVE  ListTables' /\ (Resting' => Resting)
BY DEF ListTables, DbIs, UiIs, Resting

(* Rows that are made. *)
LEMMA NewRow ==
  ASSUME NEW kind, NEW id
  PROVE  LET r == Row(kind, id, TRUE)
         IN RowShape(r) /\ r.kind = kind /\ r.id = id
BY Zenon DEF Row, RowShape

LEMMA NewGood ==
  ASSUME ListTables, NEW kind, NEW id \in Int, id # 0, id <= db.made,
         section # "team" \/ kind \in {"member", "invite"}
  PROVE  GoodRow(Row(kind, id, TRUE))
<1> DEFINE r == Row(kind, id, TRUE)
<1>1. RowShape(r) /\ r.kind = kind /\ r.id = id
  BY NewRow
<1> HIDE DEF r
<1>2. GoodRow(r)
  BY <1>1 DEF GoodRow
<1> QED BY <1>2 DEF r

-----------------------------------------------------------------------------
(* A row that is new for the list is new after any step of a handler that adds *)
(* none.                                                                    *)
LEMMA FreshKept ==
  ASSUME Fresh, section' = section, db'.made \in Nat, db.made \in Nat, db.made <= db'.made,
         NEW n \in Calls, Others(n), Adds(calls'[n]) \subseteq Adds(calls[n]),
         \/ calls'[n] = NoCall
         \/ calls'[n].op = calls[n].op /\ calls'[n].arg = calls[n].arg,
         \A q \in ui'.rows : \/ \E p \in ui.rows : q.id = p.id
                             \/ Adds(calls'[n]) = {} /\ \E p \in Adds(calls[n]) : q.id = p.id
  PROVE  Fresh'
<1>1. \A m \in Calls : calls'[m].op # "push" => calls'[m].arg \in Int /\ calls'[m].arg <= db'.made
  <2> TAKE m \in Calls
  <2>1. CASE calls'[m] = NoCall
    BY <2>1, NoCallActs
  <2>2. CASE calls'[m].op = calls[m].op /\ calls'[m].arg = calls[m].arg
    BY <2>2 DEF Fresh
  <2> QED BY <2>1, <2>2 DEF Others
<1>2. \A m \in Calls : Adds(calls'[m]) \subseteq Adds(calls[m])
  BY DEF Others
<1>3. \A m \in Calls : calls'[m].arg = calls[m].arg \/ calls'[m].arg = 0
  BY NoCallActs DEF Others
<1>4. ASSUME NEW m \in Calls, NEW r \in Adds(calls'[m])
      PROVE  /\ RowShape(r) /\ r.id \in Int /\ r.id > 0 /\ r.id <= db'.made
             /\ \A q \in ui'.rows : q.id # r.id
             /\ \A k \in Calls : calls'[k].arg # r.id
             /\ \A k \in Calls \ {m} : \A q \in Adds(calls'[k]) : q.id # r.id
  <2>1. r \in Adds(calls[m])
    BY <1>2, <1>4
  <2>2. /\ RowShape(r) /\ r.id \in Int /\ r.id > 0 /\ r.id <= db.made
        /\ \A q \in ui.rows : q.id # r.id
        /\ \A k \in Calls : calls[k].arg # r.id
        /\ \A k \in Calls \ {m} : \A q \in Adds(calls[k]) : q.id # r.id
    BY <2>1 DEF Fresh
  <2>3. \A q \in ui'.rows : q.id # r.id
    <3> TAKE q \in ui'.rows
    <3>1. CASE Adds(calls'[n]) = {} /\ \E p \in Adds(calls[n]) : q.id = p.id
      BY <1>4, <2>2, <3>1
    <3> QED BY <2>2, <3>1
  <2> QED BY <1>2, <1>3, <2>2, <2>3
<1> QED BY <1>1, <1>4 DEF Fresh

(* And the row of an insert is new. *)
LEMMA FreshInsert ==
  ASSUME ListTables, CalmList, NoneAlone, section \in Growing, section' = section, ui' = ui,
         NEW n \in Calls, Others(n), calls[n].at = "sent",
         NEW r, RowShape(r), r.id = db.made + 1, Further(n, "ok", {r}), db'.made = db.made + 1
  PROVE  Fresh'
<1>1. db.made \in Nat /\ Fresh
  BY DEF ListTables, CalmList
<1>2. \A q \in ui'.rows : q.id \in Int /\ q.id <= db.made
  BY DEF CalmList, GoodRow, Growing
<1>3. \A m \in Calls : calls[m].op # "push"
  BY DEF NoneAlone, Alone
<1>4. \A m \in Calls : calls'[m].arg = calls[m].arg /\ calls'[m].arg \in Int /\ calls'[m].arg <= db.made
  BY <1>1, <1>3 DEF Fresh, Others, Further
<1>5. \A m \in Calls \ {n} : Adds(calls'[m]) = Adds(calls[m])
  BY DEF Others
<1>6. Adds(calls'[n]) \subseteq {r}
  BY DEF Adds, Further
<1>7. r.id \in Int /\ r.id > 0 /\ r.id <= db'.made /\ ~(r.id <= db.made)
  BY <1>1
<1>8. ASSUME NEW m \in Calls, NEW p \in Adds(calls'[m])
      PROVE  /\ RowShape(p) /\ p.id \in Int /\ p.id > 0 /\ p.id <= db'.made
             /\ \A q \in ui'.rows : q.id # p.id
             /\ \A k \in Calls : calls'[k].arg # p.id
             /\ \A k \in Calls \ {m} : \A q \in Adds(calls'[k]) : q.id # p.id
  <2>1. CASE m = n
    <3>1. p = r
      BY <1>6, <1>8, <2>1
    <3>2. \A k \in Calls \ {m} : \A q \in Adds(calls'[k]) : q.id \in Int /\ q.id <= db.made
      BY <1>1, <1>5, <2>1 DEF Fresh
    <3>3. \A q \in ui'.rows : q.id # p.id
      BY <1>2, <1>7, <3>1
    <3>4. \A k \in Calls : calls'[k].arg # p.id
      BY <1>4, <1>7, <3>1
    <3>5. \A k \in Calls \ {m} : \A q \in Adds(calls'[k]) : q.id # p.id
      BY <1>7, <3>1, <3>2
    <3> QED BY <1>7, <3>1, <3>3, <3>4, <3>5
  <2>2. CASE m # n
    <3>1. p \in Adds(calls[m])
      BY <1>5, <1>8, <2>2
    <3>2. /\ RowShape(p) /\ p.id \in Int /\ p.id > 0 /\ p.id <= db.made
          /\ \A q \in ui.rows : q.id # p.id
          /\ \A k \in Calls : calls[k].arg # p.id
          /\ \A k \in Calls \ {m} : \A q \in Adds(calls[k]) : q.id # p.id
      BY <1>1, <3>1 DEF Fresh
    <3>3. p.id <= db'.made /\ p.id # r.id
      BY <1>1, <1>7, <3>2
    <3>4. \A k \in Calls \ {m} : \A q \in Adds(calls'[k]) : q.id # p.id
      BY <1>5, <1>6, <3>2, <3>3
    <3>5. \A k \in Calls : calls'[k].arg # p.id
      BY <1>4, <3>2
    <3> QED BY <3>2, <3>3, <3>4, <3>5
  <2> QED BY <2>1, <2>2
<1>9. \A m \in Calls : calls'[m].op # "push" => calls'[m].arg \in Int /\ calls'[m].arg <= db'.made
  BY <1>1, <1>4
<1> QED BY <1>8, <1>9 DEF Fresh

-----------------------------------------------------------------------------
LEMMA OneKept ==
  ASSUME OneOfARow(calls), NEW n \in Calls, Others(n), calls[n].at # "none",
         calls'[n] = NoCall \/ (calls'[n].op = calls[n].op /\ calls'[n].arg = calls[n].arg)
  PROVE  OneOfARow(calls')
BY NoCallFacts, Separate DEF OneOfARow, Others

(* No request is left behind by a reload when all is calm. *)
LEMMA NothingLeft ==
  ASSUME ListState, Calm, Resting, NEW n \in Calls
  PROVE  calls[n].at # "left"
BY DEF ListState, CalmList

(* An answer that reaches its handler, with nothing disturbed. *)
Arrives(n, got) ==
  /\ CalmList /\ Resting /\ UNCHANGED <<section, ui>> /\ Others(n)
  /\ calls[n].at = "sent" /\ Further(n, "ok", got) /\ OneOfARow(calls')

LEMMA ReplyPage ==
  ASSUME ListState, NEW n \in Calls, NEW newdb, NEW got, NEW list, NEW top \in Nat,
         Reply(n, newdb, got), DbIs(newdb, list, top), db.made <= top,
         \A r \in list : GoodRow(r)'
  PROVE  /\ PageOK' /\ ListTables' /\ UNCHANGED <<section, ui>> /\ Others(n) /\ db' = newdb
         /\ (Resting' => Resting) /\ db'.rows = list /\ db'.made = top
         /\ calls'[n] = NoCall \/ (calls'[n].op = calls[n].op /\ calls'[n].arg = calls[n].arg)
         /\ \/ Calm' /\ Resting' => Arrives(n, got) /\ Calm
            \/ ~(Calm' /\ Resting')
<1>1. /\ PageOK' /\ UNCHANGED <<section, ui>> /\ db' = newdb /\ Others(n)
      /\ \/ calls[n].at = "sent" /\ hist' = hist /\ Further(n, "ok", got)
         \/ calls[n].at = "sent" /\ hist'.lost /\ hist'.raced = hist.raced
            /\ Further(n, "failed", calls[n].got)
         \/ calls[n].at = "left" /\ hist' = hist /\ calls'[n] = NoCall
  BY ReplyStep DEF ListState
<1>2. ListTables' /\ (Resting' => Resting)
  BY <1>1, TablesFrom, UiSame DEF ListState
<1>3. CASE calls[n].at = "sent" /\ hist' = hist /\ Further(n, "ok", got)
  <2>1. Calm' /\ Resting' => CalmList /\ Calm /\ Resting
    BY <1>2, <1>3 DEF Calm, ListState
  <2>2. CalmList => OneOfARow(calls')
    BY <1>1, <1>3, OneKept DEF CalmList, Further
  <2> QED BY <1>1, <1>2, <1>3, <2>1, <2>2 DEF Arrives, Further, DbIs
<1>4. CASE calls[n].at = "sent" /\ hist'.lost /\ Further(n, "failed", calls[n].got)
  BY <1>1, <1>2, <1>4 DEF Calm, Further, DbIs
<1>5. CASE calls[n].at = "left" /\ hist' = hist /\ calls'[n] = NoCall
  <2>1. ~(Calm' /\ Resting')
    BY <1>2, <1>5, NothingLeft DEF Calm
  <2> QED BY <1>1, <1>2, <1>5, <2>1 DEF DbIs
<1> QED BY <1>1, <1>3, <1>4, <1>5

LEMMA ReplyGoes ==
  ASSUME ListState, NEW n \in Calls, NEW newdb, NEW got, NEW list, NEW top \in Nat,
         calls[n].at # "none", calls[n].op \notin Alone,
         Reply(n, newdb, got), DbIs(newdb, list, top), db.made <= top,
         \A r \in list : GoodRow(r)',
         Arrives(n, got) /\ db'.made = top =>
           /\ db.rows = After(calls, ui.rows) => list = After(calls', ui.rows)
           /\ section \in Growing => Fresh'
  PROVE  ListState'
<1>1. /\ PageOK' /\ ListTables' /\ UNCHANGED <<section, ui>> /\ Others(n)
      /\ (Resting' => Resting) /\ db'.rows = list /\ db'.made = top
      /\ calls'[n] = NoCall \/ (calls'[n].op = calls[n].op /\ calls'[n].arg = calls[n].arg)
      /\ \/ Calm' /\ Resting' => Arrives(n, got) /\ Calm
         \/ ~(Calm' /\ Resting')
  BY ReplyPage
<1>2. CASE ~(Calm' /\ Resting')
  BY <1>1, <1>2, ListDisturbed
<1>3. CASE Calm' /\ Resting'
  <2>1. Arrives(n, got) /\ Calm
    BY <1>1, <1>3
  <2>2. /\ calls'[n].op = calls[n].op /\ calls'[n].arg = calls[n].arg
        /\ calls'[n].at \in {"sent", "ok", "failed"}
    BY <2>1 DEF Arrives, Further
  <2>3. \A r \in ui'.rows : GoodRow(r)'
    <3>1. db'.made \in Nat /\ db.made <= db'.made
      BY <1>1
    <3>2. \A r \in ui.rows : GoodRow(r)
      BY <2>1 DEF Arrives, CalmList
    <3> QED BY <1>1, <3>1, <3>2, GoodKept DEF ListState
  <2>4. db.rows = After(calls, ui.rows) => db'.rows = After(calls', ui'.rows)
    BY <1>1, <2>1
  <2>5. section \in Growing => Fresh'
    BY <1>1, <2>1
  <2> QED BY <1>1, <2>1, <2>2, <2>3, <2>4, <2>5, ListGoes
<1> QED BY <1>2, <1>3

LEMMA ReplyAlone ==
  ASSUME ListState, NEW n \in Calls, NEW newdb, NEW got, NEW list, NEW top \in Nat,
         calls[n].op \in Alone,
         Reply(n, newdb, got), DbIs(newdb, list, top), db.made <= top,
         \A r \in list : GoodRow(r)',
         Arrives(n, got) /\ AloneOK(calls[n]) /\ db'.rows = list => AloneOK(calls[n])'
  PROVE  ListState'
<1>1. /\ PageOK' /\ ListTables' /\ UNCHANGED <<section, ui>> /\ Others(n)
      /\ (Resting' => Resting) /\ db'.rows = list /\ db'.made = top
      /\ calls'[n] = NoCall \/ (calls'[n].op = calls[n].op /\ calls'[n].arg = calls[n].arg)
      /\ \/ Calm' /\ Resting' => Arrives(n, got) /\ Calm
         \/ ~(Calm' /\ Resting')
  BY ReplyPage
<1>2. CASE ~(Calm' /\ Resting')
  BY <1>1, <1>2, ListDisturbed
<1>3. CASE Calm' /\ Resting'
  <2>1. Arrives(n, got) /\ Calm
    BY <1>1, <1>3
  <2>3. \A r \in ui'.rows : GoodRow(r)'
    <3>1. db'.made \in Nat /\ db.made <= db'.made
      BY <1>1
    <3>2. \A r \in ui.rows : GoodRow(r)
      BY <2>1 DEF Arrives, CalmList
    <3> QED BY <1>1, <3>1, <3>2, GoodKept DEF ListState
  <2>4. AloneOK(calls[n])'
    BY <1>1, <2>1 DEF Arrives, CalmList
  <2> QED BY <1>1, <2>1, <2>3, <2>4, ListAlone
<1> QED BY <1>2, <1>3

-----------------------------------------------------------------------------
(* A request that fails. *)
LEMMA FailGoes ==
  ASSUME ListState, PageOK', UNCHANGED <<section, db, ui, hist>>, NEW n \in Calls,
         Others(n), Fails(n), calls[n].at = "sent", Resting,
         calls[n].op \in Alone => calls[n].stage = 1 /\ calls[n].op # "loadKeys"
  PROVE  ListState'
<1>1. Further(n, "failed", calls[n].got)
  BY DEF Fails
<1>2. ListTables' /\ (Resting' => Resting) /\ (Calm' => Calm)
  BY DbSame, UiSame, TablesFrom DEF ListState, ListTables, Calm, GoodRow
<1>3. \A r : GoodRow(r) => GoodRow(r)'
  BY DEF GoodRow
<1>4. CASE calls[n].op \in Alone
  <2>1. CalmList => AloneOK(calls[n])'
    BY <1>1, <1>4 DEF CalmList, AloneOK, Further
  <2>2. Calm' /\ Resting' => CalmList
    BY <1>2 DEF ListState
  <2>3. calls'[n].op = calls[n].op
    BY <1>1 DEF Further
  <2>4. Calm' /\ Resting' => \A r \in ui'.rows : GoodRow(r)'
    BY <1>3, <2>2 DEF CalmList
  <2> QED BY <1>2, <1>4, <2>1, <2>2, <2>3, <2>4, ListAlone
<1>5. CASE calls[n].op \notin Alone
  <2>1. ~Acts(calls[n]) /\ ~Acts(calls'[n])
    BY <1>1 DEF Acts, Further
  <2>2. ASSUME Calm', Resting'
        PROVE  /\ \A r \in ui'.rows : GoodRow(r)'
               /\ db.rows = After(calls, ui.rows) => db'.rows = After(calls', ui'.rows)
               /\ section \in Growing => Fresh'
    <3>1. CalmList
      BY <1>2, <2>2 DEF ListState
    <3>2. OneOfARow(calls) /\ OneOfARow(calls')
      BY <1>1, <3>1, OneKept DEF CalmList, Further
    <3>3. After(calls', ui.rows) = After(calls, ui.rows)
      BY <2>1, <3>2, AfterSame DEF Others
    <3>4. section \in Growing => Fresh'
      <4>1. Adds(calls'[n]) = {}
        BY <2>1, NoActs
      <4> QED BY <1>1, <3>1, <4>1, FreshKept DEF CalmList, Further, ListState, ListTables
    <3> QED BY <1>3, <3>1, <3>3, <3>4 DEF CalmList
  <2>3. /\ calls'[n].op = calls[n].op /\ calls'[n].arg = calls[n].arg
        /\ calls'[n].at \in {"sent", "ok", "failed"} /\ db.made <= db'.made
    BY <1>1 DEF Further, ListState, ListTables
  <2> QED BY <1>2, <1>5, <2>2, <2>3, ListGoes
<1> QED BY <1>4, <1>5

LEMMA RefuseGoes ==
  ASSUME ListState, NEW n \in Calls, calls[n].at \in {"sent", "left"}, Refuse(n),
         calls[n].op \in Alone => calls[n].stage = 1 /\ calls[n].op # "loadKeys"
  PROVE  ListState'
<1>1. PageOK' /\ UNCHANGED <<section, db, ui, hist>> /\ Others(n) /\ Fails(n)
  BY RefuseStep DEF ListState
<1>2. CASE calls[n].at = "sent" /\ Resting
  BY <1>1, <1>2, FailGoes
<1>3. CASE calls[n].at = "left" \/ ~Resting
  <2>1. ListTables' /\ (Resting' => Resting)
    BY <1>1, DbSame, UiSame, TablesFrom DEF ListState, ListTables, GoodRow
  <2>2. ~(Calm' /\ Resting')
    BY <1>1, <1>3, <2>1, NothingLeft DEF Calm
  <2>3. calls'[n] = NoCall \/ calls'[n].op = calls[n].op
    BY <1>1 DEF Fails, Further
  <2> QED BY <1>1, <2>1, <2>2, <2>3, ListDisturbed
<1> QED BY <1>2, <1>3

LEMMA LoseGoes ==
  ASSUME ListState, NEW n \in Calls, Lose(n)
  PROVE  ListState'
<1>1. PageOK' /\ UNCHANGED <<section, db, ui>> /\ Others(n) /\ Fails(n) /\ hist'.lost
  BY LoseStep DEF ListState
<1>2. ListTables'
  BY <1>1, DbSame, UiSame, TablesFrom DEF ListState, ListTables, GoodRow
<1>3. calls'[n] = NoCall \/ calls'[n].op = calls[n].op
  BY <1>1 DEF Fails, Further
<1> QED BY <1>1, <1>2, <1>3, ListDisturbed DEF Calm

-----------------------------------------------------------------------------
(* The server's shapes. *)
LEMMA GoodAfter ==
  ASSUME ListTables, NEW n, NEW newdb, NEW got, NEW list, NEW top \in Nat,
         Reply(n, newdb, got), DbIs(newdb, list, top), db.made <= top
  PROVE  \A r : GoodRow(r) => GoodRow(r)'
<1>1. db' = newdb /\ section' = section
  BY DEF Reply
<1>2. db'.made = top
  BY <1>1 DEF DbIs
<1> QED BY <1>1, <1>2, GoodKept

LEMMA AddedNew ==
  ASSUME ListState, CalmList, NEW m \in Calls, NEW r \in Added(calls)
  PROVE  r.id # calls[m].arg
<1>1. PICK n \in Calls : r \in Adds(calls[n])
  BY AddedIs
<1>2. calls[n].op \in Appending
  BY <1>1 DEF Adds
<1>3. section \in Growing
  BY <1>2, Separate DEF ListState, InList, Growing, Appending, TeamOps, MonitorsOps,
    HeartbeatsOps, MaintenanceOps, AccountOps
<1> QED BY <1>1, <1>3 DEF CalmList, Fresh

(* The answer of a request that adds nothing leaves new what is new. *)
LEMMA FreshReply ==
  ASSUME ListState, NEW n \in Calls, NEW got, Arrives(n, got), Fresh, db'.made = db.made,
         calls[n].op \notin Appending
  PROVE  Fresh'
<1>1. Adds(calls'[n]) = {}
  BY DEF Adds, Arrives, Further
<1> QED BY <1>1, FreshKept DEF Arrives, Further, ListState, ListTables

LEMMA SentQuiet ==
  ASSUME NEW c, c.at \in {"sent", "left", "failed", "none"}
  PROVE  ~Acts(c)
BY DEF Acts

LEMMA ReplyQuiet ==
  ASSUME ListState, NEW n \in Calls, NEW newdb, NEW got,
         calls[n].at # "none", calls[n].op \notin Alone \cup TakesRow \cup Appending,
         Reply(n, newdb, got), DbIs(newdb, db.rows, db.made)
  PROVE  ListState'
<1>1. db.made \in Nat /\ db.made <= db.made /\ \A r \in db.rows : GoodRow(r)'
  BY GoodAfter DEF ListState, ListTables
<1>2. ASSUME Arrives(n, got), db'.made = db.made
      PROVE  /\ After(calls', ui.rows) = After(calls, ui.rows)
             /\ section \in Growing => Fresh'
  <2>1. ~Acts(calls[n]) /\ ~Acts(calls'[n])
    BY <1>2 DEF Acts, Arrives, Further
  <2>2. After(calls', ui.rows) = After(calls, ui.rows)
    BY <1>2, <2>1, AfterSame DEF Arrives, CalmList, Others
  <2> QED BY <1>2, <2>2, FreshReply DEF Arrives, CalmList
<1> QED BY <1>1, <1>2, ReplyGoes

LEMMA ReplyDrops ==
  ASSUME ListState, NEW n \in Calls, calls[n].op \in DropOps, calls[n].at # "none",
         NEW list, list = Without(db.rows, KindOf(calls[n].op), calls[n].arg),
         Reply(n, [db EXCEPT !.rows = list], {})
  PROVE  ListState'
<1>0. calls[n].op \notin Alone \cup Appending
  BY Separate DEF TakesRow
<1>1. DbIs([db EXCEPT !.rows = list], list, db.made)
  BY DbRows DEF ListState
<1>2. db.made \in Nat /\ db.made <= db.made /\ \A r \in list : GoodRow(r)'
  BY <1>1, GoodAfter DEF ListState, ListTables, Without
<1>3. ASSUME Arrives(n, {}), db'.made = db.made
      PROVE  /\ db.rows = After(calls, ui.rows) => list = After(calls', ui.rows)
             /\ section \in Growing => Fresh'
  <2>1. /\ ~Acts(calls[n]) /\ calls'[n].at = "ok" /\ calls'[n].op = calls[n].op
        /\ calls'[n].arg = calls[n].arg
    BY <1>3, SentQuiet DEF Arrives, Further
  <2>2. \A r \in Added(calls) : r.id # calls'[n].arg
    BY <1>3, <2>1, AddedNew DEF Arrives
  <2>3. After(calls', ui.rows)
          = Without(After(calls, ui.rows), KindOf(calls[n].op), calls[n].arg)
    <3>1. OneOfARow(calls) /\ OneOfARow(calls') /\ \A m \in Calls \ {n} : calls'[m] = calls[m]
      BY <1>3 DEF Arrives, CalmList, Others
    <3>2. After(calls', ui.rows)
            = Without(After(calls, ui.rows), KindOf(calls'[n].op), calls'[n].arg)
      BY <2>1, <2>2, <3>1, AfterDrop
    <3> QED BY <2>1, <3>2
  <2> QED BY <1>0, <1>3, <2>3, FreshReply DEF Arrives, CalmList
<1> QED BY <1>0, <1>1, <1>2, <1>3, ReplyGoes

LEMMA DeleteGoes ==
  ASSUME ListState, NEW n \in Calls, NEW op \in DropOps, NEW kind, kind = KindOf(op),
         Delete(n, op, kind)
  PROVE  ListState'
<1>1. calls[n].op = op /\ calls[n].at \in {"sent", "left"} /\ op \notin Alone
  BY Separate DEF Delete, Asked, TakesRow
<1>2. CASE Reply(n, [db EXCEPT !.rows = Without(@, kind, calls[n].arg)], {})
  <2> DEFINE list == Without(db.rows, kind, calls[n].arg)
  <2>1. Reply(n, [db EXCEPT !.rows = list], {}) /\ list = Without(db.rows, KindOf(calls[n].op), calls[n].arg)
    BY <1>1, <1>2
  <2> HIDE DEF list
  <2> QED BY <1>1, <2>1, ReplyDrops
<1>3. CASE Refuse(n)
  BY <1>1, <1>3, RefuseGoes
<1> QED BY <1>2, <1>3 DEF Delete

LEMMA SetGood ==
  ASSUME ListTables, NEW kind, NEW id, NEW on, NEW list, \A r \in list : GoodRow(r),
         NEW s \in SetOn(list, kind, id, on)
  PROVE  GoodRow(s)
<1>1. PICK r \in list : s = IF r.kind = kind /\ r.id = id THEN [r EXCEPT !.on = on] ELSE r
  BY DEF SetOn
<1>2. CASE s = [r EXCEPT !.on = on]
  <2>1. GoodRow(r) /\ r = [kind |-> r.kind, id |-> r.id, on |-> r.on, of |-> r.of]
    BY DEF GoodRow, RowShape
  <2>2. s = [kind |-> r.kind, id |-> r.id, on |-> on, of |-> r.of]
    BY <1>2, <2>1
  <2>3. RowShape(s) /\ s.id = r.id /\ s.kind = r.kind
    BY <2>2 DEF RowShape
  <2> QED BY <2>1, <2>3 DEF GoodRow
<1> QED BY <1>1, <1>2

LEMMA ReplySets ==
  ASSUME ListState, NEW n \in Calls, calls[n].op \in SetOps, calls[n].at # "none",
         NEW list, list = SetOn(db.rows, KindOf(calls[n].op), calls[n].arg, calls[n].to),
         NEW newdb, DbIs(newdb, list, db.made), Reply(n, newdb, {})
  PROVE  ListState'
<1>0. calls[n].op \notin Alone \cup Appending
  BY Separate DEF TakesRow
<1>2. db.made \in Nat /\ db.made <= db.made /\ \A r \in list : GoodRow(r)'
  BY GoodAfter, SetGood DEF ListState, ListTables
<1>3. ASSUME Arrives(n, {}), db'.made = db.made
      PROVE  /\ db.rows = After(calls, ui.rows) => list = After(calls', ui.rows)
             /\ section \in Growing => Fresh'
  <2>1. /\ ~Acts(calls[n]) /\ calls'[n].at = "ok" /\ calls'[n].op = calls[n].op
        /\ calls'[n].arg = calls[n].arg /\ calls'[n].to = calls[n].to
    BY <1>3, SentQuiet DEF Arrives, Further
  <2>2. \A r \in Added(calls) : r.id # calls'[n].arg
    BY <1>3, <2>1, AddedNew DEF Arrives
  <2>3. After(calls', ui.rows)
          = SetOn(After(calls, ui.rows), KindOf(calls[n].op), calls[n].arg, calls[n].to)
    BY <1>3, <2>1, <2>2, AfterSet DEF Arrives, CalmList, Others
  <2> QED BY <1>0, <1>3, <2>3, FreshReply DEF Arrives, CalmList
<1> QED BY <1>0, <1>2, <1>3, ReplyGoes

LEMMA UpdateGoes ==
  ASSUME ListState, NEW n \in Calls, NEW op \in SetOps, NEW kind, kind = KindOf(op),
         Update(n, op, kind)
  PROVE  ListState'
<1>1. calls[n].op = op /\ calls[n].at \in {"sent", "left"} /\ op \notin Alone
  BY Separate DEF Update, Asked, TakesRow
<1>2. CASE Reply(n, [db EXCEPT !.rows = SetOn(@, kind, calls[n].arg, calls[n].to)], {})
  <2> DEFINE list == SetOn(db.rows, kind, calls[n].arg, calls[n].to)
             newdb == [db EXCEPT !.rows = list]
  <2>1. Reply(n, newdb, {}) /\ list = SetOn(db.rows, KindOf(calls[n].op), calls[n].arg, calls[n].to)
    BY <1>1, <1>2
  <2> HIDE DEF list
  <2>2. DbIs(newdb, list, db.made)
    BY DbRows DEF ListState
  <2> HIDE DEF newdb
  <2> QED BY <1>1, <2>1, <2>2, ReplySets
<1>3. CASE Refuse(n)
  BY <1>1, <1>3, RefuseGoes
<1> QED BY <1>2, <1>3 DEF Update

(* An insert, of a handler that will add the row and of one that is alone. *)
LEMMA InsertGoes ==
  ASSUME ListState, NEW n \in Calls, NEW op, NEW kind, section # "team",
         op \in Appending \cup (Adding \ {"saveFunnel"}),
         Insert(n, op, kind)
  PROVE  ListState'
<1>0. PICK r : r = Row(kind, NewId, TRUE)
  OBVIOUS
<1> DEFINE got == {r}
           newdb == WithRow(r)
           list == db.rows \cup got
           top == db.made + 1
<1>1. calls[n].op = op /\ calls[n].at \in {"sent", "left"} /\ calls[n].stage = 1
      /\ (Reply(n, newdb, got) \/ Refuse(n))
  BY <1>0 DEF Insert, Asked
<1>2. RowShape(r) /\ r.kind = kind /\ r.id = top
  BY <1>0, NewRow DEF NewId
<1>3. DbIs(newdb, list, top)
  BY DbWithRow DEF ListState
<1>4. op \notin TakesRow /\ op # "loadKeys" /\ (op \in Appending <=> op \notin Alone)
  BY Separate DEF Adding, Alone, Appending, TakesRow, DropOps, SetOps
<1> HIDE DEF newdb
<1>5. CASE Refuse(n)
  BY <1>1, <1>4, <1>5, RefuseGoes
<1>6. CASE Reply(n, newdb, got)
  <2>0. top \in Nat /\ db.made <= top /\ db.made \in Nat
    BY DEF ListState, ListTables
  <2>1. db' = newdb /\ section' = section
    BY <1>6 DEF Reply
  <2>2. db'.made = top
    BY <1>3, <2>1 DEF DbIs
  <2>3. GoodRow(r)'
    <3>1. r.id \in Int /\ r.id # 0 /\ r.id <= db'.made
      BY <1>2, <2>0, <2>2
    <3>2. GoodRow(r)' <=>
            /\ RowShape(r)
            /\ section' # "funnel" => r.id \in Int /\ r.id # 0
            /\ section' = "team" => r.kind \in {"member", "invite"}
            /\ section' \in Growing => r.id <= db'.made
      BY DEF GoodRow
    <3> QED BY <1>2, <2>1, <3>1, <3>2
  <2>4. \A q \in list : GoodRow(q)'
    <3> HIDE DEF top
    <3>1. \A q \in db.rows : GoodRow(q)'
      BY <1>3, <1>6, <2>0, GoodAfter DEF ListState, ListTables
    <3> QED BY <2>3, <3>1
  <2>5. CASE op \in Appending
    <3>1. section \in Growing
      BY <1>1, <2>5, Separate DEF ListState, InList, Growing, Appending, TeamOps, MonitorsOps,
        HeartbeatsOps, MaintenanceOps, AccountOps
    <3>2. ASSUME Arrives(n, got), db'.made = top
          PROVE  /\ db.rows = After(calls, ui.rows) => list = After(calls', ui.rows)
                 /\ Fresh'
      <4>1. /\ ~Acts(calls[n]) /\ calls'[n].at = "ok" /\ calls'[n].op = calls[n].op
            /\ calls'[n].got = got
        BY <3>2, SentQuiet DEF Arrives, Further
      <4>2. After(calls', ui.rows) = After(calls, ui.rows) \cup got
        <5> HIDE DEF got
        <5> QED BY <1>1, <2>5, <3>2, <4>1, AfterAdd DEF Arrives, CalmList, Others
      <4>3. NoneAlone
        BY <1>1, <1>4, <2>5, <3>2 DEF NoneAlone, CalmList, Arrives
      <4>4. Fresh'
        BY <1>2, <2>1, <2>2, <3>1, <3>2, <4>3, FreshInsert DEF Arrives, ListState
      <4> QED BY <4>2, <4>4
    <3> HIDE DEF list, top, got
    <3> QED BY <1>1, <1>3, <1>4, <1>6, <2>0, <2>4, <2>5, <3>2, ReplyGoes
  <2>6. CASE op \in Adding
    <3>1. Arrives(n, got) => AloneOK(calls[n])'
      BY <1>1, <2>6 DEF Arrives, Further, AloneOK
    <3>2. calls[n].op \in Alone
      BY <1>1, <2>6 DEF Adding, Alone
    <3> HIDE DEF list, top, got
    <3> QED BY <1>3, <1>6, <2>0, <2>4, <3>1, <3>2, ReplyAlone
  <2> QED BY <2>5, <2>6
<1> QED BY <1>1, <1>5, <1>6

(* A list that is fetched. *)
LEMMA FetchGoes ==
  ASSUME ListState, NEW n \in Calls, NEW op \in Adding, List(n, op, db.rows)
  PROVE  ListState'
<1>1. /\ calls[n].op = op /\ calls[n].at \in {"sent", "left"} /\ calls[n].stage = 2
      /\ Reply(n, db, db.rows) /\ calls[n].op \in Alone
  BY DEF List, Asked, Adding, Alone
<1>2. DbIs(db, db.rows, db.made) /\ db.made \in Nat /\ db.made <= db.made
  BY DbSame DEF ListState, ListTables
<1>3. \A r \in db.rows : GoodRow(r)'
  BY <1>1, <1>2, GoodAfter DEF ListState, ListTables
<1>4. Arrives(n, db.rows) /\ db'.rows = db.rows => AloneOK(calls[n])'
  BY <1>1 DEF Arrives, Further, AloneOK
<1> QED BY <1>1, <1>2, <1>3, <1>4, ReplyAlone

-----------------------------------------------------------------------------
(* The handlers' ends. *)
LEMMA RestSame ==
  ASSUME ListTables, UNCHANGED <<section, db, hist>>, NEW list, UiIs(ui', list)
  PROVE  /\ ListTables' /\ (Resting' => Resting) /\ (Calm' => Calm)
         /\ \A r : GoodRow(r)' <=> GoodRow(r)
<1>1. \A r : GoodRow(r)' <=> GoodRow(r)
  BY DEF GoodRow
<1>2. DbIs(db', db.rows, db.made)
  BY DbSame DEF DbIs
<1>3. \A r \in db.rows : GoodRow(r)'
  BY <1>1 DEF ListTables
<1>4. ListTables' /\ (Resting' => Resting)
  BY <1>2, <1>3, TablesFrom DEF ListTables
<1> QED BY <1>1, <1>4 DEF Calm

(* A handler that is over, with nothing disturbed. *)
Ends(n) ==
  /\ CalmList /\ UNCHANGED <<section, db>> /\ Others(n) /\ calls'[n] = NoCall
  /\ OneOfARow(calls) /\ OneOfARow(calls')

LEMMA FinishGoes ==
  ASSUME ListState, NEW n \in Calls, NEW newui, NEW list, Finish(n, newui),
         UiIs(newui, list), calls[n].op \notin Alone, calls[n].at # "none",
         Ends(n) /\ ui'.rows = list =>
           /\ \A r \in list : GoodRow(r)
           /\ After(calls', list) = After(calls, ui.rows)
           /\ section \in Growing => Fresh'
  PROVE  ListState'
<1>1. /\ PageOK' /\ UNCHANGED <<section, db, hist>> /\ ui' = newui /\ Others(n)
      /\ calls'[n] = NoCall
  BY FinishStep DEF ListState
<1>2. /\ ListTables' /\ (Resting' => Resting) /\ (Calm' => Calm)
      /\ \A r : GoodRow(r)' <=> GoodRow(r)
  BY <1>1, RestSame DEF ListState
<1>3. ui'.rows = list /\ db.made <= db'.made
  BY <1>1 DEF UiIs, ListState, ListTables
<1>4. ASSUME Calm', Resting'
      PROVE  /\ \A r \in ui'.rows : GoodRow(r)'
             /\ db.rows = After(calls, ui.rows) => db'.rows = After(calls', ui'.rows)
             /\ section \in Growing => Fresh'
  <2>1. CalmList
    BY <1>2, <1>4 DEF ListState
  <2>2. OneOfARow(calls) /\ OneOfARow(calls')
    BY <1>1, <2>1, OneKept DEF CalmList
  <2> QED BY <1>1, <1>2, <1>3, <2>1, <2>2 DEF Ends
<1> QED BY <1>1, <1>2, <1>3, <1>4, ListGoes

LEMMA FreshEnd ==
  ASSUME ListState, NEW n \in Calls, Ends(n), section \in Growing,
         \A q \in ui'.rows : \/ \E p \in ui.rows : q.id = p.id
                             \/ \E p \in Adds(calls[n]) : q.id = p.id
  PROVE  Fresh'
<1>1. Adds(calls'[n]) = {} /\ Fresh /\ db'.made \in Nat /\ db.made \in Nat /\ db.made <= db'.made
  BY NoCallActs DEF Ends, CalmList, ListState, ListTables
<1> QED BY <1>1, FreshKept DEF Ends

LEMMA FinishQuiet ==
  ASSUME ListState, NEW n \in Calls, NEW newui, Finish(n, newui), UiIs(newui, ui.rows),
         calls[n].op \notin Alone, calls[n].at # "none", ~Acts(calls[n])
  PROVE  ListState'
<1>1. ASSUME Ends(n), ui'.rows = ui.rows
      PROVE  /\ \A r \in ui.rows : GoodRow(r)
             /\ After(calls', ui.rows) = After(calls, ui.rows)
             /\ section \in Growing => Fresh'
  <2>1. After(calls', ui.rows) = After(calls, ui.rows)
    BY <1>1, NoCallActs, AfterSame DEF Ends, Others
  <2>2. section \in Growing => Fresh'
    BY <1>1, FreshEnd
  <2> QED BY <1>1, <2>1, <2>2 DEF Ends, CalmList
<1> QED BY <1>1, FinishGoes

LEMMA FinishDrops ==
  ASSUME ListState, NEW n \in Calls, NEW newui, NEW list, Finish(n, newui),
         list = Without(ui.rows, KindOf(calls[n].op), calls[n].arg), UiIs(newui, list),
         calls[n].op \in DropOps, calls[n].at = "ok"
  PROVE  ListState'
<1>0. calls[n].op \notin Alone
  BY Separate DEF TakesRow
<1>1. ASSUME Ends(n), ui'.rows = list
      PROVE  /\ \A r \in list : GoodRow(r)
             /\ After(calls', list) = After(calls, ui.rows)
             /\ section \in Growing => Fresh'
  <2>1. \A r \in list : r \in ui.rows
    BY DEF Without
  <2>2. ~Acts(calls'[n]) /\ \A m \in Calls \ {n} : calls'[m] = calls[m]
    BY <1>1, NoCallActs DEF Ends, Others
  <2>3. \A r \in Added(calls) : r.id # calls[n].arg
    BY <1>1, AddedNew DEF Ends
  <2>4. After(calls', list) = After(calls, ui.rows)
    <3>1. OneOfARow(calls) /\ OneOfARow(calls')
      BY <1>1 DEF Ends
    <3>2. After(calls', Without(ui.rows, KindOf(calls[n].op), calls[n].arg)) = After(calls, ui.rows)
      BY <2>2, <2>3, <3>1, AfterDropped
    <3> QED BY <3>2
  <2>5. section \in Growing => Fresh'
    BY <1>1, <2>1, FreshEnd
  <2> QED BY <1>1, <2>1, <2>4, <2>5 DEF Ends, CalmList
<1> QED BY <1>0, <1>1, FinishGoes

LEMMA FinishSets ==
  ASSUME ListState, NEW n \in Calls, NEW newui, NEW list, Finish(n, newui),
         list = SetOn(ui.rows, KindOf(calls[n].op), calls[n].arg, calls[n].to),
         UiIs(newui, list), calls[n].op \in SetOps, calls[n].at = "ok"
  PROVE  ListState'
<1>0. calls[n].op \notin Alone
  BY Separate DEF TakesRow
<1>1. ASSUME Ends(n), ui'.rows = list
      PROVE  /\ \A r \in list : GoodRow(r)
             /\ After(calls', list) = After(calls, ui.rows)
             /\ section \in Growing => Fresh'
  <2>0. \A r \in ui.rows : GoodRow(r) /\ RowShape(r)
    BY <1>1 DEF Ends, CalmList, GoodRow
  <2>1. \A r \in list : GoodRow(r)
    BY <2>0, SetGood DEF ListState
  <2>2. ~Acts(calls'[n]) /\ \A m \in Calls \ {n} : calls'[m] = calls[m]
    BY <1>1, NoCallActs DEF Ends, Others
  <2>4. After(calls', list) = After(calls, ui.rows)
    BY <1>1, <2>0, <2>2, AfterWritten DEF Ends
  <2>5. \A q \in list : \E p \in ui.rows : q.id = p.id
    <3> TAKE q \in list
    <3>1. PICK p \in ui.rows :
            q = IF p.kind = KindOf(calls[n].op) /\ p.id = calls[n].arg
                THEN [p EXCEPT !.on = calls[n].to] ELSE p
      BY DEF SetOn
    <3>2. p = [kind |-> p.kind, id |-> p.id, on |-> p.on, of |-> p.of]
      BY <2>0 DEF RowShape
    <3> QED BY <3>1, <3>2
  <2>6. section \in Growing => Fresh'
    BY <1>1, <2>5, FreshEnd
  <2> QED BY <2>1, <2>4, <2>6
<1> QED BY <1>0, <1>1, FinishGoes

LEMMA FinishAdds ==
  ASSUME ListState, NEW n \in Calls, NEW newui, NEW list, Finish(n, newui),
         list = ui.rows \cup calls[n].got, UiIs(newui, list),
         calls[n].op \in Appending, calls[n].at = "ok"
  PROVE  ListState'
<1>0. calls[n].op \notin Alone
  BY Separate
<1>1. ASSUME Ends(n), ui'.rows = list
      PROVE  /\ \A r \in list : GoodRow(r)
             /\ After(calls', list) = After(calls, ui.rows)
             /\ section \in Growing => Fresh'
  <2>1. section \in Growing
    BY Separate DEF ListState, InList, Growing, Appending, TeamOps, MonitorsOps, HeartbeatsOps,
      MaintenanceOps, AccountOps
  <2>2. Adds(calls[n]) = calls[n].got
    BY DEF Adds
  <2>3. \A r \in calls[n].got :
          /\ RowShape(r) /\ r.id \in Int /\ r.id > 0 /\ r.id <= db.made
          /\ \A m \in Calls : calls[m].arg # r.id
    BY <1>1, <2>1, <2>2 DEF Ends, CalmList, Fresh
  <2>4. \A r \in calls[n].got : GoodRow(r)
    <3>1. "team" \notin Growing
      BY DEF Growing
    <3> QED BY <2>1, <2>3, <3>1 DEF GoodRow
  <2>5. ~Acts(calls'[n]) /\ \A m \in Calls \ {n} : calls'[m] = calls[m]
    BY <1>1, NoCallActs DEF Ends, Others
  <2>6. After(calls', list) = After(calls, ui.rows)
    BY <1>1, <2>3, <2>5, AfterAdded DEF Ends
  <2>7. Fresh'
    BY <1>1, <2>1, <2>2, FreshEnd
  <2> QED BY <1>1, <2>4, <2>6, <2>7 DEF Ends, CalmList
<1> QED BY <1>0, <1>1, FinishGoes

(* The ends of handlers that are alone, and their second requests. *)
LEMMA FinishAlone ==
  ASSUME ListState, NEW n \in Calls, NEW newui, NEW list, Finish(n, newui),
         UiIs(newui, list), calls[n].op \in Alone,
         CalmList /\ AloneOK(calls[n]) => db.rows = list
  PROVE  ListState'
<1>1. /\ PageOK' /\ UNCHANGED <<section, db, hist>> /\ ui' = newui /\ Others(n)
      /\ calls'[n] = NoCall
  BY FinishStep DEF ListState
<1>2. /\ ListTables' /\ (Resting' => Resting) /\ (Calm' => Calm)
      /\ \A r : GoodRow(r)' <=> GoodRow(r)
  BY <1>1, RestSame DEF ListState
<1>3. ui'.rows = list
  BY <1>1 DEF UiIs
<1>4. ASSUME Calm', Resting'
      PROVE  (\A r \in ui'.rows : GoodRow(r)') /\ db'.rows = ui'.rows
  <2>1. db.rows = list
    BY <1>2, <1>4 DEF ListState, CalmList
  <2> QED BY <1>1, <1>2, <1>3, <2>1 DEF ListState, ListTables
<1> QED BY <1>1, <1>2, <1>4, ListAlone

LEMMA AwaitAlone ==
  ASSUME ListState, NEW n \in Calls, NEW newui, Await(n, newui), UiIs(newui, ui.rows),
         calls[n].op \in Alone, calls[n].stage = 1,
         \/ calls[n].op \in Adding
         \/ calls[n].op = "sendInvite" /\ (AloneOK(calls[n]) => InvitesAgree)
  PROVE  ListState'
<1>1. /\ PageOK' /\ UNCHANGED <<section, db, hist>> /\ ui' = newui /\ Others(n)
      /\ calls'[n].op = calls[n].op /\ calls'[n].stage = 2 /\ calls'[n].at = "sent"
  BY AwaitStep DEF ListState
<1>2. /\ ListTables' /\ (Resting' => Resting) /\ (Calm' => Calm)
      /\ \A r : GoodRow(r)' <=> GoodRow(r)
  BY <1>1, RestSame DEF ListState
<1>3. ui'.rows = ui.rows
  BY <1>1 DEF UiIs
<1>4. ASSUME Calm', Resting'
      PROVE  (\A r \in ui'.rows : GoodRow(r)') /\ AloneOK(calls[n])'
  <2>1. CalmList
    BY <1>2, <1>4 DEF ListState
  <2>2. AloneOK(calls[n])
    BY <2>1 DEF CalmList
  <2>3. AloneOK(calls[n])'
    BY <1>1, <1>3, <2>2 DEF AloneOK, InvitesAgree
  <2> QED BY <1>2, <1>3, <2>1, <2>3 DEF CalmList
<1> QED BY <1>1, <1>2, <1>4, ListAlone

-----------------------------------------------------------------------------
(* Their shapes. *)
LEMMA ThenDropGoes ==
  ASSUME ListState, NEW n \in Calls, NEW op \in DropOps, NEW kind, kind = KindOf(op),
         ThenDropRow(n, op, kind)
  PROVE  ListState'
<1>1. CASE Answered(n, op, 1) /\ Finish(n, [ui EXCEPT !.rows = Without(@, kind, calls[n].arg)])
  <2> DEFINE list == Without(ui.rows, kind, calls[n].arg)
             newui == [ui EXCEPT !.rows = list]
  <2>1. /\ calls[n].op = op /\ calls[n].at = "ok" /\ Finish(n, newui)
        /\ list = Without(ui.rows, KindOf(calls[n].op), calls[n].arg)
    BY <1>1 DEF Answered
  <2> HIDE DEF list
  <2>2. UiIs(newui, list)
    BY UiRows DEF ListState
  <2> HIDE DEF newui
  <2> QED BY <2>1, <2>2, FinishDrops
<1>2. CASE Thrown(n, op) /\ Finish(n, ui)
  <2>1. /\ calls[n].op \notin Alone /\ calls[n].at # "none" /\ ~Acts(calls[n])
        /\ UiIs(ui, ui.rows)
    BY <1>2, Separate, SentQuiet, UiSame DEF Thrown, TakesRow, ListState
  <2> QED BY <1>2, <2>1, FinishQuiet
<1> QED BY <1>1, <1>2 DEF ThenDropRow

LEMMA ThrownAlone ==
  ASSUME ListState, NEW n \in Calls, NEW op \in Alone, op # "loadKeys", Thrown(n, op),
         NEW newui, UiIs(newui, ui.rows), Finish(n, newui)
  PROVE  ListState'
<1>1. calls[n].op \in Alone /\ (AloneOK(calls[n]) => db.rows = ui.rows)
  BY DEF Thrown, AloneOK
<1> QED BY <1>1, FinishAlone

LEMMA ShowAlone ==
  ASSUME ListState, NEW n \in Calls, NEW newui, UiIs(newui, calls[n].got), Finish(n, newui),
         calls[n].at = "ok",
         (calls[n].op \in Adding /\ calls[n].stage = 2) \/ calls[n].op \in {"loadKeys", "push"}
  PROVE  ListState'
<1>1. calls[n].op \in Alone /\ (AloneOK(calls[n]) => db.rows = calls[n].got)
  BY DEF AloneOK, Adding, Alone
<1> QED BY <1>1, FinishAlone

LEMMA ThenShowGoes ==
  ASSUME ListState, NEW n \in Calls, NEW op \in Adding, ThenShowList(n, op)
  PROVE  ListState'
<1>0. op \in Alone /\ op # "loadKeys" /\ UiIs(ui, ui.rows)
  BY UiSame DEF Adding, Alone, ListState
<1>1. CASE Answered(n, op, 1) /\ Await(n, ui)
  BY <1>0, <1>1, AwaitAlone DEF Answered
<1>2. CASE Answered(n, op, 2) /\ Finish(n, [ui EXCEPT !.rows = calls[n].got])
  <2>1. UiIs([ui EXCEPT !.rows = calls[n].got], calls[n].got)
    BY UiRows DEF ListState
  <2> QED BY <1>2, <2>1, ShowAlone DEF Answered
<1>3. CASE Thrown(n, op) /\ Finish(n, ui)
  BY <1>0, <1>3, ThrownAlone
<1> QED BY <1>1, <1>2, <1>3 DEF ThenShowList

-----------------------------------------------------------------------------
(* The steps of the handlers, section by section. *)
LEMMA Kinds ==
  /\ KindOf("deleteInvite") = "invite" /\ KindOf("removeMember") = "member"
  /\ KindOf("deleteMonitor") = "monitor" /\ KindOf("toggleMonitor") = "monitor"
  /\ KindOf("deleteHeartbeat") = "heartbeat" /\ KindOf("deleteMaintenance") = "window"
  /\ KindOf("removeUser") = "user" /\ KindOf("changeRole") = "user"
  /\ KindOf("remove") = "site" /\ KindOf("revoke") = "key" /\ KindOf("deleteGoal") = "goal"
BY DEF KindOf

LEMMA InviteMade ==
  ASSUME ListState, section = "team", NEW n \in Calls, createInviteHandler(n)
  PROVE  ListState'
<1>1. calls[n].op = "sendInvite" /\ calls[n].stage = 1 /\ calls[n].op \in Alone
  BY DEF createInviteHandler, Asked, Alone
<1>2. db.made \in Nat /\ ListTables
  BY DEF ListState, ListTables
<1>3. AloneOK(calls[n]) /\ calls[n].at = "sent" => db.rows = ui.rows
  BY <1>1 DEF AloneOK
<1>4. CASE Reply(n, [db EXCEPT !.rows = @ \cup {Row("member", Registered, TRUE)}], {})
  <2>0. PICK r : r = Row("member", Registered, TRUE)
    OBVIOUS
  <2> DEFINE list == db.rows \cup {r}
             newdb == [db EXCEPT !.rows = list]
  <2>1. Reply(n, newdb, {})
    BY <1>4, <2>0
  <2>2. DbIs(newdb, list, db.made) /\ db.made <= db.made
    BY <1>2, DbRows
  <2>3. RowShape(r) /\ r.kind = "member" /\ r.id = Registered
    BY <2>0, NewRow, Zenon
  <2>4. GoodRow(r)
    BY <2>3 DEF GoodRow, Growing, Registered
  <2>5. \A q \in list : GoodRow(q)'
    <3> HIDE DEF newdb
    <3>1. \A q : GoodRow(q) => GoodRow(q)'
      BY <1>2, <2>1, <2>2, GoodAfter
    <3> QED BY <2>4, <3>1, <1>2 DEF ListTables
  <2>6. Arrives(n, {}) /\ AloneOK(calls[n]) /\ db'.rows = list => AloneOK(calls[n])'
    <3> SUFFICES ASSUME Arrives(n, {}), AloneOK(calls[n]), db'.rows = list
                 PROVE  AloneOK(calls[n])'
      OBVIOUS
    <3>1. OfKind(db'.rows, "invite") = OfKind(db.rows, "invite")
      BY <2>3 DEF OfKind
    <3>2. InvitesAgree'
      BY <1>3, <3>1 DEF InvitesAgree, Arrives
    <3> QED BY <1>1, <3>2 DEF AloneOK, Arrives, Further
  <2> HIDE DEF newdb, list
  <2> QED BY <1>1, <1>2, <2>1, <2>2, <2>5, <2>6, ReplyAlone
<1>5. CASE LET r == Row("invite", NewId, TRUE) IN Reply(n, WithRow(r), {r})
  <2>0. PICK r : r = Row("invite", NewId, TRUE)
    OBVIOUS
  <2> DEFINE list == db.rows \cup {r}
             newdb == WithRow(r)
             top == db.made + 1
             got == {r}
  <2>1. Reply(n, newdb, got)
    BY <1>5, <2>0
  <2>2. DbIs(newdb, list, top) /\ top \in Nat /\ db.made <= top
    BY <1>2, DbWithRow
  <2>3. RowShape(r) /\ r.kind = "invite" /\ r.id \in Int /\ r.id # 0
    <3>1. RowShape(r) /\ r.kind = "invite" /\ r.id = NewId
      BY <2>0, NewRow, Zenon
    <3> QED BY <1>2, <3>1 DEF NewId
  <2>4. GoodRow(r)
    BY <2>3 DEF GoodRow, Growing
  <2>5. \A q \in list : GoodRow(q)'
    <3> HIDE DEF newdb, got
    <3>1. \A q : GoodRow(q) => GoodRow(q)'
      <4> HIDE DEF top, list
      <4> QED BY <1>2, <2>1, <2>2, GoodAfter
    <3> QED BY <2>4, <3>1, <1>2 DEF ListTables
  <2>6. Arrives(n, got) /\ AloneOK(calls[n]) /\ db'.rows = list => AloneOK(calls[n])'
    BY <1>1, <1>3 DEF AloneOK, Arrives, Further
  <2> HIDE DEF newdb, list, top, got
  <2> QED BY <1>1, <2>1, <2>2, <2>5, <2>6, ReplyAlone
<1> QED BY <1>4, <1>5 DEF createInviteHandler

LEMMA InviteListed ==
  ASSUME ListState, section = "team", NEW n \in Calls,
         List(n, "sendInvite", OfKind(db.rows, "member"))
  PROVE  ListState'
<1> DEFINE got == OfKind(db.rows, "member")
<1>1. /\ calls[n].op = "sendInvite" /\ calls[n].stage = 2 /\ calls[n].op \in Alone
      /\ Reply(n, db, got)
  BY DEF List, Asked, Alone
<1>2. DbIs(db, db.rows, db.made) /\ db.made \in Nat /\ db.made <= db.made
  BY DbSame DEF ListState, ListTables
<1>3. \A r \in db.rows : GoodRow(r)'
  <2> HIDE DEF got
  <2> QED BY <1>1, <1>2, GoodAfter DEF ListState, ListTables
<1>4. Arrives(n, got) /\ AloneOK(calls[n]) /\ db'.rows = db.rows => AloneOK(calls[n])'
  <2> SUFFICES ASSUME Arrives(n, got), AloneOK(calls[n]), db'.rows = db.rows
               PROVE  AloneOK(calls[n])'
    OBVIOUS
  <2>1. InvitesAgree
    BY <1>1 DEF AloneOK, Adding
  <2>2. InvitesAgree'
    BY <2>1 DEF InvitesAgree, Arrives
  <2>3. calls'[n].got = OfKind(db'.rows, "member")
    BY DEF Arrives, Further
  <2> QED BY <1>1, <2>2, <2>3 DEF AloneOK, Arrives, Further
<1> HIDE DEF got
<1> QED BY <1>1, <1>2, <1>3, <1>4, ReplyAlone

LEMMA InviteShown ==
  ASSUME ListState, section = "team", NEW n \in Calls, sendInviteThen(n)
  PROVE  ListState'
<1>0. ListTables /\ UiIs(ui, ui.rows) /\ "sendInvite" \in Alone
  BY UiSame DEF ListState, Alone
<1>1. CASE Answered(n, "sendInvite", 1) /\ calls[n].got = {} /\ Await(n, ui)
  <2>1. calls[n].op = "sendInvite" /\ calls[n].stage = 1
        /\ (AloneOK(calls[n]) => InvitesAgree)
    BY <1>1 DEF Answered, AloneOK, Adding
  <2> QED BY <1>0, <1>1, <2>1, AwaitAlone
<1>2. CASE /\ Answered(n, "sendInvite", 1) /\ calls[n].got # {}
           /\ Finish(n, [ui EXCEPT !.rows = @ \cup calls[n].got])
  <2> DEFINE list == ui.rows \cup calls[n].got
             newui == [ui EXCEPT !.rows = list]
  <2>1. Finish(n, newui)
    BY <1>2
  <2>2. calls[n].op \in Alone /\ (AloneOK(calls[n]) => db.rows = list)
    BY <1>0, <1>2 DEF Answered, AloneOK, Adding
  <2> HIDE DEF list
  <2>3. UiIs(newui, list)
    BY <1>0, UiRows
  <2> HIDE DEF newui
  <2> QED BY <2>1, <2>2, <2>3, FinishAlone
<1>3. CASE /\ Answered(n, "sendInvite", 2)
           /\ Finish(n, [ui EXCEPT !.rows = OfKind(@, "invite") \cup calls[n].got])
  <2> DEFINE list == OfKind(ui.rows, "invite") \cup calls[n].got
             newui == [ui EXCEPT !.rows = list]
  <2>1. Finish(n, newui)
    BY <1>3
  <2>2. calls[n].op \in Alone /\ (AloneOK(calls[n]) => db.rows = list)
    <3>1. \A r \in db.rows : r.kind \in {"member", "invite"}
      BY <1>0 DEF ListTables, GoodRow
    <3>2. db.rows = OfKind(db.rows, "invite") \cup OfKind(db.rows, "member")
      BY <3>1 DEF OfKind
    <3>3. AloneOK(calls[n]) => InvitesAgree /\ calls[n].got = OfKind(db.rows, "member")
      BY <1>3 DEF Answered, AloneOK, Adding
    <3> QED BY <1>0, <1>3, <3>2, <3>3 DEF Answered, InvitesAgree
  <2> HIDE DEF list
  <2>3. UiIs(newui, list)
    BY <1>0, UiRows
  <2> HIDE DEF newui
  <2> QED BY <2>1, <2>2, <2>3, FinishAlone
<1>4. CASE Thrown(n, "sendInvite") /\ Finish(n, ui)
  BY <1>0, <1>4, ThrownAlone
<1> QED BY <1>1, <1>2, <1>3, <1>4 DEF sendInviteThen

LEMMA TeamGoes ==
  ASSUME ListState, section = "team", NEW n \in Calls, TeamNext(n)
  PROVE  ListState'
<1>1. CASE Delete(n, "deleteInvite", "invite") \/ Delete(n, "removeMember", "member")
  BY <1>1, Kinds, DeleteGoes DEF DropOps
<1>2. CASE deleteInviteThen(n) \/ removeMemberThen(n)
  BY <1>2, Kinds, ThenDropGoes DEF deleteInviteThen, removeMemberThen, DropOps
<1> QED BY <1>1, <1>2, InviteMade, InviteListed, InviteShown DEF TeamNext, TeamServer

LEMMA ChecksQuiet ==
  "loadChecks" \notin Alone \cup TakesRow \cup Appending
  /\ {"changePassword", "resetPassword"} \cap (Alone \cup TakesRow \cup Appending) = {}
BY DEF Alone, TakesRow, Appending, DropOps, SetOps

LEMMA UiOther ==
  ASSUME ListTables, NEW checks
  PROVE  /\ UiIs([ui EXCEPT !.checks = checks], ui.rows)
         /\ UiIs([ui EXCEPT !.days = checks], ui.rows)
         /\ UiIs([ui EXCEPT !.input = checks], ui.rows)
BY DEF ListTables, UiIs

LEMMA MonitorsGo ==
  ASSUME ListState, section = "monitors", NEW n \in Calls, MonitorsNext(n)
  PROVE  ListState'
<1>0. ListTables
  BY DEF ListState
<1>1. CASE Insert(n, "addMonitor", "monitor")
  BY <1>1, InsertGoes DEF Adding
<1>2. CASE List(n, "addMonitor", db.rows)
  BY <1>2, FetchGoes DEF Adding
<1>3. CASE Update(n, "toggleMonitor", "monitor")
  BY <1>3, Kinds, UpdateGoes DEF SetOps
<1>4. CASE Delete(n, "deleteMonitor", "monitor")
  BY <1>4, Kinds, DeleteGoes DEF DropOps
<1>5. CASE Asked(n, "loadChecks", 1) /\ Reply(n, db, {})
  <2>1. calls[n].op = "loadChecks" /\ calls[n].at # "none"
    BY <1>5 DEF Asked
  <2> QED BY <1>0, <1>5, <2>1, ChecksQuiet, DbSame, ReplyQuiet
<1>6. CASE addMonitorThen(n)
  BY <1>6, ThenShowGoes DEF addMonitorThen, Adding
<1>7. CASE toggleMonitorThen(n)
  <2>1. CASE Thrown(n, "toggleMonitor") /\ Finish(n, ui)
    <3>1. calls[n].op \notin Alone /\ calls[n].at # "none" /\ ~Acts(calls[n])
      BY <2>1, SentQuiet DEF Thrown, Alone
    <3> QED BY <1>0, <2>1, <3>1, UiSame, FinishQuiet
  <2>2. CASE /\ Answered(n, "toggleMonitor", 1)
             /\ Finish(n, [ui EXCEPT !.rows = SetOn(@, "monitor", calls[n].arg, calls[n].to)])
    <3> DEFINE list == SetOn(ui.rows, "monitor", calls[n].arg, calls[n].to)
               newui == [ui EXCEPT !.rows = list]
    <3>1. /\ calls[n].op \in SetOps /\ calls[n].at = "ok" /\ Finish(n, newui)
          /\ list = SetOn(ui.rows, KindOf(calls[n].op), calls[n].arg, calls[n].to)
      BY <2>2, Kinds DEF Answered, SetOps
    <3> HIDE DEF list
    <3>2. UiIs(newui, list)
      BY <1>0, UiRows
    <3> HIDE DEF newui
    <3> QED BY <3>1, <3>2, FinishSets
  <2> QED BY <1>7, <2>1, <2>2 DEF toggleMonitorThen
<1>8. CASE deleteMonitorThen(n)
  BY <1>8, Kinds, ThenDropGoes DEF deleteMonitorThen, DropOps
<1>9. CASE loadChecksThen(n)
  <2> DEFINE newui == [ui EXCEPT !.checks = @ \cup {calls[n].arg}]
  <2>1. UiIs(newui, ui.rows)
    BY <1>0, UiOther
  <2>2. Finish(n, newui) /\ calls[n].op = "loadChecks" /\ calls[n].at # "none"
    BY <1>9 DEF loadChecksThen, Answered, Thrown
  <2>3. ~Acts(calls[n])
    BY <2>2, ChecksQuiet DEF Acts
  <2> HIDE DEF newui
  <2> QED BY <2>1, <2>2, <2>3, ChecksQuiet, FinishQuiet
<1> QED BY <1>1, <1>2, <1>3, <1>4, <1>5, <1>6, <1>7, <1>8, <1>9 DEF MonitorsNext, MonitorsServer

LEMMA HeartbeatsGo ==
  ASSUME ListState, section = "heartbeats", NEW n \in Calls, HeartbeatsNext(n)
  PROVE  ListState'
<1>1. CASE Insert(n, "addHeartbeat", "heartbeat")
  BY <1>1, InsertGoes DEF Adding
<1>2. CASE List(n, "addHeartbeat", db.rows)
  BY <1>2, FetchGoes DEF Adding
<1>3. CASE Delete(n, "deleteHeartbeat", "heartbeat")
  BY <1>3, Kinds, DeleteGoes DEF DropOps
<1>4. CASE addHeartbeatThen(n)
  BY <1>4, ThenShowGoes DEF addHeartbeatThen, Adding
<1>5. CASE deleteHeartbeatThen(n)
  BY <1>5, Kinds, ThenDropGoes DEF deleteHeartbeatThen, DropOps
<1> QED BY <1>1, <1>2, <1>3, <1>4, <1>5 DEF HeartbeatsNext, HeartbeatsServer

LEMMA MaintenanceGoes ==
  ASSUME ListState, section = "maintenance", NEW n \in Calls, MaintenanceNext(n)
  PROVE  ListState'
<1>1. CASE Insert(n, "addMaintenance", "window")
  BY <1>1, InsertGoes DEF Adding
<1>2. CASE List(n, "addMaintenance", db.rows)
  BY <1>2, FetchGoes DEF Adding
<1>3. CASE Delete(n, "deleteMaintenance", "window")
  BY <1>3, Kinds, DeleteGoes DEF DropOps
<1>4. CASE addMaintenanceThen(n)
  BY <1>4, ThenShowGoes DEF addMaintenanceThen, Adding
<1>5. CASE deleteMaintenanceThen(n)
  BY <1>5, Kinds, ThenDropGoes DEF deleteMaintenanceThen, DropOps
<1> QED BY <1>1, <1>2, <1>3, <1>4, <1>5 DEF MaintenanceNext, MaintenanceServer

LEMMA FunnelGoes ==
  ASSUME ListState, section = "funnel", NEW n \in Calls, FunnelNext(n)
  PROVE  ListState'
<1>0. ListTables /\ db.made \in Nat /\ db.made <= db.made
      /\ "saveFunnel" \in Alone /\ "saveFunnel" \in Adding
  BY DEF ListState, ListTables, Alone, Adding
<1>1. CASE replaceFunnelHandler(n)
  <2>0. PICK r : r = Row("funnel", calls[n].arg, TRUE)
    OBVIOUS
  <2> DEFINE list == {r}
             newdb == [db EXCEPT !.rows = list]
  <2>1. /\ Reply(n, newdb, {}) /\ calls[n].op = "saveFunnel" /\ calls[n].stage = 1
    BY <1>1, <2>0 DEF replaceFunnelHandler, Asked
  <2>2. DbIs(newdb, list, db.made)
    BY <1>0, DbRows
  <2>3. RowShape(r)
    BY <2>0, NewRow
  <2>4. \A q \in list : GoodRow(q)'
    <3>1. section' = section
      BY <2>1 DEF Reply
    <3> QED BY <2>3, <3>1 DEF GoodRow, Growing
  <2>5. Arrives(n, {}) => AloneOK(calls[n])'
    BY <1>0, <2>1 DEF Arrives, Further, AloneOK
  <2> HIDE DEF newdb, list
  <2> QED BY <1>0, <2>1, <2>2, <2>4, <2>5, ReplyAlone
<1>2. CASE List(n, "saveFunnel", db.rows)
  BY <1>0, <1>2, FetchGoes
<1>3. CASE Answered(n, "saveFunnel", 1) /\ Await(n, ui)
  BY <1>0, <1>3, AwaitAlone, UiSame DEF Answered
<1>4. CASE /\ Answered(n, "saveFunnel", 2)
           /\ Finish(n, [ui EXCEPT !.rows = calls[n].got, !.busy = {}])
  <2>1. UiIs([ui EXCEPT !.rows = calls[n].got, !.busy = {}], calls[n].got)
    BY <1>0, UiBusyRows
  <2> QED BY <1>0, <1>4, <2>1, ShowAlone DEF Answered
<1>5. CASE Thrown(n, "saveFunnel") /\ Finish(n, [ui EXCEPT !.busy = {}])
  <2>1. UiIs([ui EXCEPT !.busy = {}], ui.rows)
    BY <1>0, UiBusy
  <2> QED BY <1>0, <1>5, <2>1, ThrownAlone
<1> QED BY <1>1, <1>2, <1>3, <1>4, <1>5 DEF FunnelNext, saveFunnelThen

LEMMA SessionEnds ==
  ASSUME ListTables, section = "users", NEW mid, NEW list, NEW u, DbIs(mid, list, db.made),
         mid.session = db.session
  PROVE  DbIs([mid EXCEPT !.session = @ /\ u # Self], list, db.made)
<1> DEFINE s == mid.session /\ u # Self
           new == [mid EXCEPT !.session = s]
<1>1. s => db.session
  OBVIOUS
<1> HIDE DEF s
<1>2. {"rows", "made", "session"} \subseteq DOMAIN mid /\ mid.rows = list /\ mid.made = db.made
  BY DEF DbIs
<1>3. /\ {"rows", "made", "session"} \subseteq DOMAIN new /\ new.rows = list
      /\ new.made = db.made /\ new.session = s
  BY <1>2
<1> HIDE DEF new
<1>4. DbIs(new, list, db.made)
  BY <1>1, <1>3 DEF DbIs
<1> QED BY <1>4 DEF new, s

LEMMA UserUpdated ==
  ASSUME ListState, section = "users", NEW n \in Calls, updateUserHandler(n)
  PROVE  ListState'
<1> DEFINE u == calls[n].arg
           list == SetOn(db.rows, "user", u, calls[n].to)
           mid == [db EXCEPT !.rows = list]
<1>0. ListTables
  BY DEF ListState
<1>1. /\ calls[n].op \in {"changeRole", "resetPassword"} /\ calls[n].at \in {"sent", "left"}
      /\ calls[n].op \notin Alone
  BY DEF updateUserHandler, Asked, Alone
<1>2. CASE Refuse(n)
  BY <1>1, <1>2, RefuseGoes
<1>3. CASE calls[n].op = "changeRole" /\ Reply(n, [mid EXCEPT !.session = @ /\ u # Self], {})
  <2>1. DbIs(mid, list, db.made) /\ mid.session = db.session
    <3> HIDE DEF list
    <3> QED BY <1>0, DbRows
  <2> DEFINE newdb == [mid EXCEPT !.session = @ /\ u # Self]
  <2>2. calls[n].op \in SetOps /\ list = SetOn(db.rows, KindOf(calls[n].op), calls[n].arg, calls[n].to)
    BY <1>3, Kinds DEF SetOps
  <2>3. Reply(n, newdb, {})
    BY <1>3
  <2> HIDE DEF mid, list
  <2>4. DbIs(newdb, list, db.made)
    BY <1>0, <2>1, SessionEnds
  <2> HIDE DEF newdb
  <2> QED BY <1>1, <2>2, <2>3, <2>4, ReplySets
<1>4. CASE calls[n].op = "resetPassword" /\ Reply(n, [db EXCEPT !.session = @ /\ u # Self], {})
  <2> DEFINE newdb == [db EXCEPT !.session = @ /\ u # Self]
  <2>1. DbIs(newdb, db.rows, db.made)
    BY <1>0, DbSame, SessionEnds
  <2>2. Reply(n, newdb, {})
    BY <1>4
  <2> HIDE DEF newdb
  <2> QED BY <1>1, <1>4, <2>1, <2>2, ChecksQuiet, ReplyQuiet
<1>5. \/ Refuse(n)
      \/ calls[n].op = "changeRole" /\ Reply(n, [mid EXCEPT !.session = @ /\ u # Self], {})
      \/ calls[n].op = "resetPassword" /\ Reply(n, [db EXCEPT !.session = @ /\ u # Self], {})
  BY <1>1 DEF updateUserHandler
<1> QED BY <1>2, <1>3, <1>4, <1>5

LEMMA AddEnds ==
  ASSUME ListState, NEW n \in Calls, NEW op \in Appending,
         \/ Answered(n, op, 1) /\ Finish(n, [ui EXCEPT !.busy = {}, !.rows = @ \cup calls[n].got])
         \/ Answered(n, op, 1) /\ Finish(n, [ui EXCEPT !.rows = @ \cup calls[n].got])
         \/ Thrown(n, op) /\ Finish(n, [ui EXCEPT !.busy = {}])
         \/ Thrown(n, op) /\ Finish(n, ui)
  PROVE  ListState'
<1> DEFINE list == ui.rows \cup calls[n].got
<1>0. ListTables
  BY DEF ListState
<1>1. ASSUME NEW newui, UiIs(newui, list), Answered(n, op, 1), Finish(n, newui)
      PROVE  ListState'
  <2>1. calls[n].op \in Appending /\ calls[n].at = "ok" /\ list = ui.rows \cup calls[n].got
    BY <1>1 DEF Answered
  <2> HIDE DEF list
  <2> QED BY <1>1, <2>1, FinishAdds
<1>2. ASSUME NEW newui, UiIs(newui, ui.rows), Thrown(n, op), Finish(n, newui)
      PROVE  ListState'
  <2>1. calls[n].op \notin Alone /\ calls[n].at # "none" /\ ~Acts(calls[n])
    BY <1>2, Separate, SentQuiet DEF Thrown
  <2> QED BY <1>2, <2>1, FinishQuiet
<1>3. CASE Answered(n, op, 1) /\ Finish(n, [ui EXCEPT !.busy = {}, !.rows = @ \cup calls[n].got])
  <2>1. [ui EXCEPT !.busy = {}, !.rows = @ \cup calls[n].got] = [ui EXCEPT !.busy = {}, !.rows = list]
    BY <1>0 DEF ListTables
  <2> HIDE DEF list
  <2>2. UiIs([ui EXCEPT !.busy = {}, !.rows = list], list)
    BY <1>0, UiBusyRows
  <2> QED BY <1>1, <1>3, <2>1, <2>2
<1>4. CASE Answered(n, op, 1) /\ Finish(n, [ui EXCEPT !.rows = @ \cup calls[n].got])
  <2>1. Finish(n, [ui EXCEPT !.rows = list])
    BY <1>4
  <2> HIDE DEF list
  <2>2. UiIs([ui EXCEPT !.rows = list], list)
    BY <1>0, UiRows
  <2> QED BY <1>1, <1>4, <2>1, <2>2
<1>5. CASE Thrown(n, op) /\ Finish(n, [ui EXCEPT !.busy = {}])
  BY <1>0, <1>2, <1>5, UiBusy
<1>6. CASE Thrown(n, op) /\ Finish(n, ui)
  BY <1>0, <1>2, <1>6, UiSame
<1> QED BY <1>3, <1>4, <1>5, <1>6

LEMMA UsersGo ==
  ASSUME ListState, section = "users", NEW n \in Calls, UsersNext(n)
  PROVE  ListState'
<1>0. ListTables
  BY DEF ListState
<1>1. CASE Insert(n, "addUser", "user")
  BY <1>1, InsertGoes DEF Appending
<1>2. CASE updateUserHandler(n)
  BY <1>2, UserUpdated
<1>3. CASE Delete(n, "removeUser", "user")
  BY <1>3, Kinds, DeleteGoes DEF DropOps
<1>4. CASE calls[n].at \in {"sent", "left"} /\ Refuse(n)
  <2>1. calls[n].op \notin Alone
    BY Separate DEF ListState, InList, UsersOps, Alone
  <2> QED BY <1>4, <2>1, RefuseGoes
<1>5. CASE addUserThen(n)
  BY <1>5, AddEnds DEF addUserThen, Appending
<1>6. CASE changeRoleThen(n)
  <2>1. CASE Thrown(n, "changeRole") /\ Finish(n, ui)
    <3>1. calls[n].op \notin Alone /\ calls[n].at # "none" /\ ~Acts(calls[n])
      BY <2>1, SentQuiet DEF Thrown, Alone
    <3> QED BY <1>0, <2>1, <3>1, UiSame, FinishQuiet
  <2>2. CASE /\ Answered(n, "changeRole", 1)
             /\ Finish(n, [ui EXCEPT !.rows = SetOn(@, "user", calls[n].arg, calls[n].to)])
    <3> DEFINE list == SetOn(ui.rows, "user", calls[n].arg, calls[n].to)
               newui == [ui EXCEPT !.rows = list]
    <3>1. /\ calls[n].op \in SetOps /\ calls[n].at = "ok" /\ Finish(n, newui)
          /\ list = SetOn(ui.rows, KindOf(calls[n].op), calls[n].arg, calls[n].to)
      BY <2>2, Kinds DEF Answered, SetOps
    <3> HIDE DEF list
    <3>2. UiIs(newui, list)
      BY <1>0, UiRows
    <3> HIDE DEF newui
    <3> QED BY <3>1, <3>2, FinishSets
  <2> QED BY <1>6, <2>1, <2>2 DEF changeRoleThen
<1>7. CASE resetPasswordThen(n)
  <2>1. /\ calls[n].op = "resetPassword" /\ calls[n].at # "none" /\ Finish(n, ui)
    BY <1>7 DEF resetPasswordThen, Answered, Thrown
  <2>2. calls[n].op \notin Alone /\ ~Acts(calls[n])
    BY <2>1, ChecksQuiet DEF Acts
  <2> QED BY <1>0, <2>1, <2>2, UiSame, FinishQuiet
<1>8. CASE removeUserThen(n)
  BY <1>8, Kinds, ThenDropGoes DEF removeUserThen, DropOps
<1> QED BY <1>1, <1>2, <1>3, <1>4, <1>5, <1>6, <1>7, <1>8 DEF UsersNext, UsersServer

LEMMA SitesGo ==
  ASSUME ListState, section = "sites", NEW n \in Calls, SitesNext(n)
  PROVE  ListState'
<1>1. CASE Insert(n, "create", "site")
  BY <1>1, InsertGoes DEF Appending
<1>2. CASE Delete(n, "remove", "site")
  BY <1>2, Kinds, DeleteGoes DEF DropOps
<1>3. CASE createThen(n)
  BY <1>3, AddEnds DEF createThen, Appending
<1>4. CASE removeThen(n)
  BY <1>4, Kinds, ThenDropGoes DEF removeThen, DropOps
<1> QED BY <1>1, <1>2, <1>3, <1>4 DEF SitesNext

(* An answer that carries the whole list. *)
LEMMA AllListed ==
  ASSUME ListState, NEW n \in Calls, NEW op \in {"loadKeys", "push"}, Asked(n, op, 1),
         Reply(n, db, db.rows)
  PROVE  ListState'
<1>1. calls[n].op = op /\ calls[n].stage = 1 /\ calls[n].op \in Alone
  BY DEF Asked, Alone
<1>2. DbIs(db, db.rows, db.made) /\ db.made \in Nat /\ db.made <= db.made
  BY DbSame DEF ListState, ListTables
<1>3. \A r \in db.rows : GoodRow(r)'
  BY <1>2, GoodAfter DEF ListState, ListTables
<1>4. Arrives(n, db.rows) /\ db'.rows = db.rows => AloneOK(calls[n])'
  BY <1>1 DEF Arrives, Further, AloneOK
<1> QED BY <1>1, <1>2, <1>3, <1>4, ReplyAlone

LEMMA AccountGoes ==
  ASSUME ListState, section = "account", NEW n \in Calls, AccountNext(n)
  PROVE  ListState'
<1>0. ListTables
  BY DEF ListState
<1>1. CASE Insert(n, "createKey", "key")
  BY <1>1, InsertGoes DEF Adding
<1>2. CASE Asked(n, "loadKeys", 1) /\ Reply(n, db, db.rows)
  BY <1>2, AllListed
<1>3. CASE List(n, "createKey", db.rows)
  BY <1>3, FetchGoes DEF Adding
<1>4. CASE Delete(n, "revoke", "key")
  BY <1>4, Kinds, DeleteGoes DEF DropOps
<1>5. CASE Asked(n, "changePassword", 1) /\ (Reply(n, db, {}) \/ Refuse(n))
  <2>1. calls[n].op = "changePassword" /\ calls[n].at \in {"sent", "left"}
    BY <1>5 DEF Asked
  <2> QED BY <1>0, <1>5, <2>1, ChecksQuiet, DbSame, ReplyQuiet, RefuseGoes
<1>6. CASE loadKeys(n)
  <2> DEFINE done == [ui EXCEPT !.busy = @ \ {"keys"}]
  <2>0. UiIs(done, ui.rows)
    BY <1>0, UiBusy
  <2>1. /\ calls[n].op \in {"loadKeys", "createKey"}
        /\ calls[n].stage = IF calls[n].op = "createKey" THEN 2 ELSE 1
        /\ \/ calls[n].at = "ok" /\ Finish(n, [done EXCEPT !.rows = calls[n].got])
           \/ calls[n].at = "failed" /\ Finish(n, done)
    BY <1>6 DEF loadKeys
  <2>2. CASE calls[n].at = "ok" /\ Finish(n, [done EXCEPT !.rows = calls[n].got])
    <3> DEFINE newui == [done EXCEPT !.rows = calls[n].got]
    <3>1. UiIs(newui, calls[n].got)
      <4> HIDE DEF done
      <4> QED BY <2>0 DEF UiIs
    <3>2. (calls[n].op \in Adding /\ calls[n].stage = 2) \/ calls[n].op \in {"loadKeys", "push"}
      BY <2>1 DEF Adding
    <3>3. Finish(n, newui)
      BY <2>2
    <3> HIDE DEF newui
    <3> QED BY <2>2, <3>1, <3>2, <3>3, ShowAlone
  <2>3. CASE calls[n].at = "failed" /\ Finish(n, done)
    <3>1. calls[n].op \in Alone /\ ~AloneOK(calls[n])
      BY <2>1, <2>3 DEF Alone, AloneOK
    <3> HIDE DEF done
    <3> QED BY <2>0, <2>3, <3>1, FinishAlone
  <2> QED BY <2>1, <2>2, <2>3
<1>7. CASE createKeyThen(n)
  <2>1. "createKey" \in Alone /\ "createKey" \in Adding
    BY DEF Alone, Adding
  <2>2. CASE Answered(n, "createKey", 1) /\ Await(n, [ui EXCEPT !.busy = @ \cup {"keys"}])
    <3>1. UiIs([ui EXCEPT !.busy = @ \cup {"keys"}], ui.rows)
      BY <1>0, UiBusy
    <3> QED BY <2>1, <2>2, <3>1, AwaitAlone DEF Answered
  <2>3. CASE Thrown(n, "createKey") /\ Finish(n, ui)
    BY <1>0, <2>1, <2>3, UiSame, ThrownAlone
  <2> QED BY <1>7, <2>2, <2>3 DEF createKeyThen
<1>8. CASE revokeThen(n)
  BY <1>8, Kinds, ThenDropGoes DEF revokeThen, DropOps
<1>9. CASE changePasswordThen(n)
  <2> DEFINE newui == [ui EXCEPT !.busy = @ \ {"saving"}]
  <2>1. UiIs(newui, ui.rows)
    BY <1>0, UiBusy
  <2>2. Finish(n, newui) /\ calls[n].op = "changePassword" /\ calls[n].at # "none"
    BY <1>9 DEF changePasswordThen, Answered, Thrown
  <2>3. calls[n].op \notin Alone /\ ~Acts(calls[n])
    BY <2>2, ChecksQuiet DEF Acts
  <2> HIDE DEF newui
  <2> QED BY <2>1, <2>2, <2>3, FinishQuiet
<1> QED BY <1>1, <1>2, <1>3, <1>4, <1>5, <1>6, <1>7, <1>8, <1>9 DEF AccountNext, AccountServer

LEMMA GoalsGo ==
  ASSUME ListState, section = "goals", NEW n \in Calls, GoalsNext(n)
  PROVE  ListState'
<1>0. ListTables /\ "push" \in Alone
  BY DEF ListState, Alone
<1>1. CASE SitePage(n)
  BY <1>1, AllListed DEF SitePage
<1>2. CASE setGoalsEffect(n)
  <2>1. CASE Answered(n, "push", 1) /\ \E q : Finish(n, [ui EXCEPT !.rows = calls[n].got, !.query = q])
    <3>1. PICK q : Finish(n, [ui EXCEPT !.rows = calls[n].got, !.query = q])
      BY <2>1
    <3>2. UiIs([ui EXCEPT !.rows = calls[n].got], calls[n].got)
      BY <1>0, UiRows
    <3>3. UiIs([[ui EXCEPT !.rows = calls[n].got] EXCEPT !.query = q], calls[n].got)
      BY <3>2 DEF UiIs
    <3>4. calls[n].op = "push" /\ calls[n].at = "ok"
      BY <2>1 DEF Answered
    <3> QED BY <3>1, <3>3, <3>4, ShowAlone
  <2>2. CASE calls[n].op = "push" /\ ~Newest(n) /\ Finish(n, ui)
    <3>1. ~CalmList
      BY <1>0, <2>2, NoCallFacts DEF Newest, CalmList, ListState, PageOK
    <3> QED BY <1>0, <2>2, <3>1, UiSame, FinishAlone
  <2>3. CASE Thrown(n, "push") /\ Finish(n, ui)
    BY <1>0, <2>3, UiSame, ThrownAlone
  <2> QED BY <1>2, <2>1, <2>2, <2>3 DEF setGoalsEffect
<1>3. CASE Insert(n, "addGoal", "goal")
  BY <1>3, InsertGoes DEF Appending
<1>4. CASE addGoalThen(n)
  BY <1>4, AddEnds DEF addGoalThen, Appending
<1>5. CASE Delete(n, "deleteGoal", "goal")
  BY <1>5, Kinds, DeleteGoes DEF DropOps
<1>6. CASE deleteGoalThen(n)
  BY <1>6, Kinds, ThenDropGoes DEF deleteGoalThen, DropOps
<1> QED BY <1>1, <1>2, <1>3, <1>4, <1>5, <1>6 DEF GoalsNext

-----------------------------------------------------------------------------
(* Clicks. *)
LEMMA Clicked ==
  ASSUME ListState, section \in Lists, NEW op, NEW arg, NEW newui, Started(op, arg, newui),
         PageOK', InList(op), UiIs(newui, ui.rows),
         op \in TakesRow => \E r \in ui.rows : r.id = arg,
         section \in Growing /\ op # "push" => arg = 0 \/ \E r \in ui.rows : r.id = arg
  PROVE  ListState'
<1>1. UNCHANGED <<section, db>> /\ ui' = newui
  BY DEF Started
<1>2. DbIs(db', db.rows, db.made) /\ db.made \in Nat /\ ListTables
  BY <1>1, DbSame DEF ListState, ListTables, DbIs
<1>3. \A r \in db.rows : GoodRow(r)'
  BY <1>1, <1>2 DEF ListTables, GoodRow
<1>4. ListTables' /\ (Resting' => Resting)
  BY <1>1, <1>2, <1>3, TablesFrom
<1>5. newui.rows = ui.rows
  BY DEF UiIs
<1> QED BY <1>4, <1>5, ListStarts

(* Of a form, or a button that stands for the whole list. *)
LEMMA FormClicked ==
  ASSUME ListState, section \in Lists, NEW op, NEW newui, Send(op, 0, newui),
         InList(op), op \notin TakesRow, UiIs(newui, ui.rows)
  PROVE  ListState'
<1>1. PageOK' /\ Started(op, 0, newui)
  BY SendStep DEF ListState
<1> QED BY <1>1, Clicked

(* Of a button of a row. *)
LEMMA RowClicked ==
  ASSUME ListState, section \in Lists, NEW op, NEW r \in ui.rows, InList(op),
         Send(op, r.id, ui) \/ \E to : SendTo(op, r.id, to, ui)
  PROVE  ListState'
<1>1. PageOK' /\ Started(op, r.id, ui)
  BY SendStep DEF ListState
<1>2. UiIs(ui, ui.rows)
  BY UiSame DEF ListState
<1> QED BY <1>1, <1>2, Clicked

(* A click that sends nothing. *)
LEMMA Unsent ==
  ASSUME ListState, UNCHANGED <<section, db, calls, hist>>, UiIs(ui', ui.rows)
  PROVE  ListState'
<1>1. /\ ListTables' /\ (Resting' => Resting) /\ (Calm' => Calm)
      /\ \A r : GoodRow(r)' <=> GoodRow(r)
  BY RestSame DEF ListState
<1>2. PageOK'
  BY DEF ListState, PageOK, CallsOK, HistOK, IsCall
<1>3. ui'.rows = ui.rows
  BY DEF UiIs
<1>4. \A n \in Calls : InList(calls[n].op)' \/ calls'[n].op = "none"
  BY InListKept DEF ListState
<1>5. ASSUME Calm', Resting' PROVE CalmList'
  <2>1. CalmList
    BY <1>1, <1>5 DEF ListState
  <2>2. \A n \in Calls : calls'[n].op \in Alone => AloneOK(calls[n])'
    BY <1>3, <2>1 DEF CalmList, AloneOK, InvitesAgree
  <2>3. section' \in Growing => Fresh'
    BY <1>3, <2>1 DEF CalmList, Fresh
  <2>4. (NoneAlone => db.rows = After(calls, ui.rows))'
    BY <1>3, <2>1 DEF CalmList, NoneAlone
  <2> QED BY <1>1, <1>3, <2>1, <2>2, <2>3, <2>4 DEF CalmList
<1> QED BY <1>1, <1>2, <1>4, <1>5 DEF ListState

LEMMA SettingsClicked ==
  ASSUME ListState, section \in Lists, SettingsClick
  PROVE  ListState'
<1>0. ListTables /\ PageOK
  BY DEF ListState
<1>1. CASE section = "team"
  <2>1. ASSUME NEW e, sendInvite(e) PROVE ListState'
    <3>1. Send("sendInvite", e, ui)
      BY <2>1 DEF sendInvite
    <3>2. PageOK' /\ Started("sendInvite", e, ui)
      BY <1>0, <3>1, SendStep
    <3>3. InList("sendInvite") /\ "sendInvite" \notin TakesRow /\ section \notin Growing
      BY <1>1 DEF InList, TeamOps, TakesRow, DropOps, SetOps, Growing
    <3> QED BY <1>0, <3>2, <3>3, UiSame, Clicked
  <2>2. ASSUME NEW r \in ui.rows, deleteInvite(r.id) \/ removeMember(r.id) PROVE ListState'
    BY <1>1, <2>2, RowClicked DEF deleteInvite, removeMember, InList, TeamOps
  <2> QED BY <1>1, <2>1, <2>2, SettingsClickSections
<1>2. CASE section = "monitors"
  <2>1. CASE addMonitor
    <3>1. InList("addMonitor") /\ "addMonitor" \notin TakesRow
      BY <1>2 DEF InList, MonitorsOps, TakesRow, DropOps, SetOps
    <3> QED BY <1>0, <2>1, <3>1, UiSame, FormClicked DEF addMonitor
  <2>2. ASSUME NEW r \in ui.rows, toggleMonitor(r) PROVE ListState'
    <3>1. \E to : SendTo("toggleMonitor", r.id, to, ui)
      BY <2>2 DEF toggleMonitor
    <3> QED BY <1>2, <3>1, RowClicked DEF InList, MonitorsOps
  <2>3. ASSUME NEW r \in ui.rows, deleteMonitor(r) PROVE ListState'
    BY <1>2, <2>3, RowClicked DEF deleteMonitor, InList, MonitorsOps
  <2>4. ASSUME NEW r \in ui.rows, loadChecks(r) PROVE ListState'
    <3>1. CASE Send("loadChecks", r.id, ui)
      BY <1>2, <3>1, RowClicked DEF InList, MonitorsOps
    <3>2. CASE /\ ui' = [ui EXCEPT !.checks = @ \ {r.id}]
               /\ UNCHANGED <<section, db, calls, hist>>
      <4>1. UiIs(ui', ui.rows)
        BY <1>0, <1>2, <3>2 DEF UiIs, ListTables
      <4> QED BY <3>2, <4>1, Unsent
    <3> QED BY <2>4, <3>1, <3>2 DEF loadChecks
  <2> QED BY <1>2, <2>1, <2>2, <2>3, <2>4, SettingsClickSections
<1>3. CASE section = "heartbeats"
  <2>1. CASE addHeartbeat
    <3>1. InList("addHeartbeat") /\ "addHeartbeat" \notin TakesRow
      BY <1>3 DEF InList, HeartbeatsOps, TakesRow, DropOps, SetOps
    <3> QED BY <1>0, <2>1, <3>1, UiSame, FormClicked DEF addHeartbeat
  <2>2. ASSUME NEW r \in ui.rows, deleteHeartbeat(r.id) PROVE ListState'
    BY <1>3, <2>2, RowClicked DEF deleteHeartbeat, InList, HeartbeatsOps
  <2> QED BY <1>3, <2>1, <2>2, SettingsClickSections
<1>4. CASE section = "maintenance"
  <2>1. CASE addMaintenance
    <3>1. InList("addMaintenance") /\ "addMaintenance" \notin TakesRow
      BY <1>4 DEF InList, MaintenanceOps, TakesRow, DropOps, SetOps
    <3> QED BY <1>0, <2>1, <3>1, UiSame, FormClicked DEF addMaintenance
  <2>2. ASSUME NEW r \in ui.rows, deleteMaintenance(r.id) PROVE ListState'
    BY <1>4, <2>2, RowClicked DEF deleteMaintenance, InList, MaintenanceOps
  <2>3. CASE pickDays
    <3>1. UiIs(ui', ui.rows)
      BY <1>0, <1>4, <2>3 DEF pickDays, UiIs, ListTables
    <3> QED BY <2>3, <3>1, Unsent DEF pickDays
  <2> QED BY <1>4, <2>1, <2>2, <2>3, SettingsClickSections
<1>5. CASE section = "funnel"
  <2>1. CASE saveFunnel
    <3>1. Send("saveFunnel", ui.input, [ui EXCEPT !.busy = {"funnel"}])
      BY <2>1 DEF saveFunnel
    <3>2. UiIs([ui EXCEPT !.busy = {"funnel"}], ui.rows)
      BY <1>0, UiBusy
    <3>3. PageOK' /\ Started("saveFunnel", ui.input, [ui EXCEPT !.busy = {"funnel"}])
      BY <1>0, <3>1, SendStep
    <3>4. InList("saveFunnel") /\ "saveFunnel" \notin TakesRow /\ section \notin Growing
      BY <1>5 DEF InList, TakesRow, DropOps, SetOps, Growing
    <3> QED BY <1>0, <3>2, <3>3, <3>4, Clicked
  <2>2. ASSUME NEW s, type(s) PROVE ListState'
    <3>1. UiIs(ui', ui.rows)
      BY <1>0, <1>5, <2>2 DEF type, UiIs, ListTables
    <3> QED BY <2>2, <3>1, Unsent DEF type
  <2> QED BY <1>5, <2>1, <2>2, SettingsClickSections
<1> QED BY <1>1, <1>2, <1>3, <1>4, <1>5, SettingsClickSections DEF Lists

LEMMA PagesClicked ==
  ASSUME ListState, section \in Lists, PagesClick
  PROVE  ListState'
<1>0. ListTables /\ PageOK
  BY DEF ListState
<1>1. CASE section = "users"
  <2>1. CASE addUser
    <3>1. InList("addUser") /\ "addUser" \notin TakesRow
      BY <1>1 DEF InList, UsersOps, TakesRow, DropOps, SetOps
    <3>2. UiIs([ui EXCEPT !.busy = {"creating"}], ui.rows)
      BY <1>0, UiBusy
    <3> QED BY <2>1, <3>1, <3>2, FormClicked DEF addUser
  <2>2. ASSUME NEW r \in ui.rows, changeRole(r) PROVE ListState'
    <3>1. \E to : SendTo("changeRole", r.id, to, ui)
      BY <2>2 DEF changeRole
    <3> QED BY <1>1, <3>1, RowClicked DEF InList, UsersOps
  <2>3. ASSUME NEW r \in ui.rows, resetPassword(r.id) \/ removeUser(r.id) PROVE ListState'
    BY <1>1, <2>3, RowClicked DEF resetPassword, removeUser, InList, UsersOps
  <2> QED BY <1>1, <2>1, <2>2, <2>3, OtherClickSections
<1>2. CASE section = "sites"
  <2>1. CASE create
    <3>1. InList("create") /\ "create" \notin TakesRow
      BY <1>2 DEF InList, TakesRow, DropOps, SetOps
    <3>2. UiIs([ui EXCEPT !.busy = {"creating"}], ui.rows)
      BY <1>0, UiBusy
    <3> QED BY <2>1, <3>1, <3>2, FormClicked DEF create
  <2>2. ASSUME NEW r \in ui.rows, remove(r.id) PROVE ListState'
    BY <1>2, <2>2, RowClicked DEF remove, InList
  <2> QED BY <1>2, <2>1, <2>2, OtherClickSections
<1>3. CASE section = "account"
  <2>1. CASE createKey
    <3>1. InList("createKey") /\ "createKey" \notin TakesRow
      BY <1>3 DEF InList, AccountOps, TakesRow, DropOps, SetOps
    <3> QED BY <1>0, <2>1, <3>1, UiSame, FormClicked DEF createKey
  <2>2. CASE changePassword
    <3>1. InList("changePassword") /\ "changePassword" \notin TakesRow
      BY <1>3 DEF InList, AccountOps, TakesRow, DropOps, SetOps
    <3>2. UiIs([ui EXCEPT !.busy = @ \cup {"saving"}], ui.rows)
      BY <1>0, UiBusy
    <3> QED BY <2>2, <3>1, <3>2, FormClicked DEF changePassword
  <2>3. ASSUME NEW r \in ui.rows, revoke(r.id) PROVE ListState'
    BY <1>3, <2>3, RowClicked DEF revoke, InList, AccountOps
  <2> QED BY <1>3, <2>1, <2>2, <2>3, OtherClickSections
<1> QED BY <1>1, <1>2, <1>3, OtherClickSections

LEMMA GoalsClicked ==
  ASSUME ListState, section \in Lists, StatsClick
  PROVE  ListState'
<1>0. ListTables /\ PageOK
  BY DEF ListState
<1>1. section = "goals"
  BY OtherClickSections DEF Lists, Panels
<1>2. ASSUME NEW q, Push(q) PROVE ListState'
  <2> DEFINE arg == 2 * q[1] + q[2]
  <2>1. Start("push", arg, FALSE, ui, 1)
    BY <1>2 DEF Push
  <2> HIDE DEF arg
  <2>2. PageOK' /\ Started("push", arg, ui)
    BY <1>0, <2>1, StartNo
  <2>3. InList("push") /\ "push" \notin TakesRow
    BY <1>1 DEF InList, GoalsOps, TakesRow, DropOps, SetOps
  <2> QED BY <1>0, <2>2, <2>3, UiSame, Clicked
<1>3. CASE addGoal
  <2>1. InList("addGoal") /\ "addGoal" \notin TakesRow
    BY <1>1 DEF InList, GoalsOps, TakesRow, DropOps, SetOps
  <2> QED BY <1>0, <1>3, <2>1, UiSame, FormClicked DEF addGoal
<1>4. ASSUME NEW r \in ui.rows, deleteGoal(r.id) PROVE ListState'
  BY <1>1, <1>4, RowClicked DEF deleteGoal, InList, GoalsOps
<1> QED BY <1>1, <1>2, <1>3, <1>4, OtherClickSections DEF Panels

LEMMA KeysAsked ==
  ASSUME ListState, section \in Lists, mountEffect
  PROVE  ListState'
<1> DEFINE newui == Mounting(TRUE)
<1>1. section = "account" /\ Start("loadKeys", 0, FALSE, newui, 0)
  BY DEF mountEffect
<1>2. /\ {"rows", "busy", "fetched"} \subseteq DOMAIN newui /\ newui.rows = {}
  BY DEF Mounting
<1> HIDE DEF newui
<1>3. PageOK' /\ Started("loadKeys", 0, newui)
  BY <1>1, StartNo DEF ListState
<1>4. UNCHANGED <<section, db>> /\ ui' = newui
  BY <1>3 DEF Started
<1>5. ListTables'
  BY <1>1, <1>2, <1>4 DEF ListState, ListTables, GoodRow
<1>6. InList("loadKeys") /\ "loadKeys" \notin TakesRow /\ section \notin Growing
  BY <1>1 DEF InList, AccountOps, TakesRow, DropOps, SetOps, Growing
<1> QED BY <1>2, <1>3, <1>5, <1>6, ListStarts

-----------------------------------------------------------------------------
(* A list with no handler under way. *)
AtRest ==
  /\ PageOK /\ ListTables /\ \A n \in Calls : calls[n] = NoCall
  /\ Calm /\ Resting => ui.rows = db.rows

LEMMA ListRests == AtRest => ListState
<1> SUFFICES ASSUME AtRest PROVE ListState
  OBVIOUS
<1>0. PageOK /\ ListTables /\ \A n \in Calls : calls[n] = NoCall
  BY DEF AtRest
<1>1. \A n \in Calls : /\ calls[n].at = "none" /\ calls[n].op = "none" /\ calls[n].arg = 0
                       /\ calls[n].op \notin TakesRow \cup Alone
                       /\ ~Acts(calls[n]) /\ Adds(calls[n]) = {}
  BY <1>0, NoCallFacts, NoCallActs, Separate
<1>2. ASSUME Calm, Resting PROVE CalmList
  <2>1. db.rows = ui.rows /\ \A r \in ui.rows : GoodRow(r) /\ RowShape(r)
    BY <1>0, <1>2 DEF AtRest, ListTables, GoodRow
  <2>2. After(calls, ui.rows) = ui.rows
    BY <1>1, <2>1, AfterQuiet
  <2>3. Fresh
    BY <1>0, <1>1 DEF Fresh, ListTables
  <2>4. OneOfARow(calls)
    BY <1>1 DEF OneOfARow
  <2> QED BY <1>1, <2>1, <2>2, <2>3, <2>4 DEF CalmList
<1> QED BY <1>0, <1>1, <1>2 DEF ListState

(* The page is loaded anew. *)
LEMMA Loaded ==
  ASSUME ListState, NEW newui, NEW lost, Load(newui, lost),
         {"rows", "busy"} \subseteq DOMAIN newui,
         section = "account" => "fetched" \in DOMAIN newui,
         lost \/ newui.rows = db.rows \/ (section = "account" /\ ~newui.fetched)
  PROVE  ListState'
<1>1. /\ PageOK' /\ UNCHANGED <<section, db>> /\ ui' = newui /\ hist'.lost = lost
      /\ hist'.raced = (\E n \in Calls : calls[n].at \in {"sent", "left"})
      /\ \A n \in Calls :
           \/ calls[n].at \in {"sent", "left"} /\ Further(n, "left", calls[n].got)
           \/ calls[n].at \notin {"sent", "left"} /\ calls'[n] = NoCall
  BY LoadStep DEF ListState
<1>2. ListTables'
  BY <1>1 DEF ListState, ListTables, GoodRow
<1>3. CASE \A n \in Calls : calls[n].at \notin {"sent", "left"}
  <2>1. \A n \in Calls : calls'[n] = NoCall
    BY <1>1, <1>3
  <2>2. Calm' /\ Resting' => ui'.rows = db'.rows
    BY <1>1 DEF Calm, Resting
  <2>3. AtRest'
    BY <1>1, <1>2, <2>1, <2>2 DEF AtRest
  <2>4. AtRest' => ListState'
    BY ListRests, PTL
  <2> QED BY <2>3, <2>4
<1>4. CASE \E n \in Calls : calls[n].at \in {"sent", "left"}
  <2>1. ~Calm'
    BY <1>1, <1>4 DEF Calm
  <2>2. \A n \in Calls : InList(calls[n].op)' \/ calls'[n].op = "none"
    BY <1>1, NoCallFacts, InListKept DEF ListState, Further
  <2> QED BY <1>1, <1>2, <2>1, <2>2 DEF ListState
<1> QED BY <1>3, <1>4

LEMMA Reloaded ==
  ASSUME ListState, section \in Lists, Reload
  PROVE  ListState'
<1>0. ListTables
  BY DEF ListState
<1>1. CASE section \in {"team", "monitors", "heartbeats", "maintenance", "funnel"}
  <2>1. \/ Load([ui EXCEPT !.rows = db.rows, !.busy = {}], FALSE)
        \/ Load([ui EXCEPT !.rows = {}, !.busy = {}], TRUE)
    BY <1>1 DEF Reload, SiteSettingsPage, NotificationsLoad, Here, AdminUsersPage, SitesPage,
      AccountPage
  <2>2. /\ UiIs([ui EXCEPT !.rows = db.rows, !.busy = {}], db.rows)
        /\ UiIs([ui EXCEPT !.rows = {}, !.busy = {}], {})
    BY <1>0, UiBusyRows
  <2>3. CASE Load([ui EXCEPT !.rows = db.rows, !.busy = {}], FALSE)
    BY <1>1, <2>2, <2>3, Loaded DEF UiIs
  <2>4. CASE Load([ui EXCEPT !.rows = {}, !.busy = {}], TRUE)
    BY <1>1, <2>2, <2>4, Loaded DEF UiIs
  <2> QED BY <2>1, <2>3, <2>4
<1>2. CASE section \in {"users", "sites"}
  <2>1. \/ Load([rows |-> db.rows, busy |-> {}], FALSE)
        \/ Load([rows |-> {}, busy |-> {}], TRUE)
    BY <1>2 DEF Reload, SiteSettingsPage, NotificationsLoad, Here, AdminUsersPage, SitesPage,
      AccountPage
  <2>2. \A list : LET u == [rows |-> list, busy |-> {}]
                  IN {"rows", "busy"} \subseteq DOMAIN u /\ u.rows = list
    OBVIOUS
  <2> QED BY <1>2, <2>1, <2>2, Loaded
<1>3. CASE section = "account"
  <2>1. Load(Mounting(FALSE), FALSE)
    BY <1>3 DEF Reload, SiteSettingsPage, NotificationsLoad, Here, AdminUsersPage, SitesPage,
      AccountPage
  <2>2. {"rows", "busy", "fetched"} \subseteq DOMAIN Mounting(FALSE) /\ ~Mounting(FALSE).fetched
    BY DEF Mounting
  <2> QED BY <1>3, <2>1, <2>2, Loaded
<1>4. section # "goals"
  BY DEF Reload, SiteSettingsPage, NotificationsLoad, Here, AdminUsersPage, SitesPage, AccountPage
<1> QED BY <1>1, <1>2, <1>3, <1>4 DEF Lists

-----------------------------------------------------------------------------
LEMMA ListProgress ==
  ASSUME ListState, section \in Lists, NEW n \in Calls, Progress(n)
  PROVE  ListState'
<1>1. InList(calls[n].op) \/ calls[n].op = "none"
  BY DEF ListState
<1>2. ~NotificationsNext(n) /\ ~AccountsNext(n)
  BY OtherOps DEF Lists
<1>3. SettingsNext(n) \/ PagesNext(n) \/ StatsNext(n)
  BY <1>2 DEF Progress
<1>4. CASE section = "team"
  <2>1. calls[n].op \in TeamOps \cup {"none"}
    BY <1>1, <1>4 DEF InList, Growing
  <2>2. TeamNext(n)
    BY <1>3, <1>4, <2>1, SettingsOps, OtherOps DEF SettingsNext, PagesNext, StatsNext, TeamOps,
      MonitorsOps, HeartbeatsOps, MaintenanceOps, UsersOps, AccountOps, GoalsOps, Public
  <2> QED BY <1>4, <2>2, TeamGoes
<1>5. CASE section = "monitors"
  <2>1. calls[n].op \in MonitorsOps \cup {"none"}
    BY <1>1, <1>5 DEF InList
  <2>2. MonitorsNext(n)
    BY <1>3, <1>5, <2>1, SettingsOps, OtherOps DEF SettingsNext, PagesNext, StatsNext, TeamOps,
      MonitorsOps, HeartbeatsOps, MaintenanceOps, UsersOps, AccountOps, GoalsOps, Public
  <2> QED BY <1>5, <2>2, MonitorsGo
<1>6. CASE section = "heartbeats"
  <2>1. calls[n].op \in HeartbeatsOps \cup {"none"}
    BY <1>1, <1>6 DEF InList
  <2>2. HeartbeatsNext(n)
    BY <1>3, <1>6, <2>1, SettingsOps, OtherOps DEF SettingsNext, PagesNext, StatsNext, TeamOps,
      MonitorsOps, HeartbeatsOps, MaintenanceOps, UsersOps, AccountOps, GoalsOps, Public
  <2> QED BY <1>6, <2>2, HeartbeatsGo
<1>7. CASE section = "maintenance"
  <2>1. calls[n].op \in MaintenanceOps \cup {"none"}
    BY <1>1, <1>7 DEF InList
  <2>2. MaintenanceNext(n)
    BY <1>3, <1>7, <2>1, SettingsOps, OtherOps DEF SettingsNext, PagesNext, StatsNext, TeamOps,
      MonitorsOps, HeartbeatsOps, MaintenanceOps, UsersOps, AccountOps, GoalsOps, Public
  <2> QED BY <1>7, <2>2, MaintenanceGoes
<1>8. CASE section = "funnel"
  <2>1. calls[n].op \in {"saveFunnel", "none"}
    BY <1>1, <1>8 DEF InList
  <2>2. FunnelNext(n)
    BY <1>3, <1>8, <2>1, SettingsOps, OtherOps DEF SettingsNext, PagesNext, StatsNext, TeamOps,
      MonitorsOps, HeartbeatsOps, MaintenanceOps, UsersOps, AccountOps, GoalsOps, Public
  <2> QED BY <1>8, <2>2, FunnelGoes
<1>9. CASE section = "users"
  <2>1. calls[n].op \in UsersOps \cup {"none"}
    BY <1>1, <1>9 DEF InList
  <2>2. UsersNext(n)
    BY <1>3, <1>9, <2>1, SettingsOps, OtherOps DEF SettingsNext, PagesNext, StatsNext, TeamOps,
      MonitorsOps, HeartbeatsOps, MaintenanceOps, UsersOps, AccountOps, GoalsOps, Public
  <2> QED BY <1>9, <2>2, UsersGo
<1>10. CASE section = "sites"
  <2>1. calls[n].op \in {"create", "remove", "none"}
    BY <1>1, <1>10 DEF InList
  <2>2. SitesNext(n)
    BY <1>3, <1>10, <2>1, SettingsOps, OtherOps DEF SettingsNext, PagesNext, StatsNext, TeamOps,
      MonitorsOps, HeartbeatsOps, MaintenanceOps, UsersOps, AccountOps, GoalsOps, Public
  <2> QED BY <1>10, <2>2, SitesGo
<1>11. CASE section = "account"
  <2>1. calls[n].op \in AccountOps \cup {"none"}
    BY <1>1, <1>11 DEF InList
  <2>2. AccountNext(n)
    BY <1>3, <1>11, <2>1, SettingsOps, OtherOps DEF SettingsNext, PagesNext, StatsNext, TeamOps,
      MonitorsOps, HeartbeatsOps, MaintenanceOps, UsersOps, AccountOps, GoalsOps, Public
  <2> QED BY <1>11, <2>2, AccountGoes
<1>12. CASE section = "goals"
  <2>1. calls[n].op \in GoalsOps \cup {"none"}
    BY <1>1, <1>12 DEF InList
  <2>2. GoalsNext(n)
    BY <1>3, <1>12, <2>1, SettingsOps, OtherOps DEF SettingsNext, PagesNext, StatsNext, TeamOps,
      MonitorsOps, HeartbeatsOps, MaintenanceOps, UsersOps, AccountOps, GoalsOps, Public
  <2> QED BY <1>12, <2>2, GoalsGo
<1> QED BY <1>4, <1>5, <1>6, <1>7, <1>8, <1>9, <1>10, <1>11, <1>12 DEF Lists

LEMMA ListStep ==
  ASSUME section \in Lists, ListState, [Next]_vars
  PROVE  ListState'
<1>1. CASE Click
  <2>1. SettingsClick \/ PagesClick \/ StatsClick
    BY <1>1, OtherClickSections DEF Click, Lists
  <2> QED BY <2>1, SettingsClicked, PagesClicked, GoalsClicked
<1>2. CASE Reload
  BY <1>2, Reloaded
<1>3. CASE Effect
  <2>1. mountEffect
    BY <1>3, EffectSections DEF Lists
  <2> QED BY <2>1, KeysAsked
<1>4. ASSUME NEW n \in Calls, Progress(n) PROVE ListState'
  BY <1>4, ListProgress
<1>5. ASSUME NEW n \in Calls, Break(n) PROVE ListState'
  <2>1. calls[n].op # "accept"
    BY DEF ListState, InList, TeamOps, MonitorsOps, HeartbeatsOps, MaintenanceOps, UsersOps,
      AccountOps, GoalsOps
  <2>2. Lose(n)
    BY <1>5, <2>1 DEF Break, failInvite, Asked
  <2> QED BY <2>2, LoseGoes
<1>6. CASE UNCHANGED <<section, db, ui, calls, hist>>
  <2>1. UiIs(ui', ui.rows)
    BY <1>6, UiSame DEF ListState, UiIs
  <2> QED BY <1>6, <2>1, Unsent
<1>7. TrackerStep \/ UNCHANGED vars => UNCHANGED <<section, db, ui, calls, hist>>
  BY DEF TrackerStep, vars
<1> QED BY <1>1, <1>2, <1>3, <1>4, <1>5, <1>6, <1>7 DEF Next

(* What the lists show at the start. *)
Made(s, top, r) ==
  \E kind : \E id \in Int : \E on \in BOOLEAN :
    /\ r = Row(kind, id, on) /\ id # 0
    /\ s = "team" => kind = "member"
    /\ s \in Growing => id <= top

LEMMA Opened ==
  ASSUME NEW s \in Lists, NEW newdb, NEW newui, Open(s, newdb, newui),
         {"rows", "made"} \subseteq DOMAIN newdb, {"rows", "busy"} \subseteq DOMAIN newui,
         s = "users" => "session" \in DOMAIN newdb,
         s = "account" => "fetched" \in DOMAIN newui,
         newdb.made \in Nat, newui.rows = newdb.rows \/ (s = "account" /\ ~newui.fetched),
         \A r \in newdb.rows : Made(s, newdb.made, r)
  PROVE  ListState
<1>1. /\ PageOK /\ section = s /\ db = newdb /\ ui = newui /\ Calm
      /\ \A n \in Calls : calls[n] = NoCall
  BY OpenStep
<1>2. ASSUME NEW r \in db.rows PROVE GoodRow(r)
  <2>0. Made(s, newdb.made, r)
    BY <1>1, <1>2
  <2>1. PICK kind, id, on :
          /\ id \in Int
          /\ r = Row(kind, id, on) /\ id # 0
          /\ s = "team" => kind = "member"
          /\ s \in Growing => id <= newdb.made
    BY <2>0, Zenon DEF Made
  <2>2. RowShape(r) /\ r.kind = kind /\ r.id = id
    BY <2>1 DEF Row, RowShape
  <2> QED BY <1>1, <2>1, <2>2 DEF GoodRow
<1>3. ListTables
  BY <1>1, <1>2 DEF ListTables
<1>4. Resting => ui.rows = db.rows
  BY <1>1 DEF Resting
<1> QED BY <1>1, <1>3, <1>4, ListRests DEF AtRest

LEMMA OneIsMore == 1 \in Int /\ 1 # 0 /\ 1 <= 1 /\ -1 \in Int /\ -1 # 0 /\ -1 <= 0
OBVIOUS

LEMMA ListsBegin ==
  ASSUME section \in Lists, SettingsInit \/ PagesInit \/ StatsInit
  PROVE  ListState
<1>1. CASE Open("team", TeamDb, [Idle EXCEPT !.rows = TeamDb.rows])
  <2> DEFINE newui == [Idle EXCEPT !.rows = TeamDb.rows]
  <2>1. /\ {"rows", "busy"} \subseteq DOMAIN newui /\ newui.rows = TeamDb.rows
        /\ {"rows", "made"} \subseteq DOMAIN TeamDb /\ TeamDb.made = 0
        /\ TeamDb.rows = {Row("member", 1, TRUE)}
    BY DEF Idle, TeamDb, Owner
  <2> HIDE DEF newui
  <2>2. "team" \in Lists /\ "team" \notin Growing
    BY DEF Lists, Growing
  <2>3. Made("team", 0, Row("member", 1, TRUE))
    BY <2>2, Zenon, OneIsMore DEF Made
  <2>4. Open("team", TeamDb, newui)
    BY <1>1 DEF newui
  <2>5. \A r \in TeamDb.rows : Made("team", TeamDb.made, r)
    BY <2>1, <2>3, Zenon
  <2>6. TeamDb.made \in Nat /\ "team" # "users" /\ "team" # "account"
    BY <2>1
  <2> QED BY <2>1, <2>2, <2>4, <2>5, <2>6, Opened
<1>2. CASE Open("monitors", MonitorsDb, [rows |-> MonitorsDb.rows, busy |-> {}, checks |-> {}])
  <2> DEFINE newui == [rows |-> MonitorsDb.rows, busy |-> {}, checks |-> {}]
  <2>1. /\ {"rows", "busy"} \subseteq DOMAIN newui /\ newui.rows = MonitorsDb.rows
        /\ {"rows", "made"} \subseteq DOMAIN MonitorsDb /\ MonitorsDb.made = 1
        /\ MonitorsDb.rows = {Row("monitor", 1, TRUE)}
    BY DEF MonitorsDb
  <2> HIDE DEF newui
  <2>2. "monitors" \in Lists /\ "monitors" \notin Growing
    BY DEF Lists, Growing
  <2>3. Made("monitors", 1, Row("monitor", 1, TRUE))
    BY <2>2, Zenon, OneIsMore DEF Made
  <2>4. Open("monitors", MonitorsDb, newui)
    BY <1>2 DEF newui
  <2>5. \A r \in MonitorsDb.rows : Made("monitors", MonitorsDb.made, r)
    BY <2>1, <2>3, Zenon
  <2>6. MonitorsDb.made \in Nat /\ "monitors" # "users" /\ "monitors" # "account"
    BY <2>1
  <2> QED BY <2>1, <2>2, <2>4, <2>5, <2>6, Opened
<1>3. ASSUME NEW s \in {"heartbeats", "maintenance", "funnel"}, NEW newui,
             Open(s, [rows |-> {}, made |-> 0], newui),
             {"rows", "busy"} \subseteq DOMAIN newui, newui.rows = {}
      PROVE  ListState
  <2> DEFINE newdb == [rows |-> {}, made |-> 0]
  <2>1. {"rows", "made"} \subseteq DOMAIN newdb /\ newdb.made = 0 /\ newdb.rows = {}
    OBVIOUS
  <2>2. Open(s, newdb, newui)
    BY <1>3
  <2> HIDE DEF newdb
  <2>3. s \in Lists /\ s # "users" /\ s # "account"
    BY DEF Lists
  <2> QED BY <1>3, <2>1, <2>2, <2>3, Opened
<1>4. CASE \/ \E s \in {"heartbeats", "maintenance"} :
                Open(s, [rows |-> {}, made |-> 0], [rows |-> {}, busy |-> {}, days |-> TRUE])
           \/ Open("funnel", FunnelDb, [rows |-> {}, busy |-> {}, input |-> 0])
  <2>1. FunnelDb = [rows |-> {}, made |-> 0]
    BY DEF FunnelDb
  <2> QED BY <1>3, <1>4, <2>1
<1>5. CASE UsersInit
  <2> DEFINE newdb == [rows |-> UserRows, made |-> 0, session |-> TRUE]
             newui == [rows |-> UserRows, busy |-> {}]
  <2>1. /\ {"rows", "made", "session"} \subseteq DOMAIN newdb /\ newdb.made = 0
        /\ newdb.rows = UserRows
        /\ {"rows", "busy"} \subseteq DOMAIN newui /\ newui.rows = UserRows
    OBVIOUS
  <2>2. Open("users", newdb, newui)
    BY <1>5 DEF UsersInit
  <2> HIDE DEF newdb, newui
  <2>3. \A r \in UserRows : Made("users", 0, r)
    <3>1. Self \in Int /\ Self # 0 /\ Self <= 0 /\ Other \in Int /\ Other # 0 /\ Other <= 0
      BY DEF Self, Other
    <3>2. \A r \in UserRows : r = Row("user", Self, TRUE) \/ r = Row("user", Other, FALSE)
      BY Zenon DEF UserRows
    <3>3. "users" # "team"
      OBVIOUS
    <3> QED BY <3>1, <3>2, <3>3, Zenon DEF Made
  <2>4. "users" \in Lists /\ "users" # "account"
    BY DEF Lists
  <2> QED BY <2>1, <2>2, <2>3, <2>4, Opened
<1>6. ASSUME NEW s \in {"sites", "account", "goals"}, NEW kind, NEW newui, NEW newdb,
             newdb = [rows |-> {Row(kind, -1, TRUE)}, made |-> 0], Open(s, newdb, newui),
             {"rows", "busy"} \subseteq DOMAIN newui,
             s = "account" => "fetched" \in DOMAIN newui,
             newui.rows = newdb.rows \/ (s = "account" /\ ~newui.fetched)
      PROVE  ListState
  <2>1. {"rows", "made"} \subseteq DOMAIN newdb /\ newdb.made = 0
        /\ newdb.rows = {Row(kind, -1, TRUE)}
    BY <1>6
  <2>2. Made(s, 0, Row(kind, -1, TRUE))
    <3>1. s # "team"
      OBVIOUS
    <3> QED BY <3>1, OneIsMore, Zenon DEF Made
  <2>3. s \in Lists /\ s # "team" /\ s # "users"
    BY DEF Lists
  <2> QED BY <1>6, <2>1, <2>2, <2>3, Opened
<1>7. CASE SitesInit
  <2> DEFINE newui == [rows |-> {Row("site", -1, TRUE)}, busy |-> {}]
             newdb == [rows |-> {Row("site", -1, TRUE)}, made |-> 0]
  <2>1. {"rows", "busy"} \subseteq DOMAIN newui /\ newui.rows = newdb.rows
    OBVIOUS
  <2>2. Open("sites", newdb, newui)
    BY <1>7 DEF SitesInit
  <2> HIDE DEF newui
  <2> QED BY <1>6, <2>1, <2>2
<1>8. CASE AccountInit
  <2> DEFINE newui == Mounting(FALSE)
             newdb == [rows |-> {Row("key", -1, TRUE)}, made |-> 0]
  <2>1. {"rows", "busy", "fetched"} \subseteq DOMAIN newui /\ ~newui.fetched
    BY DEF Mounting
  <2>2. Open("account", newdb, newui)
    BY <1>8 DEF AccountInit
  <2> HIDE DEF newui
  <2> QED BY <1>6, <2>1, <2>2
<1>9. CASE GoalsInit
  <2> DEFINE newui == [rows |-> {Row("goal", -1, TRUE)}, busy |-> {}, query |-> <<0, 0>>]
             newdb == [rows |-> {Row("goal", -1, TRUE)}, made |-> 0]
  <2>1. {"rows", "busy"} \subseteq DOMAIN newui /\ newui.rows = newdb.rows
    OBVIOUS
  <2>2. Open("goals", newdb, newui)
    BY <1>9 DEF GoalsInit
  <2> HIDE DEF newui
  <2> QED BY <1>6, <2>1, <2>2
<1>10. \A s, newdb, newui : Open(s, newdb, newui) => section = s
  BY DEF Open
<1>11. ~EventsInit /\ \A s : CardInit(s) => section = s
  BY <1>10 DEF EventsInit, CardInit, Lists
<1>12. \A s, stream : LiveInit(s, stream) => section = s
  BY <1>10 DEF LiveInit
<1>13. SettingsInit => <1>1!1 \/ <1>2!1 \/ <1>4!1
  BY <1>10 DEF SettingsInit, Lists
<1>14. StatsInit => GoalsInit
  BY <1>11, <1>12 DEF StatsInit, Lists
<1> QED BY <1>1, <1>2, <1>4, <1>5, <1>7, <1>8, <1>9, <1>13, <1>14 DEF PagesInit

ListInv == section \in Lists => ListState

(* After any clicks, of any number of handlers that overlap, a list at rest    *)
(* shows the rows that are stored, unless a connection broke or two handlers   *)
(* disturbed each other: RowsAgree, for the lists of nine sections.          *)
THEOREM RowsAgreeHolds == Spec => []RowsAgree
<1>1. Init => ListInv
  <2> SUFFICES ASSUME Init, section \in Lists PROVE ListState
    BY DEF ListInv
  <2>1. SettingsInit \/ PagesInit \/ StatsInit
    BY DEF Init, NotificationsInit, AccountsInit, SessionsInit, AdminsInit, InviteInit, Open, Lists
  <2> QED BY <2>1, ListsBegin
<1>2. ListInv /\ [Next]_vars => ListInv'
  BY SectionStays, ListStep DEF ListInv
<1>3. ListInv => RowsAgree
  <2> SUFFICES ASSUME section \in Lists, ListState, Undisturbed, Resting PROVE ui.rows = db.rows
    BY DEF ListInv, RowsAgree, Resting
  <2>1. CalmList /\ \A n \in Calls : calls[n] = NoCall
    BY DEF Undisturbed, Quiet, Calm, ListState, PageOK
  <2>2. \A n \in Calls : ~Acts(calls[n]) /\ calls[n].op \notin Alone
    BY <2>1, NoCallActs, Separate
  <2>3. \A r \in ui.rows : RowShape(r)
    BY <2>1 DEF CalmList, GoodRow
  <2>4. After(calls, ui.rows) = ui.rows
    BY <2>2, <2>3, AfterQuiet
  <2> QED BY <2>1, <2>2, <2>4 DEF CalmList, NoneAlone
<1> QED BY <1>1, <1>2, <1>3, PTL DEF Spec

-----------------------------------------------------------------------------
(* Notifications.  Rows are paired by their ids: a row that is shown and       *)
(* stored is the same on both sides, turned around where a toggle has been     *)
(* answered; one that is only stored is in the answer of the handler that      *)
(* adds it; one that is only shown is about to be dropped, or has lost its     *)
(* provider with its rows in the database.                                   *)
ToggleOps == {"toggleRule", "toggleReport"}
DeleteOps == {"deleteProvider", "deleteRule", "deleteReport"}
AddOps == {"addProvider", "addRule", "addReport"}
LogOps == Tests \cup {"clearLogs"}
NotifyOps == ToggleOps \cup DeleteOps \cup AddOps \cup LogOps
RowOps == ToggleOps \cup DeleteOps

(* The kinds of the rows that a handler may be about. *)
KindsOf(op) ==
  IF op \in {"toggleRule", "deleteRule"} THEN RuleKinds
  ELSE IF op \in {"toggleReport", "deleteReport"} THEN {"report"} ELSE {"provider"}

Depends == {"rule", "report"}

NotifyRow(r, last) ==
  /\ r = [kind |-> r.kind, id |-> r.id, on |-> r.on, of |-> r.of]
  /\ r.id \in Int /\ r.id # 0 /\ r.id <= last
  /\ r.of \in Int /\ r.of <= last

HasProvider(p) == \E q \in db.rows : q.kind = "provider" /\ q.id = p

(* The foreign keys, and ids that are not used twice. *)
NotifyDb ==
  /\ db = [rows |-> db.rows, made |-> db.made] /\ db.made \in Nat
  /\ \A d \in db.rows :
       /\ NotifyRow(d, db.made)
       /\ d.kind \in Depends => HasProvider(d.of)
       /\ d.kind \notin Depends => d.of = 0
  /\ \A d, e \in db.rows : d.id = e.id => d = e

NotifyTables ==
  /\ NotifyDb
  /\ ui = [rows |-> ui.rows, busy |-> ui.busy]
  /\ \A n \in Calls : calls[n].op \in NotifyOps \cup {"none"}

Answers(c, ops, i) == c.op \in ops /\ c.at = "ok" /\ c.arg = i
Toggling(i) == \E n \in Calls : Answers(calls[n], ToggleOps, i)
Deleting(i) == \E n \in Calls : Answers(calls[n], DeleteOps, i)
Appends(c, d) == c.op \in AddOps /\ c.at = "ok" /\ c.got = {d}
Orphan(u) == u.kind \in Depends /\ ~HasProvider(u.of)

Paired(u, d) ==
  u.kind = d.kind /\ (u.kind # "log" =>
    /\ u.of = d.of
    /\ Toggling(u.id) => d.on = ~u.on
    /\ ~Toggling(u.id) => d.on = u.on)

Listed(d) ==
  d.kind # "log" =>
    (\E u \in ui.rows : u.id = d.id) \/ (\E n \in Calls : Appends(calls[n], d))

InDb(u) ==
  u.kind # "log" => (\E d \in db.rows : d.id = u.id) \/ Deleting(u.id) \/ Orphan(u)

(* Entries of the log are fetched again by a handler that is alone. *)
LogsIn(list) == {r \in list : r.kind = "log" /\ r.on}
LogsBusy(c) == c.op \in LogOps /\ (c.at = "ok" \/ c.stage = 2)
LogsAgree == LogsIn(ui.rows) = LogsIn(db.rows) \/ \E n \in Calls : LogsBusy(calls[n])

NotifyRequest(c) ==
  /\ c.at \in {"none", "sent", "ok", "failed"}
  /\ c.op \in RowOps => \E u \in ui.rows : u.id = c.arg /\ u.kind \in KindsOf(c.op)
  /\ c.op \in ToggleOps /\ c.at = "sent" => \A d \in db.rows : d.id = c.arg => c.to = ~d.on
  /\ c.op \in DeleteOps /\ c.at = "ok" => \A d \in db.rows : d.id # c.arg
  /\ c.op \in AddOps /\ c.at = "ok" =>
       \E d \in db.rows : /\ c.got = {d} /\ d.kind # "log" /\ (d.kind \in Depends => d.of = c.arg)
                          /\ \A u \in ui.rows : u.id # d.id
  /\ c.op \in LogOps /\ c.stage = 2 =>
       c.at \in {"sent", "ok"} /\ (c.at = "ok" => c.got = OfKind(db.rows, "log"))
  /\ c.op \in LogOps \ Tests /\ c.at = "ok" => OfKind(db.rows, "log") = {}

OneOfAnId ==
  \A m, n \in Calls :
    calls[m].op \in RowOps /\ calls[n].at # "none" /\ calls[n].arg = calls[m].arg => m = n

AppendedOnce ==
  \A m, n \in Calls : \A d : Appends(calls[m], d) /\ Appends(calls[n], d) => m = n

LogsAlone == \A m, n \in Calls : calls[m].op \in LogOps /\ calls[n].at # "none" => m = n

RowsShown == \A u, v \in ui.rows : NotifyRow(u, db.made) /\ (u.id = v.id => u.kind = v.kind)
AllPaired == \A u \in ui.rows, d \in db.rows : u.id = d.id => Paired(u, d)

CalmNotify ==
  /\ RowsShown /\ AllPaired
  /\ \A d \in db.rows : Listed(d)
  /\ \A u \in ui.rows : InDb(u)
  /\ LogsAgree
  /\ \A n \in Calls : NotifyRequest(calls[n])
  /\ OneOfAnId /\ AppendedOnce /\ LogsAlone

NotifyState == PageOK /\ NotifyTables /\ (Calm => CalmNotify)

-----------------------------------------------------------------------------
LEMMA NotifyKinds ==
  /\ ToggleOps \cap DeleteOps = {} /\ RowOps \cap AddOps = {} /\ RowOps \cap LogOps = {}
  /\ AddOps \cap LogOps = {} /\ "none" \notin NotifyOps
  /\ LogOps \subseteq Refetching
  /\ KindsOf("toggleRule") = RuleKinds /\ KindsOf("deleteRule") = RuleKinds
  /\ KindsOf("toggleReport") = {"report"} /\ KindsOf("deleteReport") = {"report"}
  /\ KindsOf("deleteProvider") = {"provider"}
  /\ \A op : "log" \notin KindsOf(op)
BY DEF ToggleOps, DeleteOps, RowOps, AddOps, LogOps, Tests, NotifyOps, Refetching, KindsOf, RuleKinds

(* Where all requests are over, the two sides agree. *)
LEMMA NotifyRests ==
  ASSUME NotifyTables, CalmNotify, \A n \in Calls : calls[n] = NoCall
  PROVE  Live(ui.rows) = Live(db.rows)
<1>1. /\ \A n \in Calls : ~LogsBusy(calls[n])
      /\ \A i : ~Toggling(i) /\ ~Deleting(i)
      /\ \A d : \A n \in Calls : ~Appends(calls[n], d)
  BY NoCallFacts, NotifyKinds DEF LogsBusy, Toggling, Deleting, Answers, Appends, NotifyOps, RowOps, NoCall
<1>2. LogsIn(ui.rows) = LogsIn(db.rows)
  BY <1>1 DEF CalmNotify, LogsAgree
<1>3. \A u \in ui.rows, d \in db.rows : u.id = d.id /\ u.kind # "log" => u = d
  BY <1>1 DEF CalmNotify, RowsShown, AllPaired, Paired, NotifyTables, NotifyDb, NotifyRow
<1>4. \A d \in db.rows : d.kind # "log" => d \in ui.rows
  <2> TAKE d \in db.rows
  <2> HAVE d.kind # "log"
  <2>1. PICK u \in ui.rows : u.id = d.id
    BY <1>1 DEF CalmNotify, Listed
  <2>2. u.kind = d.kind
    BY <2>1 DEF CalmNotify, AllPaired, Paired
  <2> QED BY <1>3, <2>1, <2>2
<1>5. \A u \in ui.rows : u.kind # "log" => u \in db.rows \/ Orphan(u)
  <2> TAKE u \in ui.rows
  <2> HAVE u.kind # "log" /\ ~Orphan(u)
  <2>1. PICK d \in db.rows : d.id = u.id
    BY <1>1 DEF CalmNotify, InDb
  <2> QED BY <1>3, <2>1
<1>6. \A p \in ui.rows : p.kind = "provider" => p \in db.rows
  BY <1>5 DEF Orphan, Depends
<1>7. ASSUME NEW r, r.kind = "log" PROVE r \in Live(ui.rows) <=> r \in Live(db.rows)
  BY <1>2, <1>7 DEF Live, LogsIn
<1>8. ASSUME NEW r, r.kind \in Depends PROVE r \in Live(ui.rows) <=> r \in Live(db.rows)
  <2>1. \A list : r \in Live(list) <=>
           r \in list /\ \E p \in list : p.kind = "provider" /\ p.id = r.of
    BY <1>8 DEF Live, Depends
  <2>2. r \in ui.rows /\ (\E p \in ui.rows : p.kind = "provider" /\ p.id = r.of) => r \in db.rows
    BY <1>5, <1>6, <1>8 DEF Orphan, HasProvider, Depends
  <2>3. r \in db.rows => r \in ui.rows
    BY <1>4, <1>8 DEF Depends
  <2>4. \A p : p.kind = "provider" => (p \in ui.rows <=> p \in db.rows)
    BY <1>4, <1>6
  <2> QED BY <2>1, <2>2, <2>3, <2>4
<1>9. ASSUME NEW r, r.kind \notin Depends \cup {"log"} PROVE r \in Live(ui.rows) <=> r \in Live(db.rows)
  <2>1. \A list : r \in Live(list) <=> r \in list
    BY <1>9 DEF Live, Depends
  <2> QED BY <1>4, <1>5, <1>9, <2>1 DEF Orphan
<1> QED
  <2>1. \A r : r \in Live(ui.rows) <=> r \in Live(db.rows)
    BY <1>7, <1>8, <1>9
  <2> QED BY <2>1

-----------------------------------------------------------------------------
(* The database. *)
LEMMA NotifyGrows ==
  ASSUME NotifyDb, NEW kind, NEW on, NEW of, db' = WithRow([kind |-> kind, id |-> NewId, on |-> on, of |-> of]),
         kind \in Depends => HasProvider(of), kind \notin Depends => of = 0
  PROVE  /\ NotifyDb' /\ db'.made = db.made + 1
         /\ db'.rows = db.rows \cup {[kind |-> kind, id |-> NewId, on |-> on, of |-> of]}
         /\ \A d \in db.rows : d.id # NewId /\ d.id \in Int
<1> DEFINE r == [kind |-> kind, id |-> NewId, on |-> on, of |-> of]
<1>1. db' = [rows |-> db.rows \cup {r}, made |-> db.made + 1]
  BY DEF WithRow, NotifyDb
<1>2. NewId \in Int /\ NewId = db.made + 1 /\ NewId > 0 /\ db.made \in Nat
  BY DEF NewId, NotifyDb
<1>3. r.kind = kind /\ r.id = NewId /\ r.of = of /\ r = [kind |-> r.kind, id |-> r.id, on |-> r.on, of |-> r.of]
  OBVIOUS
<1> HIDE DEF r
<1>4. db'.rows = db.rows \cup {r} /\ db'.made = db.made + 1 /\ db' = [rows |-> db'.rows, made |-> db'.made]
  BY <1>1
<1>5. of \in Int /\ of <= db'.made
  BY <1>2, <1>4 DEF HasProvider, NotifyDb, NotifyRow
<1>6. \A d \in db.rows : NotifyRow(d, db.made) /\ d.id # NewId /\ d.id \in Int /\ NotifyRow(d, db'.made)
  BY <1>2, <1>4 DEF NotifyDb, NotifyRow
<1>7. NotifyRow(r, db'.made) /\ r.id = NewId
  BY <1>2, <1>3, <1>4, <1>5 DEF NotifyRow
<1>8. \A p : HasProvider(p) => HasProvider(p)'
  BY <1>4 DEF HasProvider
<1>9. NotifyDb'
  BY <1>2, <1>3, <1>4, <1>6, <1>7, <1>8 DEF NotifyDb
<1> QED BY <1>4, <1>6, <1>9 DEF r

LEMMA NotifyShrinks ==
  ASSUME NotifyDb, NEW rest, rest \subseteq db.rows, db' = [db EXCEPT !.rows = rest],
         \A d \in rest : d.kind \in Depends => \E q \in rest : q.kind = "provider" /\ q.id = d.of
  PROVE  NotifyDb' /\ db'.made = db.made /\ db'.rows = rest
<1>1. db' = [rows |-> rest, made |-> db.made]
  BY DEF NotifyDb
<1>2. db'.rows = rest /\ db'.made = db.made
  BY <1>1
<1> QED BY <1>1, <1>2 DEF NotifyDb, HasProvider

(* A row with another value. *)
Like(d, e) == d.kind = e.kind /\ d.id = e.id /\ d.of = e.of

LEMMA NotifyTurns ==
  ASSUME NotifyDb, NEW kind, NEW id, NEW on, db' = [db EXCEPT !.rows = SetOn(db.rows, kind, id, on)]
  PROVE  /\ NotifyDb' /\ db'.made = db.made
         /\ \A d \in db'.rows : \E e \in db.rows :
              Like(d, e) /\ d.on = (IF e.kind = kind /\ e.id = id THEN on ELSE e.on)
         /\ \A e \in db.rows : \E d \in db'.rows : Like(d, e)
<1> DEFINE Turned(e) == IF e.kind = kind /\ e.id = id THEN [e EXCEPT !.on = on] ELSE e
<1> DEFINE turned == {Turned(e) : e \in db.rows}
<1>1. db' = [rows |-> turned, made |-> db.made]
  BY DEF NotifyDb, SetOn
<1>2. \A e \in db.rows : /\ Like(Turned(e), e)
                         /\ Turned(e).on = (IF e.kind = kind /\ e.id = id THEN on ELSE e.on)
                         /\ NotifyRow(Turned(e), db.made)
  BY DEF NotifyDb, NotifyRow, Like
<1> HIDE DEF Turned, turned
<1>3. /\ db'.rows = turned /\ db'.made = db.made
      /\ db' = [rows |-> db'.rows, made |-> db'.made]
  <2>1. db'.rows = turned /\ db'.made = db.made
    BY <1>1
  <2> QED BY <1>1, <2>1, Zenon
<1>4. \A d \in db'.rows : \E e \in db.rows : d = Turned(e)
  BY <1>3 DEF turned
<1>5. \A e \in db.rows : Turned(e) \in db'.rows
  BY <1>3 DEF turned
<1>6. \A p : HasProvider(p) => HasProvider(p)'
  BY <1>2, <1>5 DEF HasProvider, Like
<1>7. NotifyDb'
  BY <1>2, <1>3, <1>4, <1>6 DEF NotifyDb, Like
<1> QED BY <1>2, <1>3, <1>4, <1>5, <1>7

-----------------------------------------------------------------------------
(* What one request changes of what the others are about. *)
GoesOn(n) ==
  calls'[n] = NoCall \/ (/\ calls[n].at # "none" /\ calls'[n].op = calls[n].op
                         /\ calls'[n].arg = calls[n].arg /\ calls'[n].to = calls[n].to)

LEMMA NotifyAnswers ==
  ASSUME NEW n \in Calls, Others(n), GoesOn(n), NEW ops, "none" \notin ops
  PROVE  /\ calls[n].op \notin ops => \A m \in Calls : \A i : Answers(calls[m], ops, i)' <=> Answers(calls[m], ops, i)
         /\ \A m \in Calls \ {n} : \A i : Answers(calls[m], ops, i)' <=> Answers(calls[m], ops, i)
         /\ calls'[n].at # "ok" => \A i : ~Answers(calls'[n], ops, i)
BY NoCallFacts DEF Others, GoesOn, Answers

LEMMA NotifyMarks ==
  ASSUME NEW n \in Calls, Others(n), GoesOn(n)
  PROVE  /\ calls[n].op \notin ToggleOps => \A i : Toggling(i)' <=> Toggling(i)
         /\ calls[n].op \notin DeleteOps => \A i : Deleting(i)' <=> Deleting(i)
         /\ calls[n].op \notin AddOps =>
              \A m \in Calls : \A d : Appends(calls[m], d)' <=> Appends(calls[m], d)
         /\ calls'[n].at # "ok" /\ calls[n].at # "ok" =>
              /\ \A i : (Toggling(i)' <=> Toggling(i)) /\ (Deleting(i)' <=> Deleting(i))
              /\ \A m \in Calls : \A d : Appends(calls[m], d)' <=> Appends(calls[m], d)
BY NoCallFacts, NotifyKinds
   DEF Others, GoesOn, Toggling, Deleting, Answers, Appends, NotifyOps, ToggleOps, DeleteOps, AddOps

LEMMA NotifyOnes ==
  ASSUME OneOfAnId, LogsAlone, NEW n \in Calls, Others(n), GoesOn(n)
  PROVE  OneOfAnId' /\ LogsAlone'
BY NoCallFacts, NotifyKinds
   DEF Others, GoesOn, OneOfAnId, LogsAlone, RowOps, ToggleOps, DeleteOps, LogOps, Tests

(* Beside the handlers of rows the log rests. *)
LEMMA LogsRest ==
  ASSUME CalmNotify, NEW n \in Calls, calls[n].at # "none", calls[n].op \notin LogOps
  PROVE  /\ LogsIn(ui.rows) = LogsIn(db.rows)
         /\ \A m \in Calls : calls[m].op \notin LogOps
BY DEF CalmNotify, LogsAgree, LogsBusy, LogsAlone

(* The other requests are what they were. *)
LEMMA RequestKept ==
  ASSUME NEW n \in Calls, Others(n), NEW m \in Calls, m # n, NotifyRequest(calls[m]),
         calls[m].op \in RowOps => \A u \in ui.rows : u.id = calls[m].arg =>
           \E v \in ui'.rows : v.id = u.id /\ v.kind = u.kind,
         calls[m].op \in RowOps => \A d \in db'.rows : d.id = calls[m].arg =>
           \E e \in db.rows : e.id = d.id /\ e.on = d.on,
         \A d \in db.rows : Appends(calls[m], d) => d \in db'.rows /\ \A u \in ui'.rows : u.id # d.id,
         calls[m].op \in LogOps => OfKind(db'.rows, "log") = OfKind(db.rows, "log")
  PROVE  NotifyRequest(calls[m])'
<1> DEFINE c == calls[m]
<1>1. calls'[m] = c
  BY DEF Others
<1>2. c.op \in ToggleOps \cup DeleteOps <=> c.op \in RowOps
  BY DEF RowOps
<1>3. c.op \in AddOps /\ c.at = "ok" =>
       \E d \in db'.rows : /\ c.got = {d} /\ d.kind # "log" /\ (d.kind \in Depends => d.of = c.arg)
                          /\ \A u \in ui'.rows : u.id # d.id
  BY DEF NotifyRequest, Appends
<1>4. c.op \in RowOps => \E u \in ui'.rows : u.id = c.arg /\ u.kind \in KindsOf(c.op)
  BY DEF NotifyRequest
<1>5. c.op \in ToggleOps /\ c.at = "sent" => \A d \in db'.rows : d.id = c.arg => c.to = ~d.on
  BY <1>2 DEF NotifyRequest
<1>6. c.op \in DeleteOps /\ c.at = "ok" => \A d \in db'.rows : d.id # c.arg
  BY <1>2 DEF NotifyRequest
<1> HIDE DEF c
<1>7. /\ c.at \in {"none", "sent", "ok", "failed"}
      /\ c.op \in LogOps /\ c.stage = 2 =>
           c.at \in {"sent", "ok"} /\ (c.at = "ok" => c.got = OfKind(db'.rows, "log"))
      /\ c.op \in LogOps \ Tests /\ c.at = "ok" => OfKind(db'.rows, "log") = {}
  BY DEF NotifyRequest, c
<1>8. NotifyRequest(c)'
  BY <1>1, <1>3, <1>4, <1>5, <1>6, <1>7 DEF NotifyRequest, c
<1> QED BY <1>8 DEF c

(* Nothing is appended that was not appended before. *)
LEMMA AppendedKept ==
  ASSUME AppendedOnce, \A m \in Calls : \A d : Appends(calls[m], d)' => Appends(calls[m], d)
  PROVE  AppendedOnce'
BY DEF AppendedOnce

(* A request fails, or a failed one ends. *)
LEMMA QuietGoes ==
  ASSUME CalmNotify, NEW n \in Calls, Others(n), GoesOn(n), calls[n].at \in {"sent", "failed"},
         calls[n].op \in LogOps => calls[n].stage # 2,
         calls'[n] = NoCall \/ (calls'[n].at = "failed" /\ calls'[n].stage = calls[n].stage),
         db' = db, ui'.rows = ui.rows
  PROVE  CalmNotify'
<1>1. /\ \A i : (Toggling(i)' <=> Toggling(i)) /\ (Deleting(i)' <=> Deleting(i))
      /\ \A m \in Calls : \A d : Appends(calls[m], d)' <=> Appends(calls[m], d)
  BY NotifyMarks, NoCallFacts
<1>2. RowsShown' /\ AllPaired' /\ (\A u \in ui.rows : InDb(u))'
  BY <1>1 DEF CalmNotify, RowsShown, AllPaired, Paired, InDb, Orphan, HasProvider
<1>3. (\A d \in db.rows : Listed(d))'
  BY <1>1 DEF CalmNotify, Listed
<1>4. ~LogsBusy(calls[n]) /\ ~LogsBusy(calls'[n])
  BY NoCallFacts, NotifyKinds DEF LogsBusy, GoesOn, NoCall
<1>5. LogsAgree'
  <2>1. \A m \in Calls : LogsBusy(calls[m]) => LogsBusy(calls'[m])
    BY <1>4 DEF Others
  <2> QED BY <2>1 DEF CalmNotify, LogsAgree, LogsBusy
<1>6. \A m \in Calls : NotifyRequest(calls[m])'
  <2>1. ASSUME NEW m \in Calls, m # n PROVE NotifyRequest(calls[m])'
    BY <2>1 DEF CalmNotify, NotifyRequest, Others
  <2>2. NotifyRequest(calls[n])'
    BY NoCallFacts, NotifyKinds
       DEF CalmNotify, NotifyRequest, GoesOn, NoCall, RowOps, ToggleOps, DeleteOps, AddOps, LogOps, Tests
  <2> QED BY <2>1, <2>2
<1>7. OneOfAnId' /\ LogsAlone' /\ AppendedOnce'
  BY <1>1, NotifyOnes, AppendedKept DEF CalmNotify
<1> QED BY <1>2, <1>3, <1>5, <1>6, <1>7 DEF CalmNotify

-----------------------------------------------------------------------------
(* What the server does for a request that is answered, when all is calm. *)
Arriving(n, got) ==
  /\ NotifyTables /\ CalmNotify /\ Others(n) /\ UNCHANGED ui
  /\ calls[n].at = "sent" /\ Further(n, "ok", got)

LEMMA AddGoes ==
  ASSUME NEW n \in Calls, NEW kind, NEW of, kind # "log",
         kind \in Depends => HasProvider(of) /\ of = calls[n].arg, kind \notin Depends => of = 0,
         db' = WithRow([kind |-> kind, id |-> NewId, on |-> TRUE, of |-> of]),
         calls[n].op \in AddOps,
         Arriving(n, {[kind |-> kind, id |-> NewId, on |-> TRUE, of |-> of]})
  PROVE  CalmNotify'
<1> DEFINE on == TRUE
<1>0. PICK r : r = [kind |-> kind, id |-> NewId, on |-> on, of |-> of]
  OBVIOUS
<1>1. /\ NotifyDb' /\ db'.made = db.made + 1 /\ db'.rows = db.rows \cup {r}
      /\ \A d \in db.rows : d.id # NewId
  <2>1. db' = WithRow([kind |-> kind, id |-> NewId, on |-> on, of |-> of])
    OBVIOUS
  <2> HIDE DEF on
  <2> QED BY <1>0, <2>1, NotifyGrows DEF Arriving, NotifyTables
<1>2. /\ r.kind = kind /\ r.id = NewId /\ r.of = of
      /\ Others(n) /\ calls[n].at = "sent" /\ Further(n, "ok", {r}) /\ ui' = ui
  BY <1>0 DEF Arriving
<1> HIDE DEF on
<1>3. /\ NotifyTables /\ CalmNotify /\ db.made \in Nat /\ NewId = db.made + 1
      /\ GoesOn(n) /\ calls[n].op \notin ToggleOps \cup DeleteOps \cup LogOps
  BY <1>2, NotifyKinds DEF Arriving, NotifyTables, NotifyDb, NewId, GoesOn, Further, RowOps
<1>4. /\ \A i : (Toggling(i)' <=> Toggling(i)) /\ (Deleting(i)' <=> Deleting(i))
      /\ Appends(calls[n], r)'
      /\ \A d : Appends(calls[n], d)' => d = r
      /\ \A m \in Calls : \A d : Appends(calls[m], d) => Appends(calls[m], d)'
      /\ \A m \in Calls \ {n} : \A d : Appends(calls[m], d)' => Appends(calls[m], d)
  <2>1. \A i : (Toggling(i)' <=> Toggling(i)) /\ (Deleting(i)' <=> Deleting(i))
    BY <1>2, <1>3, NotifyMarks
  <2>2. Appends(calls[n], r)' /\ \A d : ~Appends(calls[n], d)
    BY <1>2 DEF Appends, Further
  <2>3. \A d : Appends(calls[n], d)' => d = r
    BY <1>2 DEF Appends, Further
  <2>4. \A m \in Calls \ {n} : \A d : Appends(calls[m], d)' <=> Appends(calls[m], d)
    BY <1>2 DEF Appends, Others
  <2> QED BY <2>1, <2>2, <2>3, <2>4
<1>5. \A u \in ui.rows : u.id # NewId /\ u.of # NewId /\ NotifyRow(u, db'.made)
  BY <1>1, <1>3 DEF CalmNotify, RowsShown, NotifyRow
<1>6. RowsShown'
  BY <1>2, <1>3, <1>5 DEF CalmNotify, RowsShown
<1>7. AllPaired'
  <2> SUFFICES ASSUME NEW u \in ui.rows, NEW d \in db'.rows, u.id = d.id PROVE Paired(u, d)'
    BY <1>2 DEF AllPaired
  <2>1. d \in db.rows
    BY <1>1, <1>2, <1>5
  <2> QED BY <1>3, <1>4, <2>1 DEF CalmNotify, AllPaired, Paired
<1>8. (\A d \in db.rows : Listed(d))'
  <2> SUFFICES ASSUME NEW d \in db'.rows PROVE Listed(d)'
    OBVIOUS
  <2>1. Listed(r)'
    BY <1>4 DEF Listed
  <2>2. \A e \in db.rows : Listed(e)'
    BY <1>2, <1>3, <1>4 DEF CalmNotify, Listed
  <2> QED BY <1>1, <2>1, <2>2
<1>9. (\A u \in ui.rows : InDb(u))'
  <2>1. \A u \in ui.rows : Orphan(u) => Orphan(u)'
    BY <1>1, <1>2, <1>5 DEF Orphan, HasProvider
  <2> QED BY <1>1, <1>2, <1>3, <1>4, <2>1 DEF CalmNotify, InDb
<1>10. /\ LogsIn(ui.rows) = LogsIn(db.rows)
       /\ \A m \in Calls : calls[m].op \notin LogOps
  BY <1>2, <1>3, LogsRest
<1>11. LogsAgree'
  BY <1>1, <1>2, <1>10 DEF LogsAgree, LogsIn
<1>12. \A m \in Calls : NotifyRequest(calls[m])'
  <2>1. ASSUME NEW m \in Calls, m # n PROVE NotifyRequest(calls[m])'
    <3>1. NotifyRequest(calls[m])
      BY <1>3 DEF CalmNotify
    <3>2. calls[m].op \in RowOps => \A d \in db'.rows : d.id = calls[m].arg => d \in db.rows
      BY <3>1, <1>1, <1>2, <1>5 DEF NotifyRequest
    <3>3. \A d \in db.rows : Appends(calls[m], d) => d \in db'.rows /\ \A u \in ui'.rows : u.id # d.id
      BY <3>1, <1>1, <1>2 DEF NotifyRequest, Appends
    <3> QED BY <1>2, <1>10, <2>1, <3>1, <3>2, <3>3, RequestKept
  <2>2. NotifyRequest(calls[n])'
    <3>1. /\ calls'[n].op \in AddOps /\ calls'[n].op \notin RowOps \cup LogOps
          /\ calls'[n].at = "ok" /\ calls'[n].got = {r} /\ calls'[n].arg = calls[n].arg
      BY <1>2, <1>3 DEF Further, RowOps
    <3>2. /\ r \in db'.rows /\ r.kind # "log" /\ (r.kind \in Depends => r.of = calls'[n].arg)
          /\ \A u \in ui'.rows : u.id # r.id
      BY <1>1, <1>2, <1>5, <3>1
    <3> QED BY <3>1, <3>2 DEF NotifyRequest, RowOps
  <2> QED BY <2>1, <2>2
<1>13. OneOfAnId' /\ LogsAlone'
  BY <1>2, <1>3, NotifyOnes DEF CalmNotify
<1>14. AppendedOnce'
  <2>1. \A m \in Calls : ~Appends(calls[m], r)
    BY <1>1, <1>2, <1>3 DEF CalmNotify, NotifyRequest, Appends
  <2>2. \A m \in Calls \ {n} : \A d : Appends(calls[m], d)' => Appends(calls[m], d) /\ d # r
    BY <1>4, <2>1
  <2>3. AppendedOnce
    BY <1>3 DEF CalmNotify
  <2> SUFFICES ASSUME NEW m \in Calls, NEW k \in Calls, NEW d,
                      Appends(calls[m], d)', Appends(calls[k], d)'
               PROVE  m = k
    BY DEF AppendedOnce
  <2>4. CASE m = n \/ k = n
    BY <1>4, <2>2, <2>4
  <2>5. CASE m # n /\ k # n
    BY <2>2, <2>3, <2>5 DEF AppendedOnce
  <2> QED BY <2>4, <2>5
<1> QED BY <1>6, <1>7, <1>8, <1>9, <1>11, <1>12, <1>13, <1>14 DEF CalmNotify

LEMMA ToggleGoes ==
  ASSUME NEW n \in Calls, NEW kind, NEW id, NEW to, NEW got,
         calls[n].op \in ToggleOps, calls[n].arg = id, calls[n].to = to, Arriving(n, got),
         kind \in KindsOf(calls[n].op), Exists(kind, id),
         db' = [db EXCEPT !.rows = SetOn(db.rows, kind, id, to)]
  PROVE  CalmNotify'
<1>1. /\ NotifyDb' /\ db'.made = db.made
      /\ \A d \in db'.rows : \E e \in db.rows :
           Like(d, e) /\ d.on = (IF e.kind = kind /\ e.id = id THEN to ELSE e.on)
      /\ \A e \in db.rows : \E d \in db'.rows : Like(d, e)
  BY NotifyTurns DEF Arriving, NotifyTables
<1>2. /\ NotifyTables /\ CalmNotify /\ Others(n) /\ GoesOn(n) /\ ui' = ui
      /\ calls[n].at = "sent" /\ Further(n, "ok", got)
      /\ calls[n].op \in RowOps /\ calls[n].op \notin DeleteOps \cup AddOps \cup LogOps
      /\ kind # "log"
  BY NotifyKinds DEF Arriving, GoesOn, Further, RowOps
<1>3. PICK u0 \in ui.rows : u0.id = id /\ u0.kind \in KindsOf(calls[n].op)
  BY <1>2 DEF CalmNotify, NotifyRequest
<1>4. \A e \in db.rows : e.id = id => e.kind = kind
  BY <1>2 DEF NotifyTables, NotifyDb, Exists
(* A row is turned, or it is the row that was there. *)
<1>5. /\ \A d \in db'.rows : d.id # id => d \in db.rows
      /\ \A e \in db.rows : e.id # id => e \in db'.rows
  <2>1. \A d \in db'.rows, e \in db.rows : Like(d, e) /\ d.on = e.on => d = e
    <3>1. /\ \A d \in db'.rows : NotifyRow(d, db'.made)
          /\ \A e \in db.rows : NotifyRow(e, db.made)
      BY <1>1, <1>2 DEF NotifyTables, NotifyDb
    <3> QED BY <3>1 DEF NotifyRow, Like
  <2>2. \A d \in db'.rows : d.id # id => d \in db.rows
    BY <1>1, <2>1 DEF Like
  <2>3. \A e \in db.rows : e.id # id => e \in db'.rows
    <3> TAKE e \in db.rows
    <3> HAVE e.id # id
    <3>1. PICK d \in db'.rows : Like(d, e)
      BY <1>1
    <3>2. d \in db.rows /\ d.id = e.id
      BY <2>2, <3>1 DEF Like
    <3>3. d = e
      BY <3>2, <1>2 DEF NotifyTables, NotifyDb
    <3> QED BY <3>3
  <2> QED BY <2>2, <2>3
<1>6. /\ ~Toggling(id) /\ Toggling(id)'
      /\ \A i : i # id => (Toggling(i)' <=> Toggling(i))
      /\ \A i : Deleting(i)' <=> Deleting(i)
      /\ \A m \in Calls : \A d : Appends(calls[m], d)' <=> Appends(calls[m], d)
  <2>1. \A m \in Calls : calls[m].op \in RowOps /\ calls[m].arg = id => m = n
    BY <1>2 DEF CalmNotify, OneOfAnId
  <2>2. ~Toggling(id)
    BY <1>2, <2>1 DEF Toggling, Answers, RowOps
  <2>3. Toggling(id)'
    BY <1>2 DEF Toggling, Answers, Further
  <2>4. \A i : i # id => (Toggling(i)' <=> Toggling(i))
    BY <1>2 DEF Toggling, Answers, Further, Others
  <2> QED BY <1>2, <2>2, <2>3, <2>4, NotifyMarks
<1>7. RowsShown'
  BY <1>1, <1>2 DEF CalmNotify, RowsShown
<1>8. AllPaired'
  <2> SUFFICES ASSUME NEW u \in ui.rows, NEW d \in db'.rows, u.id = d.id PROVE Paired(u, d)'
    BY <1>2 DEF AllPaired
  <2>1. CASE d.id # id
    BY <1>2, <1>5, <1>6, <2>1 DEF CalmNotify, AllPaired, Paired
  <2>2. CASE d.id = id
    <3>1. PICK e \in db.rows : Like(d, e) /\ d.on = (IF e.kind = kind /\ e.id = id THEN to ELSE e.on)
      BY <1>1
    <3>2. Paired(u, e) /\ e.kind = kind /\ e.id = id /\ d.on = to /\ u.id = id
      BY <1>2, <1>4, <2>2, <3>1 DEF CalmNotify, AllPaired, Like
    <3>3. to = ~e.on
      BY <1>2, <3>2 DEF CalmNotify, NotifyRequest
    <3>4. u.kind = d.kind /\ u.of = d.of /\ e.on = u.on
      BY <1>2, <1>6, <3>1, <3>2 DEF Paired, Like
    <3>5. d.on = ~u.on
      BY <3>2, <3>3, <3>4
    <3> QED BY <1>6, <3>2, <3>4, <3>5 DEF Paired
  <2> QED BY <2>1, <2>2
<1>9. \A m \in Calls : \A d \in db.rows : Appends(calls[m], d) => d.id # id
  BY <1>2, <1>3 DEF CalmNotify, NotifyRequest, Appends
<1>10. (\A d \in db.rows : Listed(d))'
  <2> SUFFICES ASSUME NEW d \in db'.rows PROVE Listed(d)'
    OBVIOUS
  <2>1. CASE d.id = id
    BY <1>2, <1>3, <2>1 DEF Listed
  <2>2. CASE d.id # id
    BY <1>2, <1>5, <1>6, <2>2 DEF CalmNotify, Listed
  <2> QED BY <2>1, <2>2
<1>11. (\A u \in ui.rows : InDb(u))'
  <2>1. \A p : HasProvider(p)' => HasProvider(p)
    BY <1>1 DEF HasProvider, Like
  <2>2. \A u : Orphan(u) => Orphan(u)'
    BY <2>1 DEF Orphan
  <2>3. \A i : (\E d \in db.rows : d.id = i) => \E d \in db'.rows : d.id = i
    BY <1>1 DEF Like
  <2> QED BY <1>2, <1>6, <2>2, <2>3 DEF CalmNotify, InDb
<1>12. /\ LogsIn(ui.rows) = LogsIn(db.rows)
       /\ \A m \in Calls : calls[m].op \notin LogOps
  BY <1>2, LogsRest
<1>13. LogsAgree'
  <2>1. \A d : d.kind = "log" => (d \in db'.rows <=> d \in db.rows)
    BY <1>1, <1>2, <1>4, <1>5 DEF Like
  <2>2. LogsIn(db'.rows) = LogsIn(db.rows)
    BY <2>1 DEF LogsIn
  <2> QED BY <1>2, <1>12, <2>2 DEF LogsAgree
<1>14. \A m \in Calls : NotifyRequest(calls[m])'
  <2>1. ASSUME NEW m \in Calls, m # n PROVE NotifyRequest(calls[m])'
    <3>1. NotifyRequest(calls[m])
      BY <1>2 DEF CalmNotify
    <3>2. calls[m].op \in RowOps => calls[m].arg # id
      BY <1>2, <2>1 DEF CalmNotify, OneOfAnId
    <3>3. calls[m].op \in RowOps => \A d \in db'.rows : d.id = calls[m].arg => d \in db.rows
      BY <1>5, <3>2
    <3>4. \A d \in db.rows : Appends(calls[m], d) => d \in db'.rows /\ \A u \in ui'.rows : u.id # d.id
      BY <1>2, <1>5, <1>9, <3>1 DEF NotifyRequest, Appends
    <3> QED BY <1>2, <1>12, <2>1, <3>1, <3>3, <3>4, RequestKept
  <2>2. NotifyRequest(calls[n])'
    BY <1>2, <1>3 DEF NotifyRequest, Further, RowOps
  <2> QED BY <2>1, <2>2
<1>15. OneOfAnId' /\ LogsAlone' /\ AppendedOnce'
  BY <1>2, <1>6, NotifyOnes, AppendedKept DEF CalmNotify
<1> QED BY <1>7, <1>8, <1>10, <1>11, <1>13, <1>14, <1>15 DEF CalmNotify

LEMMA RemoveGoes ==
  ASSUME NEW n \in Calls, NEW id, NEW got, NEW rest,
         calls[n].op \in DeleteOps, calls[n].arg = id, Arriving(n, got),
         db' = [db EXCEPT !.rows = rest], rest \subseteq db.rows,
         \A d \in rest : d.id # id,
         \A d \in rest : d.kind \in Depends => \E q \in rest : q.kind = "provider" /\ q.id = d.of,
         \A d \in db.rows \ rest : d.kind # "log" /\ (d.id = id \/ (d.kind \in Depends /\ d.of = id))
  PROVE  CalmNotify'
<1>1. NotifyDb' /\ db'.made = db.made /\ db'.rows = rest
  BY NotifyShrinks DEF Arriving, NotifyTables
<1>2. /\ NotifyTables /\ CalmNotify /\ Others(n) /\ GoesOn(n) /\ ui' = ui
      /\ calls[n].at = "sent" /\ Further(n, "ok", got)
      /\ calls[n].op \in RowOps /\ calls[n].op \notin ToggleOps \cup AddOps \cup LogOps
  BY NotifyKinds DEF Arriving, GoesOn, Further, RowOps
<1>3. PICK u0 \in ui.rows : u0.id = id /\ u0.kind \in KindsOf(calls[n].op)
  BY <1>2 DEF CalmNotify, NotifyRequest
<1>4. /\ Deleting(id)'
      /\ \A i : Deleting(i) => Deleting(i)'
      /\ \A i : Toggling(i)' <=> Toggling(i)
      /\ \A m \in Calls : \A d : Appends(calls[m], d)' <=> Appends(calls[m], d)
  <2>1. Deleting(id)'
    BY <1>2 DEF Deleting, Answers, Further
  <2>2. \A i : Deleting(i) => Deleting(i)'
    BY <1>2 DEF Deleting, Answers, Further, Others
  <2> QED BY <1>2, <2>1, <2>2, NotifyMarks
(* What another handler is about to append has not been deleted. *)
<1>5. \A m \in Calls : \A d \in db.rows : Appends(calls[m], d) => d \in rest
  <2> SUFFICES ASSUME NEW m \in Calls, NEW d \in db.rows, Appends(calls[m], d), d \notin rest
               PROVE  FALSE
    OBVIOUS
  <2>1. d.id # id /\ (d.kind \in Depends => d.of = calls[m].arg)
    BY <1>2, <1>3 DEF CalmNotify, NotifyRequest, Appends
  <2>2. calls[m].arg = id /\ calls[m].at # "none"
    BY <2>1 DEF Appends
  <2>3. m = n
    BY <1>2, <2>2 DEF CalmNotify, OneOfAnId
  <2> QED BY <1>2, <2>3 DEF Appends
<1>6. RowsShown' /\ AllPaired'
  <2>1. RowsShown'
    BY <1>1, <1>2 DEF CalmNotify, RowsShown
  <2>2. AllPaired'
    BY <1>1, <1>2, <1>4 DEF CalmNotify, AllPaired, Paired
  <2> QED BY <2>1, <2>2
<1>7. (\A d \in db.rows : Listed(d))'
  <2> SUFFICES ASSUME NEW d \in db'.rows PROVE Listed(d)'
    OBVIOUS
  <2> QED BY <1>1, <1>2, <1>4 DEF CalmNotify, Listed
<1>8. (\A u \in ui.rows : InDb(u))'
  <2> SUFFICES ASSUME NEW u \in ui.rows, u.kind # "log" PROVE InDb(u)'
    BY <1>2 DEF InDb
  <2>1. \A p : HasProvider(p)' => HasProvider(p) /\ p # id
    BY <1>1 DEF HasProvider
  <2>2. CASE Deleting(u.id) \/ Orphan(u)
    BY <1>4, <2>1, <2>2 DEF InDb, Orphan
  <2>3. CASE \E d \in db.rows : d.id = u.id
    <3>1. PICK d \in db.rows : d.id = u.id
      BY <2>3
    <3>2. CASE d \in rest
      BY <1>1, <3>1, <3>2 DEF InDb
    <3>3. CASE d.id = id
      BY <1>4, <3>1, <3>3 DEF InDb
    <3>4. CASE d.kind \in Depends /\ d.of = id
      <4>1. u.kind = d.kind /\ u.of = id
        BY <1>2, <3>1, <3>4 DEF CalmNotify, AllPaired, Paired
      <4> QED BY <2>1, <3>4, <4>1 DEF InDb, Orphan
    <3> QED BY <3>2, <3>3, <3>4
  <2> QED BY <1>2, <2>2, <2>3 DEF CalmNotify, InDb
<1>9. /\ LogsIn(ui.rows) = LogsIn(db.rows)
      /\ \A m \in Calls : calls[m].op \notin LogOps
  BY <1>2, LogsRest
<1>10. LogsAgree'
  <2>1. LogsIn(rest) = LogsIn(db.rows)
    BY DEF LogsIn
  <2> QED BY <1>1, <1>2, <1>9, <2>1 DEF LogsAgree
<1>11. \A m \in Calls : NotifyRequest(calls[m])'
  <2>1. ASSUME NEW m \in Calls, m # n PROVE NotifyRequest(calls[m])'
    <3>1. NotifyRequest(calls[m])
      BY <1>2 DEF CalmNotify
    <3>2. \A d \in db.rows : Appends(calls[m], d) => d \in db'.rows /\ \A u \in ui'.rows : u.id # d.id
      BY <1>1, <1>2, <1>5, <3>1 DEF NotifyRequest, Appends
    <3> QED BY <1>1, <1>2, <1>9, <2>1, <3>1, <3>2, RequestKept
  <2>2. NotifyRequest(calls[n])'
    BY <1>1, <1>2, <1>3 DEF NotifyRequest, Further, RowOps
  <2> QED BY <2>1, <2>2
<1>12. OneOfAnId' /\ LogsAlone' /\ AppendedOnce'
  BY <1>2, <1>4, NotifyOnes, AppendedKept DEF CalmNotify
<1> QED BY <1>6, <1>7, <1>8, <1>10, <1>11, <1>12 DEF CalmNotify

(* The handlers that touch the log: each is alone, and changes no other row. *)
LEMMA LogsGo ==
  ASSUME PageOK, NotifyTables, CalmNotify, NEW n \in Calls, calls[n].op \in LogOps, calls[n].at # "none",
         Others(n), GoesOn(n), db'.made \in Nat, db.made <= db'.made,
         \A d : d.kind # "log" => (d \in db'.rows <=> d \in db.rows),
         \A u : u.kind # "log" => (u \in ui'.rows <=> u \in ui.rows),
         \A d \in db'.rows : d \in db.rows \/ (d.kind = "log" /\ d.id > db.made),
         ui'.rows \subseteq ui.rows \cup db.rows,
         LogsAgree', NotifyRequest(calls[n])'
  PROVE  CalmNotify'
<1>1. /\ \A m \in Calls : m # n => calls[m] = NoCall /\ calls'[m] = NoCall
      /\ calls[n].op \notin RowOps \cup AddOps /\ calls'[n].op \notin RowOps \cup AddOps
  <2>1. \A m \in Calls : m # n => calls[m] = NoCall
    BY DEF CalmNotify, LogsAlone, PageOK
  <2> QED BY <2>1, NotifyKinds, NoCallFacts DEF Others, GoesOn, NotifyOps, RowOps
<1>2. /\ \A i : ~Toggling(i) /\ ~Toggling(i)' /\ ~Deleting(i) /\ ~Deleting(i)'
      /\ \A m \in Calls : \A d : ~Appends(calls[m], d) /\ ~Appends(calls[m], d)'
  BY <1>1, NotifyKinds, NoCallFacts DEF Toggling, Deleting, Answers, Appends, RowOps, NotifyOps
<1>3. \A r, s \in ui.rows \cup db.rows : NotifyRow(r, db.made) /\ (r.id = s.id => r.kind = s.kind)
  BY DEF CalmNotify, RowsShown, AllPaired, Paired, NotifyTables, NotifyDb
<1>4. \A u \in ui'.rows : u \in ui.rows \cup db.rows /\ u.id <= db.made /\ NotifyRow(u, db'.made)
  BY <1>3 DEF NotifyRow, NotifyTables, NotifyDb
<1>5. RowsShown'
  BY <1>3, <1>4 DEF RowsShown
<1>6. \A u \in ui'.rows : \A d \in db'.rows : u.id = d.id => d \in db.rows /\ u.kind = d.kind
  <2> TAKE u \in ui'.rows
  <2> TAKE d \in db'.rows
  <2> HAVE u.id = d.id
  <2>1. u.id \in Int /\ u.id <= db.made /\ db.made \in Nat
    BY <1>3, <1>4 DEF NotifyRow, NotifyTables, NotifyDb
  <2>2. d \in db.rows
    BY <2>1
  <2> QED BY <1>3, <1>4, <2>2
<1>7. AllPaired'
  <2> SUFFICES ASSUME NEW u \in ui'.rows, NEW d \in db'.rows, u.id = d.id PROVE Paired(u, d)'
    BY DEF AllPaired
  <2>1. d \in db.rows /\ u.kind = d.kind
    BY <1>6
  <2>2. u.kind # "log" => u \in ui.rows
    OBVIOUS
  <2> QED BY <1>2, <2>1, <2>2 DEF CalmNotify, AllPaired, Paired
<1>8. (\A d \in db.rows : Listed(d))'
  <2> SUFFICES ASSUME NEW d \in db'.rows, d.kind # "log" PROVE Listed(d)'
    BY DEF Listed
  <2>1. d \in db.rows
    OBVIOUS
  <2>2. PICK u \in ui.rows : u.id = d.id
    BY <1>2, <2>1 DEF CalmNotify, Listed
  <2>3. u.kind = d.kind
    BY <1>3, <2>1, <2>2
  <2> QED BY <2>2, <2>3 DEF Listed
<1>9. (\A u \in ui.rows : InDb(u))'
  <2> SUFFICES ASSUME NEW u \in ui'.rows, u.kind # "log" PROVE InDb(u)'
    BY DEF InDb
  <2>1. \A p : HasProvider(p)' => HasProvider(p)
    BY DEF HasProvider
  <2>2. u \in ui.rows /\ InDb(u)
    BY DEF CalmNotify
  <2>3. CASE Orphan(u)
    BY <2>1, <2>3 DEF InDb, Orphan
  <2>4. CASE \E d \in db.rows : d.id = u.id
    <3>1. PICK d \in db.rows : d.id = u.id
      BY <2>4
    <3>2. d.kind = u.kind
      BY <1>3, <2>2, <3>1
    <3> QED BY <3>1, <3>2 DEF InDb
  <2> QED BY <1>2, <2>2, <2>3, <2>4 DEF InDb
<1>10. \A m \in Calls : NotifyRequest(calls[m])'
  <2>1. NotifyRequest(NoCall)'
    BY NoCallFacts, NotifyKinds DEF NotifyRequest, NotifyOps, RowOps
  <2>2. ASSUME NEW m \in Calls, m # n PROVE NotifyRequest(calls[m])'
    <3>1. calls'[m] = NoCall
      BY <1>1, <2>2
    <3> QED BY <2>1, <3>1 DEF NotifyRequest
  <2> QED BY <2>2
<1>11. OneOfAnId' /\ LogsAlone' /\ AppendedOnce'
  BY <1>2, NotifyOnes, AppendedKept DEF CalmNotify
<1> QED BY <1>5, <1>7, <1>8, <1>9, <1>10, <1>11 DEF CalmNotify

-----------------------------------------------------------------------------
(* What the handler does with its answer, when all is calm. *)
Ending(n) ==
  /\ NotifyTables /\ CalmNotify /\ Others(n) /\ UNCHANGED db
  /\ calls[n].at = "ok" /\ calls'[n] = NoCall

LEMMA EndingFacts ==
  ASSUME NEW n \in Calls, Ending(n), calls[n].op \in RowOps \cup AddOps
  PROVE  /\ GoesOn(n) /\ calls[n].op \notin LogOps
         /\ NotifyRequest(calls[n]) /\ NotifyRequest(NoCall)'
         /\ LogsIn(ui.rows) = LogsIn(db.rows)
         /\ \A m \in Calls : calls[m].op \notin LogOps
         /\ OneOfAnId' /\ LogsAlone'
<1>1. GoesOn(n) /\ calls[n].op \notin LogOps
  BY NotifyKinds DEF GoesOn, Ending
<1>2. NotifyRequest(calls[n])
  BY DEF Ending, CalmNotify
<1>3. NotifyRequest(NoCall)'
  BY NoCallFacts, NotifyKinds DEF NotifyRequest, NotifyOps, RowOps
<1>4. /\ LogsIn(ui.rows) = LogsIn(db.rows)
      /\ \A m \in Calls : calls[m].op \notin LogOps
  BY <1>1, LogsRest DEF Ending
<1>5. OneOfAnId' /\ LogsAlone'
  BY <1>1, NotifyOnes DEF Ending, CalmNotify
<1> QED BY <1>1, <1>2, <1>3, <1>4, <1>5

(* A row that was shown is shown on, perhaps without its provider. *)
Stays(v, u, id) ==
  /\ v.id = u.id /\ v.kind = u.kind /\ v.on = u.on
  /\ v.of = u.of \/ (u.kind \in Depends /\ u.of = id /\ v.of = 0)
  /\ v = [kind |-> v.kind, id |-> v.id, on |-> v.on, of |-> v.of]

LEMMA DropGoes ==
  ASSUME NEW n \in Calls, NEW id, calls[n].op \in DeleteOps, calls[n].arg = id, Ending(n),
         \A v \in ui'.rows : \E u \in ui.rows : u.id # id /\ Stays(v, u, id),
         \A u \in ui.rows : u.id # id => \E v \in ui'.rows : v.id = u.id /\ v.kind = u.kind,
         \A u : u.kind = "log" => (u \in ui'.rows <=> u \in ui.rows)
  PROVE  CalmNotify'
<1>1. /\ NotifyTables /\ CalmNotify /\ Others(n) /\ db' = db
      /\ calls[n].at = "ok" /\ calls'[n] = NoCall
      /\ calls[n].op \in RowOps /\ calls[n].op \notin ToggleOps \cup AddOps
  BY NotifyKinds DEF Ending, RowOps
<1>2. /\ GoesOn(n) /\ NotifyRequest(calls[n]) /\ NotifyRequest(NoCall)'
      /\ LogsIn(ui.rows) = LogsIn(db.rows) /\ (\A m \in Calls : calls[m].op \notin LogOps)
      /\ OneOfAnId' /\ LogsAlone'
  BY <1>1, EndingFacts
<1>3. /\ \A i : Toggling(i)' <=> Toggling(i)
      /\ \A i : i # id /\ Deleting(i) => Deleting(i)'
      /\ \A m \in Calls : \A d : Appends(calls[m], d)' <=> Appends(calls[m], d)
  <2>1. \A i : i # id /\ Deleting(i) => Deleting(i)'
    BY <1>1 DEF Deleting, Answers, Others
  <2> QED BY <1>1, <1>2, <2>1, NotifyMarks
<1>4. (\A d \in db.rows : d.id # id) /\ ~HasProvider(id) /\ ~HasProvider(0)
  <2>1. \A d \in db.rows : d.id # id /\ d.id # 0
    BY <1>1, <1>2 DEF NotifyRequest, NotifyTables, NotifyDb, NotifyRow
  <2> QED BY <2>1 DEF HasProvider
<1>5. \A p : HasProvider(p)' <=> HasProvider(p)
  BY <1>1 DEF HasProvider
<1>6. RowsShown'
  <2>1. \A v \in ui'.rows : \E u \in ui.rows : v.id = u.id /\ v.kind = u.kind
    BY DEF Stays
  <2>2. \A v \in ui'.rows : NotifyRow(v, db'.made)
    <3> TAKE v \in ui'.rows
    <3>1. PICK u \in ui.rows : Stays(v, u, id)
      OBVIOUS
    <3> QED BY <1>1, <3>1 DEF CalmNotify, RowsShown, NotifyRow, NotifyTables, NotifyDb, Stays
  <2> QED BY <1>1, <2>1, <2>2 DEF CalmNotify, RowsShown
<1>7. AllPaired'
  <2> SUFFICES ASSUME NEW v \in ui'.rows, NEW d \in db.rows, v.id = d.id PROVE Paired(v, d)'
    BY <1>1 DEF AllPaired
  <2>1. PICK u \in ui.rows : Stays(v, u, id)
    OBVIOUS
  <2>2. Paired(u, d)
    BY <1>1, <2>1 DEF CalmNotify, AllPaired, Stays
  <2>3. u.kind # "log" => v.of = u.of
    <3> SUFFICES ASSUME u.kind \in Depends, u.of = id, u.kind # "log" PROVE FALSE
      BY <2>1 DEF Stays
    <3>1. d.kind \in Depends /\ d.of = id
      BY <2>2 DEF Paired
    <3> QED BY <1>1, <1>4, <3>1 DEF NotifyTables, NotifyDb
  <2> QED BY <1>3, <2>1, <2>2, <2>3 DEF Paired, Stays
<1>8. (\A d \in db.rows : Listed(d))'
  <2> SUFFICES ASSUME NEW d \in db.rows PROVE Listed(d)'
    BY <1>1
  <2>1. d.id # id /\ Listed(d)
    BY <1>1, <1>4 DEF CalmNotify
  <2> QED BY <1>3, <2>1 DEF Listed
<1>9. (\A u \in ui.rows : InDb(u))'
  <2> SUFFICES ASSUME NEW v \in ui'.rows PROVE InDb(v)'
    OBVIOUS
  <2>1. PICK u \in ui.rows : u.id # id /\ Stays(v, u, id)
    OBVIOUS
  <2>2. InDb(u)
    BY <1>1 DEF CalmNotify
  <2>3. Orphan(u) => Orphan(v)'
    BY <1>4, <1>5, <2>1 DEF Orphan, Stays
  <2> QED BY <1>1, <1>3, <2>1, <2>2, <2>3 DEF InDb, Stays
<1>10. LogsAgree'
  <2>1. LogsIn(ui'.rows) = LogsIn(ui.rows)
    BY DEF LogsIn
  <2> QED BY <1>1, <1>2, <2>1 DEF LogsAgree
<1>11. \A m \in Calls : NotifyRequest(calls[m])'
  <2>1. ASSUME NEW m \in Calls, m # n PROVE NotifyRequest(calls[m])'
    <3>1. NotifyRequest(calls[m])
      BY <1>1 DEF CalmNotify
    <3>2. calls[m].op \in RowOps => calls[m].arg # id
      BY <1>1, <2>1 DEF CalmNotify, OneOfAnId
    <3>3. calls[m].op \in RowOps => \A u \in ui.rows : u.id = calls[m].arg =>
            \E v \in ui'.rows : v.id = u.id /\ v.kind = u.kind
      BY <3>2
    <3>4. \A d \in db.rows : Appends(calls[m], d) => d \in db'.rows /\ \A v \in ui'.rows : v.id # d.id
      BY <1>1, <3>1 DEF NotifyRequest, Appends, Stays
    <3> QED BY <1>1, <1>2, <2>1, <3>1, <3>3, <3>4, RequestKept
  <2>2. NotifyRequest(calls[n])'
    BY <1>1, <1>2 DEF NotifyRequest
  <2> QED BY <2>1, <2>2
<1>12. AppendedOnce'
  BY <1>1, <1>3, AppendedKept DEF CalmNotify
<1> QED BY <1>2, <1>6, <1>7, <1>8, <1>9, <1>10, <1>11, <1>12 DEF CalmNotify

LEMMA FlipGoes ==
  ASSUME NEW n \in Calls, NEW id, calls[n].op \in ToggleOps, calls[n].arg = id, Ending(n),
         \A v \in ui'.rows : \E u \in ui.rows :
           Like(v, u) /\ v.on = (IF u.id = id THEN ~u.on ELSE u.on) /\ NotifyRow(v, db.made),
         \A u \in ui.rows : \E v \in ui'.rows : Like(v, u),
         \A u : u.kind = "log" => (u \in ui'.rows <=> u \in ui.rows)
  PROVE  CalmNotify'
<1>1. /\ NotifyTables /\ CalmNotify /\ Others(n) /\ db' = db
      /\ calls[n].at = "ok" /\ calls'[n] = NoCall
      /\ calls[n].op \in RowOps /\ calls[n].op \notin DeleteOps \cup AddOps
  BY NotifyKinds DEF Ending, RowOps
<1>2. /\ GoesOn(n) /\ NotifyRequest(calls[n]) /\ NotifyRequest(NoCall)'
      /\ LogsIn(ui.rows) = LogsIn(db.rows) /\ (\A m \in Calls : calls[m].op \notin LogOps)
      /\ OneOfAnId' /\ LogsAlone'
  BY <1>1, EndingFacts
<1>3. /\ Toggling(id) /\ ~Toggling(id)'
      /\ \A i : i # id => (Toggling(i)' <=> Toggling(i))
      /\ \A i : Deleting(i)' <=> Deleting(i)
      /\ \A m \in Calls : \A d : Appends(calls[m], d)' <=> Appends(calls[m], d)
  <2>1. \A m \in Calls : calls[m].op \in RowOps /\ calls[m].arg = id => m = n
    BY <1>1 DEF CalmNotify, OneOfAnId
  <2>2. Toggling(id)
    BY <1>1 DEF Toggling, Answers
  <2>3. ~Toggling(id)'
    BY <1>1, <2>1, NoCallFacts DEF Toggling, Answers, Others, RowOps
  <2>4. \A i : i # id => (Toggling(i)' <=> Toggling(i))
    BY <1>1, NoCallFacts DEF Toggling, Answers, Others
  <2> QED BY <1>1, <1>2, <2>2, <2>3, <2>4, NotifyMarks
<1>4. \A p : HasProvider(p)' <=> HasProvider(p)
  BY <1>1 DEF HasProvider
<1>5. RowsShown'
  <2>1. \A v \in ui'.rows : \E u \in ui.rows : v.id = u.id /\ v.kind = u.kind
    BY DEF Like
  <2> QED BY <1>1, <2>1 DEF CalmNotify, RowsShown
<1>6. AllPaired'
  <2> SUFFICES ASSUME NEW v \in ui'.rows, NEW d \in db.rows, v.id = d.id PROVE Paired(v, d)'
    BY <1>1 DEF AllPaired
  <2>1. PICK u \in ui.rows : Like(v, u) /\ v.on = (IF u.id = id THEN ~u.on ELSE u.on)
    OBVIOUS
  <2>2. Paired(u, d)
    BY <1>1, <2>1 DEF CalmNotify, AllPaired, Like
  <2>3. CASE u.id = id
    <3>1. v.kind = d.kind /\ (d.kind # "log" => v.of = d.of /\ d.on = ~u.on)
      BY <1>3, <2>1, <2>2, <2>3 DEF Paired, Like
    <3>2. v.on = ~u.on /\ v.id = id
      BY <2>1, <2>3 DEF Like
    <3> QED BY <1>3, <3>1, <3>2 DEF Paired
  <2>4. CASE u.id # id
    BY <1>3, <2>1, <2>2, <2>4 DEF Paired, Like
  <2> QED BY <2>3, <2>4
<1>7. (\A d \in db.rows : Listed(d))'
  <2> SUFFICES ASSUME NEW d \in db.rows PROVE Listed(d)'
    BY <1>1
  <2>1. Listed(d)
    BY <1>1 DEF CalmNotify
  <2>2. \A u \in ui.rows : u.id = d.id => \E v \in ui'.rows : v.id = d.id
    BY DEF Like
  <2> QED BY <1>3, <2>1, <2>2 DEF Listed
<1>8. (\A u \in ui.rows : InDb(u))'
  <2> SUFFICES ASSUME NEW v \in ui'.rows PROVE InDb(v)'
    OBVIOUS
  <2>1. PICK u \in ui.rows : Like(v, u)
    OBVIOUS
  <2>2. Orphan(u) => Orphan(v)'
    BY <1>4, <2>1 DEF Orphan, Like
  <2> QED BY <1>1, <1>3, <2>1, <2>2 DEF CalmNotify, InDb, Like
<1>9. LogsAgree'
  <2>1. LogsIn(ui'.rows) = LogsIn(ui.rows)
    BY DEF LogsIn
  <2> QED BY <1>1, <1>2, <2>1 DEF LogsAgree
<1>10. \A m \in Calls : NotifyRequest(calls[m])'
  <2>1. ASSUME NEW m \in Calls, m # n PROVE NotifyRequest(calls[m])'
    <3>1. NotifyRequest(calls[m])
      BY <1>1 DEF CalmNotify
    <3>2. \A u \in ui.rows : \E v \in ui'.rows : v.id = u.id /\ v.kind = u.kind
      BY DEF Like
    <3>3. \A v \in ui'.rows : \E u \in ui.rows : v.id = u.id
      BY DEF Like
    <3>4. \A d \in db.rows : Appends(calls[m], d) => \A u \in ui.rows : u.id # d.id
      BY <3>1 DEF NotifyRequest, Appends
    <3>5. \A d \in db.rows : Appends(calls[m], d) => d \in db'.rows /\ \A v \in ui'.rows : v.id # d.id
      BY <1>1, <3>3, <3>4
    <3> QED BY <1>1, <1>2, <2>1, <3>1, <3>2, <3>5, RequestKept
  <2>2. NotifyRequest(calls[n])'
    BY <1>1, <1>2 DEF NotifyRequest
  <2> QED BY <2>1, <2>2
<1>11. AppendedOnce'
  BY <1>1, <1>3, AppendedKept DEF CalmNotify
<1> QED BY <1>2, <1>5, <1>6, <1>7, <1>8, <1>9, <1>10, <1>11 DEF CalmNotify

LEMMA AppendGoes ==
  ASSUME NEW n \in Calls, calls[n].op \in AddOps, Ending(n), ui'.rows = ui.rows \cup calls[n].got
  PROVE  CalmNotify'
<1>1. /\ NotifyTables /\ CalmNotify /\ Others(n) /\ db' = db
      /\ calls[n].at = "ok" /\ calls'[n] = NoCall
      /\ calls[n].op \notin RowOps
  BY NotifyKinds DEF Ending
<1>2. /\ GoesOn(n) /\ NotifyRequest(calls[n]) /\ NotifyRequest(NoCall)'
      /\ LogsIn(ui.rows) = LogsIn(db.rows) /\ (\A m \in Calls : calls[m].op \notin LogOps)
      /\ OneOfAnId' /\ LogsAlone'
  BY EndingFacts
<1>3. PICK r \in db.rows : /\ calls[n].got = {r} /\ r.kind # "log"
                           /\ \A u \in ui.rows : u.id # r.id
  BY <1>1, <1>2 DEF NotifyRequest
<1>4. /\ \A i : (Toggling(i)' <=> Toggling(i)) /\ (Deleting(i)' <=> Deleting(i))
      /\ ~Toggling(r.id)
      /\ \A m \in Calls : \A d : Appends(calls[m], d)' => Appends(calls[m], d)
      /\ \A m \in Calls : \A d : Appends(calls[m], d) => d = r \/ Appends(calls[m], d)'
      /\ \A m \in Calls \ {n} : ~Appends(calls[m], r)
  <2>1. \A i : (Toggling(i)' <=> Toggling(i)) /\ (Deleting(i)' <=> Deleting(i))
    BY <1>1, <1>2, NotifyKinds, NotifyMarks DEF RowOps
  <2>2. ~Toggling(r.id)
    BY <1>1, <1>3 DEF Toggling, Answers, CalmNotify, NotifyRequest, RowOps
  <2>3. \A m \in Calls : \A d : Appends(calls[m], d)' => Appends(calls[m], d)
    BY <1>1, NoCallFacts DEF Appends, Others
  <2>4. \A m \in Calls : \A d : Appends(calls[m], d) => d = r \/ Appends(calls[m], d)'
    BY <1>1, <1>3 DEF Appends, Others
  <2>5. Appends(calls[n], r)
    BY <1>1, <1>3 DEF Appends
  <2>6. \A m \in Calls \ {n} : ~Appends(calls[m], r)
    BY <1>1, <2>5 DEF CalmNotify, AppendedOnce
  <2> QED BY <2>1, <2>2, <2>3, <2>4, <2>6
<1>5. ui'.rows = ui.rows \cup {r}
  BY <1>3
<1>6. RowsShown'
  BY <1>1, <1>3, <1>5 DEF CalmNotify, RowsShown, NotifyTables, NotifyDb
<1>7. AllPaired'
  <2> SUFFICES ASSUME NEW u \in ui'.rows, NEW d \in db.rows, u.id = d.id PROVE Paired(u, d)'
    BY <1>1 DEF AllPaired
  <2>1. CASE u \in ui.rows
    BY <1>1, <1>4, <2>1 DEF CalmNotify, AllPaired, Paired
  <2>2. CASE u = r
    <3>1. d = r
      BY <1>1, <2>2 DEF NotifyTables, NotifyDb
    <3> QED BY <1>4, <2>2, <3>1 DEF Paired
  <2> QED BY <1>5, <2>1, <2>2
<1>8. (\A d \in db.rows : Listed(d))'
  <2> SUFFICES ASSUME NEW d \in db.rows PROVE Listed(d)'
    BY <1>1
  <2> QED BY <1>1, <1>4, <1>5 DEF CalmNotify, Listed
<1>9. (\A u \in ui.rows : InDb(u))'
  <2> SUFFICES ASSUME NEW u \in ui'.rows PROVE InDb(u)'
    OBVIOUS
  <2>1. \A v : Orphan(v)' <=> Orphan(v)
    BY <1>1 DEF Orphan, HasProvider
  <2> QED BY <1>1, <1>4, <1>5, <2>1 DEF CalmNotify, InDb
<1>10. LogsAgree'
  <2>1. LogsIn(ui'.rows) = LogsIn(ui.rows)
    BY <1>3, <1>5 DEF LogsIn
  <2> QED BY <1>1, <1>2, <2>1 DEF LogsAgree
<1>11. \A m \in Calls : NotifyRequest(calls[m])'
  <2>1. ASSUME NEW m \in Calls, m # n PROVE NotifyRequest(calls[m])'
    <3>1. NotifyRequest(calls[m])
      BY <1>1 DEF CalmNotify
    <3>2. \A d \in db.rows : Appends(calls[m], d) => d.id # r.id
      BY <1>1, <1>4, <2>1 DEF NotifyTables, NotifyDb
    <3>3. \A d \in db.rows : Appends(calls[m], d) => d \in db'.rows /\ \A v \in ui'.rows : v.id # d.id
      BY <1>1, <1>5, <3>1, <3>2 DEF NotifyRequest, Appends
    <3> QED BY <1>1, <1>2, <1>5, <2>1, <3>1, <3>3, RequestKept
  <2>2. NotifyRequest(calls[n])'
    BY <1>1, <1>2 DEF NotifyRequest
  <2> QED BY <2>1, <2>2
<1>12. AppendedOnce'
  BY <1>1, <1>4, AppendedKept DEF CalmNotify
<1> QED BY <1>2, <1>6, <1>7, <1>8, <1>9, <1>10, <1>11, <1>12 DEF CalmNotify

-----------------------------------------------------------------------------
(* The shapes of Page on this page. *)
ShowsRows(new, list) == new = [rows |-> list, busy |-> new.busy]

LEMMA Shows ==
  ASSUME NotifyTables, NEW list
  PROVE  /\ ShowsRows(ui, ui.rows) /\ ShowsRows(NotBusy, ui.rows) /\ ShowsRows(Busy, ui.rows)
         /\ ShowsRows([ui EXCEPT !.rows = list], list)
         /\ ShowsRows([NotBusy EXCEPT !.rows = list], list)
         /\ NotBusy.rows = ui.rows
<1>1. ui = [rows |-> ui.rows, busy |-> ui.busy]
  BY DEF NotifyTables
<1>2. NotBusy = [rows |-> ui.rows, busy |-> {}] /\ Busy = [rows |-> ui.rows, busy |-> {"busy"}]
  BY <1>1 DEF NotBusy, Busy
<1>3. [NotBusy EXCEPT !.rows = list] = [rows |-> list, busy |-> {}] /\ NotBusy.rows = ui.rows
  BY <1>2
<1>4. [ui EXCEPT !.rows = list] = [rows |-> list, busy |-> ui.busy]
  BY <1>1
<1> QED BY <1>1, <1>2, <1>3, <1>4 DEF ShowsRows

LEMMA NotifyFrame ==
  ASSUME NotifyTables, NEW n \in Calls, Others(n), GoesOn(n), NotifyDb',
         NEW list, ShowsRows(ui', list)
  PROVE  NotifyTables' /\ ui'.rows = list
<1>1. ui' = [rows |-> list, busy |-> ui'.busy]
  BY DEF ShowsRows
<1>2. ui'.rows = list
  BY <1>1
<1>3. \A m \in Calls : calls'[m].op \in NotifyOps \cup {"none"}
  BY NoCallFacts DEF NotifyTables, Others, GoesOn
<1> QED BY <1>1, <1>2, <1>3 DEF NotifyTables

LEMMA NotifyReplies ==
  ASSUME NotifyState, NEW n \in Calls, NEW newdb, NEW got, Reply(n, newdb, got),
         db' = newdb => NotifyDb',
         Arriving(n, got) /\ db' = newdb /\ PageOK => CalmNotify'
  PROVE  NotifyState'
<1>1. /\ PageOK' /\ UNCHANGED <<section, ui>> /\ db' = newdb /\ Others(n)
      /\ \/ calls[n].at = "sent" /\ hist' = hist /\ Further(n, "ok", got)
         \/ calls[n].at = "sent" /\ hist'.lost /\ hist'.raced = hist.raced
            /\ Further(n, "failed", calls[n].got)
         \/ calls[n].at = "left" /\ hist' = hist /\ calls'[n] = NoCall
  BY ReplyStep DEF NotifyState
<1>2. NotifyTables'
  <2>1. GoesOn(n)
    BY <1>1 DEF GoesOn, Further
  <2>2. ShowsRows(ui', ui.rows)
    BY <1>1, Shows DEF NotifyState
  <2> QED BY <1>1, <2>1, <2>2, NotifyFrame DEF NotifyState
<1>3. Calm' => CalmNotify'
  <2> SUFFICES ASSUME Calm' PROVE CalmNotify'
    OBVIOUS
  <2>1. CASE hist' = hist
    <3>1. CalmNotify /\ NotifyTables /\ PageOK
      BY <2>1 DEF Calm, NotifyState
    <3>2. calls[n].at # "left"
      BY <3>1 DEF CalmNotify, NotifyRequest
    <3> QED BY <1>1, <3>1, <3>2 DEF Arriving, Further, Calm
  <2>2. CASE hist'.lost
    BY <2>2 DEF Calm
  <2> QED BY <1>1, <2>1, <2>2
<1> QED BY <1>1, <1>2, <1>3 DEF NotifyState

LEMMA NotifyFails ==
  ASSUME NotifyState, NEW n \in Calls, calls[n].at \in {"sent", "left"}, calls[n].stage = 1, Refuse(n)
  PROVE  NotifyState'
<1>1. PageOK' /\ UNCHANGED <<section, db, ui, hist>> /\ Others(n) /\ Fails(n)
  BY RefuseStep DEF NotifyState
<1>2. GoesOn(n) /\ (calls'[n] = NoCall \/ (calls'[n].at = "failed" /\ calls'[n].stage = calls[n].stage))
  BY <1>1 DEF GoesOn, Fails, Further
<1>3. NotifyTables'
  <2>1. NotifyDb' /\ ShowsRows(ui', ui.rows)
    BY <1>1, Shows DEF NotifyState, NotifyTables, NotifyDb, HasProvider
  <2> QED BY <1>1, <1>2, <2>1, NotifyFrame DEF NotifyState
<1>4. Calm' => CalmNotify'
  <2> SUFFICES ASSUME CalmNotify PROVE CalmNotify'
    BY <1>1 DEF Calm, NotifyState
  <2>1. calls[n].at = "sent"
    BY DEF CalmNotify, NotifyRequest
  <2> QED BY <1>1, <1>2, <2>1, QuietGoes
<1> QED BY <1>1, <1>3, <1>4 DEF NotifyState

LEMMA NotifyLoses ==
  ASSUME NotifyState, NEW n \in Calls, Lose(n)
  PROVE  NotifyState'
<1>1. PageOK' /\ UNCHANGED <<section, db, ui>> /\ Others(n) /\ Fails(n) /\ hist'.lost
      /\ calls[n].at \in {"sent", "left"}
  BY LoseStep DEF NotifyState
<1>2. GoesOn(n)
  BY <1>1 DEF GoesOn, Fails, Further
<1>3. NotifyTables'
  <2>1. NotifyDb' /\ ShowsRows(ui', ui.rows)
    BY <1>1, Shows DEF NotifyState, NotifyTables, NotifyDb, HasProvider
  <2> QED BY <1>1, <1>2, <2>1, NotifyFrame DEF NotifyState
<1> QED BY <1>1, <1>3 DEF NotifyState, Calm

LEMMA NotifyFinishes ==
  ASSUME NotifyState, NEW n \in Calls, NEW newui, NEW list, ShowsRows(newui, list),
         Finish(n, newui),
         Others(n) /\ db' = db /\ calls'[n] = NoCall /\ ui'.rows = list
           /\ NotifyTables /\ CalmNotify /\ PageOK => CalmNotify'
  PROVE  NotifyState'
<1>1. /\ PageOK' /\ UNCHANGED <<section, db, hist>> /\ ui' = newui /\ Others(n)
      /\ calls'[n] = NoCall
  BY FinishStep DEF NotifyState
<1>2. NotifyTables' /\ ui'.rows = list
  <2>1. NotifyDb'
    BY <1>1 DEF NotifyState, NotifyTables, NotifyDb, HasProvider
  <2> QED BY <1>1, <2>1, NotifyFrame DEF NotifyState, GoesOn
<1>3. Calm' => CalmNotify'
  BY <1>1, <1>2 DEF NotifyState, Calm
<1> QED BY <1>1, <1>2, <1>3 DEF NotifyState

LEMMA NotifyThrown ==
  ASSUME NotifyState, NEW n \in Calls, NEW op, Thrown(n, op),
         Finish(n, ui) \/ Finish(n, NotBusy)
  PROVE  NotifyState'
<1>1. /\ ShowsRows(ui, ui.rows) /\ ShowsRows(NotBusy, ui.rows)
      /\ calls[n].at = "failed"
  BY Shows DEF NotifyState, Thrown
<1>2. ASSUME Others(n), db' = db, calls'[n] = NoCall, ui'.rows = ui.rows, NotifyTables, CalmNotify
      PROVE  CalmNotify'
  <2>1. GoesOn(n) /\ (calls[n].op \in LogOps => calls[n].stage # 2)
    BY <1>1, <1>2 DEF GoesOn, CalmNotify, NotifyRequest
  <2> QED BY <1>1, <1>2, <2>1, QuietGoes
<1> QED BY <1>1, <1>2, NotifyFinishes

-----------------------------------------------------------------------------
(* The handlers of the dashboard. *)
LEMMA RowsMade ==
  /\ \A kind, id, p : Via(kind, id, p) = [kind |-> kind, id |-> id, on |-> TRUE, of |-> p]
  /\ \A kind, id : Row(kind, id, TRUE) = [kind |-> kind, id |-> id, on |-> TRUE, of |-> 0]
<1>1. \A kind, id, on : Row(kind, id, on) = [kind |-> kind, id |-> id, on |-> on, of |-> 0]
  BY DEF Row
<1>2. \A kind, id, on, p :
        [[kind |-> kind, id |-> id, on |-> on, of |-> 0] EXCEPT !.of = p]
          = [kind |-> kind, id |-> id, on |-> on, of |-> p]
  OBVIOUS
<1> QED BY <1>1, <1>2, Zenon DEF Via

LEMMA NotifyAdds ==
  ASSUME NotifyState, NEW n \in Calls, NEW kind, NEW of, calls[n].op \in AddOps, kind # "log",
         kind \in Depends => HasProvider(of) /\ of = calls[n].arg, kind \notin Depends => of = 0,
         LET r == [kind |-> kind, id |-> NewId, on |-> TRUE, of |-> of]
         IN  Reply(n, WithRow(r), {r})
  PROVE  NotifyState'
<1> DEFINE r == [kind |-> kind, id |-> NewId, on |-> TRUE, of |-> of]
           newdb == WithRow(r)
           got == {r}
<1>1. Reply(n, newdb, got)
  OBVIOUS
<1>2. ASSUME db' = newdb PROVE NotifyDb'
  <2> DEFINE on == TRUE
  <2>1. db' = WithRow([kind |-> kind, id |-> NewId, on |-> on, of |-> of])
    BY <1>2
  <2> HIDE DEF on
  <2> QED BY <2>1, NotifyGrows DEF NotifyState, NotifyTables
<1>3. Arriving(n, got) /\ db' = newdb => CalmNotify'
  BY AddGoes
<1> HIDE DEF r, newdb, got
<1> QED BY <1>1, <1>2, <1>3, NotifyReplies

LEMMA CreateGoes ==
  ASSUME NotifyState, NEW n \in Calls,
         \/ Insert(n, "addProvider", "provider") \/ createRuleHandler(n)
         \/ createWithProvider(n, "addReport", "report")
  PROVE  NotifyState'
<1>1. ASSUME NEW op \in AddOps, NEW kind \in {"provider", "hook"}, Insert(n, op, kind)
      PROVE  NotifyState'
  <2>1. calls[n].op = op /\ calls[n].stage = 1 /\ calls[n].at \in {"sent", "left"}
    BY <1>1 DEF Insert, Asked
  <2>2. CASE Refuse(n)
    BY <2>1, <2>2, NotifyFails
  <2>3. CASE Reply(n, WithRow(Row(kind, NewId, TRUE)), {Row(kind, NewId, TRUE)})
    <3>1. kind # "log" /\ kind \notin Depends
      BY DEF Depends
    <3>2. Row(kind, NewId, TRUE) = [kind |-> kind, id |-> NewId, on |-> TRUE, of |-> 0]
      BY RowsMade, Zenon
    <3>3. LET r == [kind |-> kind, id |-> NewId, on |-> TRUE, of |-> 0]
          IN  Reply(n, WithRow(r), {r})
      BY <2>3, <3>2, Zenon
    <3> QED BY <2>1, <3>1, <3>3, NotifyAdds
  <2> QED BY <1>1, <2>2, <2>3 DEF Insert
<1>2. ASSUME NEW op \in AddOps, NEW kind \in Depends, createWithProvider(n, op, kind)
      PROVE  NotifyState'
  <2>1. calls[n].op = op /\ calls[n].stage = 1 /\ calls[n].at \in {"sent", "left"}
    BY <1>2 DEF createWithProvider, Asked
  <2>2. CASE Refuse(n)
    BY <2>1, <2>2, NotifyFails
  <2>3. CASE /\ Exists("provider", calls[n].arg)
             /\ LET r == Via(kind, NewId, calls[n].arg) IN Reply(n, WithRow(r), {r})
    <3>1. kind # "log" /\ HasProvider(calls[n].arg)
      BY <2>3 DEF Depends, Exists, HasProvider
    <3>2. LET r == [kind |-> kind, id |-> NewId, on |-> TRUE, of |-> calls[n].arg]
          IN  Reply(n, WithRow(r), {r})
      BY <2>3, RowsMade, Zenon
    <3> QED BY <2>1, <3>1, <3>2, NotifyAdds
  <2> QED BY <1>2, <2>2, <2>3 DEF createWithProvider
<1>3. {"addProvider", "addRule", "addReport"} \subseteq AddOps /\ {"rule", "report"} \subseteq Depends
  BY DEF AddOps, Depends
<1>4. \/ \E op \in AddOps, kind \in {"provider", "hook"} : Insert(n, op, kind)
      \/ \E op \in AddOps, kind \in Depends : createWithProvider(n, op, kind)
  BY <1>3 DEF createRuleHandler
<1> QED BY <1>1, <1>2, <1>4

LEMMA UpdateRow ==
  ASSUME NotifyState, NEW n \in Calls, NEW op \in ToggleOps, NEW kind \in KindsOf(op), Update(n, op, kind)
  PROVE  NotifyState'
<1>1. calls[n].op = op /\ calls[n].stage = 1 /\ calls[n].at \in {"sent", "left"}
  BY DEF Update, Asked
<1>2. CASE Refuse(n)
  BY <1>1, <1>2, NotifyFails
<1>3. CASE /\ Exists(kind, calls[n].arg)
           /\ Reply(n, [db EXCEPT !.rows = SetOn(db.rows, kind, calls[n].arg, calls[n].to)], {})
  <2> DEFINE newdb == [db EXCEPT !.rows = SetOn(db.rows, kind, calls[n].arg, calls[n].to)]
             none == {}
  <2>1. db' = newdb => NotifyDb'
    BY NotifyTurns DEF NotifyState, NotifyTables
  <2>2. Arriving(n, none) /\ db' = newdb => CalmNotify'
    BY <1>1, <1>3, ToggleGoes
  <2>3. Reply(n, newdb, none)
    BY <1>3
  <2> HIDE DEF newdb, none
  <2> QED BY <2>1, <2>2, <2>3, NotifyReplies
<1> QED BY <1>2, <1>3 DEF Update

(* The rows that are deleted with a row of some kind. *)
LEMMA NotifyRemoves ==
  ASSUME NotifyState, NEW n \in Calls, NEW id, NEW rest, NEW got,
         calls[n].op \in DeleteOps, calls[n].arg = id, rest \subseteq db.rows,
         \A d \in rest : d.id # id,
         \A d \in rest : d.kind \in Depends => \E q \in rest : q.kind = "provider" /\ q.id = d.of,
         \A d \in db.rows \ rest : d.kind # "log" /\ (d.id = id \/ (d.kind \in Depends /\ d.of = id)),
         Reply(n, [db EXCEPT !.rows = rest], got)
  PROVE  NotifyState'
<1> DEFINE newdb == [db EXCEPT !.rows = rest]
<1>1. db' = newdb => NotifyDb'
  BY NotifyShrinks DEF NotifyState, NotifyTables
<1>2. Arriving(n, got) /\ db' = newdb => CalmNotify'
  BY RemoveGoes
<1> HIDE DEF newdb
<1> QED BY <1>1, <1>2, NotifyReplies DEF newdb

LEMMA DeleteRow ==
  ASSUME NotifyState, NEW n \in Calls, NEW op \in DeleteOps, NEW kind \in RuleKinds \cup {"report"},
         Delete(n, op, kind)
  PROVE  NotifyState'
<1>1. calls[n].op = op /\ calls[n].stage = 1 /\ calls[n].at \in {"sent", "left"}
  BY DEF Delete, Asked
<1>2. CASE Refuse(n)
  BY <1>1, <1>2, NotifyFails
<1>3. CASE /\ Exists(kind, calls[n].arg)
           /\ Reply(n, [db EXCEPT !.rows = Without(db.rows, kind, calls[n].arg)], {})
  <2> DEFINE rest == Without(db.rows, kind, calls[n].arg)
             none == {}
  <2>0. kind # "log" /\ kind # "provider"
    BY DEF RuleKinds
  <2>1. \A d, e \in db.rows : d.id = e.id => d = e
    BY DEF NotifyState, NotifyTables, NotifyDb
  <2>2. /\ rest \subseteq db.rows /\ (\A d \in rest : d.id # calls[n].arg)
        /\ \A d \in db.rows \ rest : d.kind # "log" /\ d.id = calls[n].arg
    BY <1>3, <2>0, <2>1 DEF Without, Exists
  <2>3. \A d \in rest : d.kind \in Depends => \E q \in rest : q.kind = "provider" /\ q.id = d.of
    BY <2>0 DEF Without, NotifyState, NotifyTables, NotifyDb, HasProvider
  <2>4. Reply(n, [db EXCEPT !.rows = rest], none)
    BY <1>3
  <2> HIDE DEF rest, none
  <2> QED BY <1>1, <2>2, <2>3, <2>4, NotifyRemoves
<1> QED BY <1>2, <1>3 DEF Delete

LEMMA DeleteProviderGoes ==
  ASSUME NotifyState, NEW n \in Calls, deleteProviderHandler(n)
  PROVE  NotifyState'
<1>1. /\ calls[n].op \in DeleteOps /\ calls[n].stage = 1 /\ calls[n].at \in {"sent", "left"}
  BY DEF deleteProviderHandler, Asked, DeleteOps
<1>2. CASE Refuse(n)
  BY <1>1, <1>2, NotifyFails
<1>3. CASE /\ Exists("provider", calls[n].arg)
           /\ Reply(n, [db EXCEPT !.rows = {r \in Without(db.rows, "provider", calls[n].arg) :
                                              r.of # calls[n].arg}], {})
  <2> DEFINE rest == {r \in Without(db.rows, "provider", calls[n].arg) : r.of # calls[n].arg}
             none == {}
  <2>1. /\ \A d, e \in db.rows : d.id = e.id => d = e
        /\ \A d \in db.rows : /\ d.kind \in Depends => HasProvider(d.of)
                              /\ d.kind \notin Depends => d.of = 0
                              /\ d.id # 0
    BY DEF NotifyState, NotifyTables, NotifyDb, NotifyRow
  <2>2. PICK p \in db.rows : p.kind = "provider" /\ p.id = calls[n].arg
    BY <1>3 DEF Exists
  <2>3. \A d \in db.rows : d \in rest <=> d.id # calls[n].arg /\ d.of # calls[n].arg
    BY <2>1, <2>2 DEF Without
  <2>4. rest \subseteq db.rows
    BY DEF Without
  <2>5. Reply(n, [db EXCEPT !.rows = rest], none)
    BY <1>3
  <2> HIDE DEF rest, none
  <2>6. \A d \in db.rows \ rest : d.kind # "log" /\
          (d.id = calls[n].arg \/ (d.kind \in Depends /\ d.of = calls[n].arg))
    <3> TAKE d \in db.rows \ rest
    <3>1. CASE d.id = calls[n].arg
      <4>1. d = p
        BY <2>1, <2>2, <3>1
      <4> QED BY <2>2, <3>1, <4>1
    <3>2. CASE d.of = calls[n].arg
      BY <2>1, <2>2, <3>2 DEF Depends
    <3> QED BY <2>3, <3>1, <3>2
  <2>7. \A d \in rest : d.kind \in Depends => \E q \in rest : q.kind = "provider" /\ q.id = d.of
    <3> TAKE d \in rest
    <3> HAVE d.kind \in Depends
    <3>1. PICK q \in db.rows : q.kind = "provider" /\ q.id = d.of
      BY <2>1, <2>4 DEF HasProvider
    <3>2. q.of = 0 /\ calls[n].arg # 0
      BY <2>1, <2>2, <3>1 DEF Depends
    <3>3. q \in rest
      BY <2>3, <2>4, <3>1, <3>2
    <3> QED BY <3>1, <3>3
  <2> QED BY <1>1, <2>3, <2>4, <2>5, <2>6, <2>7, NotifyRemoves
<1> QED BY <1>2, <1>3 DEF deleteProviderHandler

-----------------------------------------------------------------------------
(* Tests of a delivery, and the log. *)
LEMMA LogFacts ==
  /\ Tests \subseteq LogOps /\ "clearLogs" \in LogOps \ Tests
BY DEF LogOps, Tests

(* Without a handler in the midst of it, the log is shown as it is stored. *)
LEMMA LogsQuiet ==
  ASSUME CalmNotify, NEW n \in Calls, calls[n].op \in LogOps, calls[n].at \in {"sent", "failed"},
         calls[n].stage # 2
  PROVE  LogsIn(ui.rows) = LogsIn(db.rows)
<1>1. \A m \in Calls : ~LogsBusy(calls[m])
  <2> SUFFICES ASSUME NEW m \in Calls, LogsBusy(calls[m]) PROVE FALSE
    OBVIOUS
  <2>1. m = n
    BY DEF CalmNotify, LogsAlone, LogsBusy
  <2> QED BY <2>1 DEF LogsBusy
<1> QED BY <1>1 DEF CalmNotify, LogsAgree

(* An entry is written. *)
LEMMA EntryMade ==
  ASSUME NotifyTables, NEW on, db' = WithRow([kind |-> "log", id |-> NewId, on |-> on, of |-> 0])
  PROVE  /\ NotifyDb' /\ db'.made \in Nat /\ db.made <= db'.made
         /\ \A d : d.kind # "log" => (d \in db'.rows <=> d \in db.rows)
         /\ \A d \in db'.rows : d \in db.rows \/ (d.kind = "log" /\ d.id > db.made /\ d.on = on)
         /\ db.rows \subseteq db'.rows
<1> DEFINE kind == "log"
           of == 0
           r == [kind |-> kind, id |-> NewId, on |-> on, of |-> of]
<1>1. kind \notin Depends /\ of = 0
  BY DEF Depends
<1>2. /\ NotifyDb' /\ db'.made = db.made + 1 /\ db'.rows = db.rows \cup {r}
  <2>1. db' = WithRow([kind |-> kind, id |-> NewId, on |-> on, of |-> of])
    OBVIOUS
  <2> HIDE DEF kind, of
  <2> QED BY <1>1, <2>1, NotifyGrows DEF NotifyTables
<1>3. r.kind = "log" /\ r.id = NewId /\ r.on = on
  OBVIOUS
<1> HIDE DEF r, kind, of
<1>4. db.made \in Nat /\ NewId = db.made + 1
  BY DEF NotifyTables, NotifyDb, NewId
<1> QED BY <1>2, <1>3, <1>4

LEMMA TestGoes ==
  ASSUME NotifyState, NEW n \in Calls, testHandler(n)
  PROVE  NotifyState'
<1>1. /\ calls[n].op \in Tests /\ calls[n].op \in LogOps
      /\ calls[n].stage = 1 /\ calls[n].at \in {"sent", "left"}
  BY LogFacts DEF testHandler, Asked
<1>2. CASE Refuse(n)
  BY <1>1, <1>2, NotifyFails
<1>3. CASE Reply(n, WithRow(Row("log", NewId, TRUE)), {})
  <2> DEFINE newdb == WithRow(Row("log", NewId, TRUE))
             none == {}
             on == TRUE
  <2>1. newdb = WithRow([kind |-> "log", id |-> NewId, on |-> on, of |-> 0])
    BY RowsMade, Zenon
  <2>2. Reply(n, newdb, none)
    BY <1>3
  <2> HIDE DEF newdb, none, on
  <2>3. db' = newdb => NotifyDb'
    BY <2>1, EntryMade DEF NotifyState
  <2>4. ASSUME Arriving(n, none), db' = newdb, PageOK PROVE CalmNotify'
    <3>1. /\ db'.made \in Nat /\ db.made <= db'.made
          /\ \A d : d.kind # "log" => (d \in db'.rows <=> d \in db.rows)
          /\ \A d \in db'.rows : d \in db.rows \/ (d.kind = "log" /\ d.id > db.made)
      BY <2>1, <2>4, EntryMade DEF Arriving
    <3>2. /\ GoesOn(n) /\ ui' = ui /\ NotifyTables /\ CalmNotify /\ Others(n)
          /\ calls[n].at # "none"
          /\ calls'[n].op = calls[n].op /\ calls'[n].at = "ok" /\ calls'[n].stage = 1
      BY <1>1, <2>4 DEF Arriving, Further, GoesOn
    <3>3. LogsAgree'
      BY <1>1, <3>2 DEF LogsAgree, LogsBusy
    <3>4. NotifyRequest(calls[n])'
      BY <1>1, <3>2, NotifyKinds DEF NotifyRequest, RowOps
    <3> QED BY <1>1, <2>4, <3>1, <3>2, <3>3, <3>4, LogsGo
  <2> QED BY <2>2, <2>3, <2>4, NotifyReplies
<1>4. CASE /\ db' = WithRow(Row("log", NewId, FALSE))
           /\ calls' = [calls EXCEPT ![n] = IF @.at = "left" THEN NoCall
                                            ELSE [@ EXCEPT !.at = "failed"]]
           /\ UNCHANGED <<section, ui, hist>>
  <2> DEFINE on == FALSE
  <2>1. db' = WithRow([kind |-> "log", id |-> NewId, on |-> on, of |-> 0])
    <3>1. Row("log", NewId, on) = [kind |-> "log", id |-> NewId, on |-> on, of |-> 0]
      BY Zenon DEF Row
    <3> QED BY <1>4, <3>1, Zenon
  <2>2. ~on
    OBVIOUS
  <2>3. HistOK' /\ UNCHANGED <<section, ui, hist>>
    BY <1>4 DEF NotifyState, PageOK, HistOK
  <2>4. PageOK' /\ Others(n) /\ Fails(n)
    BY <1>4, <2>3, FailsStep DEF NotifyState
  <2> HIDE DEF on
  <2>5. /\ NotifyDb' /\ db'.made \in Nat /\ db.made <= db'.made
        /\ \A d : d.kind # "log" => (d \in db'.rows <=> d \in db.rows)
        /\ \A d \in db'.rows : d \in db.rows \/ (d.kind = "log" /\ d.id > db.made /\ d.on = on)
        /\ db.rows \subseteq db'.rows
    BY <2>1, EntryMade DEF NotifyState
  <2>6. GoesOn(n)
    BY <1>1, <2>4 DEF GoesOn, Fails, Further
  <2>7. NotifyTables'
    <3>1. ShowsRows(ui', ui.rows)
      BY <2>3, Shows DEF NotifyState
    <3> QED BY <2>4, <2>5, <2>6, <3>1, NotifyFrame DEF NotifyState
  <2>8. Calm' => CalmNotify'
    <3> SUFFICES ASSUME CalmNotify PROVE CalmNotify'
      BY <2>3 DEF Calm, NotifyState
    <3>1. calls[n].at = "sent"
      BY <1>1 DEF CalmNotify, NotifyRequest
    <3>2. calls'[n].op = calls[n].op /\ calls'[n].at = "failed" /\ calls'[n].stage = 1
      BY <1>1, <2>4, <3>1 DEF Fails, Further
    <3>3. LogsAgree'
      <4>1. LogsIn(db'.rows) = LogsIn(db.rows)
        BY <2>2, <2>5 DEF LogsIn
      <4> QED BY <1>1, <2>3, <3>1, <4>1, LogsQuiet DEF LogsAgree
    <3>4. NotifyRequest(calls[n])'
      BY <1>1, <3>2, NotifyKinds DEF NotifyRequest, RowOps
    <3> QED BY <1>1, <2>3, <2>4, <2>5, <2>6, <3>1, <3>3, <3>4, LogsGo DEF NotifyState
  <2> QED BY <2>4, <2>7, <2>8 DEF NotifyState
<1> QED BY <1>2, <1>3, <1>4 DEF testHandler

LEMMA LogsListed ==
  ASSUME NotifyState, NEW n \in Calls, NEW op \in Tests, List(n, op, OfKind(db.rows, "log"))
  PROVE  NotifyState'
<1> DEFINE list == OfKind(db.rows, "log")
<1>1. /\ calls[n].op = op /\ op \in LogOps /\ calls[n].stage = 2 /\ Reply(n, db, list)
  BY LogFacts DEF List, Asked
<1>2. db' = db => NotifyDb' /\ db'.made \in Nat /\ db.made <= db'.made
  BY DEF NotifyState, NotifyTables, NotifyDb, HasProvider
<1>3. ASSUME Arriving(n, list), db' = db, PageOK PROVE CalmNotify'
  <2>1. /\ GoesOn(n) /\ ui' = ui /\ NotifyTables /\ CalmNotify /\ Others(n)
        /\ calls[n].at # "none" /\ calls'[n].got = list
        /\ calls'[n].op = op /\ calls'[n].at = "ok" /\ calls'[n].stage = 2
    BY <1>1, <1>3 DEF Arriving, Further, GoesOn
  <2>2. LogsAgree'
    BY <1>1, <2>1 DEF LogsAgree, LogsBusy
  <2>3. NotifyRequest(calls[n])'
    BY <1>1, <1>3, <2>1, NotifyKinds DEF NotifyRequest, RowOps
  <2> QED BY <1>1, <1>2, <1>3, <2>1, <2>2, <2>3, LogsGo
<1> HIDE DEF list
<1> QED BY <1>1, <1>2, <1>3, NotifyReplies

LEMMA LogsCleared ==
  ASSUME NotifyState, NEW n \in Calls, Asked(n, "clearLogs", 1),
         Reply(n, [db EXCEPT !.rows = @ \ OfKind(@, "log")], {})
  PROVE  NotifyState'
<1> DEFINE rest == db.rows \ OfKind(db.rows, "log")
           newdb == [db EXCEPT !.rows = rest]
           none == {}
<1>1. calls[n].op = "clearLogs" /\ calls[n].op \in LogOps \ Tests /\ calls[n].stage = 1
  BY LogFacts DEF Asked
<1>2. /\ rest \subseteq db.rows
      /\ \A d : d.kind # "log" => (d \in rest <=> d \in db.rows)
      /\ OfKind(rest, "log") = {}
  BY DEF OfKind
<1>3. Reply(n, newdb, none)
  OBVIOUS
<1>4. ASSUME db' = newdb PROVE NotifyDb' /\ db'.made = db.made /\ db'.rows = rest
  <2>1. \A d \in rest : d.kind \in Depends => \E q \in rest : q.kind = "provider" /\ q.id = d.of
    BY <1>2 DEF NotifyState, NotifyTables, NotifyDb, HasProvider
  <2> HIDE DEF rest
  <2> QED BY <1>2, <1>4, <2>1, NotifyShrinks DEF NotifyState, NotifyTables
<1> HIDE DEF rest, newdb, none
<1>5. ASSUME Arriving(n, none), db' = newdb, PageOK PROVE CalmNotify'
  <2>1. /\ GoesOn(n) /\ ui' = ui /\ NotifyTables /\ CalmNotify /\ Others(n)
        /\ calls[n].at # "none" /\ db.made \in Nat
        /\ calls'[n].op = calls[n].op /\ calls'[n].at = "ok" /\ calls'[n].stage = 1
    BY <1>1, <1>5 DEF Arriving, Further, GoesOn, NotifyTables, NotifyDb
  <2>2. LogsAgree'
    BY <1>1, <2>1 DEF LogsAgree, LogsBusy
  <2>3. NotifyRequest(calls[n])'
    BY <1>1, <1>2, <1>4, <1>5, <2>1, NotifyKinds DEF NotifyRequest, RowOps
  <2> QED BY <1>1, <1>2, <1>4, <1>5, <2>1, <2>2, <2>3, LogsGo
<1> QED BY <1>3, <1>4, <1>5, NotifyReplies

LEMMA NotifyServed ==
  ASSUME NotifyState, NEW n \in Calls, NotificationsServer(n)
  PROVE  NotifyState'
<1>1. /\ {"toggleRule", "toggleReport"} \subseteq ToggleOps
      /\ {"deleteRule", "deleteReport"} \subseteq DeleteOps
      /\ \A k \in RuleKinds : k \in KindsOf("toggleRule")
      /\ "report" \in KindsOf("toggleReport")
  BY NotifyKinds DEF ToggleOps, DeleteOps
<1>2. ASSUME NEW k \in RuleKinds, Update(n, "toggleRule", k) \/ Delete(n, "deleteRule", k)
      PROVE  NotifyState'
  BY <1>1, <1>2, UpdateRow, DeleteRow
<1>3. CASE (Asked(n, "toggleRule", 1) \/ Asked(n, "deleteRule", 1)) /\ Refuse(n)
  BY <1>3, NotifyFails DEF Asked
<1>4. CASE Update(n, "toggleReport", "report") \/ Delete(n, "deleteReport", "report")
  BY <1>1, <1>4, UpdateRow, DeleteRow
<1>5. ASSUME NEW op \in Tests, List(n, op, OfKind(db.rows, "log")) PROVE NotifyState'
  BY <1>5, LogsListed
<1>6. CASE Asked(n, "clearLogs", 1) /\ Reply(n, [db EXCEPT !.rows = @ \ OfKind(@, "log")], {})
  BY <1>6, LogsCleared
<1> QED BY <1>2, <1>3, <1>4, <1>5, <1>6, CreateGoes, DeleteProviderGoes, TestGoes
        DEF NotificationsServer

-----------------------------------------------------------------------------
(* The handlers in the browser. *)
LEMMA AppendEnds ==
  ASSUME NotifyState, NEW n \in Calls, NEW op \in AddOps, ThenAppend(n, op)
  PROVE  NotifyState'
<1>1. CASE Thrown(n, op)
  BY <1>1, NotifyThrown DEF ThenAppend, Answered, Thrown
<1>2. CASE Answered(n, op, 1) /\ Finish(n, [NotBusy EXCEPT !.rows = @ \cup calls[n].got])
  <2> DEFINE list == ui.rows \cup calls[n].got
             newui == [NotBusy EXCEPT !.rows = list]
  <2>1. Finish(n, newui) /\ ShowsRows(newui, list)
    BY <1>2, Shows DEF NotifyState
  <2>2. ASSUME Others(n), db' = db, calls'[n] = NoCall, ui'.rows = list,
               NotifyTables, CalmNotify
        PROVE  CalmNotify'
    BY <1>2, <2>2, AppendGoes DEF Ending, Answered
  <2> HIDE DEF list, newui
  <2> QED BY <2>1, <2>2, NotifyFinishes
<1> QED BY <1>1, <1>2 DEF ThenAppend

(* What the row of a request is, where it is shown. *)
LEMMA RowShown ==
  ASSUME CalmNotify, NEW n \in Calls, calls[n].op \in RowOps
  PROVE  /\ \A u \in ui.rows : u.id = calls[n].arg => u.kind \in KindsOf(calls[n].op)
         /\ \A u \in ui.rows : /\ NotifyRow(u, db.made)
                               /\ u = [kind |-> u.kind, id |-> u.id, on |-> u.on, of |-> u.of]
BY DEF CalmNotify, NotifyRequest, RowsShown, NotifyRow

LEMMA DropEnds ==
  ASSUME NotifyState, NEW n \in Calls, NEW op \in DeleteOps, Answered(n, op, 1),
         NEW kinds, kinds = KindsOf(op),
         Finish(n, [ui EXCEPT !.rows = {r \in ui.rows : r.kind \notin kinds \/ r.id # calls[n].arg}])
  PROVE  NotifyState'
<1> DEFINE list == {r \in ui.rows : r.kind \notin kinds \/ r.id # calls[n].arg}
           newui == [ui EXCEPT !.rows = list]
<1>1. Finish(n, newui) /\ ShowsRows(newui, list)
  BY Shows DEF NotifyState
<1>2. ASSUME Others(n), db' = db, calls'[n] = NoCall, ui'.rows = list,
             NotifyTables, CalmNotify
      PROVE  CalmNotify'
  <2>1. calls[n].op = op /\ calls[n].at = "ok" /\ op \in RowOps /\ "log" \notin kinds
    BY NotifyKinds DEF Answered, RowOps
  <2>2. \A v \in list : v.id # calls[n].arg /\ v \in ui.rows /\ Stays(v, v, calls[n].arg)
    BY <1>2, <2>1, RowShown DEF Stays
  <2>3. \A u \in ui.rows : u.id # calls[n].arg => u \in list
    OBVIOUS
  <2>4. \A u : u.kind = "log" => (u \in list <=> u \in ui.rows)
    BY <2>1
  <2>5. Ending(n)
    BY <1>2, <2>1 DEF Ending
  <2> HIDE DEF list
  <2> QED BY <1>2, <2>1, <2>2, <2>3, <2>4, <2>5, DropGoes
<1> HIDE DEF list, newui
<1> QED BY <1>1, <1>2, NotifyFinishes

(* The rules of a deleted provider are shown without it. *)
LEMMA ProviderDropped ==
  ASSUME NotifyState, NEW n \in Calls, deleteProviderThen(n)
  PROVE  NotifyState'
<1>1. CASE Thrown(n, "deleteProvider") /\ Finish(n, ui)
  BY <1>1, NotifyThrown
<1>2. CASE Answered(n, "deleteProvider", 1) /\ ~Thrown(n, "deleteProvider")
  <2> DEFINE p == calls[n].arg
             Unbound(r) == IF r.kind = "rule" /\ r.of = p THEN [r EXCEPT !.of = 0] ELSE r
             list == {Unbound(r) : r \in Without(ui.rows, "provider", p)}
             newui == [ui EXCEPT !.rows = list]
  <2>1. Finish(n, newui) /\ ShowsRows(newui, list)
    BY <1>2, Shows DEF NotifyState, deleteProviderThen
  <2>2. ASSUME Others(n), db' = db, calls'[n] = NoCall, ui'.rows = list,
               NotifyTables, CalmNotify
        PROVE  CalmNotify'
    <3>1. /\ calls[n].op = "deleteProvider" /\ calls[n].at = "ok" /\ calls[n].op \in DeleteOps
          /\ calls[n].op \in RowOps /\ KindsOf(calls[n].op) = {"provider"}
      BY <1>2, NotifyKinds DEF Answered, RowOps, DeleteOps
    <3>2. \A u \in ui.rows : u \in Without(ui.rows, "provider", p) <=> u.id # p
      BY <2>2, <3>1, RowShown DEF Without
    <3>3. \A u \in ui.rows : Stays(Unbound(u), u, p) /\ (u.kind = "log" => Unbound(u) = u)
      BY <2>2, <3>1, RowShown DEF Stays, Depends
    <3>4. Without(ui.rows, "provider", p) \subseteq ui.rows
      BY DEF Without
    <3>5. \A u : u.kind = "log" /\ u \in ui.rows => u \in Without(ui.rows, "provider", p)
      BY DEF Without
    <3> HIDE DEF Kept
    <3>6. \A v \in list : \E u \in ui.rows : u.id # p /\ Stays(v, u, p) /\ v = Unbound(u)
      BY <3>2, <3>3, <3>4
    <3>7. \A u \in ui.rows : u.id # p => Unbound(u) \in list
      BY <3>2
    <3> HIDE DEF list
    <3>8. \A u \in ui.rows : u.id # p => \E v \in list : v.id = u.id /\ v.kind = u.kind
      BY <3>3, <3>7 DEF Stays
    <3>9. \A u : u.kind = "log" => (u \in list <=> u \in ui.rows)
      <4> TAKE u
      <4> HAVE u.kind = "log"
      <4>1. u \in ui.rows => u \in list
        BY <3>2, <3>3, <3>5, <3>7
      <4>2. u \in list => u \in ui.rows
        BY <3>3, <3>6 DEF Stays
      <4> QED BY <4>1, <4>2
    <3>10. Ending(n)
      BY <2>2, <3>1 DEF Ending
    <3> QED BY <2>2, <3>1, <3>6, <3>8, <3>9, <3>10, DropGoes
  <2> HIDE DEF list, newui
  <2> QED BY <2>1, <2>2, NotifyFinishes
<1> QED BY <1>1, <1>2 DEF deleteProviderThen, Answered, Thrown

LEMMA FlipEnds ==
  ASSUME NotifyState, NEW n \in Calls, NEW op \in ToggleOps, NEW kinds, kinds = KindsOf(op),
         ThenFlip(n, op, kinds)
  PROVE  NotifyState'
<1>1. CASE Thrown(n, op) /\ Finish(n, ui)
  BY <1>1, NotifyThrown
<1>2. CASE Answered(n, op, 1) /\ ~Thrown(n, op)
  <2> DEFINE id == calls[n].arg
             Flip(r) == IF r.kind \in kinds /\ r.id = id THEN [r EXCEPT !.on = ~@] ELSE r
             list == {Flip(r) : r \in ui.rows}
             newui == [ui EXCEPT !.rows = list]
  <2>1. Finish(n, newui) /\ ShowsRows(newui, list)
    BY <1>2, Shows DEF NotifyState, ThenFlip
  <2>2. ASSUME Others(n), db' = db, calls'[n] = NoCall, ui'.rows = list,
               NotifyTables, CalmNotify
        PROVE  CalmNotify'
    <3>1. calls[n].op = op /\ calls[n].at = "ok" /\ op \in RowOps /\ "log" \notin kinds
      BY <1>2, NotifyKinds DEF Answered, RowOps
    <3>2. ASSUME NEW u \in ui.rows
          PROVE  /\ Like(Flip(u), u) /\ Flip(u).on = (IF u.id = id THEN ~u.on ELSE u.on)
                 /\ NotifyRow(Flip(u), db.made)
                 /\ u.id # id => Flip(u) = u
      <4>1. /\ u = [kind |-> u.kind, id |-> u.id, on |-> u.on, of |-> u.of]
            /\ NotifyRow(u, db.made) /\ (u.id = id => u.kind \in kinds)
        BY <2>2, <3>1, RowShown
      <4>2. CASE u.id # id
        BY <4>1, <4>2 DEF Like
      <4>3. CASE u.id = id
        <5>1. Flip(u) = [kind |-> u.kind, id |-> u.id, on |-> ~u.on, of |-> u.of]
          BY <4>1, <4>3
        <5> HIDE DEF Flip
        <5> QED BY <4>1, <4>3, <5>1 DEF Like, NotifyRow
      <4> QED BY <4>2, <4>3
    <3>3. \A u \in ui.rows : u.kind = "log" => u.id # id
      BY <2>2, <3>1, RowShown
    <3> HIDE DEF Flip
    <3>4. \A v \in list : \E u \in ui.rows :
            Like(v, u) /\ v.on = (IF u.id = id THEN ~u.on ELSE u.on) /\ NotifyRow(v, db.made)
      BY <3>2
    <3>5. \A u \in ui.rows : \E v \in list : Like(v, u)
      BY <3>2
    <3>6. \A u : u.kind = "log" => (u \in list <=> u \in ui.rows)
      BY <3>2, <3>3 DEF Like
    <3>7. Ending(n)
      BY <2>2, <3>1 DEF Ending
    <3> HIDE DEF list
    <3> QED BY <2>2, <3>1, <3>4, <3>5, <3>6, <3>7, FlipGoes
  <2> HIDE DEF list, newui
  <2> QED BY <2>1, <2>2, NotifyFinishes
<1> QED BY <1>1, <1>2 DEF ThenFlip, Answered, Thrown

(* The log is fetched again, or shown empty. *)
LEMMA LogsShown ==
  ASSUME NotifyState, NEW n \in Calls, calls[n].op \in LogOps, calls[n].at = "ok",
         NEW list, NEW newui, ShowsRows(newui, list), Finish(n, newui),
         CalmNotify => /\ LogsIn(list) = LogsIn(db.rows) /\ list \subseteq ui.rows \cup db.rows
                       /\ \A u : u.kind # "log" => (u \in list <=> u \in ui.rows)
  PROVE  NotifyState'
<1>1. ASSUME Others(n), db' = db, calls'[n] = NoCall, ui'.rows = list,
             NotifyTables, CalmNotify, PageOK
      PROVE  CalmNotify'
  <2>1. /\ GoesOn(n) /\ calls[n].at # "none" /\ db'.made \in Nat /\ db.made <= db'.made
    BY <1>1 DEF GoesOn, NotifyTables, NotifyDb
  <2>2. LogsAgree'
    BY <1>1 DEF LogsAgree
  <2>3. NotifyRequest(NoCall)'
    BY NoCallFacts, NotifyKinds DEF NotifyRequest, NotifyOps, RowOps
  <2>4. NotifyRequest(calls[n])'
    BY <1>1, <2>3 DEF NotifyRequest
  <2> QED BY <1>1, <2>1, <2>2, <2>4, LogsGo
<1> QED BY <1>1, NotifyFinishes

LEMMA ClearEnds ==
  ASSUME NotifyState, NEW n \in Calls, clearLogsThen(n)
  PROVE  NotifyState'
<1>1. CASE Thrown(n, "clearLogs") /\ Finish(n, NotBusy)
  BY <1>1, NotifyThrown
<1>2. CASE Answered(n, "clearLogs", 1) /\ ~Thrown(n, "clearLogs")
  <2> DEFINE list == ui.rows \ OfKind(ui.rows, "log")
             newui == [NotBusy EXCEPT !.rows = list]
  <2>1. Finish(n, newui) /\ ShowsRows(newui, list)
    BY <1>2, Shows DEF NotifyState, clearLogsThen
  <2>2. calls[n].op \in LogOps \ Tests /\ calls[n].at = "ok"
    BY <1>2, LogFacts DEF Answered
  <2>3. /\ CalmNotify => LogsIn(list) = LogsIn(db.rows)
        /\ list \subseteq ui.rows \cup db.rows
        /\ \A u : u.kind # "log" => (u \in list <=> u \in ui.rows)
    <3>1. CalmNotify => OfKind(db.rows, "log") = {}
      BY <2>2 DEF CalmNotify, NotifyRequest
    <3> QED BY <3>1 DEF LogsIn, OfKind
  <2> HIDE DEF list, newui
  <2> QED BY <2>1, <2>2, <2>3, LogsShown
<1> QED BY <1>1, <1>2 DEF clearLogsThen, Answered, Thrown

LEMMA RefreshGoes ==
  ASSUME NotifyState, NEW n \in Calls, refreshLogs(n)
  PROVE  NotifyState'
<1>1. PICK op \in Tests :
        \/ Answered(n, op, 1) /\ Await(n, ui)
        \/ /\ Answered(n, op, 2)
           /\ Finish(n, [ui EXCEPT !.rows = (@ \ OfKind(@, "log")) \cup calls[n].got])
        \/ Thrown(n, op) /\ Finish(n, ui)
  BY DEF refreshLogs
<1>2. CASE Answered(n, op, 1) /\ Await(n, ui)
  <2>1. calls[n].op = op /\ op \in LogOps /\ calls[n].at = "ok" /\ calls[n].stage = 1
    BY <1>2, LogFacts DEF Answered
  <2>2. /\ PageOK' /\ UNCHANGED <<section, db, hist>> /\ ui' = ui /\ Others(n) /\ GoesOn(n)
        /\ calls'[n].op = op /\ calls'[n].stage = 2 /\ calls'[n].at = "sent"
    BY <1>2, <2>1, AwaitStep DEF NotifyState, GoesOn
  <2>3. NotifyDb' /\ db'.made \in Nat /\ db.made <= db'.made
    BY <2>2 DEF NotifyState, NotifyTables, NotifyDb, HasProvider
  <2>4. NotifyTables'
    BY <2>2, <2>3, Shows, NotifyFrame DEF NotifyState
  <2>5. Calm' => CalmNotify'
    <3> SUFFICES ASSUME CalmNotify PROVE CalmNotify'
      BY <2>2 DEF Calm, NotifyState
    <3>1. LogsAgree'
      BY <2>1, <2>2 DEF LogsAgree, LogsBusy
    <3>2. NotifyRequest(calls[n])'
      BY <2>1, <2>2, NotifyKinds DEF NotifyRequest, RowOps
    <3> QED BY <2>1, <2>2, <2>3, <3>1, <3>2, LogsGo DEF NotifyState
  <2> QED BY <2>2, <2>4, <2>5 DEF NotifyState
<1>3. CASE /\ Answered(n, op, 2)
           /\ Finish(n, [ui EXCEPT !.rows = (@ \ OfKind(@, "log")) \cup calls[n].got])
  <2> DEFINE list == (ui.rows \ OfKind(ui.rows, "log")) \cup calls[n].got
             newui == [ui EXCEPT !.rows = list]
  <2>1. calls[n].op = op /\ op \in LogOps /\ calls[n].at = "ok" /\ calls[n].stage = 2
    BY <1>3, LogFacts DEF Answered
  <2>2. Finish(n, newui) /\ ShowsRows(newui, list)
    BY <1>3, Shows DEF NotifyState
  <2>3. CalmNotify => /\ LogsIn(list) = LogsIn(db.rows) /\ list \subseteq ui.rows \cup db.rows
                      /\ \A u : u.kind # "log" => (u \in list <=> u \in ui.rows)
    <3>1. CalmNotify => calls[n].got = OfKind(db.rows, "log")
      BY <2>1 DEF CalmNotify, NotifyRequest
    <3> QED BY <3>1 DEF LogsIn, OfKind
  <2> HIDE DEF list, newui
  <2> QED BY <2>1, <2>2, <2>3, LogsShown
<1>4. CASE Thrown(n, op) /\ Finish(n, ui)
  BY <1>4, NotifyThrown
<1> QED BY <1>1, <1>2, <1>3, <1>4

LEMMA NotifyProgress ==
  ASSUME NotifyState, NEW n \in Calls, NotificationsNext(n)
  PROVE  NotifyState'
<1>1. /\ {"addProvider", "addRule", "addReport"} \subseteq AddOps
      /\ {"toggleRule", "toggleReport"} \subseteq ToggleOps
      /\ {"deleteRule", "deleteReport"} \subseteq DeleteOps
  BY DEF AddOps, ToggleOps, DeleteOps
<1>2. CASE addProviderThen(n) \/ addRuleThen(n) \/ addReportThen(n)
  BY <1>1, <1>2, AppendEnds DEF addProviderThen, addRuleThen, addReportThen
<1>3. CASE toggleRuleThen(n) \/ toggleReportThen(n)
  BY <1>1, <1>3, NotifyKinds, FlipEnds DEF toggleRuleThen, toggleReportThen
<1>4. CASE deleteRuleThen(n)
  <2>1. CASE Thrown(n, "deleteRule") /\ Finish(n, ui)
    BY <2>1, NotifyThrown
  <2>2. CASE /\ Answered(n, "deleteRule", 1)
             /\ Finish(n, [ui EXCEPT !.rows =
                  {r \in @ : r.kind \notin RuleKinds \/ r.id # calls[n].arg}])
    BY <1>1, <2>2, NotifyKinds, DropEnds
  <2> QED BY <1>4, <2>1, <2>2 DEF deleteRuleThen
<1>5. CASE deleteReportThen(n)
  <2>1. CASE Thrown(n, "deleteReport") /\ Finish(n, ui)
    BY <2>1, NotifyThrown
  <2>2. CASE /\ Answered(n, "deleteReport", 1)
             /\ Finish(n, [ui EXCEPT !.rows = Without(ui.rows, "report", calls[n].arg)])
    <3> DEFINE kinds == {"report"}
    <3>1. Without(ui.rows, "report", calls[n].arg)
            = {r \in ui.rows : r.kind \notin kinds \/ r.id # calls[n].arg}
      BY DEF Without
    <3>2. kinds = KindsOf("deleteReport")
      BY NotifyKinds
    <3> HIDE DEF kinds
    <3> QED BY <1>1, <2>2, <3>1, <3>2, DropEnds
  <2> QED BY <1>5, <2>1, <2>2 DEF deleteReportThen, ThenDropRow
<1> QED BY <1>2, <1>3, <1>4, <1>5, NotifyServed, ClearEnds, ProviderDropped, RefreshGoes
        DEF NotificationsNext

-----------------------------------------------------------------------------
(* Clicks.  A request that begins where nothing disturbs it is the only one     *)
(* about its row, and about the log the only one.                            *)
LEMMA NotifyStarts ==
  ASSUME NotifyState, NEW op \in NotifyOps, NEW arg, NEW to, NEW newui,
         Start(op, arg, to, newui, 1), ShowsRows(newui, ui.rows),
         op \in RowOps => \E u \in ui.rows : /\ u.id = arg /\ u.kind \in KindsOf(op)
                                             /\ op \in ToggleOps => to = ~u.on
  PROVE  NotifyState'
<1>1. /\ PageOK' /\ UNCHANGED <<section, db>> /\ ui' = newui
      /\ hist'.lost = hist.lost /\ (hist.raced => hist'.raced)
      /\ ~hist'.raced =>
           \A i \in Calls : calls[i].at # "none" =>
             /\ op \notin Refetching /\ calls[i].op \notin Refetching
             /\ arg = 0 \/ calls[i].arg # arg
  BY StartStep DEF NotifyState
<1>2. PICK n \in Calls :
        /\ calls[n] = NoCall /\ Others(n)
        /\ calls'[n].op = op /\ calls'[n].stage = 1 /\ calls'[n].at = "sent"
        /\ calls'[n].arg = arg /\ calls'[n].to = to /\ calls'[n].got = {}
  BY StartStep DEF NotifyState
<1>3. ui'.rows = ui.rows
  BY <1>1 DEF ShowsRows
<1>4. NotifyTables'
  <2>1. \A m \in Calls : calls'[m].op \in NotifyOps \cup {"none"}
    BY <1>2 DEF NotifyState, NotifyTables, Others
  <2>2. NotifyDb'
    BY <1>1 DEF NotifyState, NotifyTables, NotifyDb, HasProvider
  <2>3. ui' = [rows |-> ui'.rows, busy |-> ui'.busy]
    BY <1>1, <1>3 DEF ShowsRows
  <2> QED BY <2>1, <2>2, <2>3 DEF NotifyTables
<1>5. ASSUME Calm' PROVE CalmNotify'
  <2>1. CalmNotify /\ db' = db
    BY <1>1, <1>5 DEF Calm, NotifyState
  <2>2. \A i \in Calls : calls[i].at # "none" =>
           /\ op \notin Refetching /\ calls[i].op \notin Refetching
           /\ arg = 0 \/ calls[i].arg # arg
    BY <1>1, <1>5 DEF Calm
  <2>3. /\ \A i : (Toggling(i)' <=> Toggling(i)) /\ (Deleting(i)' <=> Deleting(i))
        /\ \A m \in Calls : \A d : Appends(calls[m], d)' <=> Appends(calls[m], d)
    <3>1. \A m \in Calls : \A i : \A ops : Answers(calls[m], ops, i)' <=> Answers(calls[m], ops, i)
      BY <1>2, NoCallFacts DEF Answers, Others
    <3>2. \A m \in Calls : \A d : Appends(calls[m], d)' <=> Appends(calls[m], d)
      BY <1>2, NoCallFacts DEF Appends, Others
    <3> QED BY <3>1, <3>2 DEF Toggling, Deleting
  <2>4. RowsShown' /\ AllPaired'
    BY <1>3, <2>1, <2>3 DEF CalmNotify, RowsShown, AllPaired, Paired
  <2>5. (\A d \in db.rows : Listed(d))'
    BY <1>3, <2>1, <2>3 DEF CalmNotify, Listed
  <2>6. (\A u \in ui.rows : InDb(u))'
    BY <1>3, <2>1, <2>3 DEF CalmNotify, InDb, Orphan, HasProvider
  <2>7. LogsAgree'
    <3>1. \A m \in Calls : LogsBusy(calls[m]) => LogsBusy(calls'[m])
      BY <1>2, NoCallFacts, NotifyKinds DEF LogsBusy, Others, NotifyOps
    <3> QED BY <1>3, <2>1, <3>1 DEF CalmNotify, LogsAgree, LogsBusy
  <2>8. \A m \in Calls : NotifyRequest(calls[m])'
    <3>1. ASSUME NEW m \in Calls, m # n PROVE NotifyRequest(calls[m])'
      <4>1. NotifyRequest(calls[m]) /\ calls'[m] = calls[m]
        BY <1>2, <2>1, <3>1 DEF CalmNotify, Others
      <4> QED BY <1>3, <2>1, <4>1 DEF NotifyRequest
    <3>2. op \in RowOps => \E u \in ui'.rows : u.id = arg /\ u.kind \in KindsOf(op)
      BY <1>3
    <3>3. op \in ToggleOps => \A d \in db'.rows : d.id = arg => to = ~d.on
      <4> SUFFICES ASSUME op \in ToggleOps, NEW d \in db.rows, d.id = arg PROVE to = ~d.on
        BY <2>1
      <4>1. PICK u \in ui.rows : u.id = arg /\ u.kind \in KindsOf(op) /\ to = ~u.on
        BY DEF RowOps
      <4>2. u.kind # "log" /\ arg # 0
        BY <2>1, <4>1, NotifyKinds DEF CalmNotify, RowsShown, NotifyRow
      <4>3. ~Toggling(u.id)
        BY <2>2, <4>1, <4>2 DEF Toggling, Answers
      <4>4. d.on = u.on
        BY <2>1, <4>1, <4>2, <4>3 DEF CalmNotify, AllPaired, Paired
      <4> QED BY <4>1, <4>4
    <3>4. NotifyRequest(calls[n])'
      BY <1>2, <3>2, <3>3 DEF NotifyRequest
    <3> QED BY <3>1, <3>4
  <2>9. OneOfAnId'
    <3>1. \A m \in Calls : (m = n \/ calls[m].op \in RowOps) /\ calls'[m].op \in RowOps => calls'[m].arg # 0
      BY <1>2, <2>1 DEF CalmNotify, NotifyRequest, RowsShown, NotifyRow, Others
    <3> SUFFICES ASSUME NEW k \in Calls, NEW m \in Calls, calls'[k].op \in RowOps,
                        calls'[m].at # "none", calls'[m].arg = calls'[k].arg, k # m
                 PROVE  FALSE
      BY DEF OneOfAnId
    <3>2. calls'[k].arg # 0 /\ calls'[k].at # "none"
      <4>1. calls'[k].at = "none" => calls'[k].op = "none"
        BY <1>1, NoCallFacts DEF PageOK
      <4> QED BY <1>2, <3>1, <4>1, NotifyKinds DEF Others, RowOps, NotifyOps
    <3>3. CASE k # n /\ m # n
      BY <1>2, <2>1, <3>3 DEF CalmNotify, OneOfAnId, Others
    <3>4. CASE k = n
      BY <1>2, <2>2, <3>2, <3>4 DEF Others
    <3>5. CASE m = n
      BY <1>2, <2>2, <3>2, <3>5 DEF Others
    <3> QED BY <3>3, <3>4, <3>5
  <2>10. LogsAlone'
    <3> SUFFICES ASSUME NEW k \in Calls, NEW m \in Calls, calls'[k].op \in LogOps,
                        calls'[m].at # "none", k # m
                 PROVE  FALSE
      BY DEF LogsAlone
    <3>1. calls'[k].op \in Refetching /\ calls'[k].at # "none"
      BY <1>1, NoCallFacts, NotifyKinds DEF PageOK, NotifyOps
    <3>2. CASE k # n /\ m # n
      BY <1>2, <2>1, <3>2 DEF CalmNotify, LogsAlone, Others
    <3>3. CASE k = n \/ m = n
      BY <1>2, <2>2, <3>1, <3>3 DEF Others
    <3> QED BY <3>2, <3>3
  <2>11. AppendedOnce'
    BY <2>1, <2>3, AppendedKept DEF CalmNotify
  <2> QED BY <2>4, <2>5, <2>6, <2>7, <2>8, <2>9, <2>10, <2>11 DEF CalmNotify
<1> QED BY <1>1, <1>4, <1>5 DEF NotifyState

LEMMA NotifySends ==
  ASSUME NotifyState, NEW op \in NotifyOps, op \notin ToggleOps, NEW arg, NEW newui,
         Send(op, arg, newui), ShowsRows(newui, ui.rows),
         op \in RowOps => \E u \in ui.rows : u.id = arg /\ u.kind \in KindsOf(op)
  PROVE  NotifyState'
<1> DEFINE to == FALSE
<1>1. Start(op, arg, to, newui, 1)
  BY DEF Send
<1> HIDE DEF to
<1> QED BY <1>1, NotifyStarts

LEMMA NotifyClicked ==
  ASSUME NotifyState, NotificationsClick
  PROVE  NotifyState'
<1>1. ShowsRows(ui, ui.rows) /\ ShowsRows(Busy, ui.rows)
  BY Shows DEF NotifyState
<1>2. /\ AddOps \cup LogOps \subseteq NotifyOps /\ (AddOps \cup LogOps) \cap (ToggleOps \cup RowOps) = {}
      /\ {"addProvider", "addRule", "addReport"} \subseteq AddOps
      /\ {"testProvider", "testRule", "testReport", "clearLogs"} \subseteq LogOps
      /\ {"deleteProvider", "deleteRule", "deleteReport"} \subseteq NotifyOps \ ToggleOps
      /\ {"toggleRule", "toggleReport"} \subseteq ToggleOps /\ ToggleOps \subseteq NotifyOps
  BY DEF AddOps, LogOps, Tests, ToggleOps, DeleteOps, RowOps, NotifyOps
<1>3. ASSUME NEW op \in AddOps \cup LogOps, NEW arg, Send(op, arg, ui) \/ Send(op, arg, Busy)
      PROVE  NotifyState'
  <2>1. op \in NotifyOps /\ op \notin ToggleOps /\ op \notin RowOps
    BY <1>2
  <2> QED BY <1>1, <1>3, <2>1, NotifySends
<1>4. CASE addProvider \/ clearLogs \/ \E p : addRule(p) \/ addReport(p)
  BY <1>2, <1>3, <1>4 DEF addProvider, clearLogs, addRule, addReport
<1>5. CASE \E p : testProvider(p) \/ testRule(p) \/ testReport(p)
  BY <1>2, <1>3, <1>5 DEF testProvider, testRule, testReport
<1>6. \A id : /\ id \in Ids(RuleKinds) => \E u \in ui.rows : u.id = id /\ u.kind \in RuleKinds
              /\ id \in Ids({"report"}) => \E u \in ui.rows : u.id = id /\ u.kind \in {"report"}
              /\ id \in Providers => \E u \in ui.rows : u.id = id /\ u.kind \in {"provider"}
  BY DEF Ids, Providers
<1>7. ASSUME NEW id, deleteProvider(id) PROVE NotifyState'
  <2>1. id \in Providers
    BY <1>7 DEF deleteProvider, ProvidersPanel, Free
  <2>2. \E u \in ui.rows : u.id = id /\ u.kind \in KindsOf("deleteProvider")
    BY <1>6, <2>1, NotifyKinds
  <2> QED BY <1>1, <1>2, <1>7, <2>2, NotifySends DEF deleteProvider
<1>8. ASSUME NEW id, deleteRule(id) PROVE NotifyState'
  <2>1. id \in Ids(RuleKinds)
    BY <1>8 DEF deleteRule, RulesPanel, Free
  <2>2. \E u \in ui.rows : u.id = id /\ u.kind \in KindsOf("deleteRule")
    BY <1>6, <2>1, NotifyKinds
  <2> QED BY <1>1, <1>2, <1>8, <2>2, NotifySends DEF deleteRule
<1>9. ASSUME NEW id, deleteReport(id) PROVE NotifyState'
  <2>1. id \in Ids({"report"})
    BY <1>9 DEF deleteReport, ReportsPanel, Free
  <2>2. \E u \in ui.rows : u.id = id /\ u.kind \in KindsOf("deleteReport")
    BY <1>6, <2>1, NotifyKinds
  <2> QED BY <1>1, <1>2, <1>9, <2>2, NotifySends DEF deleteReport
<1>10. ASSUME NEW r \in ui.rows, toggleRule(r) PROVE NotifyState'
  <2> DEFINE to == ~r.on
  <2>1. Start("toggleRule", r.id, to, ui, 1) /\ r.kind \in KindsOf("toggleRule")
    BY <1>10, NotifyKinds DEF toggleRule, SendTo
  <2>2. r.id = r.id /\ to = ~r.on
    OBVIOUS
  <2> HIDE DEF to
  <2> QED BY <1>1, <1>2, <2>1, <2>2, NotifyStarts
<1>11. ASSUME NEW r \in ui.rows, toggleReport(r) PROVE NotifyState'
  <2> DEFINE to == ~r.on
  <2>1. Start("toggleReport", r.id, to, ui, 1) /\ r.kind \in KindsOf("toggleReport")
    BY <1>11, NotifyKinds DEF toggleReport, SendTo
  <2>2. r.id = r.id /\ to = ~r.on
    OBVIOUS
  <2> HIDE DEF to
  <2> QED BY <1>1, <1>2, <2>1, <2>2, NotifyStarts
<1> QED BY <1>4, <1>5, <1>7, <1>8, <1>9, <1>10, <1>11 DEF NotificationsClick

-----------------------------------------------------------------------------
(* A page that was loaded shows the rows as they are stored. *)
LEMMA NotifyFresh ==
  NotifyTables /\ ui.rows = db.rows /\ (\A n \in Calls : calls[n] = NoCall) => CalmNotify
<1> SUFFICES ASSUME NotifyTables, ui.rows = db.rows, \A n \in Calls : calls[n] = NoCall
             PROVE  CalmNotify
  OBVIOUS
<1>1. /\ \A i : ~Toggling(i) /\ ~Deleting(i)
      /\ \A n \in Calls : \A d : ~Appends(calls[n], d)
      /\ \A n \in Calls : calls[n].at = "none" /\ calls[n].op \notin RowOps \cup AddOps \cup LogOps
  BY NoCallFacts, NotifyKinds DEF Toggling, Deleting, Answers, Appends, NotifyOps, RowOps
<1>2. RowsShown /\ AllPaired
  BY <1>1 DEF RowsShown, AllPaired, Paired, NotifyTables, NotifyDb
<1>3. (\A d \in db.rows : Listed(d)) /\ (\A u \in ui.rows : InDb(u)) /\ LogsAgree
  BY DEF Listed, InDb, LogsAgree
<1>4. \A n \in Calls : NotifyRequest(calls[n])
  BY <1>1 DEF NotifyRequest, RowOps
<1>5. OneOfAnId /\ AppendedOnce /\ LogsAlone
  BY <1>1 DEF OneOfAnId, AppendedOnce, LogsAlone
<1> QED BY <1>2, <1>3, <1>4, <1>5 DEF CalmNotify

LEMMA NotifyLoaded ==
  ASSUME NotifyState, NotificationsLoad
  PROVE  NotifyState'
<1>1. ASSUME NEW list, NEW lost, Load([rows |-> list, busy |-> {}], lost), ~lost => list = db.rows
      PROVE  NotifyState'
  <2> DEFINE newui == [rows |-> list, busy |-> {}]
  <2>1. Load(newui, lost) /\ ShowsRows(newui, list) /\ newui.rows = list
    BY <1>1 DEF ShowsRows
  <2> HIDE DEF newui
  <2>2. /\ PageOK' /\ UNCHANGED <<section, db>> /\ ui' = newui /\ hist'.lost = lost
        /\ hist'.raced = (\E n \in Calls : calls[n].at \in {"sent", "left"})
        /\ \A n \in Calls :
             \/ calls[n].at \in {"sent", "left"} /\ Further(n, "left", calls[n].got)
             \/ calls[n].at \notin {"sent", "left"} /\ calls'[n] = NoCall
    BY <2>1, LoadStep DEF NotifyState
  <2>3. NotifyTables'
    <3>1. NotifyDb'
      BY <2>2 DEF NotifyState, NotifyTables, NotifyDb, HasProvider
    <3>2. \A n \in Calls : calls'[n].op \in NotifyOps \cup {"none"}
      BY <2>2, NoCallFacts DEF NotifyState, NotifyTables, Further
    <3>3. ui' = [rows |-> ui'.rows, busy |-> ui'.busy]
      BY <2>1, <2>2 DEF ShowsRows
    <3> QED BY <3>1, <3>2, <3>3 DEF NotifyTables
  <2>4. Calm' => CalmNotify'
    <3> SUFFICES ASSUME Calm' PROVE CalmNotify'
      OBVIOUS
    <3>1. (ui.rows = db.rows)'
      BY <1>1, <2>1, <2>2 DEF Calm
    <3>2. (\A n \in Calls : calls[n] = NoCall)'
      BY <2>2 DEF Calm
    <3> QED BY <2>3, <3>1, <3>2, NotifyFresh, PTL
  <2> QED BY <2>2, <2>3, <2>4 DEF NotifyState
<1>2. CASE Load([rows |-> db.rows, busy |-> {}], FALSE)
  <2> DEFINE lost == FALSE
  <2>1. Load([rows |-> db.rows, busy |-> {}], lost)
    BY <1>2
  <2> HIDE DEF lost
  <2> QED BY <1>1, <2>1
<1>3. CASE Load([rows |-> {}, busy |-> {}], TRUE)
  <2> DEFINE lost == TRUE
             list == {}
  <2>1. Load([rows |-> list, busy |-> {}], lost) /\ lost
    BY <1>3
  <2> HIDE DEF lost, list
  <2> QED BY <1>1, <2>1
<1> QED BY <1>2, <1>3 DEF NotificationsLoad

LEMMA NotifyBegins ==
  ASSUME NotificationsInit
  PROVE  NotifyState /\ section = "notifications"
<1> DEFINE start == [rows |-> NotificationRows, made |-> 0]
           shown == [rows |-> NotificationRows, busy |-> {}]
<1>1. Open("notifications", start, shown)
  BY DEF NotificationsInit
<1>2. start.rows = NotificationRows /\ start.made = 0 /\ start = [rows |-> start.rows, made |-> start.made]
  OBVIOUS
<1>3. shown.rows = NotificationRows /\ shown = [rows |-> shown.rows, busy |-> shown.busy]
  OBVIOUS
<1> HIDE DEF start, shown
<1>4. /\ PageOK /\ section = "notifications" /\ db = start /\ ui = shown /\ Calm
      /\ \A n \in Calls : calls[n] = NoCall
  BY <1>1, OpenStep
<1>5. PICK p, r, s :
        /\ NotificationRows = {p, r, s}
        /\ p = [kind |-> "provider", id |-> -1, on |-> TRUE, of |-> 0]
        /\ r = [kind |-> "rule", id |-> -2, on |-> TRUE, of |-> -1]
        /\ s = [kind |-> "report", id |-> -3, on |-> TRUE, of |-> -1]
  <2>1. /\ Row("provider", -1, TRUE) = [kind |-> "provider", id |-> -1, on |-> TRUE, of |-> 0]
        /\ Via("rule", -2, -1) = [kind |-> "rule", id |-> -2, on |-> TRUE, of |-> -1]
        /\ Via("report", -3, -1) = [kind |-> "report", id |-> -3, on |-> TRUE, of |-> -1]
    BY RowsMade, Zenon
  <2> QED BY <2>1, Zenon DEF NotificationRows
<1>6. /\ -1 \in Int /\ -2 \in Int /\ -3 \in Int /\ -1 # 0 /\ -2 # 0 /\ -3 # 0
      /\ -1 <= 0 /\ -2 <= 0 /\ -3 <= 0 /\ -1 # -2 /\ -1 # -3 /\ -2 # -3 /\ 0 \in Nat /\ 0 \in Int /\ 0 <= 0
  OBVIOUS
<1>7. /\ p.kind = "provider" /\ p.id = -1 /\ p.of = 0
      /\ p = [kind |-> p.kind, id |-> p.id, on |-> p.on, of |-> p.of]
  BY <1>5
<1>8. /\ r.kind = "rule" /\ r.id = -2 /\ r.of = -1
      /\ r = [kind |-> r.kind, id |-> r.id, on |-> r.on, of |-> r.of]
  BY <1>5
<1>9. /\ s.kind = "report" /\ s.id = -3 /\ s.of = -1
      /\ s = [kind |-> s.kind, id |-> s.id, on |-> s.on, of |-> s.of]
  BY <1>5
<1>10. NotificationRows = {p, r, s}
  BY <1>5
<1>11. NotifyRow(p, 0) /\ NotifyRow(r, 0) /\ NotifyRow(s, 0)
  BY <1>6, <1>7, <1>8, <1>9 DEF NotifyRow
<1>12. NotifyTables
  <2>1. db.rows = {p, r, s} /\ db.made = 0 /\ db = [rows |-> db.rows, made |-> db.made]
    BY <1>2, <1>4, <1>10
  <2>2. ui = [rows |-> ui.rows, busy |-> ui.busy]
    BY <1>3, <1>4
  <2>3. HasProvider(-1)
    BY <1>7, <2>1 DEF HasProvider
  <2>4. \A d \in db.rows : /\ NotifyRow(d, db.made)
                           /\ d.kind \in Depends => HasProvider(d.of)
                           /\ d.kind \notin Depends => d.of = 0
    BY <1>7, <1>8, <1>9, <1>11, <2>1, <2>3 DEF Depends
  <2>5. \A d, e \in db.rows : d.id = e.id => d = e
    BY <1>6, <1>7, <1>8, <1>9, <2>1
  <2>6. \A n \in Calls : calls[n].op = "none"
    BY <1>4, NoCallFacts
  <2> QED BY <1>6, <2>1, <2>2, <2>4, <2>5, <2>6 DEF NotifyTables, NotifyDb
<1>13. CalmNotify
  BY <1>2, <1>3, <1>4, <1>12, NotifyFresh
<1> QED BY <1>4, <1>12, <1>13 DEF NotifyState

LEMMA NotifyStep ==
  ASSUME section = "notifications", NotifyState, [Next]_vars
  PROVE  NotifyState'
<1>1. \A n \in Calls : calls[n].op \in NotifyOps \cup {"none"}
  BY DEF NotifyState, NotifyTables
<1>2. CASE Click
  <2>1. NotificationsClick
    BY <1>2, SettingsClickSections, OtherClickSections DEF Click, Panels
  <2> QED BY <2>1, NotifyClicked
<1>3. CASE Reload
  <2>1. NotificationsLoad
    BY <1>3 DEF Reload, SiteSettingsPage, AdminUsersPage, SitesPage, AccountPage
  <2> QED BY <2>1, NotifyLoaded
<1>4. CASE Effect
  BY <1>4, EffectSections
<1>5. ASSUME NEW n \in Calls, Progress(n) PROVE NotifyState'
  <2>1. NotificationsNext(n)
    BY <1>1, <1>5, SettingsOps, OtherOps
       DEF Progress, SettingsNext, PagesNext, StatsNext, TeamOps, MonitorsOps, HeartbeatsOps,
         MaintenanceOps, UsersOps, AccountOps, GoalsOps, Public,
         NotifyOps, ToggleOps, DeleteOps, AddOps, LogOps, Tests
  <2> QED BY <2>1, NotifyProgress
<1>6. ASSUME NEW n \in Calls, Break(n) PROVE NotifyState'
  <2>1. calls[n].op # "accept"
    BY <1>1 DEF NotifyOps, ToggleOps, DeleteOps, AddOps, LogOps, Tests
  <2>2. Lose(n)
    BY <1>6, <2>1 DEF Break, failInvite, Asked
  <2> QED BY <2>2, NotifyLoses
<1>7. CASE UNCHANGED <<section, db, ui, calls, hist>>
  <2>1. PageOK' /\ (Calm' => Calm)
    BY <1>7 DEF NotifyState, PageOK, CallsOK, HistOK, Calm
  <2>2. NotifyTables'
    BY <1>7 DEF NotifyState, NotifyTables, NotifyDb, HasProvider
  <2>3. CalmNotify => CalmNotify'
    <3>1. /\ \A i : (Toggling(i)' <=> Toggling(i)) /\ (Deleting(i)' <=> Deleting(i))
          /\ \A m \in Calls : \A d : Appends(calls[m], d)' <=> Appends(calls[m], d)
      BY <1>7 DEF Toggling, Deleting, Answers, Appends
    <3> QED BY <1>7, <3>1 DEF CalmNotify, RowsShown, AllPaired, Paired, Listed, InDb, Orphan, HasProvider,
          LogsAgree, LogsBusy, NotifyRequest, OneOfAnId, AppendedOnce, LogsAlone
  <2> QED BY <2>1, <2>2, <2>3 DEF NotifyState
<1>8. TrackerStep \/ UNCHANGED vars => UNCHANGED <<section, db, ui, calls, hist>>
  BY DEF TrackerStep, vars
<1> QED BY <1>2, <1>3, <1>4, <1>5, <1>6, <1>7, <1>8 DEF Next

NotifyInv == section = "notifications" => NotifyState

(* A notifications page at rest shows every live row as it is stored and no    *)
(* other live row, unless a connection broke or handlers disturbed each other. *)
THEOREM NotificationsAgreeHolds == Spec => []NotificationsAgree
<1>1. Init => NotifyInv
  <2> SUFFICES ASSUME Init, section = "notifications" PROVE NotifyState
    BY DEF NotifyInv
  <2>1. NotificationsInit
    BY DEF Init, SettingsInit, PagesInit, UsersInit, SitesInit, AccountInit, StatsInit, GoalsInit,
      EventsInit, CardInit, LiveInit, AccountsInit, SessionsInit, AdminsInit, InviteInit, Open
  <2> QED BY <2>1, NotifyBegins
<1>2. NotifyInv /\ [Next]_vars => NotifyInv'
  BY SectionStays, NotifyStep DEF NotifyInv
<1>3. NotifyInv => NotificationsAgree
  <2> SUFFICES ASSUME section = "notifications", NotifyState, Undisturbed
               PROVE  Live(ui.rows) = Live(db.rows)
    BY DEF NotifyInv, NotificationsAgree, Here
  <2>1. NotifyTables /\ CalmNotify /\ \A n \in Calls : calls[n] = NoCall
    BY DEF Undisturbed, Quiet, Calm, NotifyState, PageOK
  <2> QED BY <2>1, NotifyRests
<1> QED BY <1>1, <1>2, <1>3, PTL DEF Spec

-----------------------------------------------------------------------------
(* The tracker beside the pages: nobody else writes its variables.            *)
LEMMA TrackerSteps ==
  [Next]_vars => /\ [QueueNext]_queueVars
                 /\ [ReportsNext]_<<page, vitals>>
                 /\ [VisitNext]_visit
<1> SUFFICES ASSUME [Next]_vars
             PROVE  /\ QueueNext \/ UNCHANGED queueVars
                    /\ ReportsNext \/ UNCHANGED <<page, vitals>>
                    /\ VisitNext \/ UNCHANGED visit
  OBVIOUS
<1>1. CASE Elsewhere \/ UNCHANGED vars
  BY <1>1 DEF Elsewhere, vars, queueVars
<1>2. CASE TrackerStep
  BY <1>2 DEF TrackerStep, trackerVars, queueVars, ReportsNext
<1>3. Next => Elsewhere \/ TrackerStep
  BY DEF Next, Click, Reload, Effect, Progress, Break
<1> QED BY <1>1, <1>2, <1>3

LEMMA TrackerBegins ==
  Init => /\ QueueInit /\ VitalsInit
          /\ \E r \in Routes, complete \in BOOLEAN : PageInit(r, complete)
          /\ \E works \in BOOLEAN : VisitInit(works)
<1>1. AnyRoute \in Routes
  BY TrackerPageAssumption DEF AnyRoute
<1>2. TRUE \in BOOLEAN
  OBVIOUS
<1> QED BY <1>1, <1>2, Zenon DEF Init

(* The tracker in Browser does what its own specifications say. *)
THEOREM TrackerAsSpecified == Spec => QueueSpec /\ ReportsSpec /\ VisitSpec
BY TrackerBegins, TrackerSteps, PTL DEF Spec, QueueSpec, ReportsSpec, VisitSpec

(* Whatever runs beside it, a payload has one row, is sent MAX_TRIES + 1 times *)
(* at most and kept or given up for a reason; a page reports what it showed,   *)
(* and visits end by the timeout.                                           *)
THEOREM TrackerIsSafe ==
  Spec => [](OneRow /\ SentAtMost /\ KeptOrGivenUp) /\ []PageReports /\ VisitRule
<1>1. QueueSpec => [](OneRow /\ SentAtMost /\ KeptOrGivenUp)
  BY OneRowAlways, SentAtMostAlways, KeptOrGivenUpAlways, PTL
<1> QED BY <1>1, TrackerAsSpecified, ReportsSafe, VisitsSplitAtTimeout

=============================================================================
