----------------------------- MODULE TrackerProofs -----------------------------
(***************************************************************************)
(* Proofs about the browser tracker.                                        *)
(*                                                                         *)
(* TrackerQueue, for any tabs, any number of payloads, any MAX_TRIES and any *)
(* length of the queue: each payload has one row, is sent at most            *)
(* MAX_TRIES + 1 times, and is not lost but for the reasons the code has.    *)
(* The invariant adds that a payload has at most one copy on the client,     *)
(* whose _tries tell how often it was sent, and none once it was given up.   *)
(*                                                                         *)
(* TrackerPage, for any routes, any number of route changes, any timeout:    *)
(* what a page reports, and which visit a report belongs to.                *)
(***************************************************************************)
EXTENDS TrackerQueue, TrackerPage, TLAPS

-----------------------------------------------------------------------------
(* The queue. *)

(* The id is the one of the beginning, and nothing is there that was not made. *)
OwnIds ==
  /\ \A i \in 1..Len(queue) : queue[i].id = queue[i].view /\ queue[i].view <= made
  /\ \A f \in flights : f.payload.id = f.payload.view /\ f.payload.view <= made
  /\ \A r \in rows : r.id = r.view

OneCopy ==
  /\ \A i, j \in 1..Len(queue) : queue[i].view = queue[j].view => i = j
  /\ \A f \in flights, i \in 1..Len(queue) : f.payload.view # queue[i].view
  /\ \A f, g \in flights : f.payload.view = g.payload.view => f = g

Counted ==
  /\ \A i \in 1..Len(queue) : times[queue[i].view] = queue[i].tries
  /\ \A f \in flights : times[f.payload.view] = f.payload.tries + 1

NoneLeft ==
  /\ \A v \in Views : v > made => gone[v] = "no"
  /\ \A i \in 1..Len(queue) : gone[queue[i].view] = "no"
  /\ \A f \in flights : gone[f.payload.view] = "no"

AnswerStored == \A f \in flights : f.at = "kept" => Stored(f.payload.view)

QueueInv ==
  QueueTypeOK /\ AnswerStored /\ OwnIds /\ OneCopy /\ Counted /\ NoneLeft /\ SentAtMost /\ KeptOrGivenUp

-----------------------------------------------------------------------------
(* slice(-20) of a queue that is at most one too long: it drops nothing, or   *)
(* the first element.                                                       *)
LEMMA LastOfFacts ==
  ASSUME NEW q \in Seq(Payload), Len(q) <= QueueCap + 1
  PROVE /\ LastOf(q) \in Seq(Payload)
        /\ Len(LastOf(q)) <= QueueCap
        /\ \E d \in {0, 1} :
             /\ Len(LastOf(q)) = Len(q) - d
             /\ \A i \in 1..Len(LastOf(q)) : LastOf(q)[i] = q[i + d]
             /\ CutOff(q) = IF d = 1 THEN {q[1].view} ELSE {}
<1> USE TrackerAssumption
<1>1. CASE Len(q) <= QueueCap
  <2>1. LastOf(q) = q /\ CutOff(q) = {}
    BY <1>1 DEF LastOf, CutOff
  <2>2. \A i \in 1..Len(q) : q[i] = q[i + 0]
    OBVIOUS
  <2> QED BY <1>1, <2>1, <2>2
<1>2. CASE Len(q) > QueueCap
  <2>1. Len(q) = QueueCap + 1 /\ QueueCap >= 1
    BY <1>2
  <2>2. LastOf(q) = SubSeq(q, 2, Len(q)) /\ CutOff(q) = {q[1].view}
    BY <1>2, <2>1 DEF LastOf, CutOff
  <2>3. /\ SubSeq(q, 2, Len(q)) \in Seq(Payload)
        /\ Len(SubSeq(q, 2, Len(q))) = Len(q) - 1
        /\ \A i \in 1..(Len(q) - 1) : SubSeq(q, 2, Len(q))[i] = q[i + 1]
    BY <2>1
  <2> QED BY <2>1, <2>2, <2>3
<1> QED BY <1>1, <1>2

LEMMA InitInv == QueueInit => QueueInv
<1> SUFFICES ASSUME QueueInit PROVE QueueInv
  OBVIOUS
<1> USE TrackerAssumption
<1>1. <<>> \in Seq(Payload) /\ Len(<<>>) = 0
  OBVIOUS
<1>2. QueueTypeOK
  <2>1. opted \in BOOLEAN /\ open \subseteq Tabs /\ flights \subseteq Flight
        /\ rows \subseteq [view : Views, id : Nat]
    BY DEF QueueInit
  <2>2. queue \in Seq(Payload) /\ Len(queue) <= QueueCap /\ made \in 0..MaxViews
    BY <1>1 DEF QueueInit
  <2>3. /\ times \in [Views -> Nat]
        /\ gone \in [Views -> {"no", "optout", "cap", "tries", "unheard"}]
    BY DEF QueueInit
  <2> QED BY <2>1, <2>2, <2>3 DEF QueueTypeOK
<1>3. 1..Len(queue) = {} /\ flights = {} /\ rows = {}
  BY <1>1 DEF QueueInit
<1>4. OwnIds /\ OneCopy /\ Counted /\ AnswerStored
  BY <1>3 DEF OwnIds, OneCopy, Counted, AnswerStored
<1>5. NoneLeft /\ SentAtMost
  BY <1>3 DEF NoneLeft, SentAtMost, QueueInit
<1>6. 1..made = {}
  BY DEF QueueInit
<1>7. KeptOrGivenUp
  BY <1>6 DEF KeptOrGivenUp
<1> QED BY <1>2, <1>4, <1>5, <1>7 DEF QueueInv

-----------------------------------------------------------------------------
(* A payload is made. *)
LEMMA MakePreserves ==
  ASSUME QueueInv, NEW t \in Tabs, NEW via \in {"fetch", "beacon"}, pageviewOrEvent(t, via)
  PROVE QueueInv'
<1> USE TrackerAssumption
<1> DEFINE p == [view |-> made', id |-> made', tries |-> 0]
<1> USE DEF QueueInv
<1>1. made' = made + 1 /\ made' \in Views /\ made \in Nat /\ made < MaxViews
  BY DEF pageviewOrEvent, QueueTypeOK, Views
<1>2. p \in Payload
  BY <1>1 DEF Payload
<1>3. queue' = queue /\ rows' = rows /\ opted' = opted /\ open' = open
  BY DEF pageviewOrEvent
<1>31. \A i \in 1..Len(queue) : queue[i] \in Payload
  BY DEF QueueTypeOK
<1>32. \A i \in 1..Len(queue) : /\ queue[i].view \in Views /\ queue[i].tries \in Nat
                                 /\ queue[i].view \in Nat
                                 /\ queue[i].view <= made /\ queue[i].view # made'
  BY <1>1, <1>31 DEF OwnIds, Payload, Views
<1>33. \A f \in flights : f.payload \in Payload
  BY DEF QueueTypeOK, Flight
<1>34. \A f \in flights : /\ f.payload.view \in Views /\ f.payload.tries \in Nat
                           /\ f.payload.view \in Nat
                           /\ f.payload.view <= made /\ f.payload.view # made'
  BY <1>1, <1>33 DEF OwnIds, Payload, Views
<1>4. CASE opted
  <2>1. gone' = [gone EXCEPT ![made'] = "optout"] /\ flights' = flights /\ times' = times
    BY <1>4 DEF pageviewOrEvent
  <2>2. QueueTypeOK'
    BY <1>1, <1>3, <2>1 DEF QueueTypeOK
  <2>3. OwnIds'
    BY <1>1, <1>3, <1>32, <1>34, <2>1 DEF OwnIds
  <2>31. OneCopy' /\ Counted' /\ SentAtMost' /\ AnswerStored'
    BY <1>3, <2>1 DEF OneCopy, Counted, SentAtMost, AnswerStored, Stored
  <2>32. \A v \in Views : v # made' => gone'[v] = gone[v]
    BY <1>1, <2>1 DEF QueueTypeOK
  <2>4. NoneLeft'
    BY <1>1, <1>3, <1>32, <1>34, <2>1, <2>32 DEF NoneLeft, Views
  <2>5. KeptOrGivenUp'
    <3> SUFFICES ASSUME NEW v \in 1..made'
                 PROVE /\ Stored(v)' \/ Waiting(v)' \/ Flying(v)' \/ gone'[v] # "no"
                       /\ gone'[v] = "tries" => times'[v] = MaxTries + 1
      BY DEF KeptOrGivenUp
    <3>1. CASE v = made'
      BY <1>1, <2>1, <3>1 DEF QueueTypeOK
    <3>2. CASE v # made'
      <4>1. v \in 1..made /\ gone'[v] = gone[v]
        BY <1>1, <2>1, <3>2 DEF QueueTypeOK, Views
      <4> QED BY <1>3, <2>1, <4>1 DEF KeptOrGivenUp, Stored, Waiting, Flying
    <3> QED BY <3>1, <3>2
  <2> QED BY <2>2, <2>3, <2>31, <2>4, <2>5
<1>5. CASE ~opted
  <2> DEFINE f0 == Fly(p, t, via)
  <2>1. /\ flights' = flights \cup {f0} /\ gone' = gone
        /\ times' = [times EXCEPT ![made'] = 1]
    BY <1>5 DEF pageviewOrEvent
  <2>2. f0 \in Flight /\ f0.payload = p
    BY <1>2 DEF Fly, Flight
  <2>3. p.view = made' /\ p.id = made' /\ p.tries = 0
    OBVIOUS
  <2>201. f0.at # "kept"
    BY DEF Fly
  <2> HIDE DEF p, f0
  <2>6. times'[made'] = 1 /\ \A v \in Views : v # made' => times'[v] = times[v]
    BY <1>1, <2>1 DEF QueueTypeOK
  <2>7. QueueTypeOK'
    BY <1>1, <1>3, <2>1, <2>2 DEF QueueTypeOK
  <2>8. OwnIds'
    BY <1>1, <1>3, <1>32, <1>34, <2>1, <2>2, <2>3 DEF OwnIds
  <2>9. OneCopy'
    BY <1>3, <1>32, <1>34, <2>1, <2>2, <2>3 DEF OneCopy
  <2>101. \A i \in 1..Len(queue)' : times'[queue'[i].view] = queue'[i].tries
    BY <1>3, <1>32, <2>6 DEF Counted
  <2>102. \A f \in flights' : times'[f.payload.view] = f.payload.tries + 1
    <3> SUFFICES ASSUME NEW f \in flights' PROVE times'[f.payload.view] = f.payload.tries + 1
      OBVIOUS
    <3>1. CASE f \in flights
      BY <1>34, <2>6, <3>1 DEF Counted
    <3>2. CASE f = f0
      BY <2>2, <2>3, <2>6, <3>2
    <3> QED BY <2>1, <3>1, <3>2
  <2>10. Counted'
    BY <2>101, <2>102 DEF Counted
  <2>11. NoneLeft'
    BY <1>1, <1>3, <2>1, <2>2, <2>3 DEF NoneLeft, Views
  <2>12. SentAtMost'
    BY <1>1, <2>6 DEF SentAtMost
  <2>13. KeptOrGivenUp'
    <3> SUFFICES ASSUME NEW v \in 1..made'
                 PROVE /\ Stored(v)' \/ Waiting(v)' \/ Flying(v)' \/ gone'[v] # "no"
                       /\ gone'[v] = "tries" => times'[v] = MaxTries + 1
      BY DEF KeptOrGivenUp
    <3>1. CASE v = made'
      <4>1. Flying(v)'
        BY <2>1, <2>2, <2>3, <3>1 DEF Flying
      <4>2. gone'[v] = "no"
        BY <1>1, <2>1, <3>1 DEF NoneLeft, Views
      <4> QED BY <4>1, <4>2
    <3>2. CASE v # made'
      <4>1. v \in 1..made /\ v \in Views
        BY <1>1, <3>2 DEF Views
      <4> QED BY <1>3, <2>1, <2>6, <3>2, <4>1 DEF KeptOrGivenUp, Stored, Waiting, Flying
    <3> QED BY <3>1, <3>2
  <2>14. AnswerStored'
    BY <1>3, <2>1, <2>201 DEF AnswerStored, Stored
  <2> QED BY <2>14, <2>7, <2>8, <2>9, <2>10, <2>11, <2>12, <2>13
<1> QED BY <1>4, <1>5

-----------------------------------------------------------------------------
(* A step that leaves the queue and carries every request over, with its       *)
(* payload, and adds at most rows of what is on its way.                      *)
LEMMA CarriedOver ==
  ASSUME QueueInv, UNCHANGED <<queue, made, times, gone>>,
         opted' \in BOOLEAN, open' \subseteq Tabs, flights' \subseteq Flight,
         rows' \subseteq [view : Views, id : Nat], rows \subseteq rows',
         \A r \in rows' : r.id = r.view,
         \A g \in flights' : \E f \in flights : f.payload = g.payload,
         \A f \in flights : \E g \in flights' : f.payload = g.payload,
         \A g, h \in flights' : g.payload.view = h.payload.view => g = h,
         \A g \in flights' : g.at = "kept" => Stored(g.payload.view)'
  PROVE QueueInv'
<1> USE DEF QueueInv
<1>1. QueueTypeOK'
  BY DEF QueueTypeOK
<1>2. AnswerStored' /\ OwnIds'
  BY DEF AnswerStored, OwnIds
<1>3. OneCopy'
  BY DEF OneCopy
<1>4. Counted' /\ NoneLeft' /\ SentAtMost'
  BY DEF Counted, NoneLeft, SentAtMost
<1>5. KeptOrGivenUp'
  <2> SUFFICES ASSUME NEW v \in 1..made
               PROVE /\ Stored(v)' \/ Waiting(v)' \/ Flying(v)' \/ gone'[v] # "no"
                     /\ gone'[v] = "tries" => times'[v] = MaxTries + 1
    BY DEF KeptOrGivenUp
  <2>1. (Stored(v) => Stored(v)') /\ (Waiting(v) => Waiting(v)')
    BY DEF Stored, Waiting
  <2>2. Flying(v) => Flying(v)'
    BY DEF Flying
  <2> QED BY <2>1, <2>2 DEF KeptOrGivenUp
<1> QED BY <1>1, <1>2, <1>3, <1>4, <1>5

LEMMA ClosePreserves ==
  ASSUME QueueInv, NEW t \in Tabs, closeTab(t) PROVE QueueInv'
<1> DEFINE F(f) == IF f.tab = t /\ f.via = "fetch" THEN [f EXCEPT !.via = "nobody"] ELSE f
<1>1. flights' = {F(f) : f \in flights} /\ flights \subseteq Flight
  BY DEF closeTab, QueueInv, QueueTypeOK
<1>2. \A f \in flights : F(f) \in Flight /\ F(f).payload = f.payload /\ F(f).at = f.at
  BY <1>1 DEF Flight
<1> HIDE DEF F
<1>3. flights' \subseteq Flight
  BY <1>1, <1>2
<1>4. /\ \A g \in flights' : \E f \in flights : f.payload = g.payload
      /\ \A f \in flights : \E g \in flights' : f.payload = g.payload
  BY <1>1, <1>2
<1>5. \A g, h \in flights' : g.payload.view = h.payload.view => g = h
  BY <1>1, <1>2 DEF QueueInv, OneCopy
<1>6. \A g \in flights' : g.at = "kept" => Stored(g.payload.view)'
  BY <1>1, <1>2 DEF QueueInv, AnswerStored, Stored, closeTab
<1>7. /\ UNCHANGED <<queue, made, times, gone, opted, rows>>
      /\ open' \subseteq Tabs /\ opted \in BOOLEAN
      /\ rows \subseteq [view : Views, id : Nat]
      /\ \A r \in rows : r.id = r.view
  BY DEF closeTab, QueueInv, QueueTypeOK, OwnIds
<1> QED BY <1>3, <1>4, <1>5, <1>6, <1>7, CarriedOver

LEMMA OptoutPreserves ==
  ASSUME QueueInv, NEW v \in BOOLEAN, setOptout(v) PROVE QueueInv'
<1>1. UNCHANGED <<queue, made, times, gone, flights, rows, open>> /\ opted' \in BOOLEAN
  BY DEF setOptout
<1>2. /\ flights \subseteq Flight /\ rows \subseteq [view : Views, id : Nat]
      /\ open \subseteq Tabs /\ \A r \in rows : r.id = r.view
  BY DEF QueueInv, QueueTypeOK, OwnIds
<1>3. \A g, h \in flights : g.payload.view = h.payload.view => g = h
  BY DEF QueueInv, OneCopy
<1>4. \A g \in flights : g.at = "kept" => Stored(g.payload.view)'
  BY <1>1 DEF QueueInv, AnswerStored, Stored
<1> QED BY <1>1, <1>2, <1>3, <1>4, CarriedOver

(* The service and the connection: the request goes on to another stage. *)
LEMMA TurnFacts ==
  ASSUME QueueInv, NEW f \in flights, NEW at \in {"kept", "refused", "broken"},
         Turn(f, at)
  PROVE /\ flights' \subseteq Flight
        /\ \A g \in flights' : \E e \in flights : e.payload = g.payload
        /\ \A e \in flights : \E g \in flights' : e.payload = g.payload
        /\ \A g, h \in flights' : g.payload.view = h.payload.view => g = h
        /\ \A g \in flights' : g \in flights \/ (g.at = at /\ g.payload = f.payload)
<1> DEFINE f2 == [f EXCEPT !.at = at]
<1>1. flights' = (flights \ {f}) \cup {f2} /\ flights \subseteq Flight
  BY DEF Turn, QueueInv, QueueTypeOK
<1>2. f2 \in Flight /\ f2.payload = f.payload /\ f2.at = at
  BY <1>1 DEF Flight
<1> HIDE DEF f2
<1>3. \A g, h \in flights : g.payload.view = h.payload.view => g = h
  BY DEF QueueInv, OneCopy
<1> QED BY <1>1, <1>2, <1>3

LEMMA ServicePreserves ==
  ASSUME QueueInv, NEW f \in flights, store(f) \/ refuse(f) \/ breakConnection(f)
  PROVE QueueInv'
<1>1. /\ flights \subseteq Flight /\ rows \subseteq [view : Views, id : Nat]
      /\ open \subseteq Tabs /\ opted \in BOOLEAN
      /\ \A r \in rows : r.id = r.view
      /\ f.payload.id = f.payload.view
  BY DEF QueueInv, QueueTypeOK, OwnIds
<1>2. UNCHANGED <<queue, made, times, gone, opted, open>>
  BY DEF store, refuse, breakConnection
<1>3. CASE store(f)
  <2> DEFINE r == [view |-> f.payload.view, id |-> f.payload.id]
  <2>1. rows' = rows \cup {r} /\ Turn(f, "kept")
    BY <1>3 DEF store
  <2>2. f.payload \in Payload
    BY <1>1 DEF Flight
  <2>3. r \in [view : Views, id : Nat] /\ r.id = r.view /\ r.view = f.payload.view
    BY <1>1, <2>2 DEF Payload
  <2> HIDE DEF r
  <2>4. Stored(f.payload.view)'
    BY <2>1, <2>3 DEF Stored
  <2>5. \A g \in flights : g.at = "kept" => Stored(g.payload.view)'
    BY <2>1 DEF QueueInv, AnswerStored, Stored
  <2>6. "kept" \in {"kept", "refused", "broken"}
    OBVIOUS
  <2>7. \A g \in flights' : g.at = "kept" => Stored(g.payload.view)'
    BY <2>1, <2>4, <2>5, <2>6, TurnFacts
  <2> QED BY <1>1, <1>2, <2>1, <2>3, <2>6, <2>7, TurnFacts, CarriedOver
<1>4. CASE refuse(f) \/ breakConnection(f)
  <2>1. rows' = rows /\ (Turn(f, "refused") \/ Turn(f, "broken"))
    BY <1>4 DEF refuse, breakConnection
  <2>2. PICK at \in {"refused", "broken"} : Turn(f, at)
    BY <2>1
  <2>3. at \in {"kept", "refused", "broken"} /\ at # "kept"
    BY <2>2
  <2>4. \A g \in flights : g.at = "kept" => Stored(g.payload.view)'
    BY <2>1 DEF QueueInv, AnswerStored, Stored
  <2>5. \A g \in flights' : g.at = "kept" => Stored(g.payload.view)'
    BY <2>2, <2>3, <2>4, TurnFacts
  <2> QED BY <1>1, <1>2, <2>1, <2>2, <2>3, <2>5, TurnFacts, CarriedOver
<1> QED BY <1>3, <1>4

-----------------------------------------------------------------------------
(* Elements of the queue and payloads of requests have the types they should. *)
LEMMA Elements ==
  ASSUME QueueInv
  PROVE /\ \A i \in 1..Len(queue) :
             /\ queue[i] \in Payload /\ queue[i].view \in Views /\ queue[i].view \in Nat
             /\ queue[i].tries \in 0..MaxTries /\ queue[i].view \in 1..made
        /\ \A f \in flights :
             /\ f \in Flight /\ f.payload \in Payload /\ f.payload.view \in Views
             /\ f.payload.view \in Nat
             /\ f.payload.tries \in 0..MaxTries /\ f.payload.view \in 1..made
        /\ Len(queue) \in Nat /\ made \in Nat
        /\ \A v \in 1..made : v \in Views
<1> USE TrackerAssumption
<1>1. made \in 0..MaxViews
  BY DEF QueueInv, QueueTypeOK
<1>2. /\ \A i \in 1..Len(queue) : queue[i] \in Payload
      /\ Len(queue) \in Nat
  BY DEF QueueInv, QueueTypeOK
<1>3. \A f \in flights : f \in Flight /\ f.payload \in Payload
  BY DEF QueueInv, QueueTypeOK, Flight
<1>4. \A p \in Payload : /\ p.view \in Views /\ p.tries \in 0..MaxTries /\ p.view \in Nat
                         /\ p.view >= 1
  BY DEF Payload, Views
<1>5. /\ \A i \in 1..Len(queue) : queue[i].view <= made
      /\ \A f \in flights : f.payload.view <= made
  BY DEF QueueInv, OwnIds
<1>6. \A v \in 1..made : v \in Views
  BY <1>1 DEF Views
<1> QED BY <1>1, <1>2, <1>3, <1>4, <1>5, <1>6

(* A request has ended and its payload is gone from the client. *)
LEMMA DropPreserves ==
  ASSUME QueueInv, NEW f \in flights, flights' = flights \ {f},
         UNCHANGED <<opted, queue, open, rows, made, times>>,
         NEW x \in {"no", "tries", "unheard"},
         gone' = [gone EXCEPT ![f.payload.view] = x],
         x = "no" => Stored(f.payload.view),
         x = "tries" => times[f.payload.view] = MaxTries + 1
  PROVE QueueInv'
<1> USE TrackerAssumption
<1> DEFINE v0 == f.payload.view
<1>1. /\ v0 \in Views /\ gone'[v0] = x
      /\ \A v \in Views : v # v0 => gone'[v] = gone[v]
      /\ gone' \in [Views -> {"no", "optout", "cap", "tries", "unheard"}]
  BY Elements DEF QueueInv, QueueTypeOK
<1>2. QueueTypeOK'
  BY <1>1 DEF QueueInv, QueueTypeOK
<1>3. AnswerStored' /\ OwnIds' /\ OneCopy' /\ Counted' /\ SentAtMost'
  BY DEF QueueInv, AnswerStored, Stored, OwnIds, OneCopy, Counted, SentAtMost
<1>4. /\ \A i \in 1..Len(queue) : queue[i].view # v0 /\ queue[i].view \in Views
      /\ \A g \in flights' : g.payload.view # v0 /\ g.payload.view \in Views
      /\ \A v \in Views : v > made => v # v0
  BY Elements DEF QueueInv, OneCopy
<1>5. NoneLeft'
  BY <1>1, <1>4 DEF QueueInv, NoneLeft
<1>6. KeptOrGivenUp'
  <2> SUFFICES ASSUME NEW v \in 1..made
               PROVE /\ Stored(v)' \/ Waiting(v)' \/ Flying(v)' \/ gone'[v] # "no"
                     /\ gone'[v] = "tries" => times'[v] = MaxTries + 1
    BY DEF KeptOrGivenUp
  <2>1. CASE v = v0
    BY <1>1, <2>1 DEF Stored
  <2>2. CASE v # v0
    <3>1. gone'[v] = gone[v]
      BY <1>1, <2>2, Elements
    <3>2. (Stored(v) => Stored(v)') /\ (Waiting(v) => Waiting(v)') /\ (Flying(v) => Flying(v)')
      BY <2>2 DEF Stored, Waiting, Flying
    <3> QED BY <3>1, <3>2 DEF QueueInv, KeptOrGivenUp
  <2> QED BY <2>1, <2>2
<1> QED BY <1>2, <1>3, <1>5, <1>6 DEF QueueInv

(* A failed fetch puts its payload at the end of the queue. *)
LEMMA EnqueuePreserves ==
  ASSUME QueueInv, NEW f \in flights, flights' = flights \ {f},
         UNCHANGED <<opted, open, rows, made, times>>,
         enqueue(f.payload), ~GivenUp(f.payload)
  PROVE QueueInv'
<1> USE TrackerAssumption
<1> DEFINE p == Retried(f.payload)
           q == Append(queue, p)
<1>1. f.payload \in Payload /\ f.payload.tries \in 0..MaxTries /\ f.payload.tries < MaxTries
  BY Elements DEF GivenUp
<1>2. /\ p \in Payload /\ p.view = f.payload.view /\ p.id = f.payload.id
      /\ p.tries = f.payload.tries + 1
  BY <1>1 DEF Retried, Payload
<1> HIDE DEF p
<1>3. /\ q \in Seq(Payload) /\ Len(q) = Len(queue) + 1 /\ Len(q) <= QueueCap + 1
      /\ \A i \in 1..Len(queue) : q[i] = queue[i]
      /\ q[Len(q)] = p
  BY <1>2 DEF QueueInv, QueueTypeOK
<1>4. /\ queue' = LastOf(q)
      /\ gone' = [v \in Views |-> IF v \in CutOff(q) THEN "cap" ELSE gone[v]]
  BY DEF enqueue, p, q
<1> HIDE DEF q
<1>5. /\ queue' \in Seq(Payload) /\ Len(queue') <= QueueCap
      /\ \E d \in {0, 1} :
           /\ Len(queue') = Len(q) - d
           /\ \A i \in 1..Len(queue') : queue'[i] = q[i + d]
           /\ CutOff(q) = IF d = 1 THEN {q[1].view} ELSE {}
  BY <1>3, <1>4, LastOfFacts
<1>6. PICK d \in {0, 1} :
           /\ Len(queue') = Len(q) - d
           /\ \A i \in 1..Len(queue') : queue'[i] = q[i + d]
           /\ CutOff(q) = IF d = 1 THEN {q[1].view} ELSE {}
  BY <1>5
<1>7. QueueTypeOK'
  BY <1>4, <1>5 DEF QueueInv, QueueTypeOK
<1>8. AnswerStored'
  BY DEF QueueInv, AnswerStored, Stored
(* In q every payload is where it was, with times as the code counts it. *)
<1>9. \A i \in 1..Len(q) : /\ q[i].view \in Views /\ q[i].view <= made
                           /\ q[i].id = q[i].view
                           /\ times[q[i].view] = q[i].tries
                           /\ gone[q[i].view] = "no"
  <2> SUFFICES ASSUME NEW i \in 1..Len(q)
               PROVE /\ q[i].view \in Views /\ q[i].view <= made
                     /\ q[i].id = q[i].view
                     /\ times[q[i].view] = q[i].tries
                     /\ gone[q[i].view] = "no"
    OBVIOUS
  <2>1. CASE i \in 1..Len(queue)
    BY <1>3, <2>1, Elements DEF QueueInv, OwnIds, Counted, NoneLeft
  <2>2. CASE i = Len(q)
    BY <1>2, <1>3, <2>2, Elements DEF QueueInv, OwnIds, Counted, NoneLeft
  <2> QED BY <1>3, <2>1, <2>2, Elements
<1>10. \A i, j \in 1..Len(q) : q[i].view = q[j].view => i = j
  <2>1. \A i \in 1..Len(q) : i \in 1..Len(queue) \/ i = Len(q)
    BY <1>3, Elements
  <2>2. \A i \in 1..Len(queue) : q[i].view # p.view
    BY <1>2, <1>3 DEF QueueInv, OneCopy
  <2>3. \A i, j \in 1..Len(queue) : q[i].view = q[j].view => i = j
    BY <1>3 DEF QueueInv, OneCopy
  <2> QED BY <1>3, <2>1, <2>2, <2>3
<1>11. \A g \in flights', i \in 1..Len(q) : g.payload.view # q[i].view
  <2>1. \A i \in 1..Len(q) : i \in 1..Len(queue) \/ i = Len(q)
    BY <1>3, Elements
  <2> QED BY <1>2, <1>3, <2>1 DEF QueueInv, OneCopy
<1>12. \A i \in 1..Len(queue') : i \in Nat /\ i + d \in 1..Len(q) /\ (d = 1 => i + d # 1)
  BY <1>3, <1>6, Elements
<1>13. OwnIds'
  BY <1>6, <1>9, <1>12 DEF QueueInv, OwnIds
<1>14. OneCopy'
  <2>1. \A i, j \in 1..Len(queue') : queue'[i].view = queue'[j].view => i = j
    BY <1>6, <1>10, <1>12
  <2>2. \A g \in flights', i \in 1..Len(queue') : g.payload.view # queue'[i].view
    BY <1>6, <1>11, <1>12
  <2> QED BY <2>1, <2>2 DEF QueueInv, OneCopy
<1>15. Counted' /\ SentAtMost'
  BY <1>6, <1>9, <1>12 DEF QueueInv, Counted, SentAtMost
<1>16. /\ \A v \in Views : v \notin CutOff(q) => gone'[v] = gone[v]
       /\ \A v \in CutOff(q) : d = 1 /\ v = q[1].view
       /\ \A v \in Views : v \in CutOff(q) => gone'[v] = "cap"
  BY <1>4, <1>6
<1>17. 1 \in 1..Len(q) /\ made \in Nat
  BY <1>3, Elements
<1>18. NoneLeft'
  <2>1. \A v \in Views : v > made => gone'[v] = "no"
    BY <1>9, <1>16, <1>17 DEF QueueInv, NoneLeft, Views
  <2>2. \A i \in 1..Len(queue') : queue'[i].view \notin CutOff(q)
    BY <1>6, <1>10, <1>12, <1>16, <1>17
  <2>3. \A i \in 1..Len(queue') : gone'[queue'[i].view] = "no"
    BY <1>6, <1>9, <1>12, <1>16, <2>2
  <2>4. \A g \in flights' : g.payload.view \notin CutOff(q)
    BY <1>11, <1>16, <1>17
  <2>5. \A g \in flights' : gone'[g.payload.view] = "no"
    BY <1>16, <2>4, Elements DEF QueueInv, NoneLeft
  <2> QED BY <2>1, <2>3, <2>5 DEF NoneLeft
<1>19. KeptOrGivenUp'
  <2> SUFFICES ASSUME NEW v \in 1..made
               PROVE /\ Stored(v)' \/ Waiting(v)' \/ Flying(v)' \/ gone'[v] # "no"
                     /\ gone'[v] = "tries" => times'[v] = MaxTries + 1
    BY DEF KeptOrGivenUp
  <2>1. v \in Views
    BY Elements
  <2>2. CASE v \in CutOff(q)
    BY <1>16, <2>1, <2>2
  <2>3. CASE v \notin CutOff(q)
    <3>1. gone'[v] = gone[v]
      BY <1>16, <2>1, <2>3
    <3>2. Stored(v) => Stored(v)'
      BY DEF Stored
    <3>3. \A i \in 1..Len(q) : q[i].view = v => Waiting(v)'
      <4> SUFFICES ASSUME NEW i \in 1..Len(q), q[i].view = v PROVE Waiting(v)'
        OBVIOUS
      <4>1. d = 1 => i # 1
        BY <1>6, <2>3
      <4>2. i - d \in 1..Len(queue') /\ (i - d) + d = i
        BY <1>3, <1>6, <4>1, Elements
      <4>3. queue'[i - d] = q[i]
        BY <1>6, <4>2
      <4> QED BY <4>2, <4>3 DEF Waiting
    <3>4. Waiting(v) => Waiting(v)'
      BY <1>3, <3>3, Elements DEF Waiting
    <3>5. Flying(v) => Flying(v)' \/ Waiting(v)'
      <4>1. Len(q) \in 1..Len(q)
        BY <1>3, <1>17, Elements
      <4> QED BY <1>2, <1>3, <3>3, <4>1 DEF Flying
    <3> QED BY <3>1, <3>2, <3>4, <3>5 DEF QueueInv, KeptOrGivenUp
  <2> QED BY <2>2, <2>3
<1> QED BY <1>7, <1>8, <1>13, <1>14, <1>15, <1>18, <1>19 DEF QueueInv

LEMMA EndPreserves ==
  ASSUME QueueInv, NEW f \in flights, answered(f) \/ failed(f) PROVE QueueInv'
<1> USE TrackerAssumption
<1>1. /\ f.payload.view \in Views /\ gone[f.payload.view] = "no"
      /\ gone \in [Views -> {"no", "optout", "cap", "tries", "unheard"}]
      /\ times[f.payload.view] = f.payload.tries + 1 /\ f.payload.tries \in 0..MaxTries
  BY Elements DEF QueueInv, NoneLeft, Counted, QueueTypeOK
<1>2. CASE answered(f)
  <2>1. /\ flights' = flights \ {f} /\ UNCHANGED <<opted, queue, open, rows, made, times>>
        /\ gone' = gone /\ Stored(f.payload.view)
    BY <1>2 DEF answered, QueueInv, AnswerStored
  <2>2. gone' = [gone EXCEPT ![f.payload.view] = "no"]
    BY <1>1, <2>1
  <2>3. "no" \in {"no", "tries", "unheard"}
    OBVIOUS
  <2> QED BY <2>1, <2>2, <2>3, DropPreserves
<1>3. CASE failed(f)
  <2>1. flights' = flights \ {f} /\ UNCHANGED <<opted, open, rows, made, times>>
    BY <1>3 DEF failed
  <2>2. CASE f.via # "fetch"
    <3>1. gone' = [gone EXCEPT ![f.payload.view] = "unheard"] /\ queue' = queue
      BY <1>3, <2>2 DEF failed
    <3>2. "unheard" \in {"no", "tries", "unheard"}
      OBVIOUS
    <3> QED BY <2>1, <3>1, <3>2, DropPreserves
  <2>3. CASE f.via = "fetch" /\ GivenUp(f.payload)
    <3>1. gone' = [gone EXCEPT ![f.payload.view] = "tries"] /\ queue' = queue
      BY <1>3, <2>3 DEF failed, enqueue
    <3>2. times[f.payload.view] = MaxTries + 1
      BY <1>1, <2>3 DEF GivenUp
    <3>3. "tries" \in {"no", "tries", "unheard"}
      OBVIOUS
    <3> QED BY <2>1, <3>1, <3>2, <3>3, DropPreserves
  <2>4. CASE f.via = "fetch" /\ ~GivenUp(f.payload)
    <3>1. enqueue(f.payload)
      BY <1>3, <2>4 DEF failed
    <3> QED BY <2>1, <2>4, <3>1, EnqueuePreserves
  <2> QED BY <2>2, <2>3, <2>4
<1> QED BY <1>2, <1>3

(* A tab loads the tracker: all of the queue is on its way, and the queue is   *)
(* empty; or who has opted out gives it up.                                   *)
LEMMA FlushPreserves ==
  ASSUME QueueInv, NEW t \in Tabs, NEW via \in [Views -> {"fetch", "beacon"}],
         flushQueue(t, via)
  PROVE QueueInv'
<1> USE TrackerAssumption
<1>1. queue' = <<>> /\ <<>> \in Seq(Payload) /\ Len(<<>>) = 0
  BY DEF flushQueue, Emptied
<1>2. 1..Len(queue') = {} /\ Len(queue') <= QueueCap
  BY <1>1
<1>3. /\ UNCHANGED <<opted, rows, made>> /\ open' \subseteq Tabs
      /\ opted \in BOOLEAN /\ rows \subseteq [view : Views, id : Nat] /\ made \in 0..MaxViews
  BY DEF flushQueue, QueueInv, QueueTypeOK
<1>4. \A p \in Queued : /\ p \in Payload /\ p.view \in Views /\ p.view <= made
                         /\ p.view \in Nat /\ p.tries \in 0..MaxTries
                         /\ p.id = p.view
                         /\ times[p.view] = p.tries /\ gone[p.view] = "no"
  BY Elements DEF Queued, QueueInv, OwnIds, Counted, NoneLeft
<1>5. /\ \A p, r \in Queued : p.view = r.view => p = r
      /\ \A p \in Queued, f \in flights : p.view # f.payload.view
  BY DEF Queued, QueueInv, OneCopy
<1>6. \A v : Waiting(v) => \E p \in Queued : p.view = v
  BY DEF Waiting, Queued
<1>7. CASE opted
  <2>1. /\ flights' = flights /\ times' = times
        /\ gone' = [v \in Views |-> IF \E p \in Queued : p.view = v THEN "optout" ELSE gone[v]]
    BY <1>7 DEF flushQueue
  <2>2. /\ \A v \in Views : (\E p \in Queued : p.view = v) => gone'[v] = "optout"
        /\ \A v \in Views : ~(\E p \in Queued : p.view = v) => gone'[v] = gone[v]
        /\ gone' \in [Views -> {"no", "optout", "cap", "tries", "unheard"}]
    BY <2>1 DEF QueueInv, QueueTypeOK
  <2>3. QueueTypeOK'
    BY <1>1, <1>2, <1>3, <2>1, <2>2 DEF QueueInv, QueueTypeOK
  <2>4. OwnIds' /\ OneCopy' /\ Counted' /\ SentAtMost' /\ AnswerStored'
    BY <1>2, <1>3, <2>1 DEF QueueInv, OwnIds, OneCopy, Counted, SentAtMost, AnswerStored, Stored
  <2>5. NoneLeft'
    <3>1. \A v \in Views : v > made => gone'[v] = "no"
      <4>1. \A v \in Views : v > made => ~(\E p \in Queued : p.view = v)
        BY <1>3, <1>4 DEF Views
      <4> QED BY <4>1, <2>2 DEF QueueInv, NoneLeft
    <3>2. \A f \in flights : gone'[f.payload.view] = "no"
      BY <1>5, <2>2, Elements DEF QueueInv, NoneLeft
    <3> QED BY <1>2, <1>3, <2>1, <3>1, <3>2 DEF NoneLeft
  <2>6. KeptOrGivenUp'
    <3> SUFFICES ASSUME NEW v \in 1..made
                 PROVE /\ Stored(v)' \/ Waiting(v)' \/ Flying(v)' \/ gone'[v] # "no"
                       /\ gone'[v] = "tries" => times'[v] = MaxTries + 1
      BY <1>3 DEF KeptOrGivenUp
    <3>1. v \in Views
      BY Elements
    <3>2. CASE \E p \in Queued : p.view = v
      BY <2>2, <3>1, <3>2
    <3>3. CASE ~ \E p \in Queued : p.view = v
      <4>1. gone'[v] = gone[v] /\ ~Waiting(v)
        BY <1>6, <2>2, <3>1, <3>3
      <4>2. (Stored(v) => Stored(v)') /\ (Flying(v) => Flying(v)')
        BY <1>3, <2>1 DEF Stored, Flying
      <4> QED BY <2>1, <4>1, <4>2 DEF QueueInv, KeptOrGivenUp
    <3> QED BY <3>2, <3>3
  <2> QED BY <2>3, <2>4, <2>5, <2>6 DEF QueueInv
<1>8. CASE ~opted
  <2> DEFINE G(p) == Fly(p, t, via[p.view])
  <2>1. /\ flights' = flights \cup {G(p) : p \in Queued} /\ gone' = gone
        /\ times' = [v \in Views |-> IF \E p \in Queued : p.view = v
                                     THEN times[v] + 1 ELSE times[v]]
    BY <1>8 DEF flushQueue
  <2>2. \A p \in Queued : G(p) \in Flight /\ G(p).payload = p /\ G(p).at # "kept"
    BY <1>4 DEF Fly, Flight
  <2> HIDE DEF G
  <2>3. /\ \A v \in Views : (\E p \in Queued : p.view = v) => times'[v] = times[v] + 1
        /\ \A v \in Views : ~(\E p \in Queued : p.view = v) => times'[v] = times[v]
        /\ times' \in [Views -> Nat]
    BY <2>1 DEF QueueInv, QueueTypeOK
  <2>4. QueueTypeOK'
    <3>1. flights' \subseteq Flight
      BY <2>1, <2>2 DEF QueueInv, QueueTypeOK
    <3> QED BY <1>1, <1>2, <1>3, <2>1, <2>3, <3>1 DEF QueueInv, QueueTypeOK
  <2>5. \A g \in flights' : g \in flights \/ \E p \in Queued : g = G(p)
    BY <2>1
  <2>6. AnswerStored'
    BY <1>3, <2>2, <2>5 DEF QueueInv, AnswerStored, Stored
  <2>7. OwnIds'
    BY <1>2, <1>3, <1>4, <2>2, <2>5 DEF QueueInv, OwnIds
  <2>8. OneCopy'
    <3>1. \A g, h \in flights' : g.payload.view = h.payload.view => g = h
      BY <1>5, <2>2, <2>5 DEF QueueInv, OneCopy
    <3> QED BY <1>2, <3>1 DEF OneCopy
  <2>9. Counted'
    <3>1. \A f \in flights : times'[f.payload.view] = f.payload.tries + 1
      BY <1>5, <2>3, Elements DEF QueueInv, Counted
    <3>2. \A p \in Queued : times'[G(p).payload.view] = G(p).payload.tries + 1
      BY <1>4, <2>2, <2>3
    <3>3. \A g \in flights' : times'[g.payload.view] = g.payload.tries + 1
      BY <2>5, <3>1, <3>2
    <3> QED BY <1>2, <3>3 DEF Counted
  <2>10. NoneLeft'
    BY <1>2, <1>3, <1>4, <2>1, <2>2, <2>5 DEF QueueInv, NoneLeft
  <2>11. SentAtMost'
    <3> SUFFICES ASSUME NEW v \in Views PROVE times'[v] <= MaxTries + 1
      BY DEF SentAtMost
    <3>1. CASE \E p \in Queued : p.view = v
      <4>1. PICK p \in Queued : p.view = v
        BY <3>1
      <4> QED BY <1>4, <2>3, <4>1
    <3>2. CASE ~ \E p \in Queued : p.view = v
      BY <2>3, <3>2 DEF QueueInv, SentAtMost
    <3> QED BY <3>1, <3>2
  <2>12. KeptOrGivenUp'
    <3> SUFFICES ASSUME NEW v \in 1..made
                 PROVE /\ Stored(v)' \/ Waiting(v)' \/ Flying(v)' \/ gone'[v] # "no"
                       /\ gone'[v] = "tries" => times'[v] = MaxTries + 1
      BY <1>3 DEF KeptOrGivenUp
    <3>1. v \in Views
      BY Elements
    <3>2. (Stored(v) => Stored(v)') /\ (Flying(v) => Flying(v)')
      BY <1>3, <2>1 DEF Stored, Flying
    <3>3. CASE \E p \in Queued : p.view = v
      <4>1. PICK p \in Queued : p.view = v
        BY <3>3
      <4>2. Flying(v)'
        BY <2>1, <2>2, <4>1 DEF Flying
      <4>3. gone'[v] = "no"
        BY <1>4, <2>1, <4>1
      <4> QED BY <4>2, <4>3
    <3>4. CASE ~ \E p \in Queued : p.view = v
      <4>1. ~Waiting(v) /\ times'[v] = times[v]
        BY <1>6, <2>3, <3>1, <3>4
      <4> QED BY <2>1, <3>2, <4>1 DEF QueueInv, KeptOrGivenUp
    <3> QED BY <3>3, <3>4
  <2> QED BY <2>4, <2>6, <2>7, <2>8, <2>9, <2>10, <2>11, <2>12 DEF QueueInv
<1> QED BY <1>7, <1>8

-----------------------------------------------------------------------------
LEMMA StutterPreserves == QueueInv /\ UNCHANGED queueVars => QueueInv'
<1> SUFFICES ASSUME QueueInv, UNCHANGED queueVars PROVE QueueInv'
  OBVIOUS
<1>1. QueueTypeOK'
  BY DEF QueueInv, QueueTypeOK, queueVars
<1>2. AnswerStored' /\ OwnIds' /\ OneCopy' /\ Counted' /\ NoneLeft' /\ SentAtMost'
  BY DEF QueueInv, AnswerStored, Stored, OwnIds, OneCopy, Counted, NoneLeft, SentAtMost, queueVars
<1>3. KeptOrGivenUp'
  BY DEF QueueInv, KeptOrGivenUp, Stored, Waiting, Flying, queueVars
<1> QED BY <1>1, <1>2, <1>3 DEF QueueInv

LEMMA NextPreserves == QueueInv /\ [QueueNext]_queueVars => QueueInv'
<1> SUFFICES ASSUME QueueInv, [QueueNext]_queueVars PROVE QueueInv'
  OBVIOUS
<1>1. CASE \E t \in Tabs, via \in {"fetch", "beacon"} : pageviewOrEvent(t, via)
  BY <1>1, MakePreserves
<1>2. CASE \E t \in Tabs, via \in [Views -> {"fetch", "beacon"}] : flushQueue(t, via)
  BY <1>2, FlushPreserves
<1>3. CASE \E t \in Tabs : closeTab(t)
  BY <1>3, ClosePreserves
<1>4. CASE \E v \in BOOLEAN : setOptout(v)
  BY <1>4, OptoutPreserves
<1>5. CASE \E f \in flights : store(f) \/ refuse(f) \/ breakConnection(f)
  BY <1>5, ServicePreserves
<1>6. CASE \E f \in flights : answered(f) \/ failed(f)
  BY <1>6, EndPreserves
<1>7. CASE UNCHANGED queueVars
  BY <1>7, StutterPreserves
<1> QED BY <1>1, <1>2, <1>3, <1>4, <1>5, <1>6, <1>7 DEF QueueNext

THEOREM QueueInvariant == QueueSpec => []QueueInv
<1> QED BY InitInv, NextPreserves, PTL DEF QueueSpec

(* The types of the queue, the requests and the history, for tracker/track.js *)
(* with any bounds.                                                          *)
THEOREM QueueTypeCorrect == QueueSpec => []QueueTypeOK
<1>1. QueueInv => QueueTypeOK
  BY DEF QueueInv
<1> QED BY <1>1, QueueInvariant, PTL

(* The service stores at most one row for a payload, however often enqueue,   *)
(* flushQueue and lost answers let it be sent.                               *)
THEOREM OneRowAlways == QueueSpec => []OneRow
<1>1. QueueInv => OneRow
  <2> SUFFICES ASSUME QueueInv, NEW r \in rows, NEW s \in rows, r.view = s.view
               PROVE r = s
    BY DEF OneRow
  <2>1. r.id = r.view /\ s.id = s.view
    BY DEF QueueInv, OwnIds
  <2>2. r \in [view : Views, id : Nat] /\ s \in [view : Views, id : Nat]
    BY DEF QueueInv, QueueTypeOK
  <2> QED BY <2>1, <2>2
<1> QED BY <1>1, QueueInvariant, PTL

(* No payload is sent more than MAX_TRIES + 1 times, in all tabs together. *)
THEOREM SentAtMostAlways == QueueSpec => []SentAtMost
<1>1. QueueInv => SentAtMost
  BY DEF QueueInv
<1> QED BY <1>1, QueueInvariant, PTL

(* A payload is lost only for the reasons that send, enqueue and the closing   *)
(* of a tab have.                                                            *)
THEOREM KeptOrGivenUpAlways == QueueSpec => []KeptOrGivenUp
<1>1. QueueInv => KeptOrGivenUp
  BY DEF QueueInv
<1> QED BY <1>1, QueueInvariant, PTL

-----------------------------------------------------------------------------
(* The page. *)
Numbered == (1..(MaxRoutes + 1)) \X Depths

PageRecord ==
  [at : Routes, lastPath : Routes, loaded : BOOLEAN, seen : SUBSET Depths,
   seenRoute : Routes \cup {""}, reports : Seq(Routes), visited : Seq(Routes),
   early : BOOLEAN, counts : [Numbered -> Nat]]

PageTyped == page \in PageRecord

(* onRoute has seen every change of the location. *)
Followed == page.lastPath = page.at /\ Len(page.visited) > 0

Reported ==
  /\ page.loaded => Len(page.reports) > 0 /\ page.reports[Len(page.reports)] = page.at
  /\ page.loaded /\ ~page.early => page.reports = page.visited
  /\ ~page.loaded /\ ~page.early => page.reports = <<>> /\ page.visited = <<page.at>>

(* What was counted for the visit under way is what the scroll handler has    *)
(* seen for its route.                                                      *)
CountsSeen ==
  \A v \in Numbered :
    /\ page.counts[v] <= 1
    /\ v[1] > Len(page.visited) => page.counts[v] = 0
    /\ v[1] = Len(page.visited) /\ page.counts[v] # 0
         => page.seenRoute = page.at /\ v[2] \in page.seen

PageInv == PageTyped /\ Followed /\ Reported /\ CountsSeen

LEMMA AppendFacts ==
  ASSUME NEW S, NEW s \in Seq(S), NEW e \in S
  PROVE  /\ Append(s, e) \in Seq(S)
         /\ Len(Append(s, e)) = Len(s) + 1
         /\ Append(s, e)[Len(s) + 1] = e
         /\ Len(s) \in Nat
OBVIOUS

LEMMA PageFields ==
  ASSUME PageInv
  PROVE  /\ page \in PageRecord
         /\ page.at \in Routes /\ page.lastPath \in Routes /\ page.loaded \in BOOLEAN
         /\ page.seen \in SUBSET Depths /\ page.seenRoute \in Routes \cup {""}
         /\ page.reports \in Seq(Routes) /\ page.visited \in Seq(Routes)
         /\ page.early \in BOOLEAN /\ page.counts \in [Numbered -> Nat]
<1>1. page \in PageRecord
  BY DEF PageInv, PageTyped
<1> HIDE DEF Numbered
<1> QED BY <1>1 DEF PageRecord

LEMMA PageInitInv ==
  ASSUME NEW r \in Routes, NEW complete \in BOOLEAN, PageInit(r, complete)
  PROVE  PageInv
<1>1. /\ <<r>> \in Seq(Routes) /\ Len(<<r>>) = 1 /\ <<r>>[1] = r
      /\ <<>> \in Seq(Routes) /\ Len(<<>>) = 0
  OBVIOUS
<1>2. [v \in Numbered |-> 0] \in [Numbered -> Nat]
  OBVIOUS
<1>3. PageTyped
  BY <1>1, <1>2 DEF PageInit, PageTyped, PageRecord, Numbered
<1>4. Followed /\ Reported
  <2>1. /\ page.at = r /\ page.lastPath = r /\ page.loaded = complete /\ page.visited = <<r>>
        /\ page.reports = IF complete THEN <<r>> ELSE <<>>
    BY DEF PageInit
  <2>2. CASE complete
    BY <1>1, <2>1, <2>2 DEF Followed, Reported
  <2>3. CASE ~complete
    BY <1>1, <2>1, <2>3 DEF Followed, Reported
  <2> QED BY <2>2, <2>3
<1>5. CountsSeen
  <2>1. page.counts = [v \in Numbered |-> 0]
    BY DEF PageInit, Numbered
  <2> HIDE DEF Numbered
  <2> QED BY <2>1 DEF CountsSeen
<1> QED BY <1>3, <1>4, <1>5 DEF PageInv

LEMMA LoadPreserves ==
  ASSUME PageInv, load
  PROVE  PageInv'
<1>1. page \in PageRecord
  BY DEF PageInv, PageTyped
<1>2. /\ Append(page.reports, page.at) \in Seq(Routes)
      /\ Len(Append(page.reports, page.at)) = Len(page.reports) + 1
      /\ Append(page.reports, page.at)[Len(page.reports) + 1] = page.at
      /\ Len(page.reports) \in Nat
  BY PageFields, AppendFacts
<1>3. page' = [page EXCEPT !.loaded = TRUE, !.reports = Append(page.reports, page.at)]
  BY <1>1 DEF load, PageRecord
<1>4. PageTyped'
  BY <1>1, <1>2, <1>3 DEF PageTyped, PageRecord
<1>5. Followed'
  BY <1>1, <1>3 DEF PageInv, Followed, PageRecord
<1>6. Reported'
  <2>1. ~page.early => Append(page.reports, page.at) = page.visited
    <3>1. Append(<<>>, page.at) = <<page.at>>
      OBVIOUS
    <3> QED BY <3>1 DEF PageInv, Reported, load
  <2>2. /\ page'.loaded = TRUE /\ page'.early = page.early /\ page'.at = page.at
        /\ page'.visited = page.visited /\ page'.reports = Append(page.reports, page.at)
    BY <1>1, <1>3 DEF PageRecord
  <2> QED BY <2>1, <2>2, <1>2 DEF Reported
<1>7. CountsSeen'
  BY <1>1, <1>3 DEF PageInv, CountsSeen, PageRecord
<1> QED BY <1>4, <1>5, <1>6, <1>7 DEF PageInv

LEMMA HookPreserves ==
  ASSUME PageInv, NEW r \in Routes, hook(r)
  PROVE  PageInv'
<1>1. page \in PageRecord
  BY DEF PageInv, PageTyped
<1>2. CASE r = page.at
  <2>1. page' = page
    BY <1>1, <1>2 DEF hook, onRoute, PageInv, Followed, PageRecord
  <2> QED BY <2>1 DEF PageInv, PageTyped, Followed, Reported, CountsSeen
<1>3. CASE r # page.at
  <2>1. page' = [page EXCEPT !.at = r, !.lastPath = r,
                   !.visited = Append(page.visited, r),
                   !.reports = Append(page.reports, r),
                   !.early = page.early \/ ~page.loaded]
    BY <1>1, <1>3 DEF hook, onRoute, PageInv, Followed, PageRecord
  <2>2. /\ Append(page.reports, r) \in Seq(Routes)
        /\ Len(Append(page.reports, r)) = Len(page.reports) + 1
        /\ Append(page.reports, r)[Len(page.reports) + 1] = r
        /\ Len(page.reports) \in Nat
    BY PageFields, AppendFacts
  <2>3. /\ Append(page.visited, r) \in Seq(Routes)
        /\ Len(Append(page.visited, r)) = Len(page.visited) + 1
        /\ Len(page.visited) \in Nat
    BY PageFields, AppendFacts
  <2>4. PageTyped'
    BY <1>1, <2>1, <2>2, <2>3 DEF PageTyped, PageRecord
  <2>5. Followed'
    <3>1. page'.at = r /\ page'.lastPath = r /\ page'.visited = Append(page.visited, r)
      BY <1>1, <2>1 DEF PageRecord
    <3> QED BY <3>1, <2>3 DEF Followed
  <2>6. Reported'
    <3>1. /\ page'.at = r /\ page'.loaded = page.loaded
          /\ page'.early = (page.early \/ ~page.loaded)
          /\ page'.visited = Append(page.visited, r)
          /\ page'.reports = Append(page.reports, r)
      BY <1>1, <2>1 DEF PageRecord
    <3>2. page.loaded /\ ~page.early => page.reports = page.visited
      BY DEF PageInv, Reported
    <3>3. CASE page.loaded
      <4>1. page'.loaded /\ (~page'.early => ~page.early)
        BY <3>1, <3>3, PageFields
      <4> QED BY <3>1, <3>2, <3>3, <4>1, <2>2 DEF Reported
    <3>4. CASE ~page.loaded
      <4>1. ~page'.loaded /\ page'.early
        BY <3>1, <3>4, PageFields
      <4> QED BY <4>1 DEF Reported
    <3> QED BY <3>3, <3>4
  <2>7. CountsSeen'
    <3> SUFFICES ASSUME NEW v \in Numbered
                 PROVE  /\ page'.counts[v] <= 1
                        /\ v[1] > Len(page'.visited) => page'.counts[v] = 0
                        /\ v[1] = Len(page'.visited) => page'.counts[v] = 0
      BY DEF CountsSeen
    <3>1. page'.counts = page.counts /\ page'.visited = Append(page.visited, r)
      BY <1>1, <2>1 DEF PageRecord
    <3>2. v[1] \in Nat
      BY TrackerPageAssumption DEF Numbered
    <3> QED BY <3>1, <3>2, <2>3 DEF PageInv, CountsSeen
  <2> QED BY <2>4, <2>5, <2>6, <2>7 DEF PageInv
<1> QED BY <1>2, <1>3

LEMMA ScrollPreserves ==
  ASSUME PageInv, NEW pct \in 0..2, scroll(pct)
  PROVE  PageInv'
<1> DEFINE seen == IF page.seenRoute = page.at THEN page.seen ELSE {}
           new == {d \in Depths : d <= pct /\ d \notin seen}
           counts == [v \in Numbered |->
                        IF v[1] = Len(page.visited) /\ v[2] \in new
                        THEN page.counts[v] + 1 ELSE page.counts[v]]
<1>1. page \in PageRecord
  BY DEF PageInv, PageTyped
<1>2. page' = [page EXCEPT !.seen = seen \cup new, !.seenRoute = page.at, !.counts = counts]
  BY <1>1 DEF scroll, PageRecord
<1>3. seen \in SUBSET Depths /\ seen \cup new \in SUBSET Depths
  BY PageFields
<1>4. counts \in [Numbered -> Nat]
  <2>1. page.counts \in [Numbered -> Nat]
    BY PageFields
  <2>2. \A v \in Numbered : page.counts[v] \in Nat /\ page.counts[v] + 1 \in Nat
    BY <2>1
  <2> HIDE DEF Numbered, new
  <2> QED BY <2>2
<1>5. \A v \in Numbered : /\ counts[v] <= 1
                          /\ v[1] > Len(page.visited) => counts[v] = 0
                          /\ v[1] = Len(page.visited) /\ counts[v] # 0
                               => v[2] \in seen \cup new
  <2> TAKE v \in Numbered
  <2>1. page.counts[v] \in Nat /\ v[1] \in Nat /\ Len(page.visited) \in Nat
    <3>1. v[1] \in Nat
      BY TrackerPageAssumption DEF Numbered
    <3>2. Len(page.visited) \in Nat
      BY PageFields, AppendFacts
    <3> QED BY <3>1, <3>2, PageFields
  <2>2. v[1] = Len(page.visited) /\ page.counts[v] # 0 => v[2] \in seen
    BY DEF PageInv, CountsSeen
  <2>3. page.counts[v] <= 1 /\ (v[1] > Len(page.visited) => page.counts[v] = 0)
    BY DEF PageInv, CountsSeen
  <2>4. CASE v[1] = Len(page.visited) /\ v[2] \in new
    <3>1. page.counts[v] = 0
      BY <2>2, <2>4
    <3>2. counts[v] = 1
      BY <2>4, <3>1
    <3> HIDE DEF counts, new, seen
    <3> QED BY <2>1, <2>4, <3>2
  <2>5. CASE ~(v[1] = Len(page.visited) /\ v[2] \in new)
    <3>1. counts[v] = page.counts[v]
      BY <2>5
    <3> HIDE DEF counts, new, seen
    <3> QED BY <2>2, <2>3, <3>1
  <2> QED BY <2>4, <2>5
<1> HIDE DEF seen, new, counts
<1>6. PageTyped'
  BY <1>1, <1>2, <1>3, <1>4 DEF PageTyped, PageRecord
<1>7. Followed' /\ Reported'
  BY <1>1, <1>2 DEF PageInv, Followed, Reported, PageRecord
<1>8. CountsSeen'
  BY <1>1, <1>2, <1>5 DEF CountsSeen, PageRecord
<1> QED BY <1>6, <1>7, <1>8 DEF PageInv

-----------------------------------------------------------------------------
(* The vitals. *)
VitalsRecord ==
  [value : [Metrics -> Int], timers : SUBSET Metrics, sent : SUBSET Metrics,
   said : [Metrics -> Seq(Int)], hidden : BOOLEAN]

(* sent is what has been said, once; a timer runs for what can be said. *)
Once(v) ==
  \A m \in Metrics :
    /\ v.value[m] >= -1
    /\ m \in v.sent => Len(v.said[m]) = 1
    /\ m \notin v.sent => v.said[m] = <<>>
    /\ m \in v.timers => m \notin v.sent /\ v.value[m] # -1

(* Once the page has been hidden nothing observed is without a timer. *)
Told(v) ==
  v.hidden => \A m \in Metrics : v.value[m] # -1 /\ m \notin v.sent => m \in v.timers

VitalsInv == vitals \in VitalsRecord /\ Once(vitals) /\ Told(vitals)

LEMMA VitalsFields ==
  ASSUME NEW v \in VitalsRecord
  PROVE  /\ v.value \in [Metrics -> Int] /\ v.timers \in SUBSET Metrics
         /\ v.sent \in SUBSET Metrics /\ v.said \in [Metrics -> Seq(Int)]
         /\ v.hidden \in BOOLEAN
BY DEF VitalsRecord

(* What report does to a record: its own metric is sent if it has a value,    *)
(* and no other metric changes.                                             *)
LEMMA ReportFacts ==
  ASSUME NEW v \in VitalsRecord, NEW m \in Metrics, Once(v)
  PROVE  /\ report(v, m) \in VitalsRecord
         /\ Once(report(v, m))
         /\ report(v, m).value = v.value
         /\ report(v, m).hidden = v.hidden
         /\ v.sent \subseteq report(v, m).sent
         /\ v.value[m] # -1 => m \in report(v, m).sent
         /\ \A n \in Metrics \ {m} : /\ n \in report(v, m).sent <=> n \in v.sent
                                     /\ n \in report(v, m).timers <=> n \in v.timers
<1>1. CASE m \in v.sent \/ v.value[m] = -1
  BY <1>1, report(v, m) = v DEF report
<1>2. CASE ~(m \in v.sent \/ v.value[m] = -1)
  <2> DEFINE w == report(v, m)
             line == Append(v.said[m], v.value[m])
  <2>1. w = [v EXCEPT !.sent = v.sent \cup {m}, !.timers = v.timers \ {m},
                      !.said = [v.said EXCEPT ![m] = line]]
    BY <1>2, VitalsFields DEF report, VitalsRecord
  <2>2. /\ w.value = v.value /\ w.hidden = v.hidden
        /\ w.sent = v.sent \cup {m} /\ w.timers = v.timers \ {m}
        /\ w.said = [v.said EXCEPT ![m] = line]
    BY <2>1 DEF VitalsRecord
  <2>3. line \in Seq(Int) /\ Len(line) = 1
    <3>1. v.said[m] = <<>> /\ Len(<<>>) = 0
      BY <1>2 DEF Once
    <3>2. v.value[m] \in Int /\ v.said[m] \in Seq(Int)
      BY VitalsFields
    <3> QED BY <3>1, <3>2, AppendFacts
  <2> HIDE DEF line
  <2>4. w \in VitalsRecord
    <3>1. [v.said EXCEPT ![m] = line] \in [Metrics -> Seq(Int)]
      BY <2>3, VitalsFields
    <3>2. v.sent \cup {m} \in SUBSET Metrics /\ v.timers \ {m} \in SUBSET Metrics
      BY VitalsFields
    <3> HIDE DEF w
    <3> QED BY <2>1, <3>1, <3>2 DEF VitalsRecord
  <2> HIDE DEF w
  <2>5. Once(w)
    <3> SUFFICES ASSUME NEW n \in Metrics
                 PROVE  /\ w.value[n] >= -1
                        /\ n \in w.sent => Len(w.said[n]) = 1
                        /\ n \notin w.sent => w.said[n] = <<>>
                        /\ n \in w.timers => n \notin w.sent /\ w.value[n] # -1
      BY DEF Once
    <3>1. CASE n = m
      <4>1. w.said[n] = line
        BY <2>2, <3>1, VitalsFields
      <4> QED BY <2>2, <2>3, <3>1, <4>1 DEF Once
    <3>2. CASE n # m
      <4>1. w.said[n] = v.said[n]
        BY <2>2, <3>2, VitalsFields
      <4> QED BY <2>2, <3>2, <4>1 DEF Once
    <3> QED BY <3>1, <3>2
  <2>6. \A n \in Metrics \ {m} : (n \in w.sent <=> n \in v.sent)
                                 /\ (n \in w.timers <=> n \in v.timers)
    BY <2>2
  <2>7. v.sent \subseteq w.sent /\ m \in w.sent
    BY <2>2
  <2> QED BY <2>2, <2>4, <2>5, <2>6, <2>7 DEF w
<1> QED BY <1>1, <1>2

LEMMA VitalsInitInv ==
  ASSUME VitalsInit
  PROVE  VitalsInv
<1>1. /\ vitals.timers = {} /\ vitals.sent = {} /\ vitals.hidden = FALSE
      /\ vitals.value = [m \in Metrics |-> IF m = "cls" THEN 0 ELSE -1]
      /\ vitals.said = [m \in Metrics |-> <<>>]
  BY DEF VitalsInit
<1>2. <<>> \in Seq(Int)
  OBVIOUS
<1>3. /\ [m \in Metrics |-> IF m = "cls" THEN 0 ELSE -1] \in [Metrics -> Int]
      /\ [m \in Metrics |-> <<>>] \in [Metrics -> Seq(Int)]
  BY <1>2
<1>4. vitals \in VitalsRecord
  BY <1>3 DEF VitalsInit, VitalsRecord
<1>5. \A m \in Metrics : vitals.value[m] >= -1 /\ vitals.said[m] = <<>>
  BY <1>1
<1>6. Once(vitals) /\ Told(vitals)
  BY <1>1, <1>5 DEF Once, Told
<1> QED BY <1>4, <1>6 DEF VitalsInv

LEMMA ObservePreserves ==
  ASSUME VitalsInv, NEW m \in Metrics, observe(m)
  PROVE  VitalsInv'
<1>1. vitals \in VitalsRecord
  BY DEF VitalsInv
<1> DEFINE value == [vitals.value EXCEPT ![m] = vitals.value[m] + 1]
           timers == IF m \in vitals.sent THEN vitals.timers ELSE vitals.timers \cup {m}
<1>2. vitals' = [vitals EXCEPT !.value = value, !.timers = timers]
  BY <1>1 DEF observe, VitalsRecord
<1>3. value \in [Metrics -> Int] /\ timers \in SUBSET Metrics
  BY <1>1, VitalsFields
<1>4. \A n \in Metrics : value[n] = IF n = m THEN vitals.value[m] + 1 ELSE vitals.value[n]
  BY <1>1, VitalsFields
<1>5. value[m] >= -1 /\ value[m] # -1
  <2>1. vitals.value[m] >= -1 /\ vitals.value[m] \in Int
    BY <1>1, VitalsFields DEF VitalsInv, Once
  <2> HIDE DEF value
  <2> QED BY <1>4, <2>1
<1>6. \A n \in Metrics : n \in timers <=> n \in vitals.timers \/ (n = m /\ m \notin vitals.sent)
  OBVIOUS
<1> HIDE DEF value, timers
<1>7. vitals' \in VitalsRecord
  BY <1>1, <1>2, <1>3 DEF VitalsRecord
<1>8. /\ vitals'.value = value /\ vitals'.timers = timers /\ vitals'.sent = vitals.sent
      /\ vitals'.said = vitals.said /\ vitals'.hidden = vitals.hidden
  BY <1>1, <1>2 DEF VitalsRecord
<1>9. Once(vitals') /\ Told(vitals')
  BY <1>4, <1>5, <1>6, <1>8 DEF VitalsInv, Once, Told
<1> QED BY <1>7, <1>9 DEF VitalsInv

LEMMA TimerPreserves ==
  ASSUME VitalsInv, NEW m \in Metrics, timer(m)
  PROVE  VitalsInv'
<1> DEFINE v == [vitals EXCEPT !.timers = vitals.timers \ {m}]
<1>1. vitals \in VitalsRecord
  BY DEF VitalsInv
<1>2. vitals.timers \ {m} \in SUBSET Metrics
  BY <1>1, VitalsFields
<1>3. v \in VitalsRecord
  BY <1>1, <1>2 DEF VitalsRecord
<1>4. /\ v.value = vitals.value /\ v.timers = vitals.timers \ {m} /\ v.sent = vitals.sent
      /\ v.said = vitals.said /\ v.hidden = vitals.hidden
  BY <1>1 DEF VitalsRecord
<1>5. vitals' = report(v, m)
  BY <1>1 DEF timer, VitalsRecord
<1> HIDE DEF v
<1>6. Once(v)
  BY <1>4 DEF VitalsInv, Once
<1>7. Told(report(v, m))
  <2> SUFFICES ASSUME report(v, m).hidden, NEW n \in Metrics,
                      report(v, m).value[n] # -1, n \notin report(v, m).sent
               PROVE  n \in report(v, m).timers
    BY DEF Told
  <2>1. n # m
    BY <1>3, <1>6, ReportFacts
  <2>2. vitals.hidden /\ vitals.value[n] # -1 /\ n \notin vitals.sent
    BY <1>3, <1>4, <1>6, <2>1, ReportFacts
  <2>3. n \in vitals.timers
    BY <2>2 DEF VitalsInv, Told
  <2> QED BY <1>3, <1>4, <1>6, <2>1, <2>3, ReportFacts
<1>8. report(v, m) \in VitalsRecord /\ Once(report(v, m))
  BY <1>3, <1>6, ReportFacts
<1> QED BY <1>5, <1>7, <1>8 DEF VitalsInv

LEMMA HidePreserves ==
  ASSUME VitalsInv, flushAll
  PROVE  VitalsInv'
<1> DEFINE a == report(vitals, "ttfb")
           b == report(a, "lcp")
           c == report(b, "cls")
<1>0. "ttfb" \in Metrics /\ "lcp" \in Metrics /\ "cls" \in Metrics
      /\ \A m \in Metrics : m = "ttfb" \/ m = "lcp" \/ m = "cls"
  BY DEF Metrics
<1>1. /\ a \in VitalsRecord /\ Once(a) /\ a.value = vitals.value
      /\ (vitals.value["ttfb"] # -1 => "ttfb" \in a.sent)
  BY <1>0, ReportFacts DEF VitalsInv
<1> HIDE DEF a
<1>2. /\ b \in VitalsRecord /\ Once(b) /\ b.value = vitals.value /\ a.sent \subseteq b.sent
      /\ (vitals.value["lcp"] # -1 => "lcp" \in b.sent)
  BY <1>0, <1>1, ReportFacts
<1> HIDE DEF b
<1>3. /\ c \in VitalsRecord /\ Once(c) /\ c.value = vitals.value /\ b.sent \subseteq c.sent
      /\ (vitals.value["cls"] # -1 => "cls" \in c.sent)
  BY <1>0, <1>2, ReportFacts
<1>4. vitals' = [c EXCEPT !.hidden = TRUE]
  BY DEF flushAll, a, b
<1> HIDE DEF c
<1>5. vitals' \in VitalsRecord
  BY <1>3, <1>4 DEF VitalsRecord
<1>6. /\ vitals'.value = c.value /\ vitals'.timers = c.timers /\ vitals'.sent = c.sent
      /\ vitals'.said = c.said
  BY <1>3, <1>4 DEF VitalsRecord
<1>7. Once(vitals')
  BY <1>3, <1>6 DEF Once
<1>8. Told(vitals')
  <2>1. \A m \in Metrics : vitals.value[m] # -1 => m \in c.sent
    BY <1>0, <1>1, <1>2, <1>3
  <2> QED BY <1>3, <1>6, <2>1 DEF Told
<1> QED BY <1>5, <1>7, <1>8 DEF VitalsInv

-----------------------------------------------------------------------------
(* The page and its vitals keep to PageReports: nothing reported twice, the   *)
(* last report is of the route shown, no observed vital is forgotten.        *)
THEOREM ReportsSafe == ReportsSpec => []PageReports
<1>1. ASSUME NEW r \in Routes, NEW complete \in BOOLEAN, PageInit(r, complete), VitalsInit
      PROVE  PageInv /\ VitalsInv
  BY <1>1, PageInitInv, VitalsInitInv
<1>2. PageInv /\ VitalsInv /\ [ReportsNext]_<<page, vitals>> => (PageInv /\ VitalsInv)'
  <2> SUFFICES ASSUME PageInv, VitalsInv, [ReportsNext]_<<page, vitals>>
               PROVE  PageInv' /\ VitalsInv'
    OBVIOUS
  <2>1. ASSUME UNCHANGED page PROVE PageInv'
    BY <2>1 DEF PageInv, PageTyped, Followed, Reported, CountsSeen
  <2>2. ASSUME UNCHANGED vitals PROVE VitalsInv'
    BY <2>2 DEF VitalsInv, Once, Told
  <2>3. CASE PageNext /\ UNCHANGED vitals
    <3>1. PageInv'
      BY <2>3, LoadPreserves, HookPreserves, ScrollPreserves DEF PageNext
    <3> QED BY <2>2, <2>3, <3>1
  <2>4. CASE VitalsNext /\ UNCHANGED page
    <3>1. VitalsInv'
      BY <2>4, ObservePreserves, TimerPreserves, HidePreserves DEF VitalsNext
    <3> QED BY <2>1, <2>4, <3>1
  <2>5. CASE UNCHANGED <<page, vitals>>
    BY <2>1, <2>2, <2>5
  <2> QED BY <2>3, <2>4, <2>5 DEF ReportsNext
<1>3. PageInv /\ VitalsInv => PageReports
  <2> SUFFICES ASSUME PageInv, VitalsInv PROVE PageReports
    OBVIOUS
  <2>1. \A v \in DOMAIN page.counts : page.counts[v] <= 1
    BY PageFields DEF PageInv, CountsSeen
  <2>2. \A m \in Metrics :
          /\ Len(vitals.said[m]) <= 1
          /\ m \in vitals.timers => vitals.said[m] = <<>> /\ vitals.value[m] # -1
          /\ vitals.hidden /\ vitals.value[m] # -1 /\ vitals.said[m] = <<>>
               => m \in vitals.timers
    <3> TAKE m \in Metrics
    <3>1. Len(<<>>) = 0
      OBVIOUS
    <3>2. CASE m \in vitals.sent
      <4>1. Len(vitals.said[m]) = 1 /\ m \notin vitals.timers
        BY <3>2 DEF VitalsInv, Once
      <4>2. vitals.said[m] # <<>>
        BY <3>1, <4>1
      <4> QED BY <4>1, <4>2
    <3>3. CASE m \notin vitals.sent
      <4>1. vitals.said[m] = <<>> /\ Len(vitals.said[m]) <= 1
        BY <3>1, <3>3 DEF VitalsInv, Once
      <4>2. m \in vitals.timers => vitals.value[m] # -1
        BY DEF VitalsInv, Once
      <4>3. vitals.hidden /\ vitals.value[m] # -1 => m \in vitals.timers
        BY <3>3 DEF VitalsInv, Told
      <4> QED BY <4>1, <4>2, <4>3
    <3> QED BY <3>2, <3>3
  <2> QED BY <2>1, <2>2 DEF PageInv, Reported, PageReports
<1>4. (\E r \in Routes, complete \in BOOLEAN : PageInit(r, complete)) /\ VitalsInit
        => PageInv /\ VitalsInv
  BY <1>1
<1> QED BY <1>2, <1>3, <1>4, PTL DEF ReportsSpec

-----------------------------------------------------------------------------
(* The visit. *)
KnownVisit == [id : Nat, last : Int]

VisitRecord ==
  [now : Int, works : BOOLEAN, stored : KnownVisit, made : Nat,
   mem : [PageTabs -> KnownVisit], last : [id : Nat, at : Int, tab : PageTabs]]

(* An id in the store is that of the last report, of any tab; an id in the    *)
(* memory of the tab that reported last is too; no id is above made.  A store *)
(* that cannot be written stays empty.                                      *)
VisitInv ==
  /\ visit \in VisitRecord
  /\ ~visit.works => visit.stored.id = 0
  /\ visit.stored.id # 0 =>
       visit.stored.id = visit.last.id /\ visit.stored.last = visit.last.at
  /\ visit.mem[visit.last.tab].id # 0 =>
       /\ visit.mem[visit.last.tab].id = visit.last.id
       /\ visit.mem[visit.last.tab].last = visit.last.at
  /\ visit.stored.id <= visit.made /\ visit.last.id <= visit.made
  /\ \A t \in PageTabs : visit.mem[t].id <= visit.made

LEMMA VisitFields ==
  ASSUME visit \in VisitRecord
  PROVE  /\ visit.now \in Int /\ visit.works \in BOOLEAN /\ visit.stored \in KnownVisit
         /\ visit.made \in Nat /\ visit.mem \in [PageTabs -> KnownVisit]
         /\ visit.last.id \in Nat /\ visit.last.at \in Int /\ visit.last.tab \in PageTabs
         /\ visit.stored.id \in Nat /\ visit.stored.last \in Int
         /\ \A t \in PageTabs : visit.mem[t].id \in Nat /\ visit.mem[t].last \in Int
<1>1. /\ visit.now \in Int /\ visit.works \in BOOLEAN /\ visit.stored \in KnownVisit
      /\ visit.made \in Nat /\ visit.mem \in [PageTabs -> KnownVisit]
      /\ visit.last \in [id : Nat, at : Int, tab : PageTabs]
  BY DEF VisitRecord
<1>2. \A s \in KnownVisit : s.id \in Nat /\ s.last \in Int
  BY DEF KnownVisit
<1>3. visit.last.id \in Nat /\ visit.last.at \in Int /\ visit.last.tab \in PageTabs
  BY <1>1
<1> HIDE DEF KnownVisit
<1> QED BY <1>1, <1>2, <1>3

LEMMA NoSessionFacts ==
  NoSession \in KnownVisit /\ NoSession.id = 0 /\ NoSession.last = 0
BY DEF NoSession, KnownVisit

LEMMA VisitInitInv ==
  ASSUME NEW works \in BOOLEAN, VisitInit(works)
  PROVE  VisitInv
<1>1. /\ visit.now = 1 /\ visit.works = works /\ visit.stored = NoSession /\ visit.made = 0
      /\ visit.mem = [t \in PageTabs |-> NoSession]
      /\ visit.last = [id |-> 0, at |-> 0, tab |-> "left"]
  BY DEF VisitInit
<1>2. "left" \in PageTabs
  BY DEF PageTabs
<1>3. [t \in PageTabs |-> NoSession] \in [PageTabs -> KnownVisit]
  BY NoSessionFacts
<1>4. [id |-> 0, at |-> 0, tab |-> "left"] \in [id : Nat, at : Int, tab : PageTabs]
  BY <1>2
<1>5. visit \in VisitRecord
  BY <1>3, <1>4, NoSessionFacts DEF VisitInit, VisitRecord
<1>6. /\ visit.last.id = 0 /\ visit.last.tab \in PageTabs
      /\ \A t \in PageTabs : visit.mem[t].id = 0
  BY <1>1, <1>2, NoSessionFacts
<1> QED BY <1>1, <1>5, <1>6, NoSessionFacts DEF VisitInv

(* The record getSessionId(t) goes by, and the id it returns. *)
Kept(t) == IF Running(visit.stored) THEN visit.stored ELSE visit.mem[t]
Chosen(t) == IF Running(Kept(t)) THEN Kept(t).id ELSE visit.made + 1

LEMMA ChosenFacts ==
  ASSUME VisitInv, NEW t \in PageTabs
  PROVE  Chosen(t) \in Nat
<1>1. visit \in VisitRecord
  BY DEF VisitInv
<1>2. Kept(t).id \in Nat /\ visit.made \in Nat
  BY <1>1, VisitFields DEF Kept
<1> QED BY <1>2 DEF Chosen

LEMMA GetSessionPreserves ==
  ASSUME VisitInv, NEW t \in PageTabs, getSessionId(t)
  PROVE  VisitInv'
<1> DEFINE id == Chosen(t)
           new == [id |-> id, last |-> visit.now]
           newest == IF id > visit.made THEN id ELSE visit.made
           stored == IF visit.works THEN new ELSE visit.stored
           mem == [visit.mem EXCEPT ![t] = new]
           last == [id |-> id, at |-> visit.now, tab |-> t]
<1>1. visit \in VisitRecord
  BY DEF VisitInv
<1>2. visit' = [visit EXCEPT !.made = newest, !.mem = mem, !.stored = stored, !.last = last]
  BY <1>1 DEF getSessionId, Chosen, Kept, VisitRecord
<1>3. id \in Nat /\ visit.now \in Int /\ visit.made \in Nat
  BY <1>1, ChosenFacts, VisitFields
<1>4. new \in KnownVisit /\ new.id = id /\ new.last = visit.now
  BY <1>3 DEF KnownVisit
<1>5. last \in [id : Nat, at : Int, tab : PageTabs]
      /\ last.id = id /\ last.at = visit.now /\ last.tab = t
  BY <1>3
<1> HIDE DEF id
<1>6. newest \in Nat /\ id <= newest /\ visit.made <= newest
  BY <1>3
<1> HIDE DEF new, newest, last
<1>7. /\ mem \in [PageTabs -> KnownVisit] /\ mem[t] = new
      /\ \A u \in PageTabs \ {t} : mem[u] = visit.mem[u]
      /\ stored \in KnownVisit
  BY <1>1, <1>4, VisitFields
<1>8. /\ visit.works => stored = new
      /\ ~visit.works => stored.id = 0
  BY DEF VisitInv
<1> HIDE DEF mem
<1>9. visit' \in VisitRecord
  <2> HIDE DEF stored
  <2> QED BY <1>1, <1>2, <1>5, <1>6, <1>7 DEF VisitRecord
<1>10. /\ visit'.made = newest /\ visit'.mem = mem /\ visit'.stored = stored
       /\ visit'.last = last /\ visit'.works = visit.works
  BY <1>1, <1>2 DEF VisitRecord
<1> HIDE DEF stored
<1>11. /\ ~visit'.works => visit'.stored.id = 0
       /\ visit'.stored.id # 0 =>
            visit'.stored.id = visit'.last.id /\ visit'.stored.last = visit'.last.at
  <2>1. CASE visit.works
    BY <2>1, <1>4, <1>5, <1>8, <1>10
  <2>2. CASE ~visit.works
    BY <2>2, <1>8, <1>10
  <2> QED BY <2>1, <2>2
<1>12. /\ visit'.mem[visit'.last.tab].id = visit'.last.id
       /\ visit'.mem[visit'.last.tab].last = visit'.last.at
  BY <1>4, <1>5, <1>7, <1>10
<1>13. visit'.stored.id <= visit'.made /\ visit'.last.id <= visit'.made
  <2>1. CASE visit.works
    BY <2>1, <1>4, <1>5, <1>6, <1>8, <1>10
  <2>2. CASE ~visit.works
    BY <2>2, <1>5, <1>6, <1>8, <1>10
  <2> QED BY <2>1, <2>2
<1>14. \A u \in PageTabs : visit'.mem[u].id <= visit'.made
  <2> TAKE u \in PageTabs
  <2>1. CASE u = t
    BY <2>1, <1>4, <1>6, <1>7, <1>10
  <2>2. CASE u # t
    <3>1. visit'.mem[u].id = visit.mem[u].id
      BY <2>2, <1>7, <1>10
    <3>2. visit.mem[u].id <= visit.made /\ visit.mem[u].id \in Nat /\ visit.made \in Nat
      BY <1>1, VisitFields DEF VisitInv
    <3> QED BY <3>1, <3>2, <1>6, <1>10
  <2> QED BY <2>1, <2>2
<1> QED BY <1>9, <1>11, <1>12, <1>13, <1>14 DEF VisitInv

(* The steps that report nothing leave last and made, and no record is new     *)
(* but an empty one.                                                        *)
LEMMA QuietPreserves ==
  ASSUME VisitInv,
         \/ clockTick \/ clockBack \/ clearStorage
         \/ \E t \in PageTabs : reloadTab(t)
  PROVE  VisitInv' /\ visit'.last = visit.last
<1>1. visit \in VisitRecord
  BY DEF VisitInv
<1>2. ASSUME NEW n \in Int, visit' = [visit EXCEPT !.now = n]
      PROVE  VisitInv' /\ visit'.last = visit.last
  <2>1. visit' \in VisitRecord
    BY <1>1, <1>2 DEF VisitRecord
  <2>2. /\ visit'.works = visit.works /\ visit'.stored = visit.stored
        /\ visit'.made = visit.made /\ visit'.mem = visit.mem /\ visit'.last = visit.last
    BY <1>1, <1>2 DEF VisitRecord
  <2> QED BY <2>1, <2>2 DEF VisitInv
<1>3. CASE clockTick \/ clockBack
  <2>1. visit.now + 1 \in Int /\ visit.now - 1 \in Int
    BY <1>1, VisitFields
  <2>2. \/ visit' = [visit EXCEPT !.now = visit.now + 1]
        \/ visit' = [visit EXCEPT !.now = visit.now - 1]
    BY <1>1, <1>3 DEF clockTick, clockBack, VisitRecord
  <2> QED BY <1>2, <2>1, <2>2
<1>4. CASE clearStorage
  <2>1. visit' = [visit EXCEPT !.stored = NoSession]
    BY <1>4 DEF clearStorage
  <2>2. visit' \in VisitRecord
    BY <1>1, <2>1, NoSessionFacts DEF VisitRecord
  <2>3. /\ visit'.works = visit.works /\ visit'.stored = NoSession
        /\ visit'.made = visit.made /\ visit'.mem = visit.mem /\ visit'.last = visit.last
    BY <1>1, <2>1 DEF VisitRecord
  <2>4. 0 <= visit.made
    BY <1>1, VisitFields
  <2> QED BY <2>2, <2>3, <2>4, NoSessionFacts DEF VisitInv
<1>5. ASSUME NEW t \in PageTabs, reloadTab(t)
      PROVE  VisitInv' /\ visit'.last = visit.last
  <2> DEFINE mem == [visit.mem EXCEPT ![t] = NoSession]
  <2>1. visit' = [visit EXCEPT !.mem = mem]
    BY <1>1, <1>5 DEF reloadTab, VisitRecord
  <2>2. /\ mem \in [PageTabs -> KnownVisit]
        /\ \A u \in PageTabs : mem[u] = IF u = t THEN NoSession ELSE visit.mem[u]
    BY <1>1, VisitFields, NoSessionFacts
  <2> HIDE DEF mem
  <2>3. visit' \in VisitRecord
    BY <1>1, <2>1, <2>2 DEF VisitRecord
  <2>4. /\ visit'.works = visit.works /\ visit'.stored = visit.stored
        /\ visit'.made = visit.made /\ visit'.mem = mem /\ visit'.last = visit.last
    BY <1>1, <2>1 DEF VisitRecord
  <2>5. 0 <= visit.made /\ visit.last.tab \in PageTabs
    BY <1>1, VisitFields
  <2>6. \A u \in PageTabs : visit'.mem[u].id <= visit'.made
    BY <2>2, <2>4, <2>5, NoSessionFacts DEF VisitInv
  <2>7. visit'.mem[visit'.last.tab].id # 0 =>
          /\ visit'.mem[visit'.last.tab].id = visit'.last.id
          /\ visit'.mem[visit'.last.tab].last = visit'.last.at
    BY <2>2, <2>4, <2>5, NoSessionFacts DEF VisitInv
  <2> QED BY <2>3, <2>4, <2>6, <2>7 DEF VisitInv
<1> QED BY <1>3, <1>4, <1>5

(* The rule for one call. *)
LEMMA SameVisit ==
  ASSUME VisitInv, NEW t \in PageTabs, visit.last.id # 0,
         visit.last.at <= visit.now, visit.mem[t].last <= visit.last.at,
         visit.stored.id = visit.last.id \/ (visit.last.tab = t /\ visit.mem[t].id # 0)
  PROVE  visit.last.id = Chosen(t) <=> visit.now - visit.last.at < SESSION_TIMEOUT
<1>1. visit \in VisitRecord
  BY DEF VisitInv
<1>2. /\ visit.now \in Int /\ visit.last.id \in Nat /\ visit.last.at \in Int
      /\ visit.stored.id \in Nat /\ visit.stored.last \in Int /\ visit.made \in Nat
      /\ visit.mem[t].id \in Nat /\ visit.mem[t].last \in Int /\ SESSION_TIMEOUT \in Nat
  BY <1>1, VisitFields, TrackerPageAssumption
<1>3. visit.stored.id # 0 =>
        visit.stored.id = visit.last.id /\ visit.stored.last = visit.last.at
  BY DEF VisitInv
<1>4. visit.last.tab = t /\ visit.mem[t].id # 0 =>
        visit.mem[t].id = visit.last.id /\ visit.mem[t].last = visit.last.at
  BY DEF VisitInv
<1>5. CASE visit.now - visit.last.at < SESSION_TIMEOUT
  <2>1. CASE Running(visit.stored)
    BY <1>3, <2>1 DEF Running, Chosen, Kept
  <2>2. CASE ~Running(visit.stored)
    <3>1. visit.stored.id # visit.last.id
      BY <1>2, <1>3, <1>5, <2>2 DEF Running
    <3>2. Running(visit.mem[t]) /\ visit.mem[t].id = visit.last.id
      BY <1>2, <1>4, <1>5, <3>1 DEF Running
    <3>3. Kept(t) = visit.mem[t]
      BY <2>2 DEF Kept
    <3>4. Chosen(t) = visit.last.id
      BY <3>2, <3>3 DEF Chosen
    <3> QED BY <1>5, <3>4
  <2>3. visit.last.id = Chosen(t)
    BY <2>1, <2>2, <1>5
  <2> QED BY <2>3, <1>5
<1>6. CASE ~(visit.now - visit.last.at < SESSION_TIMEOUT)
  <2>1. ~Running(visit.stored)
    BY <1>2, <1>3, <1>6 DEF Running
  <2>2. ~Running(visit.mem[t])
    BY <1>2, <1>6 DEF Running
  <2>3. Chosen(t) = visit.made + 1
    BY <2>1, <2>2 DEF Chosen, Kept
  <2>4. visit.last.id <= visit.made
    BY DEF VisitInv
  <2> QED BY <1>2, <1>6, <2>3, <2>4
<1> QED BY <1>5, <1>6

(* A report belongs to the visit of the report before it, in whichever tab,    *)
(* exactly when less than SESSION_TIMEOUT has passed: VisitRule.             *)
THEOREM VisitsSplitAtTimeout == VisitSpec => VisitRule
<1> DEFINE Rule == LET before == visit.last
                       after == visit'.last
                       known == \/ visit.stored.id = before.id
                                \/ before.tab = after.tab /\ visit.mem[after.tab].id # 0
                       forward == before.at <= after.at
                                  /\ visit.mem[after.tab].last <= before.at
                   IN before # after /\ before.id # 0 /\ forward /\ known =>
                        (before.id = after.id <=> after.at - before.at < SESSION_TIMEOUT)
<1>1. (\E works \in BOOLEAN : VisitInit(works)) => VisitInv
  BY VisitInitInv
<1>2. VisitInv /\ [VisitNext]_visit => VisitInv'
  <2>1. VisitInv /\ UNCHANGED visit => VisitInv'
    BY DEF VisitInv
  <2>2. VisitInv /\ VisitNext => VisitInv'
    BY GetSessionPreserves, QuietPreserves DEF VisitNext
  <2> QED BY <2>1, <2>2
<1>3. VisitInv /\ [VisitNext]_visit => [Rule]_visit
  <2> SUFFICES ASSUME VisitInv, VisitNext PROVE Rule
    BY DEF Rule
  <2>1. ASSUME NEW t \in PageTabs, getSessionId(t) PROVE Rule
    <3>1. visit'.last = [id |-> Chosen(t), at |-> visit.now, tab |-> t]
      BY <2>1 DEF getSessionId, Chosen, Kept, VisitInv, VisitRecord
    <3>2. visit'.last.id = Chosen(t) /\ visit'.last.at = visit.now /\ visit'.last.tab = t
      BY <3>1
    <3> QED BY <3>2, SameVisit
  <2>2. CASE \/ clockTick \/ clockBack \/ clearStorage
             \/ \E t \in PageTabs : reloadTab(t)
    BY <2>2, QuietPreserves
  <2> QED BY <2>1, <2>2 DEF VisitNext
<1>4. VisitSpec => [][Rule]_visit
  <2> HIDE DEF Rule
  <2> QED BY <1>1, <1>2, <1>3, PTL DEF VisitSpec
<1> QED BY <1>4 DEF VisitRule
=============================================================================
