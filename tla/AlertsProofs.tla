----------------------------- MODULE AlertsProofs -----------------------------
(***************************************************************************)
(* Proofs about what the dashboard watches and tells of: how checks become   *)
(* incidents and events (SiteChecks), for any sites, checks, LIMIT, failures *)
(* and restarts; how events leave the outbox (AlertOutbox), for any number   *)
(* of loops that drain it, any rules and any number of events and failures;  *)
(* and how monitors are checked while they are edited (Monitors), for any    *)
(* monitors, requests, intervals, times and failures.                       *)
(***************************************************************************)
EXTENDS Uptime, SequenceTheorems, TLAPS

-----------------------------------------------------------------------------
(* The outbox. *)

Holding(l) == pc[l] \in {"fire", "delete"}

(* FOR UPDATE SKIP LOCKED: no two transactions hold the same row. *)
OneHolder ==
  \A l, m \in Loops : Holding(l) /\ Holding(m) /\ held[l] = held[m] => l = m

(* What a transaction has done for the event that it holds. *)
Progress ==
  \A l \in Loops :
    /\ pc[l] = "delete" => events[held[l]].quiet
    /\ pc[l] = "fire" =>
         \A r \in Rules :
           /\ r \in todo[l] => got[r][held[l]] <= failed[held[l]]
           /\ r \notin todo[l] /\ Subscribes[r] = events[held[l]].kind
                => got[r][held[l]] > 0

(* Events that wait, and events to come, have only failed attempts behind   *)
(* them.                                                                    *)
Waiting ==
  \A id \in EventIds :
    (id \notin 1..Len(events) \/ id \in outbox) /\ (\A l \in Loops : held[l] # id)
      => \A r \in Rules : got[r][id] <= failed[id]

IInv ==
  /\ TypeOK /\ OneHolder /\ Progress /\ Waiting
  /\ NothingForgotten /\ RepeatsNeedFailures

-----------------------------------------------------------------------------
LEMMA InitIInv == Init => IInv
<1> SUFFICES ASSUME Init PROVE IInv
  OBVIOUS
<1>1. Len(events) = 0 /\ events \in Seq([kind : Kinds, quiet : BOOLEAN])
  BY EmptySeq DEF Init
<1>2. TypeOK
  BY <1>1, OutboxAssumption DEF Init, TypeOK, EventIds
<1>3. OneHolder /\ Progress
  BY DEF Init, OneHolder, Progress, Holding
<1>4. Waiting /\ RepeatsNeedFailures
  BY DEF Init, Waiting, RepeatsNeedFailures
<1>5. NothingForgotten
  BY <1>1 DEF NothingForgotten
<1>6. QED
  BY <1>2, <1>3, <1>4, <1>5 DEF IInv

(* Inserting an event makes the row with the next number and changes no    *)
(* other row.                                                              *)
LEMMA InsertStep ==
  ASSUME IInv, NEW k \in Kinds, NEW quiet \in BOOLEAN, Insert(k, quiet)
  PROVE  IInv'
<1> USE OutboxAssumption DEF IInv
<1> DEFINE n == Len(events)
<1>1. /\ n \in Nat /\ n < MaxEvents
      /\ events' \in Seq([kind : Kinds, quiet : BOOLEAN]) /\ Len(events') = n + 1
      /\ \A i \in 1..n : events'[i] = events[i]
  BY LenProperties, AppendProperties DEF Insert, TypeOK
<1>2. /\ outbox' = outbox \cup {n + 1}
      /\ UNCHANGED <<pc, held, todo, got, skipped, failed, faults>>
  BY DEF Insert
<1>3. outbox \subseteq 1..n
  BY DEF TypeOK
<1>4. TypeOK'
  <2>1. outbox' \subseteq 1..Len(events')
    <3>1. 1..n \subseteq 1..(n + 1) /\ n + 1 \in 1..(n + 1)
      BY <1>1
    <3>2. QED
      BY <1>1, <1>2, <1>3, <3>1
  <2>2. QED
    BY <1>1, <1>2, <2>1 DEF TypeOK
<1>5. OneHolder'
  BY <1>2 DEF OneHolder, Holding
<1>6. Progress'
  <2>1. \A l \in Loops : pc[l] \in {"fire", "delete"} => events'[held[l]] = events[held[l]]
    BY <1>1, <1>3 DEF TypeOK
  <2>2. QED
    BY <1>2, <2>1 DEF Progress
<1>7. Waiting'
  <2>1. ASSUME NEW id \in EventIds, \A l \in Loops : held[l] # id,
               id \notin 1..(n + 1) \/ id \in outbox \cup {n + 1}
        PROVE  id \notin 1..n \/ id \in outbox
    BY <1>1, <2>1
  <2>2. QED
    BY <1>1, <1>2, <2>1 DEF Waiting
<1>8. NothingForgotten'
  <2>1. (1..Len(events')) \ outbox' \subseteq (1..n) \ outbox
    BY <1>1, <1>2
  <2>2. QED
    BY <1>1, <1>2, <2>1 DEF NothingForgotten
<1>9. RepeatsNeedFailures'
  BY <1>2 DEF RepeatsNeedFailures
<1>10. QED
  BY <1>4, <1>5, <1>6, <1>7, <1>8, <1>9

(* Beginning and ending a drain locks nothing. *)
LEMMA IdleStep ==
  ASSUME IInv, NEW l \in Loops, StartDrain(l) \/ EndDrain(l)
  PROVE  IInv'
<1> USE DEF IInv
<1>1. /\ pc' \in {[pc EXCEPT ![l] = "drain"], [pc EXCEPT ![l] = "idle"]}
      /\ pc[l] \in {"idle", "drain"}
      /\ UNCHANGED <<events, outbox, held, todo, got, skipped, failed, faults>>
  BY DEF StartDrain, EndDrain
<1>2. TypeOK'
  BY <1>1 DEF TypeOK
<1>3. OneHolder' /\ Progress'
  BY <1>1 DEF TypeOK, OneHolder, Progress, Holding
<1>4. QED
  BY <1>1, <1>2, <1>3 DEF Waiting, NothingForgotten, RepeatsNeedFailures

LEMMA ClaimStep ==
  ASSUME IInv, NEW l \in Loops, Claim(l)
  PROVE  IInv'
<1> USE OutboxAssumption DEF IInv
<1>0. faults \in 0..MaxFaults /\ MaxFaults \in Nat
  BY DEF TypeOK
<1>1. PICK id \in Unlocked :
        /\ held' = [held EXCEPT ![l] = id]
        /\ \/ /\ events[id].quiet
              /\ pc' = [pc EXCEPT ![l] = "delete"]
              /\ UNCHANGED <<todo, faults>>
           \/ /\ IF events[id].quiet
                 THEN faults < MaxFaults /\ faults' = faults + 1
                 ELSE UNCHANGED faults
              /\ pc' = [pc EXCEPT ![l] = "fire"]
              /\ todo' = [todo EXCEPT ![l] = SubscribersOf(id)]
  BY DEF Claim
<1>a. faults' \in 0..MaxFaults
  <2>1. \/ faults' = faults
        \/ faults < MaxFaults /\ faults' = faults + 1
    BY <1>1
  <2>2. QED
    BY <1>0, <2>1
<1>2. /\ id \in outbox /\ \A m \in Loops : held[m] # id
      /\ id \in 1..Len(events) /\ id \in EventIds
  <2>1. id \in outbox /\ \A m \in Loops : held[m] # id
    BY DEF Unlocked
  <2>2. outbox \subseteq 1..Len(events) /\ Len(events) \in Nat /\ Len(events) <= MaxEvents
    BY LenProperties DEF TypeOK
  <2>3. id \in 1..Len(events)
    BY <2>1, <2>2
  <2>4. QED
    BY <2>1, <2>2, <2>3 DEF EventIds
<1>3. pc[l] = "drain" /\ UNCHANGED <<events, outbox, got, skipped, failed>>
  BY DEF Claim
<1>4. TypeOK'
  <2>1. held' \in [Loops -> 0..MaxEvents]
    BY <1>1, <1>2 DEF TypeOK, EventIds
  <2>2. pc' \in [Loops -> {"idle", "drain", "fire", "delete"}]
        /\ todo' \in [Loops -> SUBSET Rules]
    <3>1. SubscribersOf(id) \in SUBSET Rules
      BY DEF SubscribersOf
    <3>2. pc \in [Loops -> {"idle", "drain", "fire", "delete"}]
          /\ todo \in [Loops -> SUBSET Rules]
      BY DEF TypeOK
    <3>3. QED
      BY <1>1, <3>1, <3>2
  <2>3. \A m \in Loops : IF pc'[m] \in {"fire", "delete"}
                         THEN held'[m] \in outbox ELSE held'[m] = 0
    BY <1>1, <1>2 DEF TypeOK
  <2>4. QED
    BY <1>3, <1>a, <2>1, <2>2, <2>3 DEF TypeOK
<1>5. OneHolder'
  BY <1>1, <1>2, <1>3 DEF OneHolder, Holding, TypeOK
<1>6. \A r \in Rules : got[r][id] <= failed[id]
  BY <1>2 DEF Waiting
<1>7. Progress'
  <2>1. ASSUME NEW m \in Loops, m # l
        PROVE  pc'[m] = pc[m] /\ held'[m] = held[m] /\ todo'[m] = todo[m]
    BY <1>1, <2>1 DEF TypeOK
  <2>2. /\ held'[l] = id
        /\ \/ pc'[l] = "delete" /\ events[id].quiet
           \/ pc'[l] = "fire" /\ todo'[l] = SubscribersOf(id)
    BY <1>1 DEF TypeOK
  <2>3. \A r \in Rules : r \notin SubscribersOf(id) => Subscribes[r] # events[id].kind
    BY DEF SubscribersOf
  <2>4. QED
    BY <1>3, <1>6, <2>1, <2>2, <2>3 DEF Progress
<1>8. Waiting'
  <2>1. \A i \in EventIds : (\A m \in Loops : held'[m] # i) => \A m \in Loops : held[m] # i
    <3>1. held[l] = 0 /\ 0 \notin EventIds
      <4>1. 0 \notin EventIds
        BY DEF EventIds
      <4>2. IF pc[l] \in {"fire", "delete"} THEN held[l] \in outbox ELSE held[l] = 0
        BY DEF TypeOK
      <4>3. QED
        BY <1>3, <4>1, <4>2
    <3>2. \A m \in Loops : m # l => held'[m] = held[m]
      BY <1>1 DEF TypeOK
    <3>3. QED
      BY <3>1, <3>2
  <2>2. QED
    BY <1>3, <2>1 DEF Waiting
<1>9. QED
  BY <1>3, <1>4, <1>5, <1>7, <1>8 DEF NothingForgotten, RepeatsNeedFailures

(* The row a transaction holds is in the table, and no other one holds it. *)
LEMMA HeldFacts ==
  ASSUME IInv, NEW l \in Loops, Holding(l)
  PROVE  /\ held[l] \in outbox /\ held[l] \in EventIds /\ held[l] \in 1..Len(events)
         /\ \A m \in Loops : m # l => held[m] # held[l]
         /\ failed[held[l]] \in Nat
<1>1. held[l] \in outbox
  BY DEF IInv, TypeOK, Holding
<1>2. outbox \subseteq 1..Len(events) /\ Len(events) \in Nat /\ Len(events) <= MaxEvents
      /\ MaxEvents \in Nat
  BY LenProperties, OutboxAssumption DEF IInv, TypeOK
<1>3. held[l] \in 1..Len(events) /\ held[l] \in EventIds /\ held[l] # 0
  <2>1. \A n \in 1..Len(events) : n \in EventIds /\ n # 0
    BY <1>2 DEF EventIds
  <2>2. QED
    BY <1>1, <1>2, <2>1
<1>4. ASSUME NEW m \in Loops, m # l
      PROVE  held[m] # held[l]
  <2>1. IF pc[m] \in {"fire", "delete"} THEN held[m] \in outbox ELSE held[m] = 0
    BY DEF IInv, TypeOK
  <2>2. QED
    BY <1>3, <1>4, <2>1 DEF IInv, OneHolder, Holding
<1>5. failed[held[l]] \in Nat
  BY <1>3 DEF IInv, TypeOK
<1>6. QED
  BY <1>1, <1>3, <1>4, <1>5

(* A notification adds one to one counter. *)
LEMMA NotifyFacts ==
  ASSUME IInv, NEW r \in Rules, NEW id \in EventIds, Notify(r, id)
  PROVE  /\ got' \in [Rules -> [EventIds -> Nat]]
         /\ \A q \in Rules, i \in EventIds :
              got'[q][i] = IF q = r /\ i = id THEN got[q][i] + 1 ELSE got[q][i]
BY DEF IInv, TypeOK, Notify

LEMMA DeliverStep ==
  ASSUME IInv, NEW l \in Loops, Deliver(l)
  PROVE  IInv'
<1> DEFINE id == held[l]
<1>1. PICK r \in todo[l] : Notify(r, id) /\ todo' = [todo EXCEPT ![l] = @ \ {r}]
  BY DEF Deliver
<1>2. /\ pc[l] = "fire"
      /\ UNCHANGED <<events, outbox, pc, held, skipped, failed, faults>>
  BY DEF Deliver
<1>3. /\ id \in EventIds /\ \A m \in Loops : m # l => held[m] # id
      /\ failed[id] \in Nat
  BY <1>2, HeldFacts DEF Holding
<1>4. r \in Rules /\ todo \in [Loops -> SUBSET Rules]
  BY DEF IInv, TypeOK
<1>5. /\ got' \in [Rules -> [EventIds -> Nat]]
      /\ \A q \in Rules, i \in EventIds :
           got'[q][i] = IF q = r /\ i = id THEN got[q][i] + 1 ELSE got[q][i]
  BY <1>1, <1>3, <1>4, NotifyFacts
<1>6. \A q \in Rules, i \in EventIds : got[q][i] \in Nat /\ failed[i] \in Nat
  BY DEF IInv, TypeOK
<1> HIDE DEF id
<1>7. TypeOK'
  BY <1>1, <1>2, <1>4, <1>5 DEF IInv, TypeOK
<1>8. OneHolder'
  BY <1>2 DEF IInv, OneHolder, Holding
<1>9. Progress'
  <2>1. ASSUME NEW m \in Loops, pc[m] = "fire", NEW q \in Rules
        PROVE  /\ q \in todo'[m] => got'[q][held[m]] <= failed[held[m]]
               /\ q \notin todo'[m] /\ Subscribes[q] = events[held[m]].kind
                    => got'[q][held[m]] > 0
    <3>1. held[m] \in EventIds
      BY <2>1, HeldFacts DEF Holding
    <3>2. CASE m = l
      <4>1. todo'[m] = todo[m] \ {r} /\ held[m] = id
        BY <1>1, <1>4, <3>2 DEF id
      <4>2. QED
        BY <1>5, <1>6, <2>1, <3>1, <4>1 DEF IInv, Progress
    <3>3. CASE m # l
      <4>1. todo'[m] = todo[m] /\ got'[q][held[m]] = got[q][held[m]]
        BY <1>1, <1>3, <1>4, <1>5, <3>1, <3>3
      <4>2. QED
        BY <2>1, <4>1 DEF IInv, Progress
    <3>4. QED
      BY <3>2, <3>3
  <2>2. QED
    BY <1>2, <2>1 DEF IInv, Progress
<1>10. Waiting'
  <2>1. ASSUME NEW i \in EventIds, \A m \in Loops : held[m] # i, NEW q \in Rules
        PROVE  got'[q][i] = got[q][i]
    BY <1>5, <2>1 DEF id
  <2>2. QED
    BY <1>2, <2>1 DEF IInv, Waiting
<1>11. RepeatsNeedFailures'
  <2>1. got[r][id] <= failed[id]
    BY <1>1, <1>2, <1>4 DEF IInv, Progress, id
  <2>2. QED
    BY <1>2, <1>3, <1>4, <1>5, <1>6, <2>1 DEF IInv, RepeatsNeedFailures
<1>12. NothingForgotten'
  <2>1. \A q \in Rules, i \in EventIds : got[q][i] > 0 => got'[q][i] > 0
    BY <1>5, <1>6
  <2>2. (1..Len(events)) \subseteq EventIds
    BY LenProperties, OutboxAssumption DEF IInv, TypeOK, EventIds
  <2>3. QED
    BY <1>2, <2>1, <2>2 DEF IInv, NothingForgotten
<1>13. QED
  BY <1>7, <1>8, <1>9, <1>10, <1>11, <1>12 DEF IInv

(* A failed attempt unlocks the row, and is counted.  What a rule may have  *)
(* been told by then is covered by that count.                              *)
LEMMA GiveUpStep ==
  ASSUME IInv, NEW l \in Loops, Holding(l), GiveUp(l), UNCHANGED events,
         outbox' \in {outbox, outbox \ {held[l]}},
         skipped' \in {skipped, skipped \cup {held[l]}},
         UNCHANGED got \/ \E r \in todo[l] : pc[l] = "fire" /\ Notify(r, held[l]),
         NothingForgotten'
  PROVE  IInv'
<1> DEFINE id == held[l]
<1>1. /\ id \in EventIds /\ \A m \in Loops : m # l => held[m] # id
      /\ failed[id] \in Nat /\ failed \in [EventIds -> Nat]
  BY HeldFacts DEF IInv, TypeOK
<1>2. /\ pc' = [pc EXCEPT ![l] = "idle"] /\ held' = [held EXCEPT ![l] = 0]
      /\ todo' = [todo EXCEPT ![l] = {}] /\ failed' = [failed EXCEPT ![id] = @ + 1]
      /\ faults' = faults + 1 /\ faults < MaxFaults
  BY DEF GiveUp
<1>3. \A q \in Rules, i \in EventIds : got[q][i] \in Nat /\ failed[i] \in Nat
  BY DEF IInv, TypeOK
<1>4. /\ got' \in [Rules -> [EventIds -> Nat]]
      /\ \A q \in Rules, i \in EventIds : i # id => got'[q][i] = got[q][i]
      /\ \A q \in Rules : got[q][id] <= got'[q][id] /\ got'[q][id] <= failed[id] + 1
  <2>1. CASE UNCHANGED got
    BY <1>1, <1>3, <2>1 DEF IInv, TypeOK, RepeatsNeedFailures
  <2>2. ASSUME NEW r \in todo[l], pc[l] = "fire", Notify(r, id)
        PROVE  /\ got' \in [Rules -> [EventIds -> Nat]]
               /\ \A q \in Rules, i \in EventIds : i # id => got'[q][i] = got[q][i]
               /\ \A q \in Rules : got[q][id] <= got'[q][id] /\ got'[q][id] <= failed[id] + 1
    <3>1. r \in Rules /\ got[r][id] <= failed[id]
      BY <2>2 DEF IInv, TypeOK, Progress
    <3>2. \A q \in Rules : got[q][id] <= failed[id] + 1
      BY <1>1 DEF IInv, RepeatsNeedFailures
    <3>3. /\ got' \in [Rules -> [EventIds -> Nat]]
          /\ \A q \in Rules, i \in EventIds :
               got'[q][i] = IF q = r /\ i = id THEN got[q][i] + 1 ELSE got[q][i]
      BY <1>1, <2>2, <3>1, NotifyFacts
    <3> HIDE DEF id
    <3>4. QED
      BY <1>1, <1>3, <3>1, <3>2, <3>3
  <2>3. QED
    BY <2>1, <2>2
<1>5. /\ \A i \in EventIds : failed'[i] = IF i = id THEN failed[i] + 1 ELSE failed[i]
      /\ failed' \in [EventIds -> Nat]
  BY <1>1, <1>2
<1>6. \A m \in Loops : IF pc'[m] \in {"fire", "delete"} THEN held'[m] \in outbox' /\ m # l
                       ELSE held'[m] = 0
  BY <1>1, <1>2 DEF IInv, TypeOK
<1>7. TypeOK'
  <2>1. outbox' \subseteq 1..Len(events') /\ skipped' \subseteq EventIds
    BY <1>1 DEF IInv, TypeOK
  <2>2. /\ pc' \in [Loops -> {"idle", "drain", "fire", "delete"}]
        /\ todo' \in [Loops -> SUBSET Rules] /\ held' \in [Loops -> 0..MaxEvents]
    BY <1>2, OutboxAssumption DEF IInv, TypeOK
  <2>3. faults' \in 0..MaxFaults
    BY <1>2, OutboxAssumption DEF IInv, TypeOK
  <2>4. QED
    BY <1>4, <1>5, <1>6, <2>1, <2>2, <2>3 DEF IInv, TypeOK
<1>8. OneHolder'
  BY <1>2 DEF IInv, TypeOK, OneHolder, Holding
<1>9. ASSUME NEW m \in Loops, pc'[m] \in {"fire", "delete"}
      PROVE  /\ m # l /\ pc'[m] = pc[m] /\ held'[m] = held[m] /\ todo'[m] = todo[m]
             /\ held[m] \in EventIds /\ held[m] # id
  <2>1. m # l
    BY <1>6, <1>9
  <2>2. pc'[m] = pc[m] /\ held'[m] = held[m] /\ todo'[m] = todo[m]
    BY <1>2, <2>1 DEF IInv, TypeOK
  <2>3. Holding(m)
    BY <1>9, <2>2 DEF Holding
  <2>4. QED
    BY <1>1, <2>1, <2>2, <2>3, HeldFacts
<1> HIDE DEF id
<1>10. Progress'
  <2>1. ASSUME NEW m \in Loops
        PROVE  /\ pc'[m] = "delete" => events[held'[m]].quiet
               /\ pc'[m] = "fire" => \A r \in Rules :
                    /\ r \in todo'[m] => got'[r][held'[m]] <= failed'[held'[m]]
                    /\ r \notin todo'[m] /\ Subscribes[r] = events[held'[m]].kind
                         => got'[r][held'[m]] > 0
    <3>1. CASE pc'[m] \in {"fire", "delete"}
      <4>1. pc'[m] = pc[m] /\ held'[m] = held[m] /\ todo'[m] = todo[m]
            /\ failed'[held[m]] = failed[held[m]]
            /\ \A r \in Rules : got'[r][held[m]] = got[r][held[m]]
        BY <1>4, <1>5, <1>9, <3>1
      <4>2. QED
        BY <4>1 DEF IInv, Progress
    <3>2. CASE pc'[m] \notin {"fire", "delete"}
      BY <3>2
    <3>3. QED
      BY <3>1, <3>2
  <2>2. QED
    BY <2>1 DEF Progress
<1>11. Waiting'
  <2>1. ASSUME NEW i \in EventIds, \A m \in Loops : held'[m] # i,
               i \notin 1..Len(events) \/ i \in outbox', NEW r \in Rules
        PROVE  got'[r][i] <= failed'[i]
    <3>1. CASE i = id
      BY <1>1, <1>4, <1>5, <3>1
    <3>2. CASE i # id
      <4>1. \A m \in Loops : held[m] # i
        BY <1>2, <2>1, <3>2 DEF id, IInv, TypeOK
      <4>2. i \notin 1..Len(events) \/ i \in outbox
        BY <2>1
      <4>3. got[r][i] <= failed[i]
        BY <4>1, <4>2 DEF IInv, Waiting
      <4>4. QED
        BY <1>4, <1>5, <3>2, <4>3
    <3>3. QED
      BY <3>1, <3>2
  <2>2. QED
    BY <2>1 DEF Waiting
<1>12. RepeatsNeedFailures'
  <2>1. ASSUME NEW r \in Rules, NEW i \in EventIds
        PROVE  got'[r][i] <= 1 + failed'[i]
    <3>1. CASE i = id
      BY <1>1, <1>4, <1>5, <3>1
    <3>2. CASE i # id
      BY <1>4, <1>5, <3>2 DEF IInv, RepeatsNeedFailures
    <3>3. QED
      BY <3>1, <3>2
  <2>2. QED
    BY <2>1 DEF RepeatsNeedFailures
<1>13. QED
  BY <1>7, <1>8, <1>10, <1>11, <1>12 DEF IInv

Finished(l) == pc[l] = "delete" \/ (pc[l] = "fire" /\ todo[l] = {})

(* A row that is deleted was suppressed, or all its rules were notified. *)
LEMMA DeletedIsAccounted ==
  ASSUME IInv, NEW l \in Loops, Finished(l), UNCHANGED <<events, got>>,
         \/ UNCHANGED <<outbox, skipped>>
         \/ /\ outbox' = outbox \ {held[l]}
            /\ skipped' = IF pc[l] = "delete" THEN skipped \cup {held[l]} ELSE skipped
  PROVE  NothingForgotten'
<1>1. CASE UNCHANGED <<outbox, skipped>>
  BY <1>1 DEF IInv, NothingForgotten
<1>2. CASE /\ outbox' = outbox \ {held[l]}
           /\ skipped' = IF pc[l] = "delete" THEN skipped \cup {held[l]} ELSE skipped
  <2>1. \/ held[l] \in skipped' /\ events[held[l]].quiet
        \/ \A r \in Rules : Subscribes[r] = events[held[l]].kind => got[r][held[l]] > 0
    <3>1. CASE pc[l] = "delete"
      BY <1>2, <3>1 DEF IInv, Progress
    <3>2. CASE pc[l] = "fire" /\ todo[l] = {}
      BY <3>2 DEF IInv, Progress
    <3>3. QED
      BY <3>1, <3>2 DEF Finished
  <2>2. skipped \subseteq skipped'
    BY <1>2
  <2>3. ASSUME NEW i \in (1..Len(events)) \ outbox', i # held[l]
        PROVE  \/ i \in skipped' /\ events[i].quiet
               \/ \A r \in Rules : Subscribes[r] = events[i].kind => got[r][i] > 0
    BY <1>2, <2>2, <2>3 DEF IInv, NothingForgotten
  <2>4. QED
    BY <2>1, <2>3 DEF NothingForgotten
<1>3. QED
  BY <1>1, <1>2

LEMMA DeleteStep ==
  ASSUME IInv, NEW l \in Loops, Delete(l)
  PROVE  IInv'
<1> DEFINE id == held[l]
<1>1. /\ outbox' = outbox \ {id} /\ pc' = [pc EXCEPT ![l] = "drain"]
      /\ held' = [held EXCEPT ![l] = 0]
      /\ skipped' = IF pc[l] = "delete" THEN skipped \cup {id} ELSE skipped
      /\ UNCHANGED <<events, todo, got, failed, faults>>
      /\ Finished(l) /\ Holding(l)
  BY DEF Delete, Finished, Holding
<1>2. id \in EventIds /\ id \in 1..Len(events) /\ \A m \in Loops : m # l => held[m] # id
  BY <1>1, HeldFacts
<1>3. NothingForgotten'
  BY <1>1, DeletedIsAccounted
<1>4. TypeOK'
  <2>1. outbox' \subseteq 1..Len(events') /\ skipped' \subseteq EventIds
    BY <1>1, <1>2 DEF IInv, TypeOK
  <2>2. \A m \in Loops : IF pc'[m] \in {"fire", "delete"} THEN held'[m] \in outbox'
                         ELSE held'[m] = 0
    BY <1>1, <1>2 DEF IInv, TypeOK
  <2>3. held' \in [Loops -> 0..MaxEvents]
    BY <1>1, OutboxAssumption DEF IInv, TypeOK
  <2>4. QED
    BY <1>1, <2>1, <2>2, <2>3 DEF IInv, TypeOK
<1>5. OneHolder'
  BY <1>1 DEF IInv, TypeOK, OneHolder, Holding
<1>6. Progress'
  BY <1>1 DEF IInv, TypeOK, Progress
<1>7. Waiting'
  <2>1. ASSUME NEW i \in EventIds, \A m \in Loops : held'[m] # i,
               i \notin 1..Len(events) \/ i \in outbox'
        PROVE  (i \notin 1..Len(events) \/ i \in outbox) /\ \A m \in Loops : held[m] # i
    BY <1>1, <1>2, <2>1 DEF IInv, TypeOK
  <2>2. QED
    BY <1>1, <2>1 DEF IInv, Waiting
<1>8. RepeatsNeedFailures'
  BY <1>1 DEF IInv, RepeatsNeedFailures
<1>9. QED
  BY <1>3, <1>4, <1>5, <1>6, <1>7, <1>8 DEF IInv

LEMMA DeliverFailsStep ==
  ASSUME IInv, NEW l \in Loops, DeliverFails(l)
  PROVE  IInv'
<1>1. /\ Holding(l) /\ GiveUp(l) /\ UNCHANGED <<events, outbox, skipped>>
      /\ UNCHANGED got \/ \E r \in todo[l] : pc[l] = "fire" /\ Notify(r, held[l])
  BY DEF DeliverFails, Holding
<1>2. \A q \in Rules, i \in EventIds : got[q][i] > 0 => got'[q][i] > 0
  <2>1. held[l] \in EventIds /\ \A q \in Rules, i \in EventIds : got[q][i] \in Nat
    BY <1>1, HeldFacts DEF IInv, TypeOK
  <2>2. CASE UNCHANGED got
    BY <2>2
  <2>3. ASSUME NEW r \in todo[l], Notify(r, held[l])
        PROVE  \A q \in Rules, i \in EventIds : got[q][i] > 0 => got'[q][i] > 0
    <3>1. r \in Rules
      BY DEF IInv, TypeOK
    <3>2. \A q \in Rules, i \in EventIds :
            got'[q][i] = IF q = r /\ i = held[l] THEN got[q][i] + 1 ELSE got[q][i]
      BY <2>1, <2>3, <3>1, NotifyFacts
    <3>3. QED
      BY <2>1, <3>2
  <2>4. QED
    BY <1>1, <2>2, <2>3
<1>3. (1..Len(events)) \subseteq EventIds
  BY LenProperties, OutboxAssumption DEF IInv, TypeOK, EventIds
<1>4. NothingForgotten'
  BY <1>1, <1>2, <1>3 DEF IInv, NothingForgotten
<1>5. QED
  BY <1>1, <1>4, GiveUpStep

LEMMA DeleteFailsStep ==
  ASSUME IInv, NEW l \in Loops, DeleteFails(l)
  PROVE  IInv'
<1>1. /\ Holding(l) /\ Finished(l) /\ GiveUp(l) /\ UNCHANGED <<events, got>>
      /\ \/ UNCHANGED <<outbox, skipped>>
         \/ /\ outbox' = outbox \ {held[l]}
            /\ skipped' = IF pc[l] = "delete" THEN skipped \cup {held[l]} ELSE skipped
  BY DEF DeleteFails, Holding, Finished
<1>2. NothingForgotten'
  BY <1>1, DeletedIsAccounted
<1>3. outbox' \in {outbox, outbox \ {held[l]}} /\ skipped' \in {skipped, skipped \cup {held[l]}}
  BY <1>1
<1>4. QED
  BY <1>1, <1>2, <1>3, GiveUpStep

LEMMA RestartStep ==
  ASSUME IInv, Restart
  PROVE  IInv'
<1>1. /\ pc' = [l \in Loops |-> "idle"] /\ held' = [l \in Loops |-> 0]
      /\ todo' = [l \in Loops |-> {}] /\ faults < MaxFaults /\ faults' = faults + 1
      /\ failed' = [i \in EventIds |->
           IF \E l \in Loops : held[l] = i THEN failed[i] + 1 ELSE failed[i]]
      /\ UNCHANGED <<events, outbox, got, skipped>>
  BY DEF Restart
<1>2. \A i \in EventIds : failed[i] \in Nat /\ \A r \in Rules : got[r][i] \in Nat
  BY DEF IInv, TypeOK
<1>3. failed' \in [EventIds -> Nat]
  BY <1>1, <1>2
<1>4. TypeOK'
  BY <1>1, <1>3, OutboxAssumption DEF IInv, TypeOK
<1>5. OneHolder' /\ Progress'
  BY <1>1 DEF OneHolder, Holding, Progress
<1>6. RepeatsNeedFailures'
  BY <1>1, <1>2 DEF IInv, RepeatsNeedFailures
<1>7. Waiting'
  <2>1. ASSUME NEW i \in EventIds, i \notin 1..Len(events) \/ i \in outbox, NEW r \in Rules
        PROVE  got[r][i] <= failed'[i]
    <3>1. CASE \E l \in Loops : held[l] = i
      BY <1>1, <1>2, <3>1 DEF IInv, RepeatsNeedFailures
    <3>2. CASE \A l \in Loops : held[l] # i
      <4>1. failed'[i] = failed[i]
        BY <1>1, <3>2
      <4>2. QED
        BY <2>1, <3>2, <4>1 DEF IInv, Waiting
    <3>3. QED
      BY <3>1, <3>2
  <2>2. QED
    BY <1>1, <2>1 DEF Waiting
<1>8. NothingForgotten'
  BY <1>1 DEF IInv, NothingForgotten
<1>9. QED
  BY <1>4, <1>5, <1>6, <1>7, <1>8 DEF IInv

(* Inductive invariant: what the theorems below rest on. *)
THEOREM Inductive == Spec => []IInv
<1>1. ASSUME IInv, [Next]_vars
      PROVE  IInv'
  <2>1. CASE UNCHANGED vars
    BY <1>1, <2>1 DEF vars, IInv, TypeOK, OneHolder, Holding, Progress, Waiting,
       NothingForgotten, RepeatsNeedFailures
  <2>2. CASE Next
    BY <1>1, <2>2, InsertStep, IdleStep, ClaimStep, DeliverStep, DeliverFailsStep,
       DeleteStep, DeleteFailsStep, RestartStep DEF Next
  <2>3. QED
    BY <1>1, <2>1, <2>2
<1>2. QED
  BY InitIInv, <1>1, PTL DEF Spec

(* Type correctness; in particular the row a transaction has locked is not *)
(* deleted under it.                                                       *)
THEOREM TypeCorrect == Spec => []TypeOK
BY Inductive, PTL DEF IInv

(* The outbox loses no event, however many loops drain it and whichever     *)
(* deliveries, commits and restarts fail.                                   *)
THEOREM LosesNothing == Spec => []NothingForgotten
BY Inductive, PTL DEF IInv

(* Draining concurrently never notifies twice: every repetition follows a  *)
(* failed attempt at the same event.                                       *)
THEOREM RepeatsAreRetries == Spec => []RepeatsNeedFailures
BY Inductive, PTL DEF IInv

-----------------------------------------------------------------------------
(* From checks to incidents and events. *)

(* The status of the last of n checks, none before the first. *)
LastOf(q, n) == IF n = 0 THEN "" ELSE q[n]

(* What the state row of a site and its incidents and events say of its first *)
(* n checks.  That an incident is open exactly while the site is known to be  *)
(* down is what makes the next transition hit the right one.                *)
Agree(q, n, previous, rows, told) ==
  /\ n \in 0..Len(q)
  /\ previous = LastOf(q, n)
  /\ rows = Outages(q, n)
  /\ (\E r \in rows : r.to = 0) <=> previous = "down"
  /\ Range(told) = Transitions(q, n)
  /\ \A i, j \in DOMAIN told : i < j => told[i].at < told[j].at

(* The same of the rows and of the transaction, which has still to look at    *)
(* the checks from its cursor to the last that it has read.                 *)
RowsAgreed ==
  \A s \in Sites : Agree(checks[s], cursor[s], status[s], incidents[s], reported[s])

TxAgreed ==
  \A t \in tx :
    /\ Agree(checks[t.site], t.cursor, t.previous, t.incidents, t.reported)
    /\ \E last \in t.cursor..Len(checks[t.site]) : t.left = (t.cursor + 1)..last

(* A round of the uptime loop was begun for sites that have room for a check. *)
RoomLeft == \A s \in checking : Len(checks[s]) < MaxChecks

SitesInv == ChecksTypeOK /\ RoomLeft /\ RowsAgreed /\ TxAgreed

-----------------------------------------------------------------------------
(* The event of a check is the transition that it makes. *)
LEMMA EventOfCheck ==
  ASSUME NEW q \in Seq(Statuses), NEW n \in Nat, n < Len(q)
  PROVE  /\ siteTransition(LastOf(q, n), q[n + 1]) \in {"", "site_down", "site_up"}
         /\ siteTransition(LastOf(q, n), q[n + 1]) = "site_down" <=> WentDown(q, n + 1)
         /\ siteTransition(LastOf(q, n), q[n + 1]) = "site_up" <=> WentUp(q, n + 1)
<1>1. q[n + 1] \in {"up", "down"} /\ (n # 0 => q[n] \in {"up", "down"})
  <2>1. n + 1 \in 1..Len(q) /\ (n # 0 => n \in 1..Len(q))
    BY LenProperties
  <2>2. QED
    BY <2>1, ElementOfSeq DEF Statuses
<1>2. CASE n = 0
  <2>1. n + 1 = 1 /\ ~(n + 1 > 1)
    BY <1>2
  <2>2. QED
    BY <1>1, <1>2, <2>1 DEF LastOf, siteTransition, WentDown, WentUp
<1>3. CASE n # 0
  <2>1. (n + 1) - 1 = n /\ n + 1 # 1 /\ n + 1 > 1
    BY <1>3
  <2>2. QED
    BY <1>1, <1>3, <2>1 DEF LastOf, siteTransition, WentDown, WentUp
<1>4. QED
  BY <1>2, <1>3

(* Where an outage is over after one more check. *)
LEMMA OverAtNext ==
  ASSUME NEW q, NEW n \in Nat, NEW i \in 1..n, NEW j \in 0..(n + 1)
  PROVE  /\ WentUp(q, n + 1) =>
              (OverAt(q, n + 1, i, j)
                 <=> \/ j \in 1..n /\ OverAt(q, n, i, j)
                     \/ j = n + 1 /\ OverAt(q, n, i, 0))
         /\ ~WentUp(q, n + 1) =>
              (OverAt(q, n + 1, i, j) <=> j \in 0..n /\ OverAt(q, n, i, j))
<1>1. \A k : k \in i..(n + 1) <=> k \in i..n \/ k = n + 1
  OBVIOUS
<1>2. (n + 1) - 1 = n /\ n + 1 # 0 /\ 0 \notin i..n /\ n + 1 \notin i..n
  OBVIOUS
<1>3. CASE j = 0
  BY <1>1, <1>2, <1>3 DEF OverAt
<1>4. CASE j = n + 1
  BY <1>1, <1>2, <1>4 DEF OverAt
<1>5. CASE j \in 1..n
  <2>1. j # 0 /\ j # n + 1 /\ j \in 0..n
    BY <1>5
  <2>2. j \in i..(n + 1) <=> j \in i..n
    BY <1>1, <2>1
  <2>3. QED
    BY <1>5, <2>1, <2>2 DEF OverAt
<1>6. QED
  BY <1>3, <1>4, <1>5

(* A check that changes nothing neither begins nor ends an outage. *)
LEMMA OutagesQuiet ==
  ASSUME NEW q, NEW n \in Nat, ~WentDown(q, n + 1), ~WentUp(q, n + 1)
  PROVE  Outages(q, n + 1) = Outages(q, n)
<1>1. ASSUME NEW r PROVE r \in Outages(q, n + 1) <=> r \in Outages(q, n)
  <2>1. CASE r \in Outages(q, n + 1)
    <3>1. r \in [from : 1..(n + 1), to : 0..(n + 1)]
          /\ WentDown(q, r.from) /\ OverAt(q, n + 1, r.from, r.to)
      BY <2>1 DEF Outages
    <3>2. r.from \in 1..n /\ r.to \in 0..(n + 1)
      BY <3>1
    <3>3. r.to \in 0..n /\ OverAt(q, n, r.from, r.to)
      BY <3>1, <3>2, OverAtNext
    <3>4. r \in [from : 1..n, to : 0..n]
      BY <3>1, <3>2, <3>3
    <3>5. QED
      BY <2>1, <3>1, <3>3, <3>4 DEF Outages
  <2>2. CASE r \in Outages(q, n)
    <3>1. r \in [from : 1..n, to : 0..n]
          /\ WentDown(q, r.from) /\ OverAt(q, n, r.from, r.to)
      BY <2>2 DEF Outages
    <3>2. r.from \in 1..n /\ r.to \in 0..n /\ r.to \in 0..(n + 1)
          /\ r \in [from : 1..(n + 1), to : 0..(n + 1)]
      BY <3>1
    <3>3. OverAt(q, n + 1, r.from, r.to)
      BY <3>1, <3>2, OverAtNext
    <3>4. QED
      BY <2>2, <3>1, <3>2, <3>3 DEF Outages
  <2>3. QED
    BY <2>1, <2>2
<1>2. QED
  BY <1>1

(* A check that fails first begins an outage that is not over. *)
LEMMA OutagesDown ==
  ASSUME NEW q, NEW n \in Nat, WentDown(q, n + 1)
  PROVE  Outages(q, n + 1) = Outages(q, n) \cup {[from |-> n + 1, to |-> 0]}
<1>1. ~WentUp(q, n + 1)
  BY DEF WentDown, WentUp
<1>2. OverAt(q, n + 1, n + 1, 0)
  <2>1. \A k \in (n + 1)..(n + 1) : k = n + 1
    OBVIOUS
  <2>2. QED
    BY <1>1, <2>1 DEF OverAt
<1>3. ASSUME NEW j, OverAt(q, n + 1, n + 1, j) PROVE j = 0
  <2>1. \A k \in (n + 1)..(n + 1) : k = n + 1
    OBVIOUS
  <2>2. QED
    BY <1>1, <1>3, <2>1 DEF OverAt
<1> DEFINE new == [from |-> n + 1, to |-> 0]
<1>4. new \in Outages(q, n + 1)
  <2>1. new \in [from : 1..(n + 1), to : 0..(n + 1)] /\ new.from = n + 1 /\ new.to = 0
    OBVIOUS
  <2>2. QED
    BY <1>2, <2>1 DEF Outages
<1>5. ASSUME NEW r \in Outages(q, n + 1) PROVE r \in Outages(q, n) \/ r = new
  <2>1. r \in [from : 1..(n + 1), to : 0..(n + 1)]
        /\ WentDown(q, r.from) /\ OverAt(q, n + 1, r.from, r.to)
    BY DEF Outages
  <2>2. CASE r.from = n + 1
    <3>1. r.to = 0
      BY <1>3, <2>1, <2>2
    <3>2. QED
      BY <2>1, <2>2, <3>1
  <2>3. CASE r.from # n + 1
    <3>1. r.from \in 1..n /\ r.to \in 0..(n + 1)
      BY <2>1, <2>3
    <3>2. r.to \in 0..n /\ OverAt(q, n, r.from, r.to)
      BY <1>1, <2>1, <3>1, OverAtNext
    <3>3. r \in [from : 1..n, to : 0..n]
      BY <2>1, <3>1, <3>2
    <3>4. QED
      BY <2>1, <3>2, <3>3 DEF Outages
  <2>4. QED
    BY <2>2, <2>3
<1>6. ASSUME NEW r \in Outages(q, n) PROVE r \in Outages(q, n + 1)
  <2>1. r \in [from : 1..n, to : 0..n]
        /\ WentDown(q, r.from) /\ OverAt(q, n, r.from, r.to)
    BY DEF Outages
  <2>2. r.from \in 1..n /\ r.to \in 0..n /\ r.to \in 0..(n + 1)
        /\ r \in [from : 1..(n + 1), to : 0..(n + 1)]
    BY <2>1
  <2>3. OverAt(q, n + 1, r.from, r.to)
    BY <1>1, <2>1, <2>2, OverAtNext
  <2>4. QED
    BY <2>1, <2>2, <2>3 DEF Outages
<1>7. QED
  BY <1>4, <1>5, <1>6

(* A check that succeeds again ends the outages that were not over. *)
LEMMA OutagesUp ==
  ASSUME NEW q, NEW n \in Nat, WentUp(q, n + 1)
  PROVE  Outages(q, n + 1)
           = {IF r.to = 0 THEN [r EXCEPT !.to = n + 1] ELSE r : r \in Outages(q, n)}
<1>1. ~WentDown(q, n + 1)
  BY DEF WentDown, WentUp
<1> DEFINE Closed(r) == IF r.to = 0 THEN [r EXCEPT !.to = n + 1] ELSE r
<1>2. ASSUME NEW r \in Outages(q, n) PROVE Closed(r) \in Outages(q, n + 1)
  <2>1. r \in [from : 1..n, to : 0..n]
        /\ WentDown(q, r.from) /\ OverAt(q, n, r.from, r.to)
    BY DEF Outages
  <2>2. r.from \in 1..n /\ r.to \in 0..n
    BY <2>1
  <2>3. CASE r.to = 0
    <3>1. Closed(r) = [from |-> r.from, to |-> n + 1]
      BY <2>1, <2>3
    <3>2. OverAt(q, n + 1, r.from, n + 1)
      BY <2>1, <2>2, <2>3, OverAtNext
    <3>3. Closed(r) \in [from : 1..(n + 1), to : 0..(n + 1)]
          /\ Closed(r).from = r.from /\ Closed(r).to = n + 1
      BY <2>2, <3>1
    <3> HIDE DEF Closed
    <3>4. QED
      BY <2>1, <3>2, <3>3 DEF Outages
  <2>4. CASE r.to # 0
    <3>1. Closed(r) = r /\ r \in [from : 1..(n + 1), to : 0..(n + 1)] /\ r.to \in 1..n
          /\ r.to \in 0..(n + 1)
      BY <2>1, <2>2, <2>4
    <3>2. OverAt(q, n + 1, r.from, r.to)
      BY <2>1, <2>2, <3>1, OverAtNext
    <3>3. QED
      BY <2>1, <3>1, <3>2 DEF Outages
  <2>5. QED
    BY <2>3, <2>4
<1>3. ASSUME NEW u \in Outages(q, n + 1)
      PROVE  \E r \in Outages(q, n) : u = Closed(r)
  <2>1. u \in [from : 1..(n + 1), to : 0..(n + 1)]
        /\ WentDown(q, u.from) /\ OverAt(q, n + 1, u.from, u.to)
    BY DEF Outages
  <2>2. u.from # n + 1
    BY <1>1, <2>1
  <2>3. u.from \in 1..n /\ u.to \in 0..(n + 1)
    BY <2>1, <2>2
  <2>4. \/ u.to \in 1..n /\ OverAt(q, n, u.from, u.to)
        \/ u.to = n + 1 /\ OverAt(q, n, u.from, 0)
    BY <2>1, <2>3, OverAtNext
  <2>5. CASE u.to \in 1..n /\ OverAt(q, n, u.from, u.to)
    <3>1. u \in [from : 1..n, to : 0..n] /\ Closed(u) = u
      BY <2>1, <2>3, <2>5
    <3>2. u \in Outages(q, n)
      BY <2>1, <2>5, <3>1 DEF Outages
    <3>3. QED
      BY <3>1, <3>2
  <2>6. CASE u.to = n + 1 /\ OverAt(q, n, u.from, 0)
    <3> DEFINE r == [from |-> u.from, to |-> 0]
    <3>1. r \in [from : 1..n, to : 0..n] /\ r.from = u.from /\ r.to = 0
      BY <2>3
    <3>2. Closed(r) = u
      BY <2>1, <2>6
    <3> HIDE DEF r, Closed
    <3>3. r \in Outages(q, n)
      BY <2>1, <2>6, <3>1 DEF Outages
    <3>4. QED
      BY <3>2, <3>3
  <2>7. QED
    BY <2>4, <2>5, <2>6
<1> HIDE DEF Closed
<1>4. Outages(q, n + 1) = {Closed(r) : r \in Outages(q, n)}
  BY <1>2, <1>3
<1>5. QED
  BY <1>4 DEF Closed

(* An event more for a check that is a transition. *)
LEMMA TransitionsNext ==
  ASSUME NEW q, NEW n \in Nat, NEW e
  PROVE  e \in Transitions(q, n + 1)
           <=> \/ e \in Transitions(q, n)
               \/ e = [event |-> "site_down", at |-> n + 1] /\ WentDown(q, n + 1)
               \/ e = [event |-> "site_up", at |-> n + 1] /\ WentUp(q, n + 1)
<1>1. \A k : k \in 1..(n + 1) <=> k \in 1..n \/ k = n + 1
  OBVIOUS
<1>2. n + 1 \notin 1..n
  OBVIOUS
<1>3. CASE e \in [event : {"site_down", "site_up"}, at : 1..n]
  <2>1. e \in [event : {"site_down", "site_up"}, at : 1..(n + 1)] /\ e.at # n + 1
    BY <1>1, <1>2, <1>3
  <2>2. QED
    BY <1>3, <2>1 DEF Transitions
<1>4. CASE e = [event |-> "site_down", at |-> n + 1]
  <2>1. e \in [event : {"site_down", "site_up"}, at : 1..(n + 1)]
        /\ e.event = "site_down" /\ e.at = n + 1
    BY <1>1, <1>4
  <2>2. e \notin Transitions(q, n) /\ e # [event |-> "site_up", at |-> n + 1]
    BY <1>2, <1>4, <2>1 DEF Transitions
  <2>3. QED
    BY <1>4, <2>1, <2>2 DEF Transitions
<1>5. CASE e = [event |-> "site_up", at |-> n + 1]
  <2>1. e \in [event : {"site_down", "site_up"}, at : 1..(n + 1)]
        /\ e.event = "site_up" /\ e.at = n + 1
    BY <1>1, <1>5
  <2>2. e \notin Transitions(q, n) /\ e # [event |-> "site_down", at |-> n + 1]
    BY <1>2, <1>5, <2>1 DEF Transitions
  <2>3. QED
    BY <1>5, <2>1, <2>2 DEF Transitions
<1>6. CASE /\ e \notin [event : {"site_down", "site_up"}, at : 1..n]
           /\ e # [event |-> "site_down", at |-> n + 1]
           /\ e # [event |-> "site_up", at |-> n + 1]
  <2>1. e \notin [event : {"site_down", "site_up"}, at : 1..(n + 1)]
    BY <1>1, <1>6
  <2>2. QED
    BY <1>6, <2>1 DEF Transitions
<1>7. QED
  BY <1>3, <1>4, <1>5, <1>6

(* What a check does to the incidents. *)
RowsAfter(rows, event, id) ==
  IF event = "" THEN rows ELSE trackSiteIncidentTx(rows, event, id)

LEMMA IncidentsFollow ==
  ASSUME NEW q \in Seq(Statuses), NEW n \in Nat, n < Len(q), NEW rows,
         rows = Outages(q, n),
         (\E r \in rows : r.to = 0) <=> LastOf(q, n) = "down",
         NEW after,
         after = RowsAfter(rows, siteTransition(LastOf(q, n), q[n + 1]), n + 1)
  PROVE  /\ after = Outages(q, n + 1)
         /\ (\E r \in after : r.to = 0) <=> q[n + 1] = "down"
<1> DEFINE event == siteTransition(LastOf(q, n), q[n + 1])
<1>1. /\ event \in {"", "site_down", "site_up"}
      /\ event = "site_down" <=> WentDown(q, n + 1)
      /\ event = "site_up" <=> WentUp(q, n + 1)
  BY EventOfCheck
<1>2. \A r \in rows : r \in [from : 1..n, to : 0..n]
  BY DEF Outages
<1>3. CASE event = ""
  <2>1. ~WentDown(q, n + 1) /\ ~WentUp(q, n + 1)
    BY <1>1, <1>3
  <2>2. after = rows
    BY <1>3 DEF RowsAfter
  <2>3. LastOf(q, n) = "down" <=> q[n + 1] = "down"
    <3>1. n + 1 \in 1..Len(q)
      BY LenProperties
    <3>2. q[n + 1] \in {"up", "down"}
      BY <3>1, ElementOfSeq DEF Statuses
    <3>3. QED
      BY <1>3, <3>2 DEF siteTransition
  <2>4. QED
    BY <2>1, <2>2, <2>3, OutagesQuiet
<1>4. CASE event = "site_down"
  <2>1. q[n + 1] = "down" /\ LastOf(q, n) # "down"
    BY <1>1, <1>4 DEF WentDown, siteTransition
  <2>2. after = rows \cup {[from |-> n + 1, to |-> 0]}
    BY <1>4, <2>1 DEF RowsAfter, trackSiteIncidentTx
  <2>3. after = Outages(q, n + 1)
    BY <1>1, <1>4, <2>2, OutagesDown
  <2>4. [from |-> n + 1, to |-> 0].to = 0
    OBVIOUS
  <2>5. QED
    BY <2>1, <2>2, <2>3, <2>4
<1>5. CASE event = "site_up"
  <2>1. q[n + 1] = "up"
    BY <1>1, <1>5 DEF WentUp
  <2>2. after = {IF r.to = 0 THEN [r EXCEPT !.to = n + 1] ELSE r : r \in rows}
    BY <1>5 DEF RowsAfter, trackSiteIncidentTx
  <2>3. after = Outages(q, n + 1)
    BY <1>1, <1>5, <2>2, OutagesUp
  <2>4. ASSUME NEW r \in after PROVE r.to # 0
    <3>1. PICK u \in rows : r = IF u.to = 0 THEN [u EXCEPT !.to = n + 1] ELSE u
      BY <2>2
    <3>2. CASE u.to = 0
      <4>1. r.to = n + 1
        BY <1>2, <3>1, <3>2
      <4>2. QED
        BY <4>1
    <3>3. CASE u.to # 0
      BY <3>1, <3>3
    <3>4. QED
      BY <3>2, <3>3
  <2>5. QED
    BY <2>1, <2>3, <2>4
<1>6. QED
  BY <1>1, <1>3, <1>4, <1>5

(* What it does to the events. *)
LEMMA OneMore ==
  ASSUME NEW S, NEW s \in Seq(S), NEW e \in S
  PROVE  /\ Append(s, e) \in Seq(S)
         /\ Len(Append(s, e)) = Len(s) + 1 /\ Len(s) \in Nat
         /\ \A i \in 1..Len(s) : Append(s, e)[i] = s[i]
         /\ Append(s, e)[Len(s) + 1] = e
         /\ DOMAIN s = 1..Len(s) /\ DOMAIN Append(s, e) = 1..(Len(s) + 1)
BY AppendProperties, LenProperties

ToldAfter(told, event, id) ==
  IF event = "" THEN told ELSE Append(told, [event |-> event, at |-> id])

LEMMA EventsFollow ==
  ASSUME NEW q \in Seq(Statuses), NEW n \in Nat, n < Len(q), Len(q) <= MaxChecks,
         NEW told \in Seq(Event), Range(told) = Transitions(q, n),
         \A i, j \in DOMAIN told : i < j => told[i].at < told[j].at,
         NEW after,
         after = ToldAfter(told, siteTransition(LastOf(q, n), q[n + 1]), n + 1)
  PROVE  /\ after \in Seq(Event)
         /\ Range(after) = Transitions(q, n + 1)
         /\ \A i, j \in DOMAIN after : i < j => after[i].at < after[j].at
<1> DEFINE event == siteTransition(LastOf(q, n), q[n + 1])
           e == [event |-> event, at |-> n + 1]
<1>1. /\ event \in {"", "site_down", "site_up"}
      /\ event = "site_down" <=> WentDown(q, n + 1)
      /\ event = "site_up" <=> WentUp(q, n + 1)
  BY EventOfCheck
<1> HIDE DEF event
<1>2. CASE event = ""
  <2>1. after = told
    BY <1>2 DEF ToldAfter, event
  <2>2. \A u : u \in Transitions(q, n + 1) <=> u \in Transitions(q, n)
    BY <1>1, <1>2, TransitionsNext
  <2>3. QED
    BY <2>1, <2>2
<1>3. CASE event # ""
  <2>1. after = Append(told, e)
    BY <1>3 DEF ToldAfter, event
  <2>2. n + 1 \in 1..MaxChecks
    BY CheckAssumption, LenProperties
  <2>3. e \in Event /\ e.at = n + 1
    BY <1>1, <1>3, <2>2 DEF Event
  <2>4. \A u : u \in Transitions(q, n + 1) <=> u \in Transitions(q, n) \/ u = e
    <3>1. CASE event = "site_down"
      BY <1>1, <3>1, TransitionsNext
    <3>2. CASE event = "site_up"
      BY <1>1, <3>2, TransitionsNext
    <3>3. QED
      BY <1>1, <1>3, <3>1, <3>2
  <2>5. /\ after \in Seq(Event) /\ Len(after) = Len(told) + 1 /\ Len(told) \in Nat
        /\ \A i \in 1..Len(told) : after[i] = told[i]
        /\ after[Len(told) + 1] = e
        /\ DOMAIN told = 1..Len(told) /\ DOMAIN after = 1..(Len(told) + 1)
    <3> HIDE DEF e
    <3>1. e \in Event
      BY <2>3
    <3>2. /\ Append(told, e) \in Seq(Event)
          /\ Len(Append(told, e)) = Len(told) + 1 /\ Len(told) \in Nat
          /\ \A i \in 1..Len(told) : Append(told, e)[i] = told[i]
          /\ Append(told, e)[Len(told) + 1] = e
          /\ DOMAIN told = 1..Len(told)
          /\ DOMAIN Append(told, e) = 1..(Len(told) + 1)
      BY <3>1, OneMore
    <3>3. QED
      BY <2>1, <3>2, Zenon
  <2>6. \A i \in 1..Len(told) : told[i].at < n + 1
    <3>1. ASSUME NEW i \in 1..Len(told) PROVE told[i].at < n + 1
      <4>1. told[i] \in Range(told)
        BY <2>5 DEF Range
      <4>2. told[i].at \in 1..n
        BY <4>1 DEF Transitions
      <4>3. QED
        BY <4>2
    <3>2. QED
      BY <3>1
  <2>7. Range(after) = Transitions(q, n + 1)
    <3>1. Range(after) = Range(told) \cup {e}
      <4>1. \A i : i \in 1..(Len(told) + 1) <=> i \in 1..Len(told) \/ i = Len(told) + 1
        BY <2>5
      <4>2. QED
        BY <2>5, <4>1 DEF Range
    <3>2. QED
      BY <2>4, <3>1
  <2>8. ASSUME NEW i \in DOMAIN after, NEW j \in DOMAIN after, i < j
        PROVE  after[i].at < after[j].at
    <3>1. i \in 1..Len(told)
      BY <2>5, <2>8
    <3>2. CASE j \in 1..Len(told)
      BY <2>5, <2>8, <3>1, <3>2
    <3>3. CASE j = Len(told) + 1
      BY <2>3, <2>5, <2>6, <3>1, <3>3
    <3>4. QED
      BY <2>5, <3>2, <3>3
  <2>9. QED
    BY <2>5, <2>7, <2>8
<1>4. QED
  BY <1>2, <1>3

-----------------------------------------------------------------------------
(* Only the first n checks count. *)
LEMMA SamePrefix ==
  ASSUME NEW q, NEW p, NEW n \in Nat, \A k \in 1..n : q[k] = p[k]
  PROVE  /\ LastOf(q, n) = LastOf(p, n)
         /\ Outages(q, n) = Outages(p, n)
         /\ Transitions(q, n) = Transitions(p, n)
<1>1. LastOf(q, n) = LastOf(p, n)
  <2>1. n # 0 => n \in 1..n
    OBVIOUS
  <2>2. QED
    BY <2>1 DEF LastOf
<1>2. ASSUME NEW k \in 1..n
      PROVE  (WentDown(q, k) <=> WentDown(p, k)) /\ (WentUp(q, k) <=> WentUp(p, k))
  <2>1. q[k] = p[k]
    OBVIOUS
  <2>2. CASE k = 1
    BY <2>1, <2>2 DEF WentDown, WentUp
  <2>3. CASE k # 1
    <3>1. k - 1 \in 1..n
      BY <2>3
    <3>2. q[k - 1] = p[k - 1]
      BY <3>1
    <3>3. QED
      BY <2>1, <2>3, <3>2 DEF WentDown, WentUp
  <2>4. QED
    BY <2>2, <2>3
<1>3. ASSUME NEW i \in 1..n, NEW j \in 0..n PROVE OverAt(q, n, i, j) <=> OverAt(p, n, i, j)
  <2>1. (\A k \in i..n : k \in 1..n) /\ (j # 0 => \A k \in i..(j - 1) : k \in 1..n)
    OBVIOUS
  <2>2. 0 \notin i..n
    OBVIOUS
  <2>3. CASE j = 0
    BY <1>2, <2>1, <2>2, <2>3 DEF OverAt
  <2>4. CASE j # 0
    BY <1>2, <2>1, <2>4 DEF OverAt
  <2>5. QED
    BY <2>3, <2>4
<1>4. ASSUME NEW r PROVE r \in Outages(q, n) <=> r \in Outages(p, n)
  <2>1. CASE r \in [from : 1..n, to : 0..n]
    <3>1. r.from \in 1..n /\ r.to \in 0..n
      BY <2>1
    <3>2. QED
      BY <1>2, <1>3, <2>1, <3>1 DEF Outages
  <2>2. CASE r \notin [from : 1..n, to : 0..n]
    BY <2>2 DEF Outages
  <2>3. QED
    BY <2>1, <2>2
<1>5. ASSUME NEW e PROVE e \in Transitions(q, n) <=> e \in Transitions(p, n)
  <2>1. CASE e \in [event : {"site_down", "site_up"}, at : 1..n]
    <3>1. e.at \in 1..n
      BY <2>1
    <3>2. QED
      BY <1>2, <2>1, <3>1 DEF Transitions
  <2>2. CASE e \notin [event : {"site_down", "site_up"}, at : 1..n]
    BY <2>2 DEF Transitions
  <2>3. QED
    BY <2>1, <2>2
<1>6. QED
  BY <1>1, <1>4, <1>5

LEMMA AgreeLonger ==
  ASSUME NEW q \in Seq(Statuses), NEW st \in Statuses, NEW n, NEW previous, NEW rows,
         NEW told, Agree(q, n, previous, rows, told)
  PROVE  Agree(Append(q, st), n, previous, rows, told)
<1> DEFINE p == Append(q, st)
<1>1. Len(p) = Len(q) + 1 /\ Len(q) \in Nat /\ \A i \in 1..Len(q) : p[i] = q[i]
  BY OneMore
<1> HIDE DEF p
<1>2. n \in 0..Len(q) /\ n \in Nat
  BY <1>1 DEF Agree
<1>3. n \in 0..Len(p) /\ \A k \in 1..n : p[k] = q[k]
  BY <1>1, <1>2
<1>4. /\ LastOf(p, n) = LastOf(q, n)
      /\ Outages(p, n) = Outages(q, n)
      /\ Transitions(p, n) = Transitions(q, n)
  BY <1>2, <1>3, SamePrefix
<1>5. Agree(p, n, previous, rows, told)
  BY <1>3, <1>4 DEF Agree
<1>6. QED
  BY <1>5 DEF p

LEMMA AgreeNext ==
  ASSUME NEW q \in Seq(Statuses), NEW n, n < Len(q), Len(q) <= MaxChecks,
         NEW previous, NEW rows, NEW told \in Seq(Event), Agree(q, n, previous, rows, told),
         NEW event, event = siteTransition(previous, q[n + 1])
  PROVE  /\ Agree(q, n + 1, q[n + 1], RowsAfter(rows, event, n + 1),
                  ToldAfter(told, event, n + 1))
         /\ RowsAfter(rows, event, n + 1) \subseteq Incident
         /\ ToldAfter(told, event, n + 1) \in Seq(Event)
         /\ q[n + 1] \in Statuses
<1>1. Len(q) \in Nat /\ n \in Nat /\ n + 1 \in 0..Len(q) /\ n + 1 \in 1..Len(q)
  BY LenProperties DEF Agree
<1>2. /\ previous = LastOf(q, n)
      /\ rows = Outages(q, n)
      /\ (\E r \in rows : r.to = 0) <=> previous = "down"
      /\ Range(told) = Transitions(q, n)
      /\ \A i, j \in DOMAIN told : i < j => told[i].at < told[j].at
  BY DEF Agree
<1> DEFINE rows2 == RowsAfter(rows, event, n + 1)
           told2 == ToldAfter(told, event, n + 1)
<1>3. event = siteTransition(LastOf(q, n), q[n + 1])
  BY <1>2
<1>4. rows2 = RowsAfter(rows, siteTransition(LastOf(q, n), q[n + 1]), n + 1)
      /\ told2 = ToldAfter(told, siteTransition(LastOf(q, n), q[n + 1]), n + 1)
  BY <1>3
<1> HIDE DEF rows2, told2
<1>5. (\E r \in rows : r.to = 0) <=> LastOf(q, n) = "down"
  BY <1>2
<1>6. rows2 = Outages(q, n + 1) /\ ((\E r \in rows2 : r.to = 0) <=> q[n + 1] = "down")
  BY <1>1, <1>2, <1>4, <1>5, IncidentsFollow
<1>7. /\ told2 \in Seq(Event) /\ Range(told2) = Transitions(q, n + 1)
      /\ \A i, j \in DOMAIN told2 : i < j => told2[i].at < told2[j].at
  BY <1>1, <1>2, <1>4, EventsFollow
<1>8. LastOf(q, n + 1) = q[n + 1]
  <2>1. n + 1 # 0
    BY <1>1
  <2>2. QED
    BY <2>1 DEF LastOf
<1>9. Agree(q, n + 1, q[n + 1], rows2, told2)
  BY <1>1, <1>6, <1>7, <1>8 DEF Agree
<1>10. rows2 \subseteq Incident
  <2>1. ASSUME NEW r \in rows2 PROVE r \in Incident
    <3>1. r \in [from : 1..(n + 1), to : 0..(n + 1)]
      BY <1>6 DEF Outages
    <3>2. r.from \in 1..MaxChecks /\ r.to \in 0..MaxChecks
      BY <1>1, <3>1, CheckAssumption
    <3>3. QED
      BY <3>1, <3>2 DEF Incident
  <2>2. QED
    BY <2>1
<1>11. q[n + 1] \in Statuses
  BY <1>1, ElementOfSeq
<1>12. QED
  BY <1>7, <1>9, <1>10, <1>11 DEF rows2, told2

-----------------------------------------------------------------------------
LEMMA NothingYet ==
  ASSUME NEW q \in Seq(Statuses)
  PROVE  Agree(q, 0, "", {}, <<>>)
<1>1. Len(q) \in Nat /\ 1..0 = {}
  BY LenProperties
<1>2. Outages(q, 0) = {} /\ Transitions(q, 0) = {}
  <2>1. [from : 1..0, to : 0..0] = {}
    BY <1>1
  <2>2. [event : {"site_down", "site_up"}, at : 1..0] = {}
    BY <1>1
  <2>3. QED
    BY <2>1, <2>2 DEF Outages, Transitions
<1>3. DOMAIN <<>> = {} /\ Range(<<>>) = {}
  BY DEF Range
<1>4. LastOf(q, 0) = "" /\ 0 \in 0..Len(q)
  BY <1>1 DEF LastOf
<1>5. ~(\E r \in {} : r.to = 0) /\ "" # "down"
  OBVIOUS
<1>6. \A i, j \in DOMAIN <<>> : i < j => <<>>[i].at < <<>>[j].at
  BY <1>3
<1>7. QED
  BY <1>2, <1>3, <1>4, <1>5, <1>6, Zenon DEF Agree

LEMMA SitesInit == ChecksInit => SitesInv
<1> SUFFICES ASSUME ChecksInit PROVE SitesInv
  OBVIOUS
<1>1. <<>> \in Seq(Statuses) /\ Len(<<>>) = 0 /\ <<>> \in Seq(Event)
  OBVIOUS
<1>2. ChecksTypeOK
  <2>1. /\ checks \in [Sites -> Seq(Statuses)] /\ reported \in [Sites -> Seq(Event)]
        /\ status \in [Sites -> Statuses \cup {""}]
        /\ incidents \in [Sites -> SUBSET Incident]
        /\ checking \subseteq Sites /\ remaining \subseteq Sites
        /\ tx \subseteq Transaction /\ \A t, u \in tx : t = u
    BY <1>1 DEF ChecksInit
  <2>2. \A s \in Sites : Len(checks[s]) = 0 /\ cursor[s] = 0
    BY <1>1 DEF ChecksInit
  <2>3. cursor \in [Sites -> 0..MaxChecks] /\ lapses \in 0..MaxLapses
    <3>1. 0 \in 0..MaxChecks /\ 0 \in 0..MaxLapses
      BY CheckAssumption
    <3>2. QED
      BY <3>1 DEF ChecksInit
  <2>4. \A s \in Sites : Len(checks[s]) <= MaxChecks /\ cursor[s] <= Len(checks[s])
    BY <2>2, CheckAssumption
  <2>5. QED
    BY <2>1, <2>3, <2>4 DEF ChecksTypeOK
<1>3. RoomLeft /\ TxAgreed
  BY DEF ChecksInit, RoomLeft, TxAgreed
<1>4. RowsAgreed
  BY <1>1, NothingYet DEF ChecksInit, RowsAgreed
<1>5. QED
  BY <1>2, <1>3, <1>4 DEF SitesInv

LEMMA LapseType ==
  ASSUME ChecksTypeOK, Lapse \/ UNCHANGED lapses
  PROVE  lapses' \in 0..MaxLapses
<1>1. lapses \in 0..MaxLapses /\ MaxLapses \in Nat
  BY CheckAssumption DEF ChecksTypeOK
<1>2. lapses' = lapses \/ (lapses < MaxLapses /\ lapses' = lapses + 1)
  BY DEF Lapse
<1>3. QED
  BY <1>1, <1>2

(* The loops' own control, a rollback and a restart leave the rows alone, and *)
(* at most drop the transaction.                                            *)
LEMMA SitesQuiet ==
  ASSUME SitesInv, UptimeTick \/ AlertTick \/ RollBack \/ RestartDashboard \/ UNCHANGED checkVars
  PROVE  SitesInv'
<1>1. /\ UNCHANGED <<checks, cursor, status, incidents, reported>>
      /\ tx' = tx \/ tx' = {}
      /\ Lapse \/ UNCHANGED lapses
      /\ checking' \subseteq Sites /\ remaining' \subseteq Sites
      /\ \A s \in checking' : Len(checks[s]) < MaxChecks
  BY DEF SitesInv, ChecksTypeOK, RoomLeft, UptimeTick, AlertTick, RollBack, RestartDashboard,
         checkVars, siteRows
<1>2. ChecksTypeOK'
  BY <1>1, LapseType DEF SitesInv, ChecksTypeOK
<1>3. RoomLeft' /\ RowsAgreed'
  BY <1>1 DEF SitesInv, RoomLeft, RowsAgreed
<1>4. TxAgreed'
  BY <1>1 DEF SitesInv, TxAgreed
<1>5. QED
  BY <1>2, <1>3, <1>4 DEF SitesInv

(* A new check is one that neither the rows nor the transaction have seen.   *)
LEMMA StoreCheckPreserves ==
  ASSUME SitesInv, NEW s \in Sites, StoreCheck(s)
  PROVE  SitesInv'
<1>1. /\ UNCHANGED <<cursor, status, incidents, reported, remaining, tx>>
      /\ checking' = checking \ {s} /\ s \in checking
      /\ Lapse \/ UNCHANGED lapses
      /\ UNCHANGED checks \/ \E st \in Statuses : checks' = [checks EXCEPT ![s] = Append(@, st)]
  BY DEF StoreCheck, siteRows
<1>2. CASE UNCHANGED checks
  BY <1>1, <1>2, LapseType DEF SitesInv, ChecksTypeOK, RoomLeft, RowsAgreed, TxAgreed
<1>3. ASSUME NEW st \in Statuses, checks' = [checks EXCEPT ![s] = Append(@, st)]
      PROVE  SitesInv'
  <2>1. checks \in [Sites -> Seq(Statuses)] /\ checks[s] \in Seq(Statuses)
        /\ Len(checks[s]) < MaxChecks
    BY <1>1 DEF SitesInv, ChecksTypeOK, RoomLeft
  <2>2. /\ Append(checks[s], st) \in Seq(Statuses)
        /\ Len(Append(checks[s], st)) = Len(checks[s]) + 1 /\ Len(checks[s]) \in Nat
    BY <2>1, OneMore
  <2>3. /\ checks' \in [Sites -> Seq(Statuses)]
        /\ \A r \in Sites : checks'[r] = IF r = s THEN Append(checks[s], st) ELSE checks[r]
    BY <1>3, <2>1, <2>2
  <2>4. ASSUME NEW r \in Sites
        PROVE  /\ Len(checks'[r]) <= MaxChecks /\ Len(checks[r]) <= Len(checks'[r])
               /\ r # s => checks'[r] = checks[r]
    <3>1. CASE r = s
      <4>1. checks'[r] = Append(checks[s], st)
        BY <2>3, <3>1
      <4>2. QED
        BY <2>1, <2>2, <3>1, <4>1, CheckAssumption
    <3>2. CASE r # s
      <4>1. checks'[r] = checks[r] /\ Len(checks[r]) \in Nat /\ Len(checks[r]) <= MaxChecks
        BY <2>1, <2>3, <3>2, LenProperties DEF SitesInv, ChecksTypeOK
      <4>2. QED
        BY <4>1
    <3>3. QED
      BY <3>1, <3>2
  <2>5. ASSUME NEW r \in Sites, NEW n, NEW previous, NEW rows, NEW told,
               Agree(checks[r], n, previous, rows, told)
        PROVE  Agree(checks'[r], n, previous, rows, told)
    <3>1. CASE r = s
      <4>1. Agree(Append(checks[s], st), n, previous, rows, told)
        BY <2>1, <2>5, <3>1, AgreeLonger
      <4>2. QED
        BY <2>3, <3>1, <4>1
    <3>2. CASE r # s
      BY <2>3, <2>5, <3>2
    <3>3. QED
      BY <3>1, <3>2
  <2>6. ChecksTypeOK'
    <3>1. \A r \in Sites : cursor[r] <= Len(checks'[r])
      <4>1. ASSUME NEW r \in Sites PROVE cursor[r] <= Len(checks'[r])
        <5>1. /\ cursor[r] \in 0..MaxChecks /\ cursor[r] <= Len(checks[r])
              /\ Len(checks[r]) \in Nat /\ Len(checks'[r]) \in Nat
          BY <2>1, <2>3, LenProperties DEF SitesInv, ChecksTypeOK
        <5>2. QED
          BY <2>4, <5>1
      <4>2. QED
        BY <4>1
    <3>2. QED
      BY <1>1, <2>3, <2>4, <3>1, LapseType DEF SitesInv, ChecksTypeOK
  <2>7. RoomLeft'
    <3>1. \A r \in checking' : r \in Sites /\ r # s /\ r \in checking
      BY <1>1 DEF SitesInv, ChecksTypeOK
    <3>2. QED
      BY <2>4, <3>1 DEF SitesInv, RoomLeft
  <2>8. RowsAgreed'
    BY <1>1, <2>5 DEF SitesInv, RowsAgreed
  <2>9. TxAgreed'
    <3>1. ASSUME NEW t \in tx
          PROVE  /\ Agree(checks'[t.site], t.cursor, t.previous, t.incidents, t.reported)
                 /\ \E last \in t.cursor..Len(checks'[t.site]) : t.left = (t.cursor + 1)..last
      <4>1. t.site \in Sites /\ t.cursor \in Nat
        <5>1. t \in Transaction
          BY DEF SitesInv, ChecksTypeOK
        <5>2. t.site \in Sites /\ t.cursor \in 0..MaxChecks
          BY <5>1 DEF Transaction
        <5>3. QED
          BY <5>2
      <4>2. Agree(checks'[t.site], t.cursor, t.previous, t.incidents, t.reported)
        BY <2>5, <4>1 DEF SitesInv, TxAgreed
      <4>3. PICK last \in t.cursor..Len(checks[t.site]) : t.left = (t.cursor + 1)..last
        BY DEF SitesInv, TxAgreed
      <4>4. Len(checks[t.site]) \in Nat /\ Len(checks'[t.site]) \in Nat
            /\ Len(checks[t.site]) <= Len(checks'[t.site])
        BY <2>1, <2>3, <2>4, <4>1, LenProperties
      <4>5. last \in t.cursor..Len(checks'[t.site])
        BY <4>1, <4>4
      <4>6. QED
        BY <4>2, <4>3, <4>5
    <3>2. QED
      BY <1>1, <3>1 DEF TxAgreed
  <2>10. QED
    BY <2>6, <2>7, <2>8, <2>9 DEF SitesInv
<1>4. QED
  BY <1>1, <1>2, <1>3

(* A transaction begins with the rows of its site and reads the next checks.  *)
LEMMA BeginPreserves ==
  ASSUME SitesInv, NEW s \in Sites, BeginSite(s)
  PROVE  SitesInv'
<1> DEFINE t == [site |-> s, left |-> NewChecks(s), cursor |-> cursor[s],
                 previous |-> status[s], incidents |-> incidents[s],
                 reported |-> reported[s]]
<1>1. /\ UNCHANGED <<checks, cursor, status, incidents, reported, checking, lapses>>
      /\ remaining' = remaining \ {s}
      /\ tx' = {t}
  BY DEF BeginSite, siteRows
<1>2. /\ checks[s] \in Seq(Statuses) /\ Len(checks[s]) <= MaxChecks
      /\ cursor[s] \in 0..MaxChecks /\ cursor[s] <= Len(checks[s])
      /\ status[s] \in Statuses \cup {""} /\ incidents[s] \in SUBSET Incident
      /\ reported[s] \in Seq(Event)
  BY DEF SitesInv, ChecksTypeOK
<1>3. Len(checks[s]) \in Nat /\ DOMAIN checks[s] = 1..Len(checks[s])
      /\ MaxChecks \in Nat /\ CheckLimit \in Nat
  BY <1>2, LenProperties, CheckAssumption
<1>bounds. /\ Len(checks[s]) <= MaxChecks /\ cursor[s] \in 0..MaxChecks
       /\ cursor[s] <= Len(checks[s])
  BY <1>2
<1>4. NewChecks(s) \subseteq 1..MaxChecks
  <2>1. NewChecks(s) \subseteq 1..Len(checks[s])
    BY <1>3 DEF NewChecks
  <2>2. 1..Len(checks[s]) \subseteq 1..MaxChecks
    BY <1>3, <1>bounds
  <2>3. QED
    BY <2>1, <2>2
<1>5. \E last \in cursor[s]..Len(checks[s]) : NewChecks(s) = (cursor[s] + 1)..last
  <2> DEFINE c == cursor[s]
             m == Len(checks[s])
  <2>1. NewChecks(s) = {id \in 1..m : c < id /\ id <= c + CheckLimit}
    BY <1>3 DEF NewChecks
  <2>2. c \in Nat /\ m \in Nat /\ c <= m
    BY <1>3, <1>bounds
  <2> HIDE DEF c, m
  <2>3. CASE m <= c + CheckLimit
    <3>1. NewChecks(s) = (c + 1)..m
      BY <1>3, <2>1, <2>2, <2>3
    <3>2. m \in c..m
      BY <2>2
    <3>3. QED
      BY <3>1, <3>2 DEF c, m
  <2>4. CASE c + CheckLimit < m
    <3>1. NewChecks(s) = (c + 1)..(c + CheckLimit)
      BY <1>3, <2>1, <2>2, <2>4
    <3>2. c + CheckLimit \in c..m
      BY <1>3, <2>2, <2>4
    <3>3. QED
      BY <3>1, <3>2 DEF c, m
  <2>5. QED
    BY <1>3, <2>2, <2>3, <2>4
<1>6. t \in Transaction
  BY <1>2, <1>4 DEF Transaction
<1>7. /\ t.site = s /\ t.left = NewChecks(s) /\ t.cursor = cursor[s]
      /\ t.previous = status[s] /\ t.incidents = incidents[s] /\ t.reported = reported[s]
  OBVIOUS
<1> HIDE DEF t
<1>8. ChecksTypeOK'
  BY <1>1, <1>6 DEF SitesInv, ChecksTypeOK
<1>9. RoomLeft' /\ RowsAgreed'
  BY <1>1 DEF SitesInv, RoomLeft, RowsAgreed
<1>10. TxAgreed'
  <2>1. /\ Agree(checks[t.site], t.cursor, t.previous, t.incidents, t.reported)
        /\ \E last \in t.cursor..Len(checks[t.site]) : t.left = (t.cursor + 1)..last
    BY <1>5, <1>7 DEF SitesInv, RowsAgreed
  <2>2. QED
    BY <1>1, <2>1 DEF TxAgreed
<1>11. QED
  BY <1>8, <1>9, <1>10 DEF SitesInv

(* The least check that is left is the one behind the cursor. *)
LEMMA TrackPreserves == ASSUME SitesInv, TrackCheck PROVE SitesInv'
<1>1. PICK t \in tx :
        \E id \in t.left : (\A other \in t.left : id <= other) /\ tx' = {Tracked(t, id)}
  BY DEF TrackCheck
<1>least. PICK id \in t.left : (\A other \in t.left : id <= other) /\ tx' = {Tracked(t, id)}
  BY <1>1
<1>2. UNCHANGED <<checks, cursor, status, incidents, reported, checking, remaining, lapses>>
  BY DEF TrackCheck, siteRows
<1>3. t \in Transaction
  BY DEF SitesInv, ChecksTypeOK
<1> DEFINE q == checks[t.site]
           event == siteTransition(t.previous, q[id])
<1>4. /\ t.site \in Sites /\ t.left \subseteq 1..MaxChecks /\ t.cursor \in 0..MaxChecks
      /\ t.reported \in Seq(Event)
  BY <1>3 DEF Transaction
<1>5. q \in Seq(Statuses) /\ Len(q) <= MaxChecks /\ Len(q) \in Nat
  BY <1>4, LenProperties DEF SitesInv, ChecksTypeOK
<1>6. Agree(q, t.cursor, t.previous, t.incidents, t.reported)
  BY DEF SitesInv, TxAgreed
<1>7. PICK last \in t.cursor..Len(q) : t.left = (t.cursor + 1)..last
  BY DEF SitesInv, TxAgreed
<1>8. /\ id = t.cursor + 1 /\ id \in 1..MaxChecks /\ t.cursor < Len(q)
      /\ t.left \ {id} = (id + 1)..last /\ last \in id..Len(q)
  <2>1. t.cursor \in Nat /\ last \in Nat /\ id \in (t.cursor + 1)..last
    BY <1>4, <1>5, <1>7
  <2>2. t.cursor + 1 \in t.left
    BY <1>7, <2>1
  <2>3. id <= t.cursor + 1
    BY <1>least, <2>2
  <2>4. id = t.cursor + 1 /\ last \in id..Len(q) /\ t.cursor < Len(q)
    BY <1>5, <1>7, <2>1, <2>3
  <2>5. t.left \ {id} = (id + 1)..last
    BY <1>7, <2>1, <2>4
  <2>6. QED
    BY <1>4, <2>4, <2>5
<1> DEFINE rows2 == RowsAfter(t.incidents, event, id)
           told2 == ToldAfter(t.reported, event, id)
           u == Tracked(t, id)
<1>9. u = [site |-> t.site, left |-> t.left \ {id}, cursor |-> id, previous |-> q[id],
           incidents |-> rows2, reported |-> told2]
  <2>1. t = [site |-> t.site, left |-> t.left, cursor |-> t.cursor, previous |-> t.previous,
             incidents |-> t.incidents, reported |-> t.reported]
    BY <1>3 DEF Transaction
  <2> HIDE DEF event
  <2>2. u = [t EXCEPT !.left = t.left \ {id}, !.cursor = id, !.previous = q[id],
                      !.incidents = rows2, !.reported = told2]
    BY DEF Tracked, RowsAfter, ToldAfter, event
  <2> HIDE DEF u, rows2, told2, q
  <2>3. QED
    BY <2>1, <2>2
<1> HIDE DEF event
<1>10. /\ Agree(q, id, q[id], rows2, told2)
       /\ rows2 \subseteq Incident /\ told2 \in Seq(Event) /\ q[id] \in Statuses
  <2>1. event = siteTransition(t.previous, q[t.cursor + 1])
    BY <1>8 DEF event
  <2> HIDE DEF q
  <2>2. /\ Agree(q, t.cursor + 1, q[t.cursor + 1], RowsAfter(t.incidents, event, t.cursor + 1),
                 ToldAfter(t.reported, event, t.cursor + 1))
        /\ RowsAfter(t.incidents, event, t.cursor + 1) \subseteq Incident
        /\ ToldAfter(t.reported, event, t.cursor + 1) \in Seq(Event)
        /\ q[t.cursor + 1] \in Statuses
    BY <1>4, <1>5, <1>6, <1>8, <2>1, AgreeNext
  <2>3. QED
    BY <1>8, <2>2
<1> HIDE DEF rows2, told2, u
<1>11. /\ u.site = t.site /\ u.left = t.left \ {id} /\ u.cursor = id /\ u.previous = q[id]
       /\ u.incidents = rows2 /\ u.reported = told2
  BY <1>9
<1>12. u \in Transaction
  <2>1. t.left \ {id} \in SUBSET (1..MaxChecks) /\ id \in 0..MaxChecks
        /\ q[id] \in Statuses \cup {""} /\ rows2 \in SUBSET Incident
    <3>1. t.left \ {id} \in SUBSET (1..MaxChecks)
      BY <1>4
    <3>2. id \in 0..MaxChecks
      BY <1>8
    <3>3. QED
      BY <1>10, <3>1, <3>2
  <2> HIDE DEF q
  <2>2. QED
    BY <1>4, <1>9, <1>10, <2>1 DEF Transaction
<1>13. tx' = {u}
  BY <1>least DEF u
<1>14. ChecksTypeOK'
  BY <1>2, <1>12, <1>13 DEF SitesInv, ChecksTypeOK
<1>15. RoomLeft' /\ RowsAgreed'
  BY <1>2 DEF SitesInv, RoomLeft, RowsAgreed
<1>16. TxAgreed'
  <2>1. /\ Agree(checks[u.site], u.cursor, u.previous, u.incidents, u.reported)
        /\ \E l \in u.cursor..Len(checks[u.site]) : u.left = (u.cursor + 1)..l
    BY <1>8, <1>10, <1>11
  <2>2. QED
    BY <1>2, <1>13, <2>1 DEF TxAgreed
<1>17. QED
  BY <1>14, <1>15, <1>16 DEF SitesInv

(* The commit makes the rows those of the transaction. *)
LEMMA CommitPreserves == ASSUME SitesInv, CommitSite PROVE SitesInv'
<1>1. PICK t \in tx : Commit(t)
  BY DEF CommitSite
<1>2. tx' = {} /\ UNCHANGED <<checks, checking, remaining, lapses>>
  BY DEF CommitSite
<1>3. t \in Transaction /\ Agree(checks[t.site], t.cursor, t.previous, t.incidents, t.reported)
  BY DEF SitesInv, ChecksTypeOK, TxAgreed
<1>4. /\ t.site \in Sites /\ t.cursor \in 0..MaxChecks
      /\ t.previous \in Statuses \cup {""} /\ t.incidents \in SUBSET Incident
      /\ t.reported \in Seq(Event)
  BY <1>3 DEF Transaction
<1>5. t.cursor <= Len(checks[t.site])
  <2>1. t.cursor \in 0..Len(checks[t.site])
    BY <1>3 DEF Agree
  <2>2. Len(checks[t.site]) \in Nat
    BY <1>4, LenProperties DEF SitesInv, ChecksTypeOK
  <2>3. QED
    BY <2>1, <2>2
<1>6. /\ cursor' = [cursor EXCEPT ![t.site] = t.cursor]
      /\ status' = [status EXCEPT ![t.site] = t.previous]
      /\ incidents' = [incidents EXCEPT ![t.site] = t.incidents]
      /\ reported' = [reported EXCEPT ![t.site] = t.reported]
  BY <1>1 DEF Commit, Written
<1>7. /\ cursor' \in [Sites -> 0..MaxChecks] /\ status' \in [Sites -> Statuses \cup {""}]
      /\ incidents' \in [Sites -> SUBSET Incident] /\ reported' \in [Sites -> Seq(Event)]
  BY <1>4, <1>6 DEF SitesInv, ChecksTypeOK
<1>8. ASSUME NEW s \in Sites
      PROVE  /\ s = t.site => /\ cursor'[s] = t.cursor /\ status'[s] = t.previous
                              /\ incidents'[s] = t.incidents /\ reported'[s] = t.reported
             /\ s # t.site => /\ cursor'[s] = cursor[s] /\ status'[s] = status[s]
                              /\ incidents'[s] = incidents[s] /\ reported'[s] = reported[s]
  BY <1>4, <1>6 DEF SitesInv, ChecksTypeOK
<1>9. ChecksTypeOK'
  <2>1. \A s \in Sites : cursor'[s] <= Len(checks[s])
    BY <1>5, <1>8 DEF SitesInv, ChecksTypeOK
  <2>2. QED
    BY <1>2, <1>7, <2>1 DEF SitesInv, ChecksTypeOK
<1>10. RowsAgreed'
  <2>1. ASSUME NEW s \in Sites
        PROVE  Agree(checks[s], cursor'[s], status'[s], incidents'[s], reported'[s])
    <3>1. CASE s = t.site
      BY <1>3, <1>8, <3>1
    <3>2. CASE s # t.site
      BY <1>8, <3>2 DEF SitesInv, RowsAgreed
    <3>3. QED
      BY <3>1, <3>2
  <2>2. QED
    BY <1>2, <2>1 DEF RowsAgreed
<1>11. RoomLeft' /\ TxAgreed'
  BY <1>2 DEF SitesInv, RoomLeft, TxAgreed
<1>12. QED
  BY <1>9, <1>10, <1>11 DEF SitesInv

-----------------------------------------------------------------------------
(* The rows of a site, and the transaction under way, always say what its     *)
(* checks say, however the two loops interleave, fail and are restarted.     *)
THEOREM SitesInvariant == ChecksSpec => []SitesInv
<1>1. SitesInv /\ [ChecksNext]_checkVars => SitesInv'
  BY SitesQuiet, StoreCheckPreserves, BeginPreserves, TrackPreserves, CommitPreserves
  DEF ChecksNext, ProcessSites
<1>2. QED
  BY <1>1, SitesInit, PTL DEF ChecksSpec

(* The tables of checks, incidents and events are well typed, and the cursor  *)
(* of a site is never beyond its last check.                                *)
THEOREM ChecksTypeCorrect == ChecksSpec => []ChecksTypeOK
BY SitesInvariant, PTL DEF SitesInv

(* The incidents of a site are the outages of its processed checks, for any   *)
(* number of checks, any LIMIT, and any failed transactions and restarts.    *)
THEOREM IncidentsAreOutages == ChecksSpec => []OneIncidentPerOutage
<1>1. SitesInv => OneIncidentPerOutage
  BY DEF SitesInv, RowsAgreed, Agree, OneIncidentPerOutage
<1>2. QED
  BY <1>1, SitesInvariant, PTL

(* One event for every change of status, in the order of the checks. *)
THEOREM EventsAreTransitions == ChecksSpec => []OneEventPerTransition
<1>1. SitesInv => OneEventPerTransition
  BY DEF SitesInv, RowsAgreed, Agree, OneEventPerTransition
<1>2. QED
  BY <1>1, SitesInvariant, PTL

-----------------------------------------------------------------------------
(* Monitors. *)

MonitorRow == [state : {"none", "there", "gone"}, set : Settings, last : Nat \cup {Unchecked}]
Wish == [set : Settings, writes : Nat, crossed : BOOLEAN]
CheckRecord == [count : Nat, at : Nat, recorded : BOOLEAN]
Listed == [id : MonitorIds, every : Nat]

MonitorsTyped ==
  /\ clock \in Nat
  /\ monitors \in [MonitorIds -> MonitorRow]
  /\ wanted \in [MonitorIds -> Wish]
  /\ monitorChecks \in [MonitorIds -> CheckRecord]

(* The read and the write of a request: it is known when nobody wrote in between. *)
EditState(e, m) ==
  /\ e.id \in MonitorIds /\ e.change \in Changes
  /\ e.read.enabled \in BOOLEAN /\ e.read.interval \in Intervals /\ e.seen \in Nat
  /\ monitors[m].state # "none"
  /\ monitors[m].state = "there" =>
       /\ e.seen <= wanted[m].writes
       /\ e.seen = wanted[m].writes =>
            /\ e.read.enabled = monitors[m].set.enabled
            /\ e.read.interval = monitors[m].set.interval

EditsTyped ==
  /\ edits = [e \in Edits |-> edits[e]]
  /\ \A e \in Edits : edits[e].pc = "read" => EditState(edits[e], edits[e].id)

(* A monitor that is to be checked has waited for its interval, and a run has it *)
(* on its list once.                                                         *)
Waited(m, every) ==
  monitorChecks[m].count > 0 /\ monitorChecks[m].recorded => clock - monitorChecks[m].at >= every

RunShape ==
  /\ run.due \subseteq Listed
  /\ \A c, d \in run.due : c.id = d.id => c = d
  /\ run.pc \in {"insert", "update"} =>
       /\ run.id \in MonitorIds
       /\ \A d \in run.due : d.id # run.id

RunWaited ==
  /\ \A d \in run.due : Waited(d.id, d.every)
  /\ run.pc = "insert" => run.every \in Nat /\ Waited(run.id, run.every)

(* What last_check_at says of the last check. *)
LastIsLater ==
  \A m \in MonitorIds :
    /\ monitorChecks[m].at <= clock
    /\ monitorChecks[m].count > 0 /\ monitorChecks[m].recorded =>
         monitors[m].last # Unchecked /\ monitors[m].last >= monitorChecks[m].at

MonitorsInv ==
  MonitorsTyped /\ EditsTyped /\ EditsStand /\ RunShape /\ RunWaited /\ LastIsLater

LEMMA GivenFacts ==
  ASSUME NEW S, NEW v \in Maybe(S), NEW o \in S
  PROVE  Given(v, o) \in S
BY DEF Maybe, Given

LEMMA AnySettingsTyped == AnySettings \in Settings
<1>1. PICK i \in Intervals, u \in Urls : TRUE
  BY MonitorAssumption
<1>2. [enabled |-> TRUE, interval |-> i, url |-> u] \in Settings
  BY DEF Settings
<1>3. QED
  BY <1>2 DEF AnySettings

LEMMA MonitorsStart == MonitorsInit => MonitorsInv
<1> SUFFICES ASSUME MonitorsInit PROVE MonitorsInv
  OBVIOUS
<1>1. NoMonitor \in MonitorRow /\ NothingAsked \in Wish /\ NoCheck \in CheckRecord
  BY AnySettingsTyped DEF NoMonitor, NothingAsked, NoCheck, MonitorRow, Wish, CheckRecord
<1>2. MonitorsTyped
  BY <1>1 DEF MonitorsInit, MonitorsTyped
<1>3. EditsTyped
  BY DEF MonitorsInit, EditsTyped, NoEdit
<1>4. EditsStand
  BY DEF MonitorsInit, EditsStand, NoMonitor, NothingAsked
<1>5. RunShape /\ RunWaited
  BY DEF MonitorsInit, RunShape, RunWaited, Asleep
<1>6. LastIsLater
  <2>1. clock = 0 /\ \A m \in MonitorIds : monitorChecks[m].at = 0 /\ monitorChecks[m].count = 0
    BY DEF MonitorsInit, NoCheck
  <2>2. ASSUME NEW m \in MonitorIds PROVE monitorChecks[m].at <= clock /\ ~(monitorChecks[m].count > 0)
    <3>1. monitorChecks[m].at = 0 /\ monitorChecks[m].count = 0 /\ clock = 0
      BY <2>1
    <3>2. QED
      BY <3>1
  <2>3. QED
    BY <2>2 DEF LastIsLater
<1>7. QED
  BY <1>2, <1>3, <1>4, <1>5, <1>6 DEF MonitorsInv

LEMMA MonitorTick == ASSUME MonitorsInv, tick PROVE MonitorsInv'
<1>1. clock' = clock + 1 /\ clock \in Nat
      /\ UNCHANGED <<monitors, edits, run, wanted, monitorChecks>>
  BY DEF tick, MonitorsInv, MonitorsTyped
<1>2. MonitorsTyped' /\ EditsTyped' /\ EditsStand' /\ RunShape'
  BY <1>1 DEF MonitorsInv, MonitorsTyped, EditsTyped, EditState, EditsStand, RunShape
<1>3. \A m \in MonitorIds : monitorChecks[m].at \in Nat
  BY DEF MonitorsInv, MonitorsTyped, CheckRecord
<1>4. ASSUME NEW m \in MonitorIds, NEW every \in Nat, Waited(m, every) PROVE Waited(m, every)'
  BY <1>1, <1>3, <1>4 DEF Waited
<1>5. RunWaited'
  BY <1>1, <1>4 DEF MonitorsInv, RunWaited, RunShape, Listed
<1>6. LastIsLater'
  BY <1>1, <1>3 DEF MonitorsInv, LastIsLater
<1>7. QED
  BY <1>2, <1>5, <1>6 DEF MonitorsInv

(* A row, what was asked of it and its checks are replaced together. *)
LEMMA MonitorMade ==
  ASSUME MonitorsInv, NEW m \in MonitorIds, NEW set \in Settings, createMonitor(m, set)
  PROVE  MonitorsInv'
<1> DEFINE row == [monitors[m] EXCEPT !.state = "there", !.set = set]
           wish == [wanted[m] EXCEPT !.set = set]
<1>1. /\ monitors[m] \in MonitorRow /\ wanted[m] \in Wish
      /\ monitors[m].state = "none"
      /\ monitors' = [monitors EXCEPT ![m] = row] /\ wanted' = [wanted EXCEPT ![m] = wish]
      /\ UNCHANGED <<clock, edits, run, monitorChecks>>
  BY DEF createMonitor, MonitorsInv, MonitorsTyped
<1>2. /\ row \in MonitorRow /\ row.last = monitors[m].last /\ row.set = set
      /\ wish \in Wish /\ wish.set = set /\ row.state = "there"
  BY <1>1 DEF MonitorRow, Wish
<1> HIDE DEF row, wish
<1>3. MonitorsTyped'
  BY <1>1, <1>2 DEF MonitorsInv, MonitorsTyped
<1>4. EditsStand'
  BY <1>1, <1>2 DEF MonitorsInv, EditsStand, MonitorsTyped
<1>5. RunShape' /\ RunWaited'
  BY <1>1 DEF MonitorsInv, RunShape, RunWaited, Waited
<1>6. LastIsLater'
  BY <1>1, <1>2 DEF MonitorsInv, LastIsLater, MonitorsTyped
<1>7. EditsTyped'
  <2>1. ASSUME NEW e \in Edits, edits[e].pc = "read" PROVE EditState(edits[e], edits[e].id)'
    <3>1. EditState(edits[e], edits[e].id)
      BY <2>1 DEF MonitorsInv, EditsTyped
    <3>2. edits[e].id \in MonitorIds /\ edits[e].id # m
      BY <1>1, <3>1 DEF EditState
    <3>3. monitors'[edits[e].id] = monitors[edits[e].id] /\ wanted'[edits[e].id] = wanted[edits[e].id]
      BY <1>1, <3>2 DEF MonitorsInv, MonitorsTyped
    <3>4. QED
      BY <1>1, <3>1, <3>3 DEF EditState
  <2>2. QED
    BY <1>1, <2>1 DEF MonitorsInv, EditsTyped
<1>8. QED
  BY <1>3, <1>4, <1>5, <1>6, <1>7 DEF MonitorsInv

LEMMA MonitorGone ==
  ASSUME MonitorsInv, NEW m \in MonitorIds, deleteMonitorRow(m)
  PROVE  MonitorsInv'
<1> DEFINE row == [NoMonitor EXCEPT !.state = "gone"]
<1>1. /\ monitors' = [monitors EXCEPT ![m] = row]
      /\ wanted' = [wanted EXCEPT ![m] = NothingAsked]
      /\ monitorChecks' = [monitorChecks EXCEPT ![m] = NoCheck]
      /\ UNCHANGED <<clock, edits, run>>
  BY DEF deleteMonitorRow
<1>2. /\ row \in MonitorRow /\ row.state = "gone" /\ row.set = AnySettings
      /\ NothingAsked \in Wish /\ NothingAsked.set = AnySettings
      /\ NoCheck \in CheckRecord /\ NoCheck.count = 0 /\ NoCheck.at = 0
  BY AnySettingsTyped DEF NoMonitor, NothingAsked, NoCheck, MonitorRow, Wish, CheckRecord
<1> HIDE DEF row
<1>3. MonitorsTyped'
  BY <1>1, <1>2 DEF MonitorsInv, MonitorsTyped
<1>4. /\ monitors'[m] = row /\ wanted'[m] = NothingAsked /\ monitorChecks'[m] = NoCheck
      /\ \A q \in MonitorIds \ {m} :
           /\ monitors'[q] = monitors[q] /\ wanted'[q] = wanted[q] /\ monitorChecks'[q] = monitorChecks[q]
  BY <1>1 DEF MonitorsInv, MonitorsTyped
<1>5. EditsTyped'
  <2>1. ASSUME NEW e \in Edits, edits[e].pc = "read" PROVE EditState(edits[e], edits[e].id)'
    <3>1. EditState(edits[e], edits[e].id)
      BY <2>1 DEF MonitorsInv, EditsTyped
    <3>2. QED
      BY <1>1, <1>2, <1>4, <3>1 DEF EditState
  <2>2. QED
    BY <1>1, <2>1 DEF MonitorsInv, EditsTyped
<1>6. EditsStand'
  BY <1>2, <1>4 DEF MonitorsInv, EditsStand
<1>7. ASSUME NEW q \in MonitorIds, NEW every \in Nat, Waited(q, every) PROVE Waited(q, every)'
  BY <1>1, <1>2, <1>4, <1>7 DEF Waited
<1>8. RunShape' /\ RunWaited'
  BY <1>1, <1>7 DEF MonitorsInv, RunShape, RunWaited, Listed
<1>9. LastIsLater'
  BY <1>1, <1>2, <1>4 DEF MonitorsInv, LastIsLater, MonitorsTyped
<1>10. QED
  BY <1>3, <1>5, <1>6, <1>8, <1>9 DEF MonitorsInv

LEMMA RequestReads ==
  ASSUME MonitorsInv, NEW e \in Edits, NEW m \in MonitorIds, NEW change \in Changes,
         readMonitor(e, m, change)
  PROVE  MonitorsInv'
<1>1. PICK edit :
        /\ edit = [pc |-> "read", id |-> m, change |-> change,
                    read |-> [enabled |-> monitors[m].set.enabled,
                              interval |-> monitors[m].set.interval],
                    seen |-> wanted[m].writes]
        /\ edits' = [edits EXCEPT ![e] = edit] /\ monitors[m].state = "there"
        /\ UNCHANGED <<clock, monitors, run, wanted, monitorChecks>>
  BY DEF readMonitor, There
<1>2. EditState(edit, m)' /\ edit.id = m
  <2>1. monitors[m].set \in Settings /\ wanted[m].writes \in Nat
    BY DEF MonitorsInv, MonitorsTyped, MonitorRow, Wish
  <2>2. QED
    BY <1>1, <2>1 DEF EditState, Settings
<1>3. EditsTyped'
  <2>1. ASSUME NEW f \in Edits, edits'[f].pc = "read" PROVE EditState(edits[f], edits[f].id)'
    <3>1. CASE f = e
      <4>1. edits'[f] = edit
        BY <1>1, <3>1 DEF MonitorsInv, EditsTyped
      <4>2. QED
        BY <1>2, <4>1 DEF EditState
    <3>2. CASE f # e
      <4>1. edits'[f] = edits[f]
        BY <1>1, <3>2 DEF MonitorsInv, EditsTyped
      <4>2. QED
        BY <1>1, <2>1, <4>1 DEF MonitorsInv, EditsTyped, EditState
    <3>3. QED
      BY <3>1, <3>2
  <2>2. QED
    BY <1>1, <2>1 DEF MonitorsInv, EditsTyped
<1>4. QED
  BY <1>1, <1>3 DEF MonitorsInv, MonitorsTyped, EditsStand, RunShape, RunWaited, Waited, LastIsLater

LEMMA RequestEnds ==
  ASSUME MonitorsInv, NEW e \in Edits, edits' = [edits EXCEPT ![e] = Done],
         UNCHANGED <<clock, monitors, run, wanted, monitorChecks>>
  PROVE  MonitorsInv'
<1>1. EditsTyped'
  BY DEF MonitorsInv, EditsTyped, EditState, Done, NoEdit
<1>2. QED
  BY <1>1 DEF MonitorsInv, MonitorsTyped, EditsStand, RunShape, RunWaited, Waited, LastIsLater

LEMMA RequestWrites ==
  ASSUME MonitorsInv, NEW e \in Edits, writeMonitor(e)
  PROVE  MonitorsInv'
<1> DEFINE m == edits[e].id
           change == edits[e].change
           row == [monitors[m] EXCEPT !.set = Merged(change, edits[e].read, monitors[m].set.url)]
           wish == [set |-> Named(change, wanted[m].set), writes |-> wanted[m].writes + 1,
                    crossed |-> wanted[m].crossed \/ edits[e].seen # wanted[m].writes]
<1>1. EditState(edits[e], m) /\ edits' = [edits EXCEPT ![e] = Done]
      /\ UNCHANGED <<clock, run, monitorChecks>>
  BY DEF writeMonitor, MonitorsInv, EditsTyped
<1>2. CASE ~There(m)
  BY <1>1, <1>2, RequestEnds DEF writeMonitor
<1>3. CASE There(m)
  <2>1. /\ m \in MonitorIds /\ change \in Change /\ edits[e].read.enabled \in BOOLEAN
        /\ edits[e].read.interval \in Intervals /\ edits[e].seen \in Nat
        /\ edits[e].seen = wanted[m].writes =>
             /\ edits[e].read.enabled = monitors[m].set.enabled
             /\ edits[e].read.interval = monitors[m].set.interval
    BY <1>1, <1>3, MonitorAssumption DEF EditState, There
  <2>2. monitors[m] \in MonitorRow /\ wanted[m] \in Wish
    BY <2>1 DEF MonitorsInv, MonitorsTyped
  <2>3. /\ monitors[m].set \in Settings /\ monitors[m].last \in Nat \cup {Unchecked}
        /\ monitors[m].state = "there"
        /\ wanted[m].set \in Settings /\ wanted[m].writes \in Nat /\ wanted[m].crossed \in BOOLEAN
    BY <1>3, <2>2 DEF MonitorRow, Wish, There
  <2>4. /\ change.enabled \in Maybe(BOOLEAN) /\ change.interval \in Maybe(Intervals)
        /\ change.url \in Maybe(Urls)
    BY <2>1 DEF Change
  <2>5. /\ Merged(change, edits[e].read, monitors[m].set.url) \in Settings
        /\ Named(change, wanted[m].set) \in Settings
    BY <2>1, <2>3, <2>4, GivenFacts DEF Merged, Named, Settings
  <2>6. /\ row \in MonitorRow /\ row.last = monitors[m].last /\ row.state = "there"
        /\ row.set = Merged(change, edits[e].read, monitors[m].set.url)
        /\ wish \in Wish /\ wish.writes = wanted[m].writes + 1
        /\ wish.set = Named(change, wanted[m].set)
        /\ wish.crossed = (wanted[m].crossed \/ edits[e].seen # wanted[m].writes)
    BY <2>2, <2>3, <2>5 DEF MonitorRow, Wish
  <2>7. /\ monitors' = [monitors EXCEPT ![m] = row] /\ wanted' = [wanted EXCEPT ![m] = wish]
    BY <1>3 DEF writeMonitor
  <2>8. row.set.url = wish.set.url /\ (~wish.crossed => row.set = wish.set)
    <3>1. monitors[m].set.url = wanted[m].set.url
          /\ (~wanted[m].crossed => monitors[m].set = wanted[m].set)
      BY <2>1 DEF MonitorsInv, EditsStand
    <3>2. wish.set.url = row.set.url
      BY <2>6, <3>1 DEF Merged, Named
    <3>3. ASSUME ~wish.crossed PROVE row.set = wish.set
      <4>1. /\ edits[e].read.enabled = wanted[m].set.enabled
            /\ edits[e].read.interval = wanted[m].set.interval
        BY <2>1, <2>6, <3>1, <3>3
      <4>2. QED
        BY <2>6, <3>1, <4>1 DEF Merged, Named
    <3>4. QED
      BY <3>2, <3>3
  <2> HIDE DEF row, wish
  <2>9. /\ monitors'[m] = row /\ wanted'[m] = wish
        /\ \A q \in MonitorIds \ {m} : monitors'[q] = monitors[q] /\ wanted'[q] = wanted[q]
        /\ MonitorsTyped'
    BY <1>1, <2>1, <2>6, <2>7 DEF MonitorsInv, MonitorsTyped
  <2>10. EditsTyped'
    <3>1. ASSUME NEW f \in Edits, edits'[f].pc = "read" PROVE EditState(edits[f], edits[f].id)'
      <4>1. f # e /\ edits'[f] = edits[f]
        BY <1>1, <3>1 DEF MonitorsInv, EditsTyped, Done, NoEdit
      <4>2. EditState(edits[f], edits[f].id)
        BY <3>1, <4>1 DEF MonitorsInv, EditsTyped
      <4>3. CASE edits[f].id = m
        BY <2>3, <2>6, <2>9, <4>1, <4>2, <4>3 DEF EditState
      <4>4. CASE edits[f].id # m
        BY <2>9, <4>1, <4>2, <4>4 DEF EditState
      <4>5. QED
        BY <4>3, <4>4
    <3>2. QED
      BY <1>1, <3>1 DEF MonitorsInv, EditsTyped
  <2>11. EditsStand'
    BY <2>8, <2>9 DEF MonitorsInv, EditsStand
  <2>12. RunShape' /\ RunWaited'
    BY <1>1 DEF MonitorsInv, RunShape, RunWaited, Waited
  <2>13. LastIsLater'
    BY <1>1, <2>6, <2>9 DEF MonitorsInv, LastIsLater
  <2>14. QED
    BY <2>9, <2>10, <2>11, <2>12, <2>13 DEF MonitorsInv
<1>4. QED
  BY <1>2, <1>3

(* A step that only changes the run. *)
LEMMA RunOnly ==
  ASSUME MonitorsInv, UNCHANGED <<clock, monitors, edits, wanted, monitorChecks>>,
         RunShape', RunWaited'
  PROVE  MonitorsInv'
<1>1. MonitorsTyped' /\ EditsTyped' /\ EditsStand' /\ LastIsLater'
  BY DEF MonitorsInv, MonitorsTyped, EditsTyped, EditState, EditsStand, LastIsLater
<1>2. QED
  BY <1>1 DEF MonitorsInv

LEMMA ListedStep == ASSUME MonitorsInv, listDue PROVE MonitorsInv'
<1> DEFINE listed == {[id |-> m, every |-> monitors[m].set.interval] :
                        m \in {q \in MonitorIds : Due(q)}}
<1>1. /\ run' = [Asleep EXCEPT !.pc = "next", !.due = listed]
      /\ UNCHANGED <<clock, monitors, edits, wanted, monitorChecks>>
  BY DEF listDue
<1>2. run'.pc = "next" /\ run'.due = listed
  BY <1>1 DEF Asleep
<1>3. \A m \in MonitorIds : monitors[m].set.interval \in Nat
  BY MonitorAssumption DEF MonitorsInv, MonitorsTyped, MonitorRow, Settings
<1>4. RunShape'
  BY <1>2, <1>3 DEF RunShape, Listed
<1>5. ASSUME NEW d \in listed PROVE Waited(d.id, d.every)'
  <2>1. PICK m \in MonitorIds : Due(m) /\ d = [id |-> m, every |-> monitors[m].set.interval]
    OBVIOUS
  <2>2. SUFFICES ASSUME monitorChecks[m].count > 0, monitorChecks[m].recorded
                 PROVE  clock - monitorChecks[m].at >= monitors[m].set.interval
    BY <1>1, <2>1 DEF Waited
  <2>3. monitors[m].last # Unchecked /\ monitors[m].last >= monitorChecks[m].at
    BY <2>2 DEF MonitorsInv, LastIsLater
  <2>4. monitors[m].last + monitors[m].set.interval <= clock
    BY <2>1, <2>3 DEF Due
  <2>5. monitors[m].last \in Nat /\ monitorChecks[m].at \in Nat /\ clock \in Nat
    BY <2>3 DEF MonitorsInv, MonitorsTyped, MonitorRow, CheckRecord
  <2>6. QED
    BY <1>3, <2>3, <2>4, <2>5
<1>6. RunWaited'
  BY <1>2, <1>5 DEF RunWaited
<1>7. QED
  BY <1>1, <1>4, <1>6, RunOnly

LEMMA FetchedStep ==
  ASSUME MonitorsInv, NEW d \in run.due, fetch(d)
  PROVE  MonitorsInv'
<1>1. /\ run' = [pc |-> "insert", due |-> run.due \ {d}, id |-> d.id, every |-> d.every]
      /\ UNCHANGED <<clock, monitors, edits, wanted, monitorChecks>>
  BY DEF fetch
<1>2. d.id \in MonitorIds /\ d.every \in Nat /\ Waited(d.id, d.every)
  BY DEF MonitorsInv, RunShape, RunWaited, Listed
<1>3. RunShape'
  BY <1>1, <1>2 DEF MonitorsInv, RunShape
<1>4. RunWaited'
  BY <1>1, <1>2 DEF MonitorsInv, RunWaited, Waited
<1>5. QED
  BY <1>1, <1>3, <1>4, RunOnly

(* The steps after which nothing of the list is under way. *)
LEMMA FinishStep ==
  ASSUME MonitorsInv, UNCHANGED <<clock, monitors, edits, wanted, monitorChecks>>,
         \/ run' = Asleep
         \/ run.pc \in {"insert", "update"} /\ run' = [run EXCEPT !.pc = "next"]
         \/ run.pc = "insert" /\ run' = [run EXCEPT !.pc = "update"]
  PROVE  MonitorsInv'
<1>1. CASE run' = Asleep
  <2>1. RunShape' /\ RunWaited'
    BY <1>1 DEF RunShape, RunWaited, Asleep
  <2>2. QED
    BY <2>1, RunOnly
<1>2. CASE run' = [run EXCEPT !.pc = "next"]
  <2>1. RunShape' /\ RunWaited'
    BY <1>2 DEF MonitorsInv, RunShape, RunWaited, Waited
  <2>2. QED
    BY <2>1, RunOnly
<1>3. CASE run.pc = "insert" /\ run' = [run EXCEPT !.pc = "update"]
  <2>1. RunShape' /\ RunWaited'
    BY <1>3 DEF MonitorsInv, RunShape, RunWaited, Waited
  <2>2. QED
    BY <2>1, RunOnly
<1>4. QED
  BY <1>1, <1>2, <1>3

LEMMA CheckStored == ASSUME MonitorsInv, insertCheck PROVE MonitorsInv'
<1> DEFINE m == run.id
<1>1. /\ run.pc = "insert" /\ run' = [run EXCEPT !.pc = "update"]
      /\ UNCHANGED <<clock, monitors, edits, wanted>>
  BY DEF insertCheck
<1>2. CASE ~There(m)
  BY <1>1, <1>2, FinishStep DEF insertCheck
<1>3. CASE There(m)
  <2>1. m \in MonitorIds /\ monitorChecks[m] \in CheckRecord /\ clock \in Nat
    BY <1>1 DEF MonitorsInv, RunShape, MonitorsTyped
  <2>2. PICK check : check = [count |-> monitorChecks[m].count + 1, at |-> clock, recorded |-> FALSE]
    OBVIOUS
  <2>3. check \in CheckRecord /\ ~check.recorded /\ check.at = clock
    BY <2>1, <2>2 DEF CheckRecord
  <2>4. monitorChecks' = [monitorChecks EXCEPT ![m] = check]
    BY <1>3, <2>1, <2>2 DEF insertCheck, Stored
  <2>5. monitorChecks'[m] = check /\ \A q \in MonitorIds \ {m} : monitorChecks'[q] = monitorChecks[q]
    BY <2>1, <2>4 DEF MonitorsInv, MonitorsTyped
  <2>6. MonitorsTyped'
    BY <1>1, <2>1, <2>3, <2>4 DEF MonitorsInv, MonitorsTyped
  <2>7. EditsTyped' /\ EditsStand'
    BY <1>1 DEF MonitorsInv, EditsTyped, EditState, EditsStand
  <2>8. RunShape'
    BY <1>1 DEF MonitorsInv, RunShape
  <2>9. ASSUME NEW q \in MonitorIds, NEW every \in Nat, Waited(q, every) PROVE Waited(q, every)'
    BY <1>1, <2>3, <2>5, <2>9 DEF Waited
  <2>10. RunWaited'
    BY <1>1, <2>9 DEF MonitorsInv, RunWaited, RunShape, Listed
  <2>11. LastIsLater'
    <3>1. ASSUME NEW q \in MonitorIds, q # m PROVE monitorChecks'[q] = monitorChecks[q]
      BY <2>5, <3>1
    <3>2. monitorChecks'[m].at <= clock /\ ~monitorChecks'[m].recorded
      BY <2>1, <2>3, <2>5
    <3>3. QED
      BY <1>1, <3>1, <3>2 DEF MonitorsInv, LastIsLater
  <2>12. QED
    BY <2>6, <2>7, <2>8, <2>10, <2>11 DEF MonitorsInv
<1>4. QED
  BY <1>2, <1>3

LEMMA LastCheckSet == ASSUME MonitorsInv, setLastCheck PROVE MonitorsInv'
<1> DEFINE m == run.id
<1>1. /\ run.pc = "update" /\ run' = [run EXCEPT !.pc = "next"]
      /\ UNCHANGED <<clock, edits, wanted>>
  BY DEF setLastCheck
<1>2. CASE ~There(m)
  BY <1>1, <1>2, FinishStep DEF setLastCheck
<1>3. CASE There(m)
  <2>1. m \in MonitorIds /\ monitors[m] \in MonitorRow /\ monitorChecks[m] \in CheckRecord /\ clock \in Nat
    BY <1>1 DEF MonitorsInv, RunShape, MonitorsTyped
  <2>2. PICK row : row = [monitors[m] EXCEPT !.last = clock]
    OBVIOUS
  <2>3. /\ row \in MonitorRow /\ row.last = clock /\ row.set = monitors[m].set
        /\ row.state = monitors[m].state
    BY <2>1, <2>2 DEF MonitorRow
  <2>4. PICK check : /\ check = [monitorChecks[m] EXCEPT !.recorded = TRUE] /\ check \in CheckRecord
                     /\ check.at = monitorChecks[m].at
    BY <2>1 DEF CheckRecord
  <2>5. monitors' = [monitors EXCEPT ![m] = row] /\ monitorChecks' = [monitorChecks EXCEPT ![m] = check]
    BY <1>3, <2>1, <2>2, <2>4 DEF setLastCheck
  <2>6. /\ monitorChecks'[m] = check /\ monitors'[m] = row
        /\ \A q \in MonitorIds \ {m} : monitorChecks'[q] = monitorChecks[q] /\ monitors'[q] = monitors[q]
    BY <2>1, <2>5 DEF MonitorsInv, MonitorsTyped
  <2>7. MonitorsTyped'
    BY <1>1, <2>3, <2>4, <2>5 DEF MonitorsInv, MonitorsTyped
  <2>8. EditsTyped' /\ EditsStand'
    <3>1. \A q \in MonitorIds : /\ monitors'[q].set = monitors[q].set
                                /\ monitors'[q].state = monitors[q].state
      BY <2>3, <2>6
    <3>2. QED
      BY <1>1, <3>1 DEF MonitorsInv, EditsTyped, EditState, EditsStand
  <2>9. RunShape'
    BY <1>1 DEF MonitorsInv, RunShape
  <2>10. \A d \in run.due : d.id # m /\ d.id \in MonitorIds
    BY <1>1 DEF MonitorsInv, RunShape, Listed
  <2>11. RunWaited'
    BY <1>1, <2>6, <2>10 DEF MonitorsInv, RunWaited, Waited
  <2>12. LastIsLater'
    <3>1. monitorChecks[m].at <= clock
      BY <2>1 DEF MonitorsInv, LastIsLater
    <3>2. /\ monitorChecks'[m].at <= clock /\ monitors'[m].last # Unchecked
          /\ monitors'[m].last >= monitorChecks'[m].at
      BY <2>1, <2>3, <2>4, <2>6, <3>1 DEF CheckRecord, Unchecked
    <3>3. QED
      BY <1>1, <2>6, <3>2 DEF MonitorsInv, LastIsLater
  <2>13. QED
    BY <2>7, <2>8, <2>9, <2>11, <2>12 DEF MonitorsInv
<1>4. QED
  BY <1>2, <1>3

LEMMA MonitorsStep ==
  ASSUME MonitorsInv, MonitorsNext \/ UNCHANGED monitorVars
  PROVE  MonitorsInv'
<1>1. CASE tick
  BY <1>1, MonitorTick
<1>2. CASE listDue
  BY <1>2, ListedStep
<1>3. ASSUME NEW d \in run.due, fetch(d) PROVE MonitorsInv'
  BY <1>3, FetchedStep
<1>4. CASE insertCheck
  BY <1>4, CheckStored
<1>5. CASE setLastCheck
  BY <1>5, LastCheckSet
<1>6. CASE endChecks
  BY <1>6, FinishStep DEF endChecks
<1>7. CASE statementBreaks
  BY <1>7, FinishStep DEF statementBreaks
<1>8. CASE restartLoop
  BY <1>8, FinishStep DEF restartLoop
<1>9. ASSUME NEW m \in MonitorIds,
             \/ \E set \in Settings : createMonitor(m, set)
             \/ deleteMonitorRow(m)
             \/ \E e \in Edits, change \in Changes : readMonitor(e, m, change)
      PROVE  MonitorsInv'
  BY <1>9, MonitorMade, MonitorGone, RequestReads
<1>10. ASSUME NEW e \in Edits, writeMonitor(e) PROVE MonitorsInv'
  BY <1>10, RequestWrites
<1>11. ASSUME NEW e \in Edits, editFails(e) PROVE MonitorsInv'
  BY <1>11, RequestEnds DEF editFails
<1>12. CASE UNCHANGED monitorVars
  BY <1>12 DEF monitorVars, MonitorsInv, MonitorsTyped, EditsTyped, EditState, EditsStand,
               RunShape, RunWaited, Waited, LastIsLater
<1>13. QED
  BY <1>1, <1>2, <1>3, <1>4, <1>5, <1>6, <1>7, <1>8, <1>9, <1>10, <1>11, <1>12
     DEF MonitorsNext, runMonitors

(* A check is only stored by the run that has waited for it. *)
LEMMA SpacedStep ==
  ASSUME MonitorsInv, MonitorsNext \/ UNCHANGED monitorVars, NEW m \in MonitorIds,
         monitorChecks'[m].count > monitorChecks[m].count, monitorChecks[m].count > 0, monitorChecks[m].recorded
  PROVE  clock - monitorChecks[m].at >= run.every
<1>1. monitorChecks[m] \in CheckRecord /\ monitorChecks \in [MonitorIds -> CheckRecord]
  BY DEF MonitorsInv, MonitorsTyped
<1>2. monitorChecks' # monitorChecks
  BY <1>1 DEF CheckRecord
<1>3. CASE insertCheck
  <2>1. run.pc = "insert" /\ monitorChecks' = Stored(run.id) /\ run.id = m
    BY <1>1, <1>2, <1>3 DEF insertCheck, Stored, CheckRecord
  <2>2. QED
    BY <2>1 DEF MonitorsInv, RunWaited, Waited
<1>4. CASE setLastCheck
  BY <1>1, <1>2, <1>4 DEF setLastCheck, CheckRecord
<1>5. ASSUME NEW q \in MonitorIds, deleteMonitorRow(q) PROVE FALSE
  BY <1>1, <1>5 DEF deleteMonitorRow, NoCheck, CheckRecord
<1>6. insertCheck \/ setLastCheck \/ \E q \in MonitorIds : deleteMonitorRow(q)
  BY <1>2 DEF MonitorsNext, runMonitors, monitorVars, tick, listDue, fetch, endChecks,
              statementBreaks, restartLoop, createMonitor, readMonitor, writeMonitor, editFails
<1>7. QED
  BY <1>3, <1>4, <1>5, <1>6

THEOREM MonitorsInvariant == MonitorsSpec => []MonitorsInv
<1>1. MonitorsInv /\ [MonitorsNext]_monitorVars => MonitorsInv'
  BY MonitorsStep
<1> QED BY MonitorsStart, <1>1, PTL DEF MonitorsSpec

(* A monitor has the settings that requests one after the other have asked for, *)
(* and the last address in any case, whatever monitorLoop writes meanwhile: for  *)
(* any monitors, requests and columns that they name.                         *)
THEOREM EditsAlwaysStand == MonitorsSpec => []EditsStand
<1>1. MonitorsInv => EditsStand
  BY DEF MonitorsInv
<1> QED BY MonitorsInvariant, <1>1, PTL

(* Two checks of a monitor are its interval apart, however long the other        *)
(* addresses of a run take and however often it is edited or restarted.         *)
THEOREM MonitorChecksSpaced == MonitorsSpec => ChecksSpaced
<1> DEFINE Spaced ==
      \A m \in MonitorIds :
        LET old == monitorChecks[m]
        IN  monitorChecks'[m].count > old.count /\ old.count > 0 /\ old.recorded =>
              clock - old.at >= run.every
<1>1. MonitorsInv /\ [MonitorsNext]_monitorVars => Spaced
  BY SpacedStep
<1>2. MonitorsInv /\ [MonitorsNext]_monitorVars => [Spaced]_monitorVars
  BY <1>1
<1> HIDE DEF Spaced
<1>3. MonitorsSpec => [][Spaced]_monitorVars
  BY MonitorsInvariant, <1>2, PTL DEF MonitorsSpec
<1> QED BY <1>3 DEF ChecksSpaced, Spaced

-----------------------------------------------------------------------------
(* Uptime. *)

LEMMA UptimeBegins == UptimeInit => ChecksInit /\ Init /\ MonitorsInit
BY DEF UptimeInit

LEMMA UptimeSteps ==
  [UptimeNext]_uptimeVars =>
    [ChecksNext]_checkVars /\ [Next]_vars /\ [MonitorsNext]_monitorVars
BY DEF UptimeNext, uptimeVars, Checking, Draining, Watching

(* A behaviour of Uptime is one of each of its parts, whose theorems hold in it. *)
THEOREM UptimeAsSpecified == UptimeSpec => ChecksSpec /\ Spec /\ MonitorsSpec
BY UptimeBegins, UptimeSteps, PTL DEF UptimeSpec, ChecksSpec, Spec, MonitorsSpec

(* What the run of Uptime checks on a small instance holds of any: incidents and *)
(* events are those of the checks, no event is forgotten or told again without   *)
(* a failure, and monitors are checked as they were last set, an interval apart. *)
THEOREM UptimeIsSafe ==
  UptimeSpec => /\ [](OneIncidentPerOutage /\ OneEventPerTransition)
                /\ [](NothingForgotten /\ RepeatsNeedFailures)
                /\ []EditsStand /\ ChecksSpaced
<1>1. ChecksSpec => [](OneIncidentPerOutage /\ OneEventPerTransition)
  BY IncidentsAreOutages, EventsAreTransitions, PTL
<1>2. Spec => [](NothingForgotten /\ RepeatsNeedFailures)
  BY LosesNothing, RepeatsAreRetries, PTL
<1> QED BY <1>1, <1>2, EditsAlwaysStand, MonitorChecksSpaced, UptimeAsSpecified

=============================================================================
