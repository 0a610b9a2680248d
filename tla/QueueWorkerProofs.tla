-------------------------- MODULE QueueWorkerProofs --------------------------
(***************************************************************************)
(* Proofs about the worker, for every set of records, sites and workers,   *)
(* every batch size, and any pattern of lost answers, resent pipelines,    *)
(* refused commands, crashes and signals.                                  *)
(***************************************************************************)
EXTENDS QueueWorker, IngestFacts

(* Where a worker is, its batch has room, or has a command left to send.   *)
Control ==
  \A w \in Workers :
    /\ wpc[w] \in {"down", "recover"} => wbatch[w] = <<>>
    /\ wpc[w] = "take" => Len(wbatch[w]) < BatchSize
    /\ wpc[w] = "flush" => wbatch[w] # <<>>
    /\ wpc[w] \in {"requeue", "unclaim", "ack"} => widx[w] <= Len(wbatch[w])

(* Every copy of a record comes from a push. *)
OnlyPushed ==
  /\ \A id \in Range(list) \cup Range(processing) : sends[id] > 0
  /\ \A w \in Workers : \A id \in Range(wbatch[w]) : sends[id] > 0

WorkerType ==
  /\ wpc \in [Workers -> {"down", "recover", "take", "flush",
                          "requeue", "unclaim", "ack"}]
  /\ wbatch \in [Workers -> Seq(Ids)]
  /\ \A w \in Workers : Len(wbatch[w]) <= BatchSize
  /\ widx \in [Workers -> 1..BatchSize]

IInv == TypeOK /\ Control /\ ExactlyOnce /\ OnlyPushed

-----------------------------------------------------------------------------
(* Lemmas about the queue operations *)

(* The consuming end of a list. *)
LEMMA FrontFacts ==
  ASSUME NEW s \in Seq(Ids), s # <<>>
  PROVE  /\ Front(s) \in Seq(Ids) /\ Last(s) \in Ids
         /\ Range(s) = Range(Front(s)) \cup {Last(s)}
<1>1. Len(s) \in Nat /\ Len(s) # 0
  BY LenProperties, EmptySeq
<1> DEFINE end == SubSeq(s, Len(s), Len(s))
<1>2. Len(s) - 1 \in 0..Len(s) /\ Len(s) - 1 + 1 = Len(s) /\ Len(s) \in 1..Len(s)
  BY <1>1
<1>3. /\ Front(s) \in Seq(Ids) /\ end \in Seq(Ids) /\ Len(end) = 1
      /\ Range(s) = Range(Front(s)) \cup Range(end)
  <2>1. Len(s) - (Len(s) - 1) = 1
    BY <1>1
  <2>2. QED
    BY <1>2, <2>1, RangeOfSplit DEF Front
<1>4. end[1] = s[Len(s)]
  BY <1>1, <1>2, SubSeqProperties
<1>5. Range(end) = {end[1]}
  BY <1>3, LenProperties DEF Range
<1>6. Last(s) \in Ids
  BY <1>2, ElementOfSeq DEF Last
<1>7. QED
  BY <1>3, <1>4, <1>5, <1>6 DEF Last

LEMMA MoveFacts ==
  ASSUME TypeOK
  PROVE  /\ MoveToProcessing =>
              /\ list' \in Seq(Ids) /\ processing' \in Seq(Ids)
              /\ Range(list) = Range(list') \cup {Last(list)}
              /\ Range(processing') = Range(processing) \cup {Last(list)}
              /\ Last(list) \in Ids
         /\ MoveBack =>
              /\ list' \in Seq(Ids) /\ processing' \in Seq(Ids)
              /\ Range(list') \cup Range(processing')
                   = Range(list) \cup Range(processing)
<1>1. list \in Seq(Ids) /\ processing \in Seq(Ids)
  BY DEF TypeOK
<1>2. ASSUME MoveToProcessing
      PROVE  /\ list' \in Seq(Ids) /\ processing' \in Seq(Ids)
             /\ Range(list) = Range(list') \cup {Last(list)}
             /\ Range(processing') = Range(processing) \cup {Last(list)}
             /\ Last(list) \in Ids
  <2>1. /\ Front(list) \in Seq(Ids) /\ Last(list) \in Ids
        /\ Range(list) = Range(Front(list)) \cup {Last(list)}
    BY <1>1, <1>2, FrontFacts DEF MoveToProcessing
  <2>2. /\ <<Last(list)>> \o processing \in Seq(Ids)
        /\ Range(<<Last(list)>> \o processing) = Range(processing) \cup {Last(list)}
    BY <1>1, <2>1, RangeOfCons
  <2>3. QED
    BY <1>2, <2>1, <2>2 DEF MoveToProcessing
<1>3. ASSUME MoveBack
      PROVE  /\ list' \in Seq(Ids) /\ processing' \in Seq(Ids)
             /\ Range(list') \cup Range(processing')
                  = Range(list) \cup Range(processing)
  <2>1. /\ Front(processing) \in Seq(Ids) /\ Last(processing) \in Ids
        /\ Range(processing) = Range(Front(processing)) \cup {Last(processing)}
    BY <1>1, <1>3, FrontFacts DEF MoveBack
  <2>2. /\ <<Last(processing)>> \o list \in Seq(Ids)
        /\ Range(<<Last(processing)>> \o list) = Range(list) \cup {Last(processing)}
    BY <1>1, <2>1, RangeOfCons
  <2>3. QED
    BY <1>3, <2>1, <2>2 DEF MoveBack
<1>4. QED
  BY <1>2, <1>3

(* LREM takes at most one record away. *)
LEMMA LRemFacts ==
  ASSUME TypeOK, NEW id, LRem(id)
  PROVE  processing' \in Seq(Ids) /\ Range(processing') \subseteq Range(processing)
<1>1. CASE id \notin Range(processing)
  BY <1>1 DEF LRem, TypeOK
<1>2. CASE id \in Range(processing)
  <2>1. PICK i \in DOMAIN processing : processing' = RemoveAt(processing, i)
    BY <1>2 DEF LRem
  <2> DEFINE left == SubSeq(processing, 1, i - 1)
             right == SubSeq(processing, i + 1, Len(processing))
  <2>2. processing \in Seq(Ids) /\ Len(processing) \in Nat /\ i \in 1..Len(processing)
    BY <2>1, LenProperties DEF TypeOK
  <2>3. left \in Seq(Ids) /\ Range(left) \subseteq Range(processing)
    BY <2>2, RangeOfSplit, i - 1 \in 0..Len(processing)
  <2>4. right \in Seq(Ids) /\ Range(right) \subseteq Range(processing)
    BY <2>2, RangeOfSplit, i \in 0..Len(processing)
  <2>5. processing' = left \o right
    BY <2>1 DEF RemoveAt
  <2> HIDE DEF left, right
  <2>6. left \o right \in Seq(Ids) /\ Range(left \o right) = Range(left) \cup Range(right)
    BY <2>3, <2>4, ConcatProperties, RangeConcatenation
  <2>7. QED
    BY <2>3, <2>4, <2>5, <2>6
<1>3. QED
  BY <1>1, <1>2

LEMMA LPushFacts ==
  ASSUME TypeOK, NEW id \in Ids, LPush(id)
  PROVE  list' \in Seq(Ids) /\ Range(list') = Range(list) \cup {id}
BY RangeOfCons DEF LPush, TypeOK

(* A pipeline that moves on keeps a command to send, or clears the batch.  *)
LEMMA NextCommandFacts ==
  ASSUME TypeOK, Control, NEW w \in Workers, NEW after \in {"take", "unclaim"},
         wpc[w] \in {"requeue", "unclaim", "ack"}, NextCommand(w, after)
  PROVE  /\ WorkerType' /\ Control'
         /\ \A v \in Workers : Range(wbatch'[v]) \subseteq Range(wbatch[v])
<1>0. /\ BatchSize \in Nat \ {0} /\ Len(wbatch[w]) \in Nat /\ widx[w] \in Nat
      /\ 1 <= widx[w] /\ widx[w] <= Len(wbatch[w]) /\ Len(wbatch[w]) <= BatchSize
      /\ <<>> \in Seq(Ids) /\ Len(<<>>) = 0 /\ Range(<<>>) = {}
  BY WorkerAssumption, LenProperties DEF TypeOK, Control, Range
<1>1. CASE widx[w] < Len(wbatch[w])
  <2>1. /\ widx' = [widx EXCEPT ![w] = @ + 1] /\ wpc' = wpc /\ wbatch' = wbatch
    BY <1>1 DEF NextCommand
  <2>2. widx[w] + 1 \in 1..BatchSize /\ widx[w] + 1 <= Len(wbatch[w])
    BY <1>0, <1>1
  <2>3. QED
    BY <2>1, <2>2 DEF TypeOK, WorkerType, Control
<1>2. CASE ~(widx[w] < Len(wbatch[w]))
  <2>1. /\ widx' = [widx EXCEPT ![w] = 1] /\ wpc' = [wpc EXCEPT ![w] = after]
        /\ wbatch' = [wbatch EXCEPT ![w] = IF after = "take" THEN <<>> ELSE @]
    BY <1>2 DEF NextCommand, Goto
  <2>2. WorkerType'
    BY <1>0, <2>1 DEF TypeOK, WorkerType
  <2>3. Control'
    BY <1>0, <2>1 DEF TypeOK, Control
  <2>4. \A v \in Workers : Range(wbatch'[v]) \subseteq Range(wbatch[v])
    BY <1>0, <2>1 DEF TypeOK
  <2>5. QED
    BY <2>2, <2>3, <2>4
<1>3. QED
  BY <1>1, <1>2

-----------------------------------------------------------------------------
LEMMA InitIInv == Init => IInv
<1> SUFFICES ASSUME Init PROVE IInv
  OBVIOUS
<1>1. <<>> \in Seq(Ids) /\ Len(<<>>) = 0 /\ Range(<<>>) = {}
  BY EmptySeq DEF Range
<1>2. TypeOK
  BY <1>1, WorkerAssumption DEF Init, TypeOK, StoreInit, StoreTypeOK
<1>3. Control /\ ExactlyOnce /\ OnlyPushed
  BY <1>1 DEF Init, StoreInit, Control, ExactlyOnce, OnlyPushed
<1>4. QED
  BY <1>2, <1>3 DEF IInv

LEMMA TypeStep ==
  ASSUME TypeOK, Control, [Next]_vars
  PROVE  TypeOK' /\ Control'
<1> USE WorkerAssumption
<1>0. /\ BatchSize \in Nat \ {0} /\ \A w \in Workers : Len(wbatch[w]) \in Nat
      /\ <<>> \in Seq(Ids) /\ Len(<<>>) = 0
  BY LenProperties DEF TypeOK
<1>1. ASSUME NEW w \in Workers, Start(w) \/ Exit(w) \/ Signal(w) \/ Crash(w)
      PROVE  TypeOK' /\ Control'
  <2>1. CASE Start(w)
    <3>1. TypeOK'
      BY <1>0, <2>1 DEF Start, Goto, TypeOK, StoreTypeOK, storeVars, workerVars, boundVars
    <3>2. Control'
      BY <1>0, <2>1 DEF Start, Goto, TypeOK, Control, workerVars
    <3>3. QED
      BY <3>1, <3>2
  <2>2. CASE Exit(w)
    <3>1. TypeOK'
      BY <1>0, <2>2 DEF Exit, Goto, TypeOK, StoreTypeOK, storeVars, workerVars, boundVars
    <3>2. Control'
      BY <1>0, <2>2 DEF Exit, Goto, TypeOK, Control, workerVars
    <3>3. QED
      BY <3>1, <3>2
  <2>3. CASE Signal(w)
    <3>1. TypeOK'
      BY <1>0, <2>3 DEF Signal, Goto, TypeOK, StoreTypeOK, storeVars, workerVars, boundVars
    <3>2. Control'
      BY <1>0, <2>3 DEF Signal, Goto, TypeOK, Control, workerVars
    <3>3. QED
      BY <3>1, <3>2
  <2>4. CASE Crash(w)
    <3>1. TypeOK'
      BY <1>0, <2>4 DEF Crash, Goto, TypeOK, StoreTypeOK, storeVars, workerVars, boundVars
    <3>2. Control'
      BY <1>0, <2>4 DEF Crash, Goto, TypeOK, Control, workerVars
    <3>3. QED
      BY <3>1, <3>2
  <2>5. QED
    BY <1>1, <2>1, <2>2, <2>3, <2>4
<1>2. ASSUME NEW w \in Workers, Recover(w) \/ TakeLost(w)
      PROVE  TypeOK' /\ Control'
  <2>1. list' \in Seq(Ids) /\ processing' \in Seq(Ids)
    BY <1>2, MoveFacts DEF Recover, TakeLost
  <2>2. QED
    BY <1>2, <2>1 DEF Recover, TakeLost, TypeOK, Control, StoreTypeOK, storeVars,
       workerVars, boundVars
<1>3. ASSUME NEW w \in Workers, RecoverEnd(w) \/ TakeTimeout(w) \/ PipelineBroken(w) \/ PipelineResent(w)
      PROVE  TypeOK' /\ Control'
  <2>1. CASE RecoverEnd(w)
    <3>1. TypeOK'
      BY <1>0, <2>1 DEF RecoverEnd, Goto, TypeOK, StoreTypeOK, storeVars, workerVars, boundVars
    <3>2. Control'
      BY <1>0, <2>1 DEF RecoverEnd, Goto, TypeOK, Control, workerVars
    <3>3. QED
      BY <3>1, <3>2
  <2>2. CASE TakeTimeout(w)
    <3>1. TypeOK'
      BY <1>0, <2>2 DEF TakeTimeout, Goto, TypeOK, StoreTypeOK, storeVars, workerVars, boundVars
    <3>2. Control'
      BY <1>0, <2>2 DEF TakeTimeout, Goto, TypeOK, Control, workerVars
    <3>3. QED
      BY <3>1, <3>2
  <2>3. CASE PipelineBroken(w)
    <3>1. TypeOK'
      BY <1>0, <2>3 DEF PipelineBroken, Goto, TypeOK, StoreTypeOK, storeVars, workerVars, boundVars
    <3>2. Control'
      BY <1>0, <2>3 DEF PipelineBroken, Goto, TypeOK, Control, workerVars
    <3>3. QED
      BY <3>1, <3>2
  <2>4. CASE PipelineResent(w)
    <3>1. TypeOK'
      BY <1>0, <2>4 DEF PipelineResent, Goto, TypeOK, StoreTypeOK, storeVars, workerVars, boundVars
    <3>2. Control'
      BY <1>0, <2>4 DEF PipelineResent, Goto, TypeOK, Control, workerVars
    <3>3. QED
      BY <3>1, <3>2
  <2>5. QED
    BY <1>3, <2>1, <2>2, <2>3, <2>4
<1>4. ASSUME NEW w \in Workers, Take(w)
      PROVE  TypeOK' /\ Control'
  <2>1. CASE Last(list) \in Malformed
    <3>1. Front(list) \in Seq(Ids)
      BY <1>4, FrontFacts DEF Take, TypeOK
    <3>2. QED
      BY <1>4, <2>1, <3>1 DEF Take, TypeOK, Control, StoreTypeOK, storeVars, boundVars
  <2>2. CASE Last(list) \notin Malformed
    <3>1. /\ list' \in Seq(Ids) /\ processing' \in Seq(Ids) /\ Last(list) \in Ids
      BY <1>4, <2>2, MoveFacts DEF Take
    <3>2. /\ Append(wbatch[w], Last(list)) \in Seq(Ids)
          /\ Len(Append(wbatch[w], Last(list))) = Len(wbatch[w]) + 1
          /\ Append(wbatch[w], Last(list)) # <<>>
      <4>1. /\ Append(wbatch[w], Last(list)) \in Seq(Ids)
            /\ Len(Append(wbatch[w], Last(list))) = Len(wbatch[w]) + 1
        BY <3>1, AppendProperties DEF TypeOK
      <4>2. QED
        BY <1>0, <4>1
    <3>3. /\ wbatch' = [wbatch EXCEPT ![w] = Append(@, Last(list))]
          /\ wpc' = [wpc EXCEPT ![w] = IF Len(wbatch[w]) + 1 >= BatchSize
                                       THEN "flush" ELSE "take"]
          /\ UNCHANGED <<sites, receipts, rows, widx, wstop, sends, faults, drops, stops>>
          /\ Len(wbatch[w]) < BatchSize
      BY <1>4, <2>2 DEF Take, Goto, storeVars, boundVars, Control
    <3>4. TypeOK'
      BY <1>0, <3>1, <3>2, <3>3 DEF TypeOK, StoreTypeOK
    <3>5. Control'
      BY <1>0, <3>2, <3>3 DEF TypeOK, Control
    <3>6. QED
      BY <3>4, <3>5
  <2>3. QED
    BY <2>1, <2>2
<1>5. ASSUME NEW w \in Workers, FlushOK(w) \/ FlushError(w)
      PROVE  TypeOK' /\ Control'
  <2>1. StoreTypeOK'
    <3>1. CASE UNCHANGED storeVars
      BY <3>1 DEF storeVars, TypeOK, StoreTypeOK
    <3>2. CASE Commit(wbatch[w])
      BY <3>2, CommitType DEF TypeOK
    <3>3. QED
      BY <1>5, <3>1, <3>2 DEF FlushOK, FlushError
  <2>2. 1 <= Len(wbatch[w])
    BY <1>0, <1>5, EmptySeq DEF FlushOK, FlushError, Control, TypeOK
  <2>3. /\ wpc' \in [Workers -> {"down", "recover", "take", "flush",
                                "requeue", "unclaim", "ack"}]
        /\ widx' = [widx EXCEPT ![w] = 1]
        /\ wpc' \in {[wpc EXCEPT ![w] = "ack"], [wpc EXCEPT ![w] = "requeue"]}
    BY <1>5 DEF FlushOK, FlushError, Goto, TypeOK
  <2>4. UNCHANGED <<list, processing, wbatch, wstop, sends, drops, stops>>
    BY <1>5 DEF FlushOK, FlushError, boundVars
  <2>5. faults' \in 0..MaxFaults
    BY <1>5 DEF FlushOK, FlushError, boundVars, TypeOK
  <2>6. TypeOK'
    BY <1>0, <2>1, <2>3, <2>4, <2>5 DEF TypeOK
  <2>7. Control'
    BY <1>0, <2>2, <2>3, <2>4 DEF TypeOK, Control
  <2>8. QED
    BY <2>6, <2>7
<1>6. ASSUME NEW w \in Workers, Requeue(w) \/ Unclaim(w)
      PROVE  TypeOK' /\ Control'
  <2>1. wbatch[w][widx[w]] \in Ids
    BY <1>0, <1>6, ElementOfSeq DEF Requeue, Unclaim, TypeOK, Control
  <2>2. list' \in Seq(Ids) /\ processing' \in Seq(Ids)
    BY <1>6, <2>1, LPushFacts, LRemFacts DEF Requeue, Unclaim, TypeOK
  <2>3. WorkerType' /\ Control'
    BY <1>6, NextCommandFacts DEF Requeue, Unclaim
  <2>4. QED
    BY <1>6, <2>2, <2>3 DEF Requeue, Unclaim, WorkerType, TypeOK, StoreTypeOK,
       storeVars, boundVars
<1>7. ASSUME NEW id \in Ids, Push(id)
      PROVE  TypeOK' /\ Control'
  <2>1. list' \in Seq(Ids)
    BY <1>7, LPushFacts DEF Push
  <2>2. QED
    BY <1>7, <2>1 DEF Push, TypeOK, Control, StoreTypeOK, storeVars, workerVars, boundVars
<1>8. ASSUME NEW s \in Sites, OwnerDeletes(s)
      PROVE  TypeOK' /\ Control'
  BY <1>8 DEF OwnerDeletes, DeleteSite, TypeOK, Control, StoreTypeOK, workerVars, boundVars
<1>9. CASE UNCHANGED vars
  BY <1>9 DEF vars, TypeOK, Control, StoreTypeOK, storeVars, workerVars, boundVars
<1>10. QED
  BY <1>1, <1>2, <1>3, <1>4, <1>5, <1>6, <1>7, <1>8, <1>9 DEF Next, Step, RefusedForEver

(* Only the transaction and the owner change the tables. *)
LEMMA StoreUnchanged ==
  ASSUME [Next]_vars
  PROVE  \/ UNCHANGED storeVars
         \/ \E w \in Workers : (FlushOK(w) \/ FlushError(w)) /\ Commit(wbatch[w])
         \/ \E s \in Sites : OwnerDeletes(s)
<1>1. ASSUME NEW w \in Workers, Step(w)
      PROVE  \/ UNCHANGED storeVars
             \/ (FlushOK(w) \/ FlushError(w)) /\ Commit(wbatch[w])
  BY <1>1 DEF Step, Start, Recover, RecoverEnd, Take, TakeTimeout, Exit,
     FlushOK, FlushError, Requeue, Unclaim, PipelineBroken
<1>2. ASSUME NEW w \in Workers,
             TakeLost(w) \/ PipelineResent(w) \/ Signal(w) \/ Crash(w)
      PROVE  UNCHANGED storeVars
  BY <1>2 DEF TakeLost, PipelineResent, Signal, Crash
<1>3. ASSUME NEW id \in Ids, Push(id)
      PROVE  UNCHANGED storeVars
  BY <1>3 DEF Push
<1>4. CASE UNCHANGED vars
  BY <1>4 DEF vars
<1>5. QED
  BY <1>1, <1>2, <1>3, <1>4 DEF Next, RefusedForEver

LEMMA ExactlyOnceStep ==
  ASSUME IInv, [Next]_vars
  PROVE  ExactlyOnce'
<1>1. CASE UNCHANGED storeVars
  BY <1>1 DEF storeVars, ExactlyOnce, IInv
<1>2. ASSUME NEW w \in Workers, Commit(wbatch[w])
      PROVE  ExactlyOnce'
  BY <1>2, CommitFacts DEF IInv, TypeOK
<1>3. ASSUME NEW s \in Sites, OwnerDeletes(s)
      PROVE  ExactlyOnce'
  BY <1>3, DeleteFacts DEF OwnerDeletes, IInv, TypeOK
<1>4. QED
  BY <1>1, <1>2, <1>3, StoreUnchanged

LEMMA OnlyPushedStep ==
  ASSUME IInv, [Next]_vars
  PROVE  OnlyPushed'
<1> DEFINE Copies == Range(list) \cup Range(processing)
<1> USE DEF IInv
<1>0. Range(<<>>) = {}
  BY DEF Range
(* A step that makes no new record appear. *)
<1>a. ASSUME UNCHANGED sends, \A id \in Copies' : sends[id] > 0,
             \A v \in Workers : \A id \in Range(wbatch'[v]) : sends[id] > 0
      PROVE  OnlyPushed'
  BY <1>a DEF OnlyPushed
<1>b. /\ \A id \in Copies : sends[id] > 0
      /\ \A v \in Workers : \A id \in Range(wbatch[v]) : sends[id] > 0
  BY DEF OnlyPushed
<1>1. ASSUME NEW w \in Workers,
             \/ Start(w) \/ RecoverEnd(w) \/ TakeTimeout(w) \/ Exit(w)
             \/ FlushOK(w) \/ FlushError(w)
             \/ PipelineBroken(w) \/ PipelineResent(w) \/ Signal(w) \/ Crash(w)
      PROVE  OnlyPushed'
  <2>1. UNCHANGED <<list, processing, sends>>
    BY <1>1 DEF Start, RecoverEnd, TakeTimeout, Exit, FlushOK, FlushError,
       PipelineBroken, PipelineResent, Signal, Crash, boundVars
  <2>2. wbatch' = wbatch \/ wbatch' = [wbatch EXCEPT ![w] = <<>>]
    BY <1>1 DEF Start, RecoverEnd, TakeTimeout, Exit, FlushOK, FlushError,
       PipelineBroken, PipelineResent, Signal, Crash
  <2>3. wbatch \in [Workers -> Seq(Ids)]
    BY DEF TypeOK
  <2>4. \A v \in Workers : Range(wbatch'[v]) \subseteq Range(wbatch[v])
    BY <1>0, <2>2, <2>3
  <2>5. QED
    BY <2>1, <2>4, <1>a, <1>b
<1>2. ASSUME NEW w \in Workers, Recover(w)
      PROVE  OnlyPushed'
  <2>1. Copies' = Copies
    BY <1>2, MoveFacts DEF Recover
  <2>2. UNCHANGED <<wbatch, sends>>
    BY <1>2 DEF Recover, workerVars
  <2>3. QED
    BY <2>1, <2>2, <1>a, <1>b
<1>3. ASSUME NEW w \in Workers, TakeLost(w)
      PROVE  OnlyPushed'
  <2>1. Copies' \subseteq Copies
    BY <1>3, MoveFacts DEF TakeLost
  <2>2. UNCHANGED <<wbatch, sends>>
    BY <1>3 DEF TakeLost, workerVars
  <2>3. QED
    BY <2>1, <2>2, <1>a, <1>b
<1>4. ASSUME NEW w \in Workers, Take(w)
      PROVE  OnlyPushed'
  <2>1. UNCHANGED sends
    BY <1>4 DEF Take
  <2>2. CASE Last(list) \in Malformed
    <3>1. Range(list') \subseteq Range(list)
      BY <1>4, <2>2, FrontFacts DEF Take, TypeOK
    <3>2. UNCHANGED <<processing, wbatch>>
      BY <1>4, <2>2 DEF Take
    <3>3. QED
      BY <2>1, <3>1, <3>2, <1>a, <1>b
  <2>3. CASE Last(list) \notin Malformed
    <3>1. /\ Copies' \subseteq Copies /\ Last(list) \in Copies /\ Last(list) \in Ids
      BY <1>4, <2>3, MoveFacts DEF Take
    <3>2. wbatch' = [wbatch EXCEPT ![w] = Append(@, Last(list))]
          /\ wbatch \in [Workers -> Seq(Ids)]
      BY <1>4, <2>3 DEF Take, TypeOK
    <3>3. Range(Append(wbatch[w], Last(list))) = Range(wbatch[w]) \cup {Last(list)}
      BY <3>1, <3>2, RangeOfAppend
    <3>4. \A v \in Workers : Range(wbatch'[v]) \subseteq Range(wbatch[v]) \cup {Last(list)}
      BY <3>2, <3>3
    <3>5. QED
      BY <2>1, <3>1, <3>4, <1>a, <1>b
  <2>4. QED
    BY <2>2, <2>3
<1>5. ASSUME NEW w \in Workers, Requeue(w) \/ Unclaim(w)
      PROVE  OnlyPushed'
  <2>1. wbatch[w][widx[w]] \in Range(wbatch[w]) /\ wbatch[w][widx[w]] \in Ids
    <3>1. widx[w] \in 1..Len(wbatch[w]) /\ wbatch[w] \in Seq(Ids)
      BY <1>5, LenProperties, WorkerAssumption DEF Requeue, Unclaim, TypeOK, Control
    <3>2. QED
      BY <3>1, LenProperties, ElementOfSeq DEF Range
  <2>2. Copies' \subseteq Copies \cup {wbatch[w][widx[w]]}
    BY <1>5, <2>1, LPushFacts, LRemFacts DEF Requeue, Unclaim
  <2>3. \A v \in Workers : Range(wbatch'[v]) \subseteq Range(wbatch[v])
    BY <1>5, NextCommandFacts DEF Requeue, Unclaim
  <2>4. UNCHANGED sends
    BY <1>5 DEF Requeue, Unclaim
  <2>5. QED
    BY <2>1, <2>2, <2>3, <2>4, <1>a, <1>b
<1>6. ASSUME NEW id \in Ids, Push(id)
      PROVE  OnlyPushed'
  <2>1. Range(list') = Range(list) \cup {id} /\ UNCHANGED <<processing, wbatch>>
    BY <1>6, LPushFacts DEF Push, workerVars
  <2>2. /\ sends \in [Ids -> Nat] /\ sends' = [sends EXCEPT ![id] = @ + 1]
        /\ Copies \subseteq Ids /\ \A v \in Workers : Range(wbatch[v]) \subseteq Ids
    BY <1>6, WorkerAssumption, RangeOfSeq DEF Push, TypeOK
  <2>3. \A i \in Ids : (sends[i] > 0 \/ i = id) => sends'[i] > 0
    BY <2>2
  <2>4. QED
    BY <2>1, <2>2, <2>3, <1>b DEF OnlyPushed
<1>7. ASSUME NEW s \in Sites, OwnerDeletes(s)
      PROVE  OnlyPushed'
  BY <1>7 DEF OwnerDeletes, workerVars, OnlyPushed
<1>8. CASE UNCHANGED vars
  BY <1>8 DEF vars, workerVars, OnlyPushed
<1>9. QED
  BY <1>1, <1>2, <1>3, <1>4, <1>5, <1>6, <1>7, <1>8 DEF Next, Step, RefusedForEver

(* Inductive invariant: what the theorems below rest on. *)
THEOREM Inductive == Spec => []IInv
<1>1. IInv /\ [Next]_vars => IInv'
  BY TypeStep, ExactlyOnceStep, OnlyPushedStep DEF IInv
<1>2. QED
  BY InitIInv, <1>1, PTL DEF Spec

(* Type correctness: batches never outgrow BatchSize, and a pipeline never *)
(* runs past its batch, whatever is resent, broken or interrupted.         *)
THEOREM TypeCorrect == Spec => []TypeOK
BY Inductive, PTL DEF IInv

(* However many workers steal, requeue and resend each other's records, a  *)
(* record is stored at most once, and once exactly when it has a receipt.  *)
THEOREM StoredExactlyOnce == Spec => []ExactlyOnce
BY Inductive, PTL DEF IInv

-----------------------------------------------------------------------------
(* The workers implement StoredOnce *)

LEMMA CommitImplementsStore ==
  ASSUME IInv, NEW w \in Workers, Commit(wbatch[w]), UNCHANGED sends
  PROVE  Promise!Next
<1>1. Range(wbatch[w]) \subseteq Ids
  BY RangeOfSeq DEF IInv, TypeOK
<1>2. Accepted(wbatch[w]) \in SUBSET {id \in Ids : sends[id] > 0}
  BY <1>1 DEF IInv, OnlyPushed, Accepted
<1>3. \A id \in Accepted(wbatch[w]) : rows[id] = 0 /\ SiteOf[id] \in sites
  BY <1>1 DEF IInv, ExactlyOnce, Accepted, Commit, Persistable
<1>4. rows' = [id \in Ids |-> IF id \in Accepted(wbatch[w]) THEN 1 ELSE rows[id]]
  <2>1. ASSUME NEW id \in Ids
        PROVE  rows[id] + RowsCopied(wbatch[w], id)
                 = IF id \in Accepted(wbatch[w]) THEN 1 ELSE rows[id]
    BY <1>3 DEF RowsCopied, IInv, TypeOK, StoreTypeOK
  <2>2. QED
    BY <2>1 DEF Commit
<1>5. Promise!Store(Accepted(wbatch[w]))
  BY <1>3, <1>4 DEF Promise!Store, Commit
<1>6. QED
  BY <1>2, <1>5 DEF Promise!Next

LEMMA PromiseStep ==
  ASSUME IInv, [Next]_vars
  PROVE  [Promise!Next]_(Promise!vars)
<1>1. ASSUME NEW id \in Ids, Push(id)
      PROVE  Promise!Next
  <2>1. /\ sends \in [Ids -> Nat] /\ sends' = [sends EXCEPT ![id] = @ + 1]
        /\ UNCHANGED <<sites, rows>>
    BY <1>1, WorkerAssumption DEF Push, storeVars, IInv, TypeOK
  <2>2. {i \in Ids : sends'[i] > 0} = {i \in Ids : sends[i] > 0} \cup {id}
    BY <2>1
  <2>3. QED
    BY <2>1, <2>2 DEF Promise!Offer, Promise!Next
<1>2. CASE UNCHANGED sends
  <2>1. CASE UNCHANGED storeVars
    BY <1>2, <2>1 DEF storeVars, Promise!vars
  <2>2. ASSUME NEW w \in Workers, Commit(wbatch[w])
        PROVE  Promise!Next
    BY <1>2, <2>2, CommitImplementsStore
  <2>3. ASSUME NEW s \in Sites, OwnerDeletes(s)
        PROVE  Promise!Next
    BY <1>2, <2>3 DEF OwnerDeletes, DeleteSite, Promise!Delete, Promise!Next
  <2>4. QED
    BY <2>1, <2>2, <2>3, StoreUnchanged
<1>3. UNCHANGED sends \/ \E id \in Ids : Push(id)
  <2>1. ASSUME NEW w \in Workers, Step(w)
        PROVE  UNCHANGED sends
    BY <2>1 DEF Step, Start, Recover, RecoverEnd, Take, TakeTimeout, Exit,
       FlushOK, FlushError, Requeue, Unclaim, PipelineBroken
  <2>2. ASSUME NEW w \in Workers,
               TakeLost(w) \/ PipelineResent(w) \/ Signal(w) \/ Crash(w)
        PROVE  UNCHANGED sends
    BY <2>2 DEF TakeLost, PipelineResent, Signal, Crash
  <2>3. ASSUME NEW s \in Sites, OwnerDeletes(s)
        PROVE  UNCHANGED sends
    BY <2>3 DEF OwnerDeletes
  <2>4. CASE UNCHANGED vars
    BY <2>4 DEF vars
  <2>5. QED
    BY <2>1, <2>2, <2>3, <2>4 DEF Next, RefusedForEver
<1>4. QED
  BY <1>1, <1>2, <1>3

(* Every behaviour of the workers is one that StoredOnce allows: claims,    *)
(* requeues, steals, crashes and resent pipelines are invisible to the site *)
(* owner.                                                                   *)
THEOREM ImplementsStoredOnce == Spec => StoresOnce
<1>1. Init => Promise!Init
  BY DEF Init, StoreInit, Promise!Init
<1>2. IInv /\ [Next]_vars => [Promise!Next]_(Promise!vars)
  BY PromiseStep
<1>3. QED
  BY <1>1, <1>2, Inductive, PTL DEF Spec, StoresOnce, Promise!Spec
-----------------------------------------------------------------------------
(* Nothing is dropped.  That a record is in one of the two lists is not     *)
(* inductive: a worker that has requeued a record removes a copy of it      *)
(* later, and the copy it finds may be the last one unless every removal    *)
(* still to come is balanced by a copy.  So the copies are counted.         *)

Copies(id) == Occurrences(list, id) + Occurrences(processing, id)

(* The LREMs owed for LPUSHes already made: a worker that requeues owes one *)
(* for each command behind it, one that unclaims for each before it.        *)
Owed(id) ==
  {c \in Workers \X (1..BatchSize) :
     /\ c[2] <= Len(wbatch[c[1]]) /\ wbatch[c[1]][c[2]] = id
     /\ \/ wpc[c[1]] = "requeue" /\ c[2] < widx[c[1]]
        \/ wpc[c[1]] = "unclaim" /\ c[2] >= widx[c[1]]}
Debt(id) == Cardinality(Owed(id))

(* Only finitely many workers have been started. *)
FewRunning == IsFiniteSet({w \in Workers : wpc[w] # "down"})

(* A worker acknowledges what is stored, or what its site's end has removed. *)
AckStored ==
  \A w \in Workers : wpc[w] = "ack" =>
    \A id \in Range(wbatch[w]) : SiteOf[id] \in sites => id \in receipts

Unstored(id) == SiteOf[id] \in sites /\ id \notin receipts

(* A record that is not stored has more copies than removals to come. *)
Balanced == \A id \in Pushed : Unstored(id) => Copies(id) > Debt(id)

Accounted == FewRunning /\ AckStored /\ Balanced

(* What a worker does, of itself or not. *)
WorkerStep(w) ==
  \/ Step(w) \/ TakeLost(w) \/ PipelineResent(w)
  \/ RefusedForEver(w) \/ Signal(w) \/ Crash(w)

LEMMA DebtType ==
  ASSUME FewRunning, NEW id
  PROVE  IsFiniteSet(Owed(id)) /\ Debt(id) \in Nat
<1> DEFINE running == {w \in Workers : wpc[w] # "down"}
<1>1. IsFiniteSet(running) /\ IsFiniteSet(1..BatchSize)
  BY WorkerAssumption, FS_Interval DEF FewRunning
<1>2. IsFiniteSet(running \X (1..BatchSize))
  BY <1>1, FS_Product
<1>3. Owed(id) \in SUBSET (running \X (1..BatchSize))
  BY DEF Owed
<1>4. IsFiniteSet(Owed(id))
  BY <1>2, <1>3, FS_Subset
<1>5. QED
  BY <1>4, FS_CardinalityType DEF Debt

LEMMA CopiesType ==
  ASSUME TypeOK, NEW id
  PROVE  /\ Copies(id) \in Nat
         /\ Copies(id) > 0 => id \in Range(list) \cup Range(processing)
BY OccurrencesType DEF TypeOK, Copies

(* What the queue operations do to the number of copies. *)
LEMMA OneElement ==
  ASSUME NEW s \in Seq(Ids), NEW i \in 1..Len(s)
  PROVE  s[i] \in Ids /\ SubSeq(s, i, i) = <<s[i]>>
<1>1. Len(s) \in Nat /\ s[i] \in Ids
  BY LenProperties, ElementOfSeq
<1>2. i \in 1..Len(s) + 1 /\ i \in i - 1..Len(s) /\ i - i + 1 = 1 /\ i + 1 - 1 = i
  BY <1>1
<1>3. i <= i + 1 /\ i + 1 - i = 1
  BY <1>1
<1>4. /\ SubSeq(s, i, i) \in Seq(Ids) /\ Len(SubSeq(s, i, i)) = 1
      /\ SubSeq(s, i, i)[1] = s[i]
  BY <1>1, <1>2, <1>3, SubSeqProperties
<1>5. <<s[i]>> \in Seq(Ids) /\ Len(<<s[i]>>) = 1 /\ <<s[i]>>[1] = s[i]
  BY <1>1
<1>6. \A k \in 1..1 : k = 1
  OBVIOUS
<1>7. SubSeq(s, i, i) = <<s[i]>>
  BY <1>4, <1>5, <1>6, SeqEqual
<1>8. QED
  BY <1>1, <1>7

LEMMA FrontOccurrences ==
  ASSUME NEW s \in Seq(Ids), s # <<>>, NEW id
  PROVE  Occurrences(s, id) = Occurrences(Front(s), id) + Occurrences(<<Last(s)>>, id)
<1>1. Len(s) \in Nat /\ Len(s) # 0
  BY LenProperties, EmptySeq
<1> DEFINE end == SubSeq(s, Len(s), Len(s))
<1>2. /\ Front(s) \in Seq(Ids) /\ Last(s) \in Ids
  BY FrontFacts
<1>4. end = <<Last(s)>>
  BY <1>1, OneElement, Len(s) \in 1..Len(s) DEF Last
<1>5. s = Front(s) \o end
  <2>1. /\ 1 \in 1..Len(s) + 1 /\ Len(s) - 1 \in 1 - 1..Len(s)
        /\ Len(s) \in Len(s) - 1..Len(s) /\ Len(s) - 1 + 1 = Len(s)
    BY <1>1
  <2>2. SubSeq(s, 1, Len(s) - 1) \o SubSeq(s, Len(s) - 1 + 1, Len(s)) = SubSeq(s, 1, Len(s))
    BY <2>1, ConcatAdjacentSubSeq, Zenon
  <2>3. QED
    BY <2>1, <2>2, SubSeqFull DEF Front
<1>6. <<Last(s)>> \in Seq(Ids) /\ s = Front(s) \o <<Last(s)>>
  BY <1>2, <1>4, <1>5
<1>7. Occurrences(Front(s) \o <<Last(s)>>, id)
        = Occurrences(Front(s), id) + Occurrences(<<Last(s)>>, id)
  BY <1>2, <1>6, OccurrencesOfConcat
<1>8. QED
  BY <1>6, <1>7

LEMMA ConsOccurrences ==
  ASSUME NEW s \in Seq(Ids), NEW e \in Ids, NEW id
  PROVE  Occurrences(<<e>> \o s, id) = Occurrences(<<e>>, id) + Occurrences(s, id)
<1>1. <<e>> \in Seq(Ids)
  OBVIOUS
<1>2. QED
  BY <1>1, OccurrencesOfConcat

LEMMA MoveKeepsCopies ==
  ASSUME TypeOK, MoveToProcessing \/ MoveBack, NEW id
  PROVE  Copies(id)' = Copies(id)
<1>0. list \in Seq(Ids) /\ processing \in Seq(Ids)
  BY DEF TypeOK
<1>1. CASE MoveToProcessing
  <2>1. list # <<>> /\ list' = Front(list) /\ processing' = <<Last(list)>> \o processing
    BY <1>1 DEF MoveToProcessing
  <2>2. Front(list) \in Seq(Ids) /\ Last(list) \in Ids
    BY <1>0, <2>1, FrontFacts
  <2>3. /\ Occurrences(Front(list), id) \in Nat /\ Occurrences(<<Last(list)>>, id) \in Nat
        /\ Occurrences(processing, id) \in Nat
    BY <1>0, <2>2, OccurrencesType, OccurrencesOfOne
  <2>4. Occurrences(list, id) = Occurrences(Front(list), id) + Occurrences(<<Last(list)>>, id)
    BY <1>0, <2>1, FrontOccurrences
  <2>5. Occurrences(processing', id)
          = Occurrences(<<Last(list)>>, id) + Occurrences(processing, id)
    BY <1>0, <2>1, <2>2, ConsOccurrences
  <2>6. QED
    BY <2>1, <2>3, <2>4, <2>5 DEF Copies
<1>2. CASE MoveBack
  <2>1. processing # <<>> /\ processing' = Front(processing)
        /\ list' = <<Last(processing)>> \o list
    BY <1>2 DEF MoveBack
  <2>2. Front(processing) \in Seq(Ids) /\ Last(processing) \in Ids
    BY <1>0, <2>1, FrontFacts
  <2>3. /\ Occurrences(Front(processing), id) \in Nat
        /\ Occurrences(<<Last(processing)>>, id) \in Nat
        /\ Occurrences(list, id) \in Nat
    BY <1>0, <2>2, OccurrencesType, OccurrencesOfOne
  <2>4. Occurrences(processing, id)
          = Occurrences(Front(processing), id) + Occurrences(<<Last(processing)>>, id)
    BY <1>0, <2>1, FrontOccurrences
  <2>5. Occurrences(list', id) = Occurrences(<<Last(processing)>>, id) + Occurrences(list, id)
    BY <1>0, <2>1, <2>2, ConsOccurrences
  <2>6. QED
    BY <2>1, <2>3, <2>4, <2>5 DEF Copies
<1>3. QED
  BY <1>1, <1>2

LEMMA LPushAddsACopy ==
  ASSUME TypeOK, NEW e \in Ids, LPush(e), UNCHANGED processing, NEW id
  PROVE  Copies(id)' = Copies(id) + IF e = id THEN 1 ELSE 0
<1>1. Occurrences(list', id) = Occurrences(<<e>>, id) + Occurrences(list, id)
  BY ConsOccurrences DEF LPush, TypeOK
<1>2. Occurrences(list, id) \in Nat /\ Occurrences(processing, id) \in Nat
  BY OccurrencesType DEF TypeOK
<1>3. QED
  BY <1>1, <1>2, OccurrencesOfOne DEF Copies

(* LREM takes away one copy of its record, and none of another. *)
LEMMA LRemTakesOneCopy ==
  ASSUME TypeOK, NEW e, LRem(e), UNCHANGED list, NEW id
  PROVE  Copies(id) <= Copies(id)' + IF e = id THEN 1 ELSE 0
<1>0. /\ Occurrences(list, id) \in Nat /\ Occurrences(processing, id) \in Nat
      /\ processing \in Seq(Ids)
  BY OccurrencesType DEF TypeOK
<1>1. CASE e \notin Range(processing)
  <2>1. UNCHANGED processing
    BY <1>1 DEF LRem
  <2>2. QED
    BY <1>0, <2>1 DEF Copies
<1>2. CASE e \in Range(processing)
  <2>1. PICK i \in DOMAIN processing :
          processing[i] = e /\ processing' = RemoveAt(processing, i)
    BY <1>2 DEF LRem
  <2> DEFINE left == SubSeq(processing, 1, i - 1)
             right == SubSeq(processing, i + 1, Len(processing))
             here == SubSeq(processing, i, i)
  <2>2. Len(processing) \in Nat /\ i \in 1..Len(processing)
    BY <1>0, <2>1, LenProperties
  <2>3. /\ i - 1 \in 1 - 1..Len(processing) /\ i \in i - 1..Len(processing)
        /\ i \in 1 - 1..Len(processing) /\ i - 1 + 1 = i
        /\ 1 \in 1..Len(processing) + 1 /\ Len(processing) \in i..Len(processing)
        /\ i - 1 \in 0..Len(processing) /\ i \in 0..Len(processing)
    BY <2>2
  <2>4. left \o here = SubSeq(processing, 1, i)
    <3>1. SubSeq(processing, 1, i - 1) \o SubSeq(processing, i - 1 + 1, i)
            = SubSeq(processing, 1, i)
      BY <1>0, <2>3, ConcatAdjacentSubSeq, Zenon
    <3>2. QED
      BY <2>3, <3>1
  <2>5. SubSeq(processing, 1, i) \o right = processing
    <3>1. SubSeq(processing, 1, i) \o right = SubSeq(processing, 1, Len(processing))
      BY <1>0, <2>3, ConcatAdjacentSubSeq, Zenon
    <3>2. QED
      BY <1>0, <3>1, SubSeqFull
  <2>6. /\ left \in Seq(Ids) /\ right \in Seq(Ids)
        /\ SubSeq(processing, 1, i) \in Seq(Ids)
    BY <1>0, <2>3, RangeOfSplit
  <2>7. here = <<e>> /\ <<e>> \in Seq(Ids)
    BY <1>0, <2>1, <2>2, OneElement
  <2>8. processing' = left \o right
    BY <2>1 DEF RemoveAt
  <2> DEFINE upTo == SubSeq(processing, 1, i)
  <2>a. left \o <<e>> = upTo /\ upTo \o right = processing /\ upTo \in Seq(Ids)
    BY <2>4, <2>5, <2>6, <2>7
  <2> HIDE DEF left, right, here, upTo
  <2>9. /\ Occurrences(processing, id) = Occurrences(upTo, id)
                                           + Occurrences(right, id)
        /\ Occurrences(upTo, id)
             = Occurrences(left, id) + Occurrences(<<e>>, id)
        /\ Occurrences(left \o right, id) = Occurrences(left, id) + Occurrences(right, id)
    BY <2>6, <2>7, <2>a, OccurrencesOfConcat
  <2>10. Occurrences(left, id) \in Nat /\ Occurrences(right, id) \in Nat
    BY <2>6, OccurrencesType
  <2>11. Occurrences(<<e>>, id) = IF e = id THEN 1 ELSE 0
    BY OccurrencesOfOne
  <2>12. QED
    BY <1>0, <2>8, <2>9, <2>10, <2>11 DEF Copies
<1>3. QED
  BY <1>1, <1>2

-----------------------------------------------------------------------------
(* What a step does to the debt *)

LEMMA DebtShrinks ==
  ASSUME FewRunning, NEW id, Owed(id)' \subseteq Owed(id)
  PROVE  Debt(id)' <= Debt(id) /\ Debt(id)' \in Nat /\ Debt(id) \in Nat
<1>1. IsFiniteSet(Owed(id)) /\ Debt(id) \in Nat
  BY DebtType
<1>2. IsFiniteSet(Owed(id)') /\ Cardinality(Owed(id)') <= Cardinality(Owed(id))
  BY <1>1, FS_Subset
<1>3. QED
  BY <1>1, <1>2, FS_CardinalityType DEF Debt

(* A worker that is or comes where no LREM is owed only shrinks the debt. *)
LEMMA NoNewDebt ==
  ASSUME TypeOK, NEW w \in Workers, NEW id,
         \A v \in Workers \ {w} : /\ wpc'[v] = wpc[v] /\ wbatch'[v] = wbatch[v]
                                  /\ widx'[v] = widx[v],
         \/ wpc'[w] \notin {"requeue", "unclaim"}
         \/ wpc'[w] = "requeue" /\ widx'[w] = 1
         \/ wpc'[w] = wpc[w] /\ wbatch'[w] = wbatch[w] /\ widx'[w] = widx[w]
  PROVE  Owed(id)' \subseteq Owed(id)
<1> SUFFICES ASSUME NEW v \in Workers, NEW j \in 1..BatchSize, <<v, j>> \in Owed(id)'
             PROVE  <<v, j>> \in Owed(id)
  BY DEF Owed
<1>1. /\ j <= Len(wbatch'[v]) /\ wbatch'[v][j] = id
      /\ \/ wpc'[v] = "requeue" /\ j < widx'[v]
         \/ wpc'[v] = "unclaim" /\ j >= widx'[v]
  BY DEF Owed
<1>2. ~(wpc'[v] = "requeue" /\ widx'[v] = 1)
  BY <1>1
<1>3. wpc'[v] = wpc[v] /\ wbatch'[v] = wbatch[v] /\ widx'[v] = widx[v]
  BY <1>1, <1>2
<1>4. QED
  BY <1>1, <1>3 DEF Owed

(* The steps that leave the lists alone, or move a record between them. *)
LEMMA QuietDebt ==
  ASSUME TypeOK, NEW w \in Workers, NEW id,
         \/ Start(w) \/ Recover(w) \/ RecoverEnd(w) \/ Take(w) \/ TakeTimeout(w)
         \/ Exit(w) \/ FlushOK(w) \/ FlushError(w) \/ PipelineBroken(w)
         \/ TakeLost(w) \/ PipelineResent(w) \/ RefusedForEver(w)
         \/ Signal(w) \/ Crash(w)
  PROVE  Owed(id)' \subseteq Owed(id)
<1>0. /\ wpc \in [Workers -> {"down", "recover", "take", "flush",
                             "requeue", "unclaim", "ack"}]
      /\ wbatch \in [Workers -> Seq(Ids)] /\ widx \in [Workers -> 1..BatchSize]
  BY DEF TypeOK
<1>1. CASE Start(w) \/ RecoverEnd(w) \/ TakeTimeout(w) \/ Exit(w)
  <2>1. /\ \A v \in Workers \ {w} : wpc'[v] = wpc[v] /\ wbatch'[v] = wbatch[v]
                                    /\ widx'[v] = widx[v]
        /\ wpc'[w] \notin {"requeue", "unclaim"}
    BY <1>0, <1>1 DEF Start, RecoverEnd, TakeTimeout, Exit, Goto
  <2>2. QED
    BY <2>1, NoNewDebt
<1>2. CASE FlushOK(w) \/ FlushError(w) \/ PipelineBroken(w) \/ PipelineResent(w) \/ Crash(w)
  <2>1. /\ \A v \in Workers \ {w} : wpc'[v] = wpc[v] /\ wbatch'[v] = wbatch[v]
                                    /\ widx'[v] = widx[v]
        /\ \/ wpc'[w] \notin {"requeue", "unclaim"}
           \/ wpc'[w] = "requeue" /\ widx'[w] = 1
    BY <1>0, <1>2 DEF FlushOK, FlushError, PipelineBroken, PipelineResent, Crash, Goto
  <2>2. QED
    BY <2>1, NoNewDebt
<1>3. CASE Recover(w) \/ TakeLost(w) \/ RefusedForEver(w) \/ Signal(w)
  <2>1. wpc' = wpc /\ wbatch' = wbatch /\ widx' = widx
    BY <1>3 DEF Recover, TakeLost, RefusedForEver, Signal, vars, workerVars
  <2>2. QED
    BY <2>1 DEF Owed
<1>4. CASE Take(w)
  <2>1. /\ \A v \in Workers \ {w} : wpc'[v] = wpc[v] /\ wbatch'[v] = wbatch[v]
                                    /\ widx'[v] = widx[v]
        /\ wpc'[w] \notin {"requeue", "unclaim"}
    BY <1>0, <1>4 DEF Take, Goto
  <2>2. QED
    BY <2>1, NoNewDebt
<1>5. QED
  BY <1>1, <1>2, <1>3, <1>4

(* A command of the pipeline: an LPUSH adds to the debt what the LREM after  *)
(* it pays back.                                                            *)
LEMMA CommandDebt ==
  ASSUME TypeOK, Control, NEW w \in Workers, NEW id,
         NEW after \in {"take", "unclaim"}, NextCommand(w, after),
         \/ wpc[w] = "requeue" /\ after = "unclaim"
         \/ wpc[w] \in {"unclaim", "ack"} /\ after = "take"
  PROVE  /\ wpc[w] = "requeue" /\ wbatch[w][widx[w]] = id
              => Owed(id)' \subseteq Owed(id) \cup {<<w, widx[w]>>}
         /\ wpc[w] = "requeue" /\ wbatch[w][widx[w]] # id
              => Owed(id)' \subseteq Owed(id)
         /\ wpc[w] # "requeue" => Owed(id)' \subseteq Owed(id) \ {<<w, widx[w]>>}
         /\ wpc[w] = "unclaim" /\ wbatch[w][widx[w]] = id => <<w, widx[w]>> \in Owed(id)
<1>0. /\ wpc \in [Workers -> {"down", "recover", "take", "flush",
                             "requeue", "unclaim", "ack"}]
      /\ wbatch \in [Workers -> Seq(Ids)] /\ widx \in [Workers -> 1..BatchSize]
      /\ BatchSize \in Nat /\ Len(wbatch[w]) \in Nat
      /\ widx[w] \in 1..BatchSize /\ widx[w] <= Len(wbatch[w])
      /\ Len(<<>>) = 0
  BY WorkerAssumption, LenProperties DEF TypeOK, Control
<1>1. ASSUME NEW v \in Workers, NEW j \in 1..BatchSize, <<v, j>> \in Owed(id)'
      PROVE  /\ <<v, j>> # <<w, widx[w]>> => <<v, j>> \in Owed(id)
             /\ <<v, j>> = <<w, widx[w]>> =>
                  wpc[w] = "requeue" /\ wbatch[w][widx[w]] = id
  <2>1. /\ j <= Len(wbatch'[v]) /\ wbatch'[v][j] = id
        /\ \/ wpc'[v] = "requeue" /\ j < widx'[v]
           \/ wpc'[v] = "unclaim" /\ j >= widx'[v]
    BY <1>1 DEF Owed
  <2>2. CASE v # w
    <3>1. wpc'[v] = wpc[v] /\ wbatch'[v] = wbatch[v] /\ widx'[v] = widx[v]
      BY <1>0, <2>2 DEF NextCommand, Goto
    <3>2. QED
      BY <2>1, <2>2, <3>1 DEF Owed
  <2>3. CASE v = w /\ widx[w] < Len(wbatch[w])
    <3>1. wpc' = wpc /\ wbatch' = wbatch /\ widx'[w] = widx[w] + 1
      BY <1>0, <2>3 DEF NextCommand
    <3>2. QED
      BY <1>0, <2>1, <2>3, <3>1 DEF Owed
  <2>4. CASE v = w /\ ~(widx[w] < Len(wbatch[w]))
    <3>1. /\ wpc'[w] = after /\ widx'[w] = 1 /\ widx[w] = Len(wbatch[w])
      BY <1>0, <2>4 DEF NextCommand, Goto
    <3>2. after = "unclaim" /\ wpc[w] = "requeue"
      BY <2>1, <2>4, <3>1
    <3>3. wbatch'[w] = wbatch[w]
      BY <1>0, <2>4, <3>2 DEF NextCommand
    <3>4. QED
      BY <1>0, <2>1, <2>4, <3>1, <3>2, <3>3 DEF Owed
  <2>5. QED
    BY <2>2, <2>3, <2>4
<1>2. Owed(id)' \subseteq Workers \X (1..BatchSize)
  BY DEF Owed
<1>3. wpc[w] = "unclaim" /\ wbatch[w][widx[w]] = id => <<w, widx[w]>> \in Owed(id)
  BY <1>0 DEF Owed
<1>4. \A c \in Owed(id)' : /\ c # <<w, widx[w]>> => c \in Owed(id)
                           /\ c = <<w, widx[w]>> =>
                                wpc[w] = "requeue" /\ wbatch[w][widx[w]] = id
  BY <1>1, <1>2
<1>5. QED
  BY <1>3, <1>4

(* While a record is not stored, no step of a worker lets the number of its *)
(* copies come nearer to the removals owed: whoever holds, steals, requeues *)
(* or releases it.                                                          *)
LEMMA BalanceKept ==
  ASSUME Refusals = FALSE, TypeOK, Control, FewRunning, AckStored,
         NEW id \in Ids \ Malformed, Unstored(id),
         NEW w \in Workers, WorkerStep(w)
  PROVE  /\ Copies(id) + Debt(id)' <= Copies(id)' + Debt(id)
         /\ Copies(id)' \in Nat /\ Debt(id)' \in Nat
<1>0. Copies(id) \in Nat /\ Debt(id) \in Nat /\ IsFiniteSet(Owed(id))
  BY CopiesType, DebtType
<1>1. CASE \/ Start(w) \/ RecoverEnd(w) \/ TakeTimeout(w) \/ Exit(w) \/ FlushOK(w)
           \/ FlushError(w) \/ PipelineBroken(w) \/ PipelineResent(w)
           \/ RefusedForEver(w) \/ Signal(w) \/ Crash(w)
  <2>1. UNCHANGED <<list, processing>>
    BY <1>1 DEF Start, RecoverEnd, TakeTimeout, Exit, FlushOK, FlushError,
       PipelineBroken, PipelineResent, RefusedForEver, Signal, Crash, vars
  <2>2. Copies(id)' = Copies(id)
    BY <2>1 DEF Copies
  <2>3. Debt(id)' <= Debt(id) /\ Debt(id)' \in Nat
    BY <1>1, QuietDebt, DebtShrinks
  <2>4. QED
    BY <1>0, <2>2, <2>3
<1>2. CASE Recover(w) \/ TakeLost(w)
  <2>1. Copies(id)' = Copies(id)
    BY <1>2, MoveKeepsCopies DEF Recover, TakeLost
  <2>2. Debt(id)' <= Debt(id) /\ Debt(id)' \in Nat
    BY <1>2, QuietDebt, DebtShrinks
  <2>3. QED
    BY <1>0, <2>1, <2>2
<1>3. CASE Take(w)
  <2>1. Debt(id)' <= Debt(id) /\ Debt(id)' \in Nat
    BY <1>3, QuietDebt, DebtShrinks
  <2>2. CASE Last(list) \in Malformed
    <3>1. list \in Seq(Ids) /\ list # <<>> /\ list' = Front(list) /\ UNCHANGED processing
      BY <1>3, <2>2 DEF Take, TypeOK
    <3>2. Occurrences(<<Last(list)>>, id) = 0
      BY <2>2, OccurrencesOfOne
    <3>3. Occurrences(list, id) = Occurrences(Front(list), id) + Occurrences(<<Last(list)>>, id)
      BY <3>1, FrontOccurrences
    <3>4. Occurrences(Front(list), id) \in Nat
      BY <3>1, FrontFacts, OccurrencesType
    <3>5. Copies(id)' = Copies(id)
      BY <3>1, <3>2, <3>3, <3>4 DEF Copies
    <3>6. QED
      BY <1>0, <2>1, <3>5
  <2>3. CASE Last(list) \notin Malformed
    <3>1. Copies(id)' = Copies(id)
      BY <1>3, <2>3, MoveKeepsCopies DEF Take
    <3>2. QED
      BY <1>0, <2>1, <3>1
  <2>4. QED
    BY <2>2, <2>3
<1>4. ASSUME Requeue(w) \/ Unclaim(w)
      PROVE  wbatch[w][widx[w]] \in Ids /\ wbatch[w][widx[w]] \in Range(wbatch[w])
  <2>1. widx[w] \in 1..Len(wbatch[w]) /\ wbatch[w] \in Seq(Ids)
    BY <1>4, LenProperties, WorkerAssumption DEF Requeue, Unclaim, TypeOK, Control
  <2>2. QED
    BY <2>1, LenProperties, ElementOfSeq DEF Range
<1>5. CASE Requeue(w)
  <2> DEFINE e == wbatch[w][widx[w]]
             one == <<w, widx[w]>>
  <2>1. Copies(id)' = Copies(id) + IF e = id THEN 1 ELSE 0
    BY <1>4, <1>5, LPushAddsACopy DEF Requeue
  <2>2. CASE e # id
    <3>1. Owed(id)' \subseteq Owed(id)
      BY <1>5, <2>2, CommandDebt DEF Requeue
    <3>2. QED
      BY <1>0, <2>1, <2>2, <3>1, DebtShrinks
  <2>3. CASE e = id
    <3>1. Owed(id)' \subseteq Owed(id) \cup {one}
      BY <1>5, <2>3, CommandDebt DEF Requeue
    <3>2. /\ IsFiniteSet(Owed(id) \cup {one})
          /\ Cardinality(Owed(id) \cup {one}) <= Debt(id) + 1
      <4>1. /\ IsFiniteSet(Owed(id) \cup {one})
            /\ Cardinality(Owed(id) \cup {one})
                 = IF one \in Owed(id) THEN Cardinality(Owed(id))
                                       ELSE Cardinality(Owed(id)) + 1
        BY <1>0, FS_AddElement
      <4>2. QED
        BY <1>0, <4>1 DEF Debt
    <3>3. /\ IsFiniteSet(Owed(id)')
          /\ Cardinality(Owed(id)') <= Cardinality(Owed(id) \cup {one})
      BY <3>1, <3>2, FS_Subset
    <3>4. Debt(id)' \in Nat /\ Cardinality(Owed(id) \cup {one}) \in Nat
      BY <3>2, <3>3, FS_CardinalityType DEF Debt
    <3>5. QED
      BY <1>0, <2>1, <2>3, <3>2, <3>3, <3>4 DEF Debt
  <2>4. QED
    BY <2>2, <2>3
<1>6. CASE Unclaim(w)
  <2> DEFINE e == wbatch[w][widx[w]]
             one == <<w, widx[w]>>
  <2>1. Copies(id) <= Copies(id)' + IF e = id THEN 1 ELSE 0
    BY <1>6, LRemTakesOneCopy DEF Unclaim
  <2>2. Owed(id)' \subseteq Owed(id) \ {one}
    BY <1>6, CommandDebt DEF Unclaim
  <2>3. Debt(id)' \in Nat /\ Debt(id)' <= Debt(id)
    BY <2>2, DebtShrinks
  <2>4. Copies(id)' \in Nat
    <3>1. processing' \in Seq(Ids) /\ UNCHANGED list
      BY <1>6, LRemFacts DEF Unclaim
    <3>2. QED
      BY <3>1, OccurrencesType DEF Copies, TypeOK
  <2>5. CASE e # id
    BY <1>0, <2>1, <2>3, <2>4, <2>5
  <2>6. CASE e = id
    <3>1. wpc[w] # "ack"
      BY <1>4, <1>6, <2>6 DEF AckStored, Unstored
    <3>2. one \in Owed(id)
      BY <1>6, <2>6, <3>1, CommandDebt DEF Unclaim
    <3>3. /\ IsFiniteSet(Owed(id) \ {one})
          /\ Cardinality(Owed(id) \ {one}) = Debt(id) - 1
      BY <1>0, <3>2, FS_RemoveElement DEF Debt
    <3>4. Debt(id)' <= Debt(id) - 1
      BY <2>2, <3>3, FS_Subset DEF Debt
    <3>5. QED
      BY <1>0, <2>1, <2>3, <2>4, <2>6, <3>4
  <2>7. QED
    BY <2>5, <2>6
<1>7. QED
  BY <1>1, <1>2, <1>3, <1>5, <1>6 DEF WorkerStep, Step

-----------------------------------------------------------------------------
LEMMA FewRunningStep ==
  ASSUME TypeOK, FewRunning, NEW w \in Workers,
         \A v \in Workers \ {w} : wpc'[v] = wpc[v]
  PROVE  FewRunning'
<1> DEFINE running == {v \in Workers : wpc[v] # "down"}
<1>1. IsFiniteSet(running \cup {w})
  BY FS_AddElement DEF FewRunning
<1>2. {v \in Workers : wpc'[v] # "down"} \in SUBSET (running \cup {w})
  OBVIOUS
<1>3. IsFiniteSet({v \in Workers : wpc'[v] # "down"})
  BY <1>1, <1>2, FS_Subset
<1>4. QED
  BY <1>3 DEF FewRunning

(* A step of one worker leaves the others where they are. *)
LEMMA OnlyOneMoves ==
  ASSUME TypeOK, NEW w \in Workers, WorkerStep(w)
  PROVE  \A v \in Workers \ {w} : wpc'[v] = wpc[v] /\ wbatch'[v] = wbatch[v]
<1>1. wpc \in [Workers -> {"down", "recover", "take", "flush",
                           "requeue", "unclaim", "ack"}]
      /\ wbatch \in [Workers -> Seq(Ids)]
  BY DEF TypeOK
<1>2. CASE \/ Start(w) \/ Recover(w) \/ RecoverEnd(w) \/ Take(w) \/ TakeTimeout(w)
           \/ Exit(w) \/ FlushOK(w) \/ FlushError(w) \/ PipelineBroken(w)
  BY <1>1, <1>2 DEF Start, Recover, RecoverEnd, Take, TakeTimeout, Exit, FlushOK,
     FlushError, PipelineBroken, Goto, workerVars
<1>3. CASE Requeue(w) \/ Unclaim(w)
  BY <1>1, <1>3 DEF Requeue, Unclaim, NextCommand, Goto
<1>4. CASE TakeLost(w) \/ PipelineResent(w) \/ RefusedForEver(w) \/ Signal(w) \/ Crash(w)
  BY <1>1, <1>4 DEF TakeLost, PipelineResent, RefusedForEver, Signal, Crash, Goto,
     workerVars, vars
<1>5. QED
  BY <1>2, <1>3, <1>4 DEF WorkerStep, Step

(* A worker only adds receipts. *)
LEMMA WorkerStoreFacts ==
  ASSUME NEW w \in Workers, WorkerStep(w)
  PROVE  sites' = sites /\ receipts \subseteq receipts'
<1>1. CASE UNCHANGED storeVars
  BY <1>1 DEF storeVars
<1>2. CASE Commit(wbatch[w])
  BY <1>2 DEF Commit
<1>3. QED
  BY <1>1, <1>2 DEF WorkerStep, Step, Start, Recover, RecoverEnd, Take, TakeTimeout,
     Exit, FlushOK, FlushError, Requeue, Unclaim, PipelineBroken, TakeLost,
     PipelineResent, RefusedForEver, Signal, Crash, vars

(* Only a committed flush leads to the acknowledgement. *)
LEMMA AckStoredStep ==
  ASSUME TypeOK, AckStored, NEW w \in Workers, WorkerStep(w)
  PROVE  AckStored'
<1>0. /\ wpc \in [Workers -> {"down", "recover", "take", "flush",
                              "requeue", "unclaim", "ack"}]
      /\ wbatch \in [Workers -> Seq(Ids)]
  BY DEF TypeOK
<1>1. sites' = sites /\ receipts \subseteq receipts'
  BY WorkerStoreFacts
<1>2. ASSUME wpc'[w] = "ack"
      PROVE  \A id \in Range(wbatch'[w]) : SiteOf[id] \in sites' => id \in receipts'
  <2>1. CASE FlushOK(w)
    <3>1. wbatch' = wbatch /\ receipts' = receipts \cup Range(wbatch[w])
      BY <2>1 DEF FlushOK, Commit, Accepted
    <3>2. QED
      BY <3>1
  <2>2. CASE Unclaim(w) \/ Requeue(w)
    <3>1. wpc[w] = "ack" /\ wbatch' = wbatch
      BY <1>0, <1>2, <2>2 DEF Unclaim, Requeue, NextCommand, Goto
    <3>2. QED
      BY <1>1, <3>1 DEF AckStored
  <2>3. CASE Signal(w) \/ PipelineResent(w) \/ Recover(w) \/ TakeLost(w) \/ RefusedForEver(w)
    <3>1. wpc[w] = "ack" /\ wbatch' = wbatch
      BY <1>0, <1>2, <2>3 DEF Signal, PipelineResent, Recover, TakeLost,
         RefusedForEver, Goto, workerVars, vars
    <3>2. QED
      BY <1>1, <3>1 DEF AckStored
  <2>4. CASE \/ Start(w) \/ RecoverEnd(w) \/ Take(w) \/ TakeTimeout(w)
             \/ Exit(w) \/ FlushError(w) \/ PipelineBroken(w) \/ Crash(w)
    BY <1>0, <1>2, <2>4 DEF Start, RecoverEnd, Take, TakeTimeout, Exit, FlushError,
       PipelineBroken, Crash, Goto
  <2>5. QED
    BY <2>1, <2>2, <2>3, <2>4 DEF WorkerStep, Step
<1>3. ASSUME NEW v \in Workers, wpc'[v] = "ack"
      PROVE  \A id \in Range(wbatch'[v]) : SiteOf[id] \in sites' => id \in receipts'
  <2>1. CASE v = w
    BY <1>2, <1>3, <2>1
  <2>2. CASE v # w
    BY <1>1, <1>3, <2>2, OnlyOneMoves DEF AckStored
  <2>3. QED
    BY <2>1, <2>2
<1>4. QED
  BY <1>3 DEF AckStored

(* A step of a worker keeps every claim, removal and copy accounted for. *)
LEMMA AccountedByWorker ==
  ASSUME Refusals = FALSE, TypeOK, Control, Accounted,
         NEW w \in Workers, WorkerStep(w), UNCHANGED sends
  PROVE  Accounted'
<1>1. FewRunning'
  BY OnlyOneMoves, FewRunningStep DEF Accounted
<1>2. AckStored'
  BY AckStoredStep DEF Accounted
<1>3. ASSUME NEW id \in Pushed', Unstored(id)'
      PROVE  Copies(id)' > Debt(id)'
  <2>1. sites' = sites /\ receipts \subseteq receipts'
    BY WorkerStoreFacts
  <2>2. id \in Pushed /\ Unstored(id) /\ id \in Ids \ Malformed
    BY <1>3, <2>1 DEF Pushed, Unstored
  <2>3. Copies(id) > Debt(id)
    BY <2>2 DEF Accounted, Balanced
  <2>4. /\ Copies(id) + Debt(id)' <= Copies(id)' + Debt(id)
        /\ Copies(id)' \in Nat /\ Debt(id)' \in Nat
    BY <2>2, BalanceKept DEF Accounted
  <2>5. Copies(id) \in Nat /\ Debt(id) \in Nat
    BY CopiesType, DebtType DEF Accounted
  <2>6. QED
    BY <2>3, <2>4, <2>5
<1>4. QED
  BY <1>1, <1>2, <1>3 DEF Accounted, Balanced

LEMMA NoDebtUnpushed ==
  ASSUME TypeOK, OnlyPushed, NEW id \in Ids, sends[id] = 0
  PROVE  Owed(id) = {} /\ Debt(id) = 0
<1>1. ASSUME NEW v \in Workers, NEW j \in 1..BatchSize, j <= Len(wbatch[v])
      PROVE  wbatch[v][j] # id
  <2>1. j \in 1..Len(wbatch[v]) /\ DOMAIN wbatch[v] = 1..Len(wbatch[v])
    BY <1>1, LenProperties, WorkerAssumption DEF TypeOK
  <2>2. wbatch[v][j] \in Range(wbatch[v])
    BY <2>1 DEF Range
  <2>3. QED
    BY <2>2 DEF OnlyPushed
<1>2. Owed(id) = {}
  BY <1>1 DEF Owed
<1>3. QED
  BY <1>2, FS_EmptySet DEF Debt

LEMMA AccountedStep ==
  ASSUME Refusals = FALSE, IInv, Accounted, [Next]_vars
  PROVE  Accounted'
<1>0. TypeOK /\ Control /\ OnlyPushed
  BY DEF IInv
<1>1. ASSUME NEW w \in Workers, WorkerStep(w)
      PROVE  Accounted'
  <2>1. UNCHANGED sends
    BY <1>1 DEF WorkerStep, Step, Start, Recover, RecoverEnd, Take, TakeTimeout, Exit,
       FlushOK, FlushError, Requeue, Unclaim, PipelineBroken, TakeLost, PipelineResent,
       RefusedForEver, Signal, Crash, vars
  <2>2. QED
    BY <1>0, <1>1, <2>1, AccountedByWorker
<1>2. ASSUME NEW e \in Ids, Push(e)
      PROVE  Accounted'
  <2>1. /\ UNCHANGED <<sites, receipts, wpc, wbatch, widx, processing>> /\ LPush(e)
        /\ sends' = [sends EXCEPT ![e] = @ + 1] /\ sends \in [Ids -> Nat]
    BY <1>0, <1>2, WorkerAssumption DEF Push, storeVars, workerVars, TypeOK
  <2>2. FewRunning' /\ AckStored'
    BY <2>1 DEF Accounted, FewRunning, AckStored
  <2>3. ASSUME NEW id \in Pushed', Unstored(id)'
        PROVE  Copies(id)' > Debt(id)'
    <3>1. /\ Copies(id)' = Copies(id) + IF e = id THEN 1 ELSE 0
          /\ Copies(id) \in Nat /\ Debt(id) \in Nat
      BY <1>0, <2>1, LPushAddsACopy, CopiesType, DebtType DEF Accounted
    <3>2. Debt(id)' = Debt(id) /\ Unstored(id)
      BY <2>1, <2>3 DEF Debt, Owed, Unstored
    <3>3. CASE id \in Pushed
      BY <3>1, <3>2, <3>3 DEF Accounted, Balanced
    <3>4. CASE id \notin Pushed
      <4>1. id \in Ids /\ sends[id] = 0 /\ e = id
        BY <2>1, <2>3, <3>4 DEF Pushed
      <4>2. Debt(id) = 0
        BY <1>0, <4>1, NoDebtUnpushed
      <4>3. QED
        BY <3>1, <3>2, <4>1, <4>2
    <3>5. QED
      BY <3>3, <3>4
  <2>4. QED
    BY <2>2, <2>3 DEF Accounted, Balanced
<1>3. ASSUME NEW s \in Sites, OwnerDeletes(s)
      PROVE  Accounted'
  <2>1. /\ UNCHANGED <<wpc, wbatch, widx, list, processing, sends>>
        /\ sites' = sites \ {s} /\ receipts' = {i \in receipts : SiteOf[i] # s}
    BY <1>3 DEF OwnerDeletes, DeleteSite, workerVars
  <2>2. FewRunning' /\ AckStored'
    BY <2>1 DEF Accounted, FewRunning, AckStored
  <2>3. \A id : Copies(id)' = Copies(id) /\ Debt(id)' = Debt(id)
    BY <2>1 DEF Copies, Debt, Owed
  <2>4. \A id \in Pushed' : Unstored(id)' => id \in Pushed /\ Unstored(id)
    BY <2>1 DEF Pushed, Unstored
  <2>5. QED
    BY <2>2, <2>3, <2>4 DEF Accounted, Balanced
<1>4. CASE UNCHANGED vars
  <2>1. UNCHANGED <<wpc, wbatch, widx, list, processing, sends, sites, receipts>>
    BY <1>4 DEF vars, storeVars, workerVars
  <2>2. \A id : Copies(id)' = Copies(id) /\ Debt(id)' = Debt(id)
    BY <2>1 DEF Copies, Debt, Owed
  <2>3. QED
    BY <2>1, <2>2 DEF Accounted, FewRunning, AckStored, Balanced, Pushed, Unstored
<1>5. QED
  BY <1>1, <1>2, <1>3, <1>4 DEF Next, WorkerStep

LEMMA InitAccounted == Init => Accounted
<1> SUFFICES ASSUME Init PROVE Accounted
  OBVIOUS
<1>1. {w \in Workers : wpc[w] # "down"} = {} /\ Pushed = {}
  BY DEF Init, Pushed
<1>2. QED
  BY <1>1, FS_EmptySet DEF Init, Accounted, FewRunning, AckStored, Balanced

(* As long as Redis refuses no command, no record that decodes is ever      *)
(* outside the database and the two lists: not while it is claimed, taken   *)
(* over, requeued, resent or released, by however many workers at once.     *)
(* When Redis refuses an LPUSH the removal that follows drops the record:   *)
(* the run of QueueWorker_refused.cfg shows it.                             *)
THEOREM NeverDropped == ASSUME Refusals = FALSE PROVE Spec => []NothingDropped
<1>1. IInv /\ Accounted /\ [Next]_vars => Accounted'
  BY AccountedStep
<1>2. IInv /\ Accounted => NothingDropped
  <2>1. SUFFICES ASSUME IInv, Accounted, NEW id \in Pushed, Unstored(id)
                 PROVE  id \in Range(list) \cup Range(processing)
    BY DEF NothingDropped, Unstored
  <2>2. Copies(id) \in Nat /\ Debt(id) \in Nat /\ Copies(id) > Debt(id)
    BY <2>1, CopiesType, DebtType DEF IInv, Accounted, Balanced
  <2>3. QED
    BY <2>1, <2>2, CopiesType DEF IInv
<1>3. QED
  BY InitAccounted, <1>1, <1>2, Inductive, PTL DEF Spec
=============================================================================
