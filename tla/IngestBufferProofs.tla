-------------------------- MODULE IngestBufferProofs --------------------------
(***************************************************************************)
(* Proofs about the ingestion service, for every set of records and sites, *)
(* every batch and buffer size, with or without Redis.                     *)
(***************************************************************************)
EXTENDS IngestBuffer, IngestFacts

(* While the flusher's select listens to the channel, its batch has room:  *)
(* the head of the loop stops listening when a full batch was retained.    *)
InputOpen == fpc = "select" /\ input => Len(batch) < BatchSize

(* An ended process holds nothing. *)
ExitedEmpty == mpc = "exited" => pushing = {} /\ ch = <<>> /\ batch = <<>>

(* The flusher drains only a closed channel. *)
DrainStopped == fpc \in {"drain", "done"} => stopped

(* Records on their way were sent by a client. *)
OnlySent ==
  \A id \in pushing \cup Range(ch) \cup Range(batch) : sends[id] > 0

(* A finished flusher has accounted for what is left in memory. *)
DoneAccounted == fpc = "done" => Range(batch) \cup Range(ch) \subseteq lost

TypeInv ==
  /\ TypeOK /\ InputOpen /\ ExitedEmpty /\ DrainStopped /\ NoSendOnClosed

(* What holds whoever else reads the Redis list; the records in the list    *)
(* are accounted for only while nobody does.                                *)
CoreInv ==
  /\ TypeInv
  /\ OnlySent
  /\ ExactlyOnce
  /\ CleanShutdown
  /\ DoneAccounted

IInv == CoreInv /\ NoSilentLoss

(* The records the database or the memory of the service accounts for. *)
Held == receipts \cup Range(ch) \cup Range(batch) \cup lost

-----------------------------------------------------------------------------
(* Lemmas about the operators *)

(* Topping up moves records from the channel to the batch, up to BatchSize. *)
LEMMA FillFacts ==
  ASSUME TypeOK, NEW b \in Seq(Ids), Len(b) <= BatchSize, Fill(b)
  PROVE  /\ batch' \in Seq(Ids) /\ Len(batch') <= BatchSize
         /\ ch' \in Seq(Ids) /\ Len(ch') <= BufferSize
         /\ Range(batch') \cup Range(ch') = Range(b) \cup Range(ch)
         /\ ch = <<>> => ch' = <<>> /\ batch' = b
<1> DEFINE room == IF Len(b) < BatchSize THEN BatchSize - Len(b) ELSE 0
           n == IF room < Len(ch) THEN room ELSE Len(ch)
           front == SubSeq(ch, 1, n)
<1>1. /\ Len(b) \in Nat /\ Len(ch) \in Nat /\ ch \in Seq(Ids)
      /\ Len(ch) <= BufferSize /\ BatchSize \in Nat /\ BufferSize \in Nat
  BY BufferAssumption, LenProperties DEF TypeOK
<1>2. n \in 0..Len(ch) /\ n <= BatchSize - Len(b)
  BY <1>1
<1>3. batch' = b \o front /\ ch' = SubSeq(ch, n + 1, Len(ch))
  BY DEF Fill
<1> HIDE DEF n
<1>4. /\ front \in Seq(Ids) /\ ch' \in Seq(Ids)
      /\ Len(front) = n /\ Len(ch') = Len(ch) - n
      /\ Range(ch) = Range(front) \cup Range(ch')
  BY <1>1, <1>2, <1>3, RangeOfSplit
<1> HIDE DEF front
<1>5. batch' \in Seq(Ids) /\ Len(batch') = Len(b) + n
  BY <1>3, <1>4, ConcatProperties
<1>6. Range(batch') = Range(b) \cup Range(front)
  <2>1. Range(b \o front) = Range(b) \cup Range(front)
    BY <1>4, RangeConcatenation
  <2>2. QED
    BY <1>3, <2>1
<1>7. ASSUME ch = <<>> PROVE ch' = <<>> /\ batch' = b
  <2>1. n = 0 /\ Len(ch') = 0
    BY <1>2, <1>4, <1>7
  <2>2. ch' = <<>>
    BY <1>4, <2>1, EmptySeq
  <2>3. front = <<>>
    BY <1>4, <2>1, EmptySeq
  <2>4. QED
    BY <1>3, <2>2, <2>3, ConcatEmptySeq
<1>8. QED
  BY <1>1, <1>2, <1>4, <1>5, <1>6, <1>7

-----------------------------------------------------------------------------
(* The control invariant holds initially and after every step. *)
LEMMA InitTypeInv == Init => TypeInv
<1> SUFFICES ASSUME Init PROVE TypeInv
  OBVIOUS
<1>1. ch \in Seq(Ids) /\ Len(ch) = 0 /\ batch \in Seq(Ids) /\ Len(batch) = 0
      /\ list \in Seq(Ids)
  BY EmptySeq DEF Init
<1>2. StoreTypeOK
  BY DEF Init, StoreInit, StoreTypeOK
<1>3. sends \in [Ids -> 0..MaxSends] /\ faults \in 0..MaxFaults
      /\ restarts \in 0..MaxRestarts
  BY BufferAssumption DEF Init
<1>4. TypeOK
  <2>1. Len(ch) <= BufferSize /\ Len(batch) <= BatchSize
    BY <1>1, BufferAssumption
  <2>2. siteIDs \subseteq Sites /\ pushing \subseteq Ids /\ acked \subseteq Ids
        /\ lost \subseteq Ids
    BY DEF Init
  <2>3. QED
    BY <1>1, <1>2, <1>3, <2>1, <2>2 DEF Init, TypeOK
<1>5. InputOpen /\ ExitedEmpty /\ DrainStopped /\ NoSendOnClosed
  BY <1>1, BufferAssumption DEF Init, InputOpen, ExitedEmpty, DrainStopped, NoSendOnClosed
<1>6. QED
  BY <1>4, <1>5 DEF TypeInv

LEMMA TypeInvStep ==
  ASSUME TypeInv, [Next]_vars
  PROVE  TypeInv'
<1> USE BufferAssumption DEF TypeInv
<1>0. /\ Len(ch) \in Nat /\ Len(batch) \in Nat
      /\ BatchSize \in Nat \ {0} /\ BufferSize \in Nat \ {0}
      /\ <<>> \in Seq(Ids) /\ Len(<<>>) = 0
      /\ Range(ch) \subseteq Ids /\ Range(batch) \subseteq Ids
  BY LenProperties, EmptySeq, RangeOfSeq DEF TypeOK
<1>1. ASSUME NEW id \in Ids, PushBegin(id)
       PROVE  TypeInv'
  BY <1>1 DEF PushBegin, OthersUnchanged, TypeOK, StoreTypeOK, InputOpen, ExitedEmpty, DrainStopped, NoSendOnClosed, storeVars, flusherVars, processVars, historyVars
<1>2. ASSUME NEW id \in Ids, PushEnd(id)
       PROVE  TypeInv'
  <2>1. list' \in Seq(Ids)
    <3>1. <<id>> \o list \in Seq(Ids)
      BY RangeOfCons DEF TypeOK
    <3>2. list' = list \/ list' = <<id>> \o list
      BY <1>2 DEF PushEnd
    <3>3. QED
      BY <3>1, <3>2 DEF TypeOK
  <2>2. ch' \in Seq(Ids) /\ Len(ch') <= BufferSize /\ acked' \subseteq Ids
    <3>1. CASE SendLocal(id)
      <4>1. Append(ch, id) \in Seq(Ids) /\ Len(Append(ch, id)) = Len(ch) + 1
        BY AppendProperties DEF TypeOK
      <4>2. CASE Len(ch) < BufferSize
        <5>1. ch' = Append(ch, id) /\ acked' = acked \cup {id}
          BY <3>1, <4>2 DEF SendLocal
        <5>2. Len(ch) + 1 <= BufferSize
          BY <1>0, <4>2
        <5>3. QED
          BY <4>1, <5>1, <5>2 DEF TypeOK
      <4>3. CASE ~(Len(ch) < BufferSize)
        BY <3>1, <4>3 DEF SendLocal, TypeOK
      <4>4. QED
        BY <4>2, <4>3
    <3>2. CASE UNCHANGED ch /\ acked' = acked \cup {id}
      BY <1>2, <3>2 DEF TypeOK
    <3>3. QED
      BY <1>2, <3>1, <3>2 DEF PushEnd
  <2>3. faults' \in 0..MaxFaults
    BY <1>2 DEF PushEnd, TypeOK
  <2>4. QED
    BY <1>2, <2>1, <2>2, <2>3 DEF PushEnd, TypeOK, StoreTypeOK, InputOpen, ExitedEmpty, DrainStopped, NoSendOnClosed, storeVars
<1>3. CASE Receive
  BY <1>0, <1>3, RangeOfTail, AppendProperties DEF Receive, OthersUnchanged, TypeOK, StoreTypeOK, InputOpen, ExitedEmpty, DrainStopped, NoSendOnClosed, storeVars, flusherVars, processVars, historyVars
<1>4. CASE ReceiveClosed
  BY <1>4 DEF ReceiveClosed, OthersUnchanged, TypeOK, StoreTypeOK, InputOpen, ExitedEmpty, DrainStopped, NoSendOnClosed, storeVars, flusherVars, processVars, historyVars
<1>5. CASE Tick
  BY <1>5 DEF Tick, OthersUnchanged, TypeOK, StoreTypeOK, InputOpen, ExitedEmpty, DrainStopped, NoSendOnClosed, storeVars, flusherVars, processVars, historyVars
<1>6. CASE RetryTimer
  BY <1>6 DEF RetryTimer, OthersUnchanged, TypeOK, StoreTypeOK, InputOpen, ExitedEmpty, DrainStopped, NoSendOnClosed, storeVars, flusherVars, processVars, historyVars
<1>7. CASE FlushOK
  <2>1. StoreTypeOK'
    BY <1>7, CommitType DEF FlushOK, TypeOK
  <2>2. QED
    BY <1>0, <1>7, <2>1 DEF FlushOK, OthersUnchanged, TypeOK, InputOpen, ExitedEmpty, DrainStopped, NoSendOnClosed
<1>8. CASE FlushError
  <2>1. StoreTypeOK'
    <3>1. CASE UNCHANGED storeVars
      BY <3>1 DEF storeVars, TypeOK, StoreTypeOK
    <3>2. CASE Commit(batch)
      BY <3>2, CommitType DEF TypeOK
    <3>3. QED
      BY <1>8, <3>1, <3>2 DEF FlushError, TransactionFails
  <2>2. faults' \in 0..MaxFaults
    BY <1>8 DEF FlushError, TransactionFails, TypeOK
  <2>3. QED
    BY <1>0, <1>8, <2>1, <2>2 DEF FlushError, OthersUnchanged, TypeOK, StoreTypeOK, InputOpen, ExitedEmpty, DrainStopped, NoSendOnClosed, storeVars, flusherVars, processVars, historyVars
<1>9. CASE FlusherCancelled
  BY <1>9 DEF FlusherCancelled, OthersUnchanged, TypeOK, StoreTypeOK, InputOpen, ExitedEmpty, DrainStopped, NoSendOnClosed, storeVars, flusherVars, processVars, historyVars
<1>10. CASE FlusherClose
  BY <1>10 DEF FlusherClose, OthersUnchanged, TypeOK, StoreTypeOK, InputOpen, ExitedEmpty, DrainStopped, NoSendOnClosed, storeVars, flusherVars, processVars, historyVars
<1>11. CASE EnterDrain
  <2>1. /\ batch' \in Seq(Ids) /\ Len(batch') <= BatchSize
        /\ ch' \in Seq(Ids) /\ Len(ch') <= BufferSize
        /\ ch = <<>> => ch' = <<>> /\ batch' = batch
    BY <1>11, FillFacts DEF EnterDrain, TypeOK
  <2>2. QED
    BY <1>0, <1>11, <2>1 DEF EnterDrain, OthersUnchanged, TypeOK, StoreTypeOK, InputOpen, ExitedEmpty, DrainStopped, NoSendOnClosed, storeVars, flusherVars, processVars, historyVars
<1>12. CASE DrainOK
  <2>1. <<>> \in Seq(Ids) /\ Len(<<>>) <= BatchSize
    BY EmptySeq
  <2>2. /\ batch' \in Seq(Ids) /\ Len(batch') <= BatchSize
        /\ ch' \in Seq(Ids) /\ Len(ch') <= BufferSize
        /\ ch = <<>> => ch' = <<>> /\ batch' = <<>>
    BY <1>12, <2>1, FillFacts DEF DrainOK, TypeOK
  <2>3. StoreTypeOK'
    BY <1>12, CommitType DEF DrainOK, TypeOK
  <2>4. QED
    BY <1>0, <1>12, <2>2, <2>3 DEF DrainOK, OthersUnchanged, TypeOK, StoreTypeOK, InputOpen, ExitedEmpty, DrainStopped, NoSendOnClosed, storeVars, flusherVars, processVars, historyVars
<1>13. CASE DrainError
  <2>1. StoreTypeOK'
    <3>1. CASE UNCHANGED storeVars
      BY <3>1 DEF storeVars, TypeOK, StoreTypeOK
    <3>2. CASE Commit(batch)
      BY <3>2, CommitType DEF TypeOK
    <3>3. QED
      BY <1>13, <3>1, <3>2 DEF DrainError, TransactionFails
  <2>2. faults' \in 0..MaxFaults
    BY <1>13 DEF DrainError, TransactionFails, TypeOK
  <2>3. QED
    BY <1>0, <1>13, <2>1, <2>2 DEF DrainError, OthersUnchanged, TypeOK, StoreTypeOK, InputOpen, ExitedEmpty, DrainStopped, NoSendOnClosed, storeVars, flusherVars, processVars, historyVars
<1>14. CASE DrainExpired
  BY <1>0, <1>14 DEF DrainExpired, OthersUnchanged, TypeOK, StoreTypeOK, InputOpen, ExitedEmpty, DrainStopped, NoSendOnClosed, storeVars, flusherVars, processVars, historyVars
<1>15. CASE MainShutdown
  BY <1>15 DEF MainShutdown, OthersUnchanged, TypeOK, StoreTypeOK, InputOpen, ExitedEmpty, DrainStopped, NoSendOnClosed, storeVars, flusherVars, processVars, historyVars
<1>16. CASE MainClose
  BY <1>16 DEF MainClose, OthersUnchanged, TypeOK, StoreTypeOK, InputOpen, ExitedEmpty, DrainStopped, NoSendOnClosed, storeVars, flusherVars, processVars, historyVars
<1>17. CASE MainExit
  <2>1. ch' \in Seq(Ids) /\ Len(ch') = 0 /\ batch' \in Seq(Ids) /\ Len(batch') = 0
    BY <1>0, <1>17 DEF MainExit
  <2>2. QED
    BY <1>0, <1>17, <2>1 DEF MainExit, TypeOK, StoreTypeOK, InputOpen, ExitedEmpty, DrainStopped, NoSendOnClosed, storeVars, historyVars
<1>18. CASE Signal
  BY <1>18 DEF Signal, OthersUnchanged, TypeOK, StoreTypeOK, InputOpen, ExitedEmpty, DrainStopped, NoSendOnClosed, storeVars, flusherVars, processVars, historyVars
<1>19. CASE Crash
  <2>1. ch' \in Seq(Ids) /\ Len(ch') = 0 /\ batch' \in Seq(Ids) /\ Len(batch') = 0
    BY <1>0, <1>19 DEF Crash
  <2>2. QED
    BY <1>0, <1>19, <2>1 DEF Crash, OthersUnchanged, TypeOK, StoreTypeOK, InputOpen, ExitedEmpty, DrainStopped, NoSendOnClosed, storeVars, flusherVars, processVars, historyVars
<1>20. CASE Restart
  <2>1. restarts' \in 0..MaxRestarts
    BY <1>20 DEF Restart, TypeOK
  <2>2. batch' = <<>> /\ ch' = <<>> /\ pushing' = {}
    BY <1>20 DEF Restart, ExitedEmpty
  <2>3. ch' \in Seq(Ids) /\ Len(ch') = 0 /\ batch' \in Seq(Ids) /\ Len(batch') = 0
    BY <1>0, <2>2
  <2>4. TypeOK'
    BY <1>0, <1>20, <2>1, <2>2, <2>3 DEF Restart, TypeOK, StoreTypeOK, storeVars
  <2>5. QED
    BY <1>0, <1>20, <2>2, <2>3, <2>4
    DEF Restart, InputOpen, ExitedEmpty, DrainStopped, NoSendOnClosed
<1>21. CASE Terminated
  BY <1>21 DEF Terminated, vars, OthersUnchanged, TypeOK, StoreTypeOK, InputOpen, ExitedEmpty, DrainStopped, NoSendOnClosed, storeVars, flusherVars, processVars, historyVars
<1>22. ASSUME NEW s \in Sites, ExpireSiteInfo(s)
       PROVE  TypeInv'
  BY <1>22 DEF ExpireSiteInfo, OthersUnchanged, TypeOK, StoreTypeOK, InputOpen, ExitedEmpty, DrainStopped, NoSendOnClosed, storeVars, flusherVars, processVars, historyVars
<1>23. ASSUME NEW s \in Sites, OwnerDeletes(s)
       PROVE  TypeInv'
  <2>1. StoreTypeOK'
    BY <1>23 DEF OwnerDeletes, DeleteSite, TypeOK, StoreTypeOK
  <2>2. QED
    BY <1>23, <2>1 DEF OwnerDeletes, TypeOK, InputOpen, ExitedEmpty, DrainStopped, NoSendOnClosed, flusherVars, processVars, historyVars
<1>24. CASE UNCHANGED vars
  BY <1>24 DEF vars, storeVars, flusherVars, processVars, historyVars, TypeOK, StoreTypeOK, InputOpen, ExitedEmpty, DrainStopped, NoSendOnClosed
<1>25. QED
  BY <1>1, <1>2, <1>3, <1>4, <1>5, <1>6, <1>7, <1>8, <1>9, <1>10, <1>11, <1>12, <1>13, <1>14, <1>15, <1>16, <1>17, <1>18, <1>19, <1>20, <1>21, <1>22, <1>23, <1>24 DEF Next, Handler, Flusher, Environment

(* Type correctness.  Initially and after every step of handlers, flusher, *)
(* main, signals and crashes the variables stay in their types; in         *)
(* particular neither the channel nor the retained batch outgrows its      *)
(* bound however long the database is down (the memory bound that the      *)
(* input = nil of the flusher is for).                                     *)
THEOREM TypeCorrect == Spec => []TypeOK
<1>1. TypeInv /\ [Next]_vars => TypeInv'
  BY TypeInvStep
<1>2. QED
  BY InitTypeInv, <1>1, PTL DEF Spec, TypeInv

-----------------------------------------------------------------------------
(* The safety invariant.  Each lemma treats one conjunct; its steps are the *)
(* actions that can disturb it, and the others change none of its variables. *)

Quiet ==
  \/ ReceiveClosed \/ Tick \/ RetryTimer \/ FlusherCancelled \/ FlusherClose
  \/ MainShutdown \/ MainClose \/ Signal \/ Terminated
  \/ \E s \in Sites : ExpireSiteInfo(s)
  \/ UNCHANGED vars

(* Quiet steps touch neither records nor tables and do not end the flusher. *)
LEMMA QuietFacts ==
  ASSUME Quiet
  PROVE  /\ UNCHANGED <<sites, receipts, rows, list, pushing, ch, batch,
                        stopErr, sends, acked, lost>>
         /\ fpc' = "done" => fpc = "done"
BY DEF Quiet, ReceiveClosed, Tick, RetryTimer, FlusherCancelled, FlusherClose,
       MainShutdown, MainClose, Signal, Terminated, ExpireSiteInfo,
       OthersUnchanged, vars, storeVars, flusherVars, processVars, historyVars

LEMMA NextCases ==
  ASSUME [Next]_vars
  PROVE  \/ Quiet
         \/ \E id \in Ids : PushBegin(id) \/ PushEnd(id)
         \/ Receive \/ FlushOK \/ FlushError
         \/ EnterDrain \/ DrainOK \/ DrainError \/ DrainExpired
         \/ MainExit \/ Crash \/ Restart
         \/ \E s \in Sites : OwnerDeletes(s)
BY DEF Next, Handler, Flusher, Environment, Quiet

(* Where the records of the channel and of the batch go in one step.       *)
LEMMA ReceiveFacts ==
  ASSUME TypeInv, Receive
  PROVE  Range(batch') \cup Range(ch') = Range(batch) \cup Range(ch)
<1>1. ch \in Seq(Ids) /\ ch # <<>> /\ batch \in Seq(Ids)
  BY DEF TypeInv, TypeOK, Receive
<1>2. Range(ch) = Range(Tail(ch)) \cup {Head(ch)} /\ Head(ch) \in Ids
  BY <1>1, RangeOfTail
<1>3. Range(Append(batch, Head(ch))) = Range(batch) \cup {Head(ch)}
  BY <1>1, <1>2, RangeOfAppend
<1>4. batch' = Append(batch, Head(ch)) /\ ch' = Tail(ch)
  BY DEF Receive
<1>5. QED
  BY <1>2, <1>3, <1>4

LEMMA EnterDrainFacts ==
  ASSUME TypeInv, EnterDrain
  PROVE  Range(batch') \cup Range(ch') = Range(batch) \cup Range(ch)
BY FillFacts DEF TypeInv, TypeOK, EnterDrain

LEMMA DrainOKFacts ==
  ASSUME TypeInv, DrainOK
  PROVE  /\ Range(batch') \cup Range(ch') = Range(ch)
         /\ ch = <<>> => ch' = <<>> /\ batch' = <<>>
<1>1. <<>> \in Seq(Ids) /\ Len(<<>>) <= BatchSize /\ Range(<<>>) = {}
  BY BufferAssumption, EmptySeq DEF Range
<1>2. TypeOK /\ Fill(<<>>)
  BY DEF TypeInv, DrainOK
<1>3. QED
  BY <1>1, <1>2, FillFacts

LEMMA PushEndFacts ==
  ASSUME TypeInv, NEW id \in Ids, PushEnd(id)
  PROVE  /\ Range(list) \subseteq Range(list') /\ Range(ch) \subseteq Range(ch')
         /\ Range(ch') \subseteq Range(ch) \cup {id}
         /\ acked' \subseteq acked \cup (Range(list') \cup Range(ch'))
<1>1. /\ Range(<<id>> \o list) = Range(list) \cup {id}
      /\ Range(Append(ch, id)) = Range(ch) \cup {id}
  BY RangeOfCons, RangeOfAppend DEF TypeInv, TypeOK
<1>2. \/ ch' = ch /\ acked' = acked
      \/ ch' = Append(ch, id) /\ acked' = acked \cup {id}
      \/ ch' = ch /\ list' = <<id>> \o list /\ acked' = acked \cup {id}
  BY DEF PushEnd, SendLocal
<1>3. list' = list \/ list' = <<id>> \o list
  BY DEF PushEnd
<1>4. QED
  BY <1>1, <1>2, <1>3

LEMMA FailureFacts ==
  ASSUME TypeInv, ExactlyOnce, TransactionFails
  PROVE  ExactlyOnce' /\ receipts \subseteq receipts' /\ sites' = sites
<1>1. CASE UNCHANGED storeVars
  BY <1>1 DEF storeVars, ExactlyOnce
<1>2. CASE Commit(batch)
  BY <1>2, CommitFacts DEF TypeInv, TypeOK
<1>3. QED
  BY <1>1, <1>2 DEF TransactionFails

(* Nothing that was sent becomes unsent. *)
LEMMA SentStaysSent ==
  ASSUME TypeInv, [Next]_vars, NEW id \in Ids, sends[id] > 0
  PROVE  sends'[id] > 0
<1>1. ASSUME NEW i \in Ids, PushBegin(i)
      PROVE  sends'[id] > 0
  <2>1. sends \in [Ids -> Nat] /\ sends' = [sends EXCEPT ![i] = @ + 1]
    BY <1>1, BufferAssumption DEF PushBegin, TypeInv, TypeOK
  <2>2. QED
    BY <2>1
<1>2. ASSUME NEW i \in Ids, PushEnd(i)
      PROVE  UNCHANGED sends
  BY <1>2 DEF PushEnd
<1>3. CASE Quiet
  BY <1>3, QuietFacts
<1>4. CASE \/ Receive \/ FlushOK \/ FlushError \/ EnterDrain \/ DrainOK \/ DrainError
           \/ DrainExpired
  BY <1>4 DEF Receive, FlushOK, FlushError, EnterDrain, DrainOK, DrainError,
     DrainExpired, OthersUnchanged
<1>5. CASE \/ MainExit \/ Crash \/ Restart \/ \E s \in Sites : OwnerDeletes(s)
  BY <1>5 DEF MainExit, Crash, Restart, OwnerDeletes, historyVars
<1>6. QED
  BY <1>1, <1>2, <1>3, <1>4, <1>5, NextCases

LEMMA OnlySentStep ==
  ASSUME CoreInv, [Next]_vars
  PROVE  OnlySent'
<1> USE DEF CoreInv
<1>0. Range(<<>>) = {}
  BY DEF Range
<1>1. CASE Quiet
  BY <1>1, QuietFacts DEF OnlySent
<1>2. ASSUME NEW id \in Ids, PushBegin(id)
      PROVE  OnlySent'
  <2>1. \A i \in Ids : sends'[i] >= sends[i] /\ (i = id => sends'[i] > 0)
    BY <1>2, BufferAssumption DEF PushBegin, TypeInv, TypeOK
  <2>2. \A i \in pushing \cup Range(ch) \cup Range(batch) : i \in Ids
    BY RangeOfSeq DEF TypeInv, TypeOK
  <2>3. sends \in [Ids -> Nat] /\ sends' \in [Ids -> Nat]
    BY <1>2, BufferAssumption DEF PushBegin, TypeInv, TypeOK
  <2>4. pushing' = pushing \cup {id} /\ UNCHANGED <<ch, batch>>
    BY <1>2 DEF PushBegin, flusherVars
  <2>5. QED
    BY <2>1, <2>2, <2>3, <2>4 DEF OnlySent
<1>3. ASSUME NEW id \in Ids, PushEnd(id)
      PROVE  OnlySent'
  <2>1. Range(ch') \subseteq Range(ch) \cup {id}
    BY <1>3, PushEndFacts
  <2>2. QED
    BY <1>3, <2>1 DEF PushEnd, OnlySent
<1>4. CASE Receive
  BY <1>4, ReceiveFacts DEF Receive, OthersUnchanged, OnlySent
<1>5. CASE EnterDrain
  BY <1>5, EnterDrainFacts DEF EnterDrain, OthersUnchanged, OnlySent
<1>6. CASE DrainOK
  BY <1>6, DrainOKFacts DEF DrainOK, OthersUnchanged, OnlySent
<1>7. CASE FlushOK \/ FlushError \/ DrainError \/ DrainExpired
  BY <1>0, <1>7 DEF FlushOK, FlushError, DrainError, DrainExpired, OthersUnchanged, OnlySent
<1>8. CASE MainExit \/ Crash \/ Restart
  BY <1>0, <1>8 DEF MainExit, Crash, Restart, historyVars, OnlySent
<1>9. ASSUME NEW s \in Sites, OwnerDeletes(s)
      PROVE  OnlySent'
  BY <1>9 DEF OwnerDeletes, processVars, flusherVars, historyVars, OnlySent
<1>10. QED
  BY <1>1, <1>2, <1>3, <1>4, <1>5, <1>6, <1>7, <1>8, <1>9, NextCases

LEMMA ExactlyOnceStep ==
  ASSUME CoreInv, [Next]_vars
  PROVE  ExactlyOnce'
<1> USE DEF CoreInv
<1>1. CASE Quiet
  BY <1>1, QuietFacts DEF ExactlyOnce
<1>2. CASE \E id \in Ids : PushBegin(id) \/ PushEnd(id)
  BY <1>2 DEF PushBegin, PushEnd, storeVars, ExactlyOnce
<1>3. CASE FlushOK \/ DrainOK
  BY <1>3, CommitFacts DEF FlushOK, DrainOK, TypeInv, TypeOK
<1>4. CASE FlushError \/ DrainError
  BY <1>4, FailureFacts DEF FlushError, DrainError
<1>5. CASE Receive \/ EnterDrain \/ DrainExpired \/ MainExit \/ Crash \/ Restart
  BY <1>5 DEF Receive, EnterDrain, DrainExpired, MainExit, Crash, Restart, storeVars, ExactlyOnce
<1>6. ASSUME NEW s \in Sites, OwnerDeletes(s)
      PROVE  ExactlyOnce'
  BY <1>6, DeleteFacts DEF OwnerDeletes, TypeInv, TypeOK
<1>7. QED
  BY <1>1, <1>2, <1>3, <1>4, <1>5, <1>6, NextCases

LEMMA DoneStep ==
  ASSUME CoreInv, [Next]_vars
  PROVE  CleanShutdown' /\ DoneAccounted'
<1> USE DEF CoreInv
<1>0. Range(<<>>) = {}
  BY DEF Range
<1>1. CASE Quiet
  BY <1>1, QuietFacts DEF CleanShutdown, DoneAccounted
<1>2. ASSUME NEW id \in Ids, PushBegin(id) \/ PushEnd(id)
      PROVE  fpc' # "done"
  BY <1>2 DEF PushBegin, PushEnd, TypeInv, DrainStopped, NoSendOnClosed, flusherVars
<1>3. CASE Receive \/ FlushOK \/ FlushError \/ EnterDrain \/ DrainError \/ Restart
  <2>1. fpc' # "done"
    BY <1>3 DEF Receive, FlushOK, FlushError, EnterDrain, DrainError, Restart
  <2>2. QED
    BY <2>1 DEF CleanShutdown, DoneAccounted
<1>4. CASE DrainOK
  <2>1. fpc' = "done" => ch' = <<>> /\ batch' = <<>>
    BY <1>4, DrainOKFacts DEF DrainOK
  <2>2. QED
    BY <1>0, <2>1 DEF CleanShutdown, DoneAccounted
<1>5. CASE DrainExpired
  BY <1>5 DEF DrainExpired, CleanShutdown, DoneAccounted
<1>6. CASE MainExit \/ Crash
  BY <1>0, <1>6 DEF MainExit, Crash, CleanShutdown, DoneAccounted
<1>7. ASSUME NEW s \in Sites, OwnerDeletes(s)
      PROVE  CleanShutdown' /\ DoneAccounted'
  BY <1>7 DEF OwnerDeletes, processVars, flusherVars, historyVars, CleanShutdown, DoneAccounted
<1>8. QED
  BY <1>1, <1>2, <1>3, <1>4, <1>5, <1>6, <1>7, NextCases DEF CleanShutdown, DoneAccounted

(* A step of the service keeps what it holds, pushes to the list at most one *)
(* record that was on its way, and answers 200 only for a record it sends.  *)
LEMMA HeldStep ==
  ASSUME CoreInv, [Next]_vars
  PROVE  /\ sites' \subseteq sites
         /\ \A id \in Ids : SiteOf[id] \in sites' /\ id \in Held => id \in Held'
         /\ \A id \in Ids : SiteOf[id] \in sites' /\ id \in receipts => id \in receipts'
         /\ list' = list \/ \E id \in pushing : list' = <<id>> \o list
         /\ \A id \in acked' : \/ id \in acked
                               \/ id \in Range(ch')
                               \/ list' = <<id>> \o list
<1> DEFINE Goal ==
      /\ sites' \subseteq sites
      /\ \A id \in Ids : SiteOf[id] \in sites' /\ id \in Held => id \in Held'
      /\ \A id \in Ids : SiteOf[id] \in sites' /\ id \in receipts => id \in receipts'
      /\ list' = list \/ \E id \in pushing : list' = <<id>> \o list
      /\ \A id \in acked' : \/ id \in acked
                            \/ id \in Range(ch')
                            \/ list' = <<id>> \o list
<1> USE DEF CoreInv
<1>0. Range(<<>>) = {}
  BY DEF Range
(* A step that keeps every held record held and answers nobody. *)
<1>f. ASSUME Held \subseteq Held', receipts \subseteq receipts',
             UNCHANGED <<sites, list, acked>>
      PROVE  Goal
  BY <1>f
<1>1. CASE Quiet
  BY <1>1, <1>f, QuietFacts DEF Held
<1>2. ASSUME NEW id \in Ids, PushBegin(id)
      PROVE  Goal
  BY <1>2, <1>f DEF PushBegin, storeVars, flusherVars, Held
<1>3. ASSUME NEW id \in Ids, PushEnd(id)
      PROVE  Goal
  <2>1. UNCHANGED <<receipts, batch, lost, sites>> /\ id \in pushing
    BY <1>3 DEF PushEnd, storeVars
  <2>2. Held \subseteq Held'
    BY <1>3, <2>1, PushEndFacts DEF Held
  <2>3. Range(Append(ch, id)) = Range(ch) \cup {id}
    BY RangeOfAppend DEF TypeInv, TypeOK
  <2>4. /\ list' = list \/ list' = <<id>> \o list
        /\ \/ acked' = acked
           \/ acked' = acked \cup {id} /\ ch' = Append(ch, id)
           \/ acked' = acked \cup {id} /\ list' = <<id>> \o list
    BY <1>3 DEF PushEnd, SendLocal
  <2>5. QED
    BY <2>1, <2>2, <2>3, <2>4
<1>4. CASE Receive
  <2>1. UNCHANGED <<receipts, list, lost, sites, acked>>
    BY <1>4 DEF Receive, storeVars, OthersUnchanged
  <2>2. QED
    BY <1>4, <2>1, ReceiveFacts, <1>f DEF Held
<1>5. CASE EnterDrain
  <2>1. UNCHANGED <<receipts, list, lost, sites, acked>>
    BY <1>5 DEF EnterDrain, storeVars, OthersUnchanged
  <2>2. QED
    BY <1>5, <2>1, EnterDrainFacts, <1>f DEF Held
<1>6. CASE FlushOK
  <2>1. receipts' = receipts \cup Range(batch) /\ sites' = sites
    BY <1>6, CommitFacts DEF FlushOK, TypeInv, TypeOK
  <2>2. UNCHANGED <<list, ch, lost, acked>>
    BY <1>6 DEF FlushOK, OthersUnchanged
  <2>3. QED
    BY <2>1, <2>2, <1>f DEF Held
<1>7. CASE DrainOK
  <2>1. receipts' = receipts \cup Range(batch) /\ sites' = sites
    BY <1>7, CommitFacts DEF DrainOK, TypeInv, TypeOK
  <2>2. UNCHANGED <<list, lost, acked>>
    BY <1>7 DEF DrainOK, OthersUnchanged
  <2>3. QED
    BY <1>7, <2>1, <2>2, DrainOKFacts, <1>f DEF Held
<1>8. CASE FlushError \/ DrainError
  <2>1. receipts \subseteq receipts' /\ sites' = sites
    BY <1>8, FailureFacts DEF FlushError, DrainError
  <2>2. UNCHANGED <<list, ch, batch, lost, acked>>
    BY <1>8 DEF FlushError, DrainError, OthersUnchanged
  <2>3. QED
    BY <2>1, <2>2, <1>f DEF Held
<1>9. CASE DrainExpired
  BY <1>9, <1>f DEF DrainExpired, storeVars, OthersUnchanged, Held
<1>10. CASE MainExit
  <2>1. Range(batch) \cup Range(ch) \subseteq lost
    BY <1>10 DEF MainExit, DoneAccounted
  <2>2. UNCHANGED <<receipts, sites, list, lost, acked>>
    BY <1>10 DEF MainExit, storeVars, historyVars
  <2>3. QED
    BY <2>1, <2>2, <1>f DEF Held
<1>11. CASE Crash \/ Restart
  BY <1>11, <1>f DEF Crash, Restart, storeVars, Held
<1>12. ASSUME NEW s \in Sites, OwnerDeletes(s)
       PROVE  Goal
  <2>1. sites' = sites \ {s} /\ \A id \in receipts : SiteOf[id] # s => id \in receipts'
    BY <1>12, DeleteFacts DEF OwnerDeletes, TypeInv, TypeOK
  <2>2. UNCHANGED <<list, ch, batch, lost, acked>>
    BY <1>12 DEF OwnerDeletes, processVars, flusherVars, historyVars
  <2>3. QED
    BY <2>1, <2>2 DEF Held
<1>13. QED
  BY <1>1, <1>2, <1>3, <1>4, <1>5, <1>6, <1>7, <1>8, <1>9, <1>10, <1>11, <1>12, NextCases

LEMMA NoSilentLossStep ==
  ASSUME IInv, [Next]_vars
  PROVE  NoSilentLoss'
<1>1. CoreInv /\ list \in Seq(Ids) /\ pushing \subseteq Ids
  BY DEF IInv, CoreInv, TypeInv, TypeOK
<1>2. acked' \subseteq Ids
  BY <1>1, TypeInvStep DEF CoreInv, TypeInv, TypeOK
<1>3. \A id \in Ids : Range(<<id>> \o list) = Range(list) \cup {id}
  BY <1>1, RangeOfCons
<1>4. Range(list) \subseteq Range(list')
  BY <1>1, <1>3, HeldStep
<1>5. \A id \in acked' : id \in acked \/ id \in Range(ch') \cup Range(list')
  BY <1>1, <1>2, <1>3, HeldStep
<1>6. \A id \in acked : \/ SiteOf[id] \notin sites
                       \/ id \in Held \cup Range(list)
  BY DEF IInv, NoSilentLoss, Held
<1>7. \A id \in acked' : \/ SiteOf[id] \notin sites'
                        \/ id \in Held' \cup Range(list')
  <2>1. \A id \in Ids : SiteOf[id] \in sites' /\ id \in Held => id \in Held'
    BY <1>1, HeldStep
  <2>2. sites' \subseteq sites
    BY <1>1, HeldStep
  <2>3. Range(ch') \subseteq Held'
    BY DEF Held
  <2>4. QED
    BY <1>2, <1>4, <1>5, <1>6, <2>1, <2>2, <2>3
<1>8. QED
  BY <1>7 DEF NoSilentLoss, Held

LEMMA InitIInv == Init => IInv
<1> SUFFICES ASSUME Init PROVE IInv
  OBVIOUS
<1>1. Range(<<>>) = {}
  BY DEF Range
<1>2. TypeInv
  BY InitTypeInv
<1>3. QED
  BY <1>1, <1>2 DEF Init, StoreInit, IInv, CoreInv, OnlySent, ExactlyOnce, CleanShutdown, DoneAccounted, NoSilentLoss

(* Inductive invariant: everything the safety theorems below rest on.      *)
THEOREM Inductive == Spec => []IInv
<1>1. IInv /\ [Next]_vars => IInv'
  BY TypeInvStep, OnlySentStep, ExactlyOnceStep, DoneStep, NoSilentLossStep DEF IInv, CoreInv
<1>2. QED
  BY InitIInv, <1>1, PTL DEF Spec

(* No retry, lost acknowledgement, duplicate or crash stores a record twice. *)
THEOREM StoredExactlyOnce == Spec => []ExactlyOnce
BY Inductive, PTL DEF IInv, CoreInv

(* No record answered 200 disappears without a crash, a deleted site or a  *)
(* reported incomplete drain.                                              *)
THEOREM NothingSilentlyLost == Spec => []NoSilentLoss
BY Inductive, PTL DEF IInv, CoreInv

(* No Push sends on the closed channel. *)
THEOREM NeverSendsOnClosed == Spec => []NoSendOnClosed
BY Inductive, PTL DEF IInv, CoreInv, TypeInv

(* A shutdown without error leaves no record in memory. *)
THEOREM ShutdownIsClean == Spec => []CleanShutdown
BY Inductive, PTL DEF IInv, CoreInv

-----------------------------------------------------------------------------
(* The service implements StoredOnce *)

(* A committed transaction stores the accepted records of the batch. *)
LEMMA CommitImplementsStore ==
  ASSUME CoreInv, Commit(batch), UNCHANGED sends
  PROVE  Promise!Next
<1>1. Range(batch) \subseteq Ids
  BY RangeOfSeq DEF CoreInv, TypeInv, TypeOK
<1>2. Accepted(batch) \in SUBSET {id \in Ids : sends[id] > 0}
  BY <1>1 DEF CoreInv, OnlySent, Accepted
<1>3. \A id \in Accepted(batch) : rows[id] = 0 /\ SiteOf[id] \in sites
  BY <1>1 DEF CoreInv, ExactlyOnce, Accepted, Commit, Persistable
<1>4. rows' = [id \in Ids |-> IF id \in Accepted(batch) THEN 1 ELSE rows[id]]
  <2>1. ASSUME NEW id \in Ids
        PROVE  rows[id] + RowsCopied(batch, id)
                 = IF id \in Accepted(batch) THEN 1 ELSE rows[id]
    BY <1>3 DEF RowsCopied, CoreInv, TypeInv, TypeOK, StoreTypeOK
  <2>2. QED
    BY <2>1 DEF Commit
<1>5. Promise!Store(Accepted(batch))
  BY <1>3, <1>4 DEF Promise!Store, Commit
<1>6. QED
  BY <1>2, <1>5 DEF Promise!Next

LEMMA FailureImplements ==
  ASSUME CoreInv, TransactionFails, UNCHANGED sends
  PROVE  [Promise!Next]_(Promise!vars)
<1>1. CASE UNCHANGED storeVars
  BY <1>1 DEF storeVars, Promise!vars
<1>2. CASE Commit(batch)
  BY <1>2, CommitImplementsStore
<1>3. QED
  BY <1>1, <1>2 DEF TransactionFails

LEMMA PromiseStep ==
  ASSUME CoreInv, [Next]_vars
  PROVE  [Promise!Next]_(Promise!vars)
<1>1. CASE Quiet
  BY <1>1, QuietFacts DEF Promise!vars
<1>2. ASSUME NEW id \in Ids, PushBegin(id)
      PROVE  Promise!Next
  <2>1. sends \in [Ids -> Nat]
    BY BufferAssumption DEF CoreInv, TypeInv, TypeOK
  <2>2. sends' = [sends EXCEPT ![id] = @ + 1] /\ UNCHANGED <<sites, rows>>
    BY <1>2 DEF PushBegin, storeVars
  <2>3. {i \in Ids : sends'[i] > 0} = {i \in Ids : sends[i] > 0} \cup {id}
    BY <2>1, <2>2
  <2>4. Promise!Offer(id)
    BY <2>2, <2>3 DEF Promise!Offer
  <2>5. QED
    BY <2>4 DEF Promise!Next
<1>3. CASE FlushOK \/ DrainOK
  BY <1>3, CommitImplementsStore DEF FlushOK, DrainOK, OthersUnchanged
<1>4. CASE FlushError \/ DrainError
  BY <1>4, FailureImplements DEF FlushError, DrainError, OthersUnchanged
<1>5. CASE Receive \/ EnterDrain \/ DrainExpired \/ MainExit \/ Crash \/ Restart
  BY <1>5 DEF Receive, EnterDrain, DrainExpired, MainExit, Crash, Restart,
              OthersUnchanged, storeVars, historyVars, Promise!vars
<1>6. ASSUME NEW id \in Ids, PushEnd(id)
      PROVE  UNCHANGED Promise!vars
  BY <1>6 DEF PushEnd, storeVars, Promise!vars
<1>7. ASSUME NEW s \in Sites, OwnerDeletes(s)
      PROVE  Promise!Next
  <2>1. Promise!Delete(s)
    BY <1>7 DEF OwnerDeletes, DeleteSite, historyVars, Promise!Delete
  <2>2. QED
    BY <2>1 DEF Promise!Next
<1>8. QED
  BY <1>1, <1>2, <1>3, <1>4, <1>5, <1>6, <1>7, NextCases

(* Every behaviour of the service is one that StoredOnce allows: its       *)
(* batches, retries, crashes and shutdowns are invisible to the site owner. *)
THEOREM ImplementsStoredOnce == Spec => StoresOnce
<1>1. Init => Promise!Init
  BY DEF Init, StoreInit, Promise!Init
<1>2. IInv /\ [Next]_vars => [Promise!Next]_(Promise!vars)
  BY PromiseStep DEF IInv
<1>3. QED
  BY <1>1, <1>2, Inductive, PTL DEF Spec, StoresOnce, Promise!Spec
=============================================================================
