---------------------------- MODULE PipelineProofs ----------------------------
(***************************************************************************)
(* Proofs about the pipeline: the ingestion service and the workers at     *)
(* work on one Redis list and one database.  The lemmas proved for each of *)
(* them alone are used through instances of their modules of proofs: a     *)
(* step of the one is shown to keep what the other's invariant says of the *)
(* shared list and tables.                                                 *)
(***************************************************************************)
EXTENDS Pipeline, Integers, TLAPS

SP == INSTANCE IngestBufferProofs
  WITH UseRedis <- TRUE, MaxFaults <- MaxPushFaults, faults <- pushFaults

WP == INSTANCE QueueWorkerProofs
  WITH MaxFaults <- MaxWorkerFaults, faults <- workerFaults

-----------------------------------------------------------------------------
(* The instances of the proofs talk of the same steps. *)
LEMMA SameHandler == Service!Handler <=> SP!Handler
BY DEF Service!LockRequested, Service!SendLocal, Service!PushBegin,
   Service!PushEnd, Service!Handler, Service!flusherVars, Service!storeVars,
   SP!LockRequested, SP!SendLocal, SP!PushBegin, SP!PushEnd, SP!Handler,
   SP!flusherVars, SP!storeVars

LEMMA SameFlusher == Service!Flusher <=> SP!Flusher
BY DEF Service!OthersUnchanged, Service!Fill, Service!TransactionFails,
   Service!Receive, Service!ReceiveClosed, Service!Tick, Service!RetryTimer,
   Service!FlushOK, Service!FlushError, Service!FlusherCancelled,
   Service!FlusherClose, Service!EnterDrain, Service!DrainOK,
   Service!DrainError, Service!DrainExpired, Service!Flusher,
   Service!historyVars, Service!Persistable, Service!Accepted,
   Service!RowsCopied, Service!Commit, Service!Range, Service!storeVars,
   SP!OthersUnchanged, SP!Fill, SP!TransactionFails, SP!Receive,
   SP!ReceiveClosed, SP!Tick, SP!RetryTimer, SP!FlushOK, SP!FlushError,
   SP!FlusherCancelled, SP!FlusherClose, SP!EnterDrain, SP!DrainOK,
   SP!DrainError, SP!DrainExpired, SP!Flusher, SP!historyVars, SP!Persistable,
   SP!Accepted, SP!RowsCopied, SP!Commit, SP!Range, SP!storeVars

LEMMA SameProcess ==
  /\ Service!MainShutdown <=> SP!MainShutdown
  /\ Service!MainClose <=> SP!MainClose
  /\ Service!MainExit <=> SP!MainExit
  /\ Service!Signal <=> SP!Signal
  /\ Service!Crash <=> SP!Crash
  /\ Service!Restart <=> SP!Restart
  /\ \A s : Service!ExpireSiteInfo(s) <=> SP!ExpireSiteInfo(s)
  /\ \A s : Service!OwnerDeletes(s) <=> SP!OwnerDeletes(s)
<1>1. Service!MainShutdown <=> SP!MainShutdown
  BY DEF Service!MainShutdown, Service!flusherVars, Service!processVars,
     Service!historyVars, Service!storeVars, SP!MainShutdown, SP!flusherVars,
     SP!processVars, SP!historyVars, SP!storeVars
<1>2. Service!MainClose <=> SP!MainClose
  BY DEF Service!MainClose, Service!flusherVars, Service!processVars,
     Service!historyVars, Service!storeVars, SP!MainClose, SP!flusherVars,
     SP!processVars, SP!historyVars, SP!storeVars
<1>3. Service!MainExit <=> SP!MainExit
  BY DEF Service!MainExit, Service!flusherVars, Service!processVars,
     Service!historyVars, Service!storeVars, SP!MainExit, SP!flusherVars,
     SP!processVars, SP!historyVars, SP!storeVars
<1>4. Service!Signal <=> SP!Signal
  BY DEF Service!Signal, Service!flusherVars, Service!processVars,
     Service!historyVars, Service!storeVars, SP!Signal, SP!flusherVars,
     SP!processVars, SP!historyVars, SP!storeVars
<1>5. Service!Crash <=> SP!Crash
  BY DEF Service!Crash, Service!flusherVars, Service!processVars,
     Service!historyVars, Service!storeVars, Service!Range, SP!Crash,
     SP!flusherVars, SP!processVars, SP!historyVars, SP!storeVars, SP!Range
<1>6. Service!Restart <=> SP!Restart
  BY DEF Service!Restart, Service!flusherVars, Service!processVars,
     Service!historyVars, Service!storeVars, SP!Restart, SP!flusherVars,
     SP!processVars, SP!historyVars, SP!storeVars
<1>7. \A s : Service!ExpireSiteInfo(s) <=> SP!ExpireSiteInfo(s)
  BY DEF Service!ExpireSiteInfo, Service!flusherVars, Service!processVars,
     Service!historyVars, Service!storeVars, SP!ExpireSiteInfo,
     SP!flusherVars, SP!processVars, SP!historyVars, SP!storeVars
<1>8. \A s : Service!OwnerDeletes(s) <=> SP!OwnerDeletes(s)
  BY DEF Service!Cardinality, SP!Cardinality, Service!IsFiniteSet, SP!IsFiniteSet,
     Service!OwnerDeletes, Service!DeleteSite, Service!flusherVars,
     Service!processVars, Service!historyVars, Service!storeVars,
     SP!OwnerDeletes, SP!DeleteSite, SP!flusherVars, SP!processVars,
     SP!historyVars, SP!storeVars
<1>9. QED
  BY <1>1, <1>2, <1>3, <1>4, <1>5, <1>6, <1>7, <1>8

LEMMA SameWorker == \A w : Worker!Step(w) <=> WP!Step(w)
<1> SUFFICES ASSUME NEW w PROVE Worker!Step(w) <=> WP!Step(w)
  OBVIOUS
<1>1. Worker!Start(w) <=> WP!Start(w)
  BY DEF Worker!Start, Worker!Goto, Worker!workerVars, Worker!boundVars,
     Worker!storeVars, WP!Start, WP!Goto, WP!workerVars, WP!boundVars,
     WP!storeVars
<1>2. Worker!Recover(w) <=> WP!Recover(w)
  BY DEF Worker!Front, WP!Front, Worker!Last, WP!Last,
     Worker!Recover, Worker!MoveBack, Worker!workerVars, Worker!boundVars,
     Worker!storeVars, WP!Recover, WP!MoveBack, WP!workerVars, WP!boundVars,
     WP!storeVars
<1>3. Worker!RecoverEnd(w) <=> WP!RecoverEnd(w)
  BY DEF Worker!RecoverEnd, Worker!Goto, Worker!workerVars, Worker!boundVars,
     Worker!storeVars, WP!RecoverEnd, WP!Goto, WP!workerVars, WP!boundVars,
     WP!storeVars
<1>4. Worker!Take(w) <=> WP!Take(w)
  BY DEF Worker!Front, WP!Front, Worker!Last, WP!Last,
     Worker!Take, Worker!MoveToProcessing, Worker!Goto, Worker!workerVars,
     Worker!boundVars, Worker!storeVars, WP!Take, WP!MoveToProcessing,
     WP!Goto, WP!workerVars, WP!boundVars, WP!storeVars
<1>5. Worker!TakeTimeout(w) <=> WP!TakeTimeout(w)
  BY DEF Worker!TakeTimeout, Worker!Goto, Worker!workerVars, Worker!boundVars,
     Worker!storeVars, WP!TakeTimeout, WP!Goto, WP!workerVars, WP!boundVars,
     WP!storeVars
<1>6. Worker!Exit(w) <=> WP!Exit(w)
  BY DEF Worker!Exit, Worker!Goto, Worker!workerVars, Worker!boundVars,
     Worker!storeVars, WP!Exit, WP!Goto, WP!workerVars, WP!boundVars,
     WP!storeVars
<1>7. Worker!FlushOK(w) <=> WP!FlushOK(w)
  BY DEF Worker!FlushOK, Worker!Persistable, Worker!Accepted,
     Worker!RowsCopied, Worker!Commit, Worker!Range, Worker!Goto,
     Worker!workerVars, Worker!boundVars, Worker!storeVars, WP!FlushOK,
     WP!Persistable, WP!Accepted, WP!RowsCopied, WP!Commit, WP!Range, WP!Goto,
     WP!workerVars, WP!boundVars, WP!storeVars
<1>8. Worker!FlushError(w) <=> WP!FlushError(w)
  BY DEF Worker!FlushError, Worker!Persistable, Worker!Accepted,
     Worker!RowsCopied, Worker!Commit, Worker!Range, Worker!Goto,
     Worker!workerVars, Worker!boundVars, Worker!storeVars, WP!FlushError,
     WP!Persistable, WP!Accepted, WP!RowsCopied, WP!Commit, WP!Range, WP!Goto,
     WP!workerVars, WP!boundVars, WP!storeVars
<1>9. Worker!Requeue(w) <=> WP!Requeue(w)
  BY DEF Worker!Requeue, Worker!LPush, Worker!NextCommand, Worker!Sent,
     Worker!Goto, Worker!workerVars, Worker!boundVars, Worker!storeVars,
     WP!Requeue, WP!LPush, WP!NextCommand, WP!Sent, WP!Goto, WP!workerVars,
     WP!boundVars, WP!storeVars
<1>10. Worker!Unclaim(w) <=> WP!Unclaim(w)
  BY DEF Worker!RemoveAt, WP!RemoveAt,
     Worker!Unclaim, Worker!LRem, Worker!NextCommand, Worker!Sent,
     Worker!Goto, Worker!Range, Worker!workerVars, Worker!boundVars,
     Worker!storeVars, WP!Unclaim, WP!LRem, WP!NextCommand, WP!Sent, WP!Goto,
     WP!Range, WP!workerVars, WP!boundVars, WP!storeVars
<1>11. Worker!PipelineBroken(w) <=> WP!PipelineBroken(w)
  BY DEF Worker!PipelineBroken, Worker!Sent, Worker!Goto, Worker!workerVars,
     Worker!boundVars, Worker!storeVars, WP!PipelineBroken, WP!Sent, WP!Goto,
     WP!workerVars, WP!boundVars, WP!storeVars
<1>12. QED
  BY <1>1, <1>2, <1>3, <1>4, <1>5, <1>6, <1>7, <1>8, <1>9, <1>10, <1>11
     DEF Worker!Step, WP!Step

LEMMA SameWorkerFaults ==
  ASSUME NEW w
  PROVE  /\ Worker!TakeLost(w) <=> WP!TakeLost(w)
         /\ Worker!PipelineResent(w) <=> WP!PipelineResent(w)
         /\ Worker!RefusedForEver(w) <=> WP!RefusedForEver(w)
         /\ Worker!Signal(w) <=> WP!Signal(w)
         /\ Worker!Crash(w) <=> WP!Crash(w)
<1>1. Worker!TakeLost(w) <=> WP!TakeLost(w)
  BY DEF Worker!Front, WP!Front, Worker!Last, WP!Last,
     Worker!TakeLost, Worker!MoveToProcessing, Worker!workerVars,
     Worker!boundVars, Worker!storeVars, WP!TakeLost, WP!MoveToProcessing,
     WP!workerVars, WP!boundVars, WP!storeVars
<1>2. Worker!PipelineResent(w) <=> WP!PipelineResent(w)
  BY DEF Worker!PipelineResent, Worker!Goto, Worker!workerVars,
     Worker!boundVars, Worker!storeVars, WP!PipelineResent, WP!Goto,
     WP!workerVars, WP!boundVars, WP!storeVars
<1>3. Worker!RefusedForEver(w) <=> WP!RefusedForEver(w)
  BY DEF Worker!RefusedForEver, Worker!Persistable, Worker!Range, Worker!vars,
     Worker!workerVars, Worker!boundVars, Worker!storeVars, WP!RefusedForEver,
     WP!Persistable, WP!Range, WP!vars, WP!workerVars, WP!boundVars,
     WP!storeVars
<1>4. Worker!Signal(w) <=> WP!Signal(w)
  BY DEF Worker!Signal, Worker!workerVars, Worker!boundVars, Worker!storeVars,
     WP!Signal, WP!workerVars, WP!boundVars, WP!storeVars
<1>5. Worker!Crash(w) <=> WP!Crash(w)
  BY DEF Worker!Crash, Worker!Goto, Worker!workerVars, Worker!boundVars,
     Worker!storeVars, WP!Crash, WP!Goto, WP!workerVars, WP!boundVars,
     WP!storeVars
<1>6. QED
  BY <1>1, <1>2, <1>3, <1>4, <1>5

LEMMA SameInit == Init => SP!Init /\ WP!Init
BY DEF Init, Service!Init, SP!Init, Worker!Init, WP!Init, Service!StoreInit,
   SP!StoreInit, Worker!StoreInit, WP!StoreInit

(* The assumptions of both modules hold of what they are instantiated with. *)
LEMMA Assumptions ==
  /\ SiteOf \in [Ids -> Sites]
  /\ BatchSize \in Nat \ {0} /\ BufferSize \in Nat \ {0} /\ TRUE \in BOOLEAN
  /\ MaxSends \in Nat /\ MaxPushFaults \in Nat /\ MaxRestarts \in Nat
  /\ MaxDeletes \in Nat /\ Malformed \subseteq Ids /\ Refusals \in BOOLEAN
  /\ MaxWorkerFaults \in Nat /\ MaxDrops \in Nat /\ MaxStops \in Nat
BY PipelineAssumption

(* Every step is one of the service or one of a worker. *)
LEMMA StepOfOne ==
  ASSUME [Next]_vars
  PROVE  \/ [SP!Next]_(SP!vars) /\ UNCHANGED workerOnly
         \/ \E w \in Workers : WP!WorkerStep(w) /\ UNCHANGED <<serviceOnly, sends>>
<1>1. CASE ServiceStep
  <2>1. SP!Next
    BY <1>1, SameHandler, SameFlusher, SameProcess DEF ServiceStep, SP!Next, SP!Environment
  <2>2. QED
    BY <1>1, <2>1 DEF ServiceStep
<1>2. ASSUME NEW s \in Sites, OwnerDeletes(s)
      PROVE  SP!Next /\ UNCHANGED workerOnly
  BY <1>2, SameProcess DEF OwnerDeletes, SP!Next, SP!Environment
<1>3. CASE WorkerStep
  <2>1. PICK w \in Workers :
          \/ Worker!Step(w) \/ Worker!TakeLost(w) \/ Worker!PipelineResent(w)
          \/ Worker!RefusedForEver(w) \/ Worker!Signal(w) \/ Worker!Crash(w)
    BY <1>3 DEF WorkerStep
  <2>2. WP!WorkerStep(w)
    BY <2>1, SameWorker, SameWorkerFaults DEF WP!WorkerStep
  <2>3. QED
    BY <1>3, <2>2 DEF WorkerStep
<1>4. CASE UNCHANGED vars
  BY <1>4 DEF vars, serviceOnly, workerOnly, SP!vars, SP!storeVars, SP!processVars,
     SP!flusherVars, SP!historyVars
<1>5. QED
  BY <1>1, <1>2, <1>3, <1>4 DEF Next, Terminated

LEMMA WorkerStepIsNext ==
  ASSUME NEW w \in Workers, WP!WorkerStep(w)
  PROVE  WP!Next
BY DEF WP!WorkerStep, WP!Next

-----------------------------------------------------------------------------
(* Each keeps its own invariant, and its part of the other's. *)

WorkerInv ==
  WP!TypeOK /\ WP!Control /\ WP!OnlyPushed /\ WP!FewRunning /\ WP!AckStored

PipelineInv == SP!CoreInv /\ WorkerInv

LEMMA WorkerIInv ==
  ASSUME PipelineInv
  PROVE  WP!IInv
BY DEF PipelineInv, WorkerInv, SP!CoreInv, SP!ExactlyOnce, WP!ExactlyOnce, WP!IInv

LEMMA InitPipelineInv == Init => PipelineInv
<1> SUFFICES ASSUME Init PROVE PipelineInv
  OBVIOUS
<1>1. SP!CoreInv
  BY SameInit, Assumptions, SP!InitIInv DEF SP!IInv
<1>2. WP!TypeOK /\ WP!Control /\ WP!OnlyPushed
  BY SameInit, Assumptions, WP!InitIInv DEF WP!IInv
<1>3. WP!Accounted
  BY SameInit, Assumptions, WP!InitAccounted
<1>4. QED
  BY <1>1, <1>2, <1>3 DEF PipelineInv, WorkerInv, WP!Accounted

LEMMA ServiceKeeps ==
  ASSUME PipelineInv, [SP!Next]_(SP!vars), UNCHANGED workerOnly
  PROVE  PipelineInv'
<1>0. /\ SP!CoreInv /\ SP!TypeInv
      /\ WP!TypeOK /\ WP!Control /\ WP!OnlyPushed /\ WP!FewRunning /\ WP!AckStored
  BY DEF PipelineInv, WorkerInv, SP!CoreInv
<1>1. SP!CoreInv'
  BY <1>0, Assumptions, SP!TypeInvStep, SP!OnlySentStep, SP!ExactlyOnceStep, SP!DoneStep
     DEF SP!CoreInv
<1>2. UNCHANGED <<processing, wpc, wbatch, widx, wstop, workerFaults, drops, stops>>
  BY DEF workerOnly
<1>3. WP!TypeOK'
  <2>1. /\ list' \in Seq(Ids) /\ sends' \in [Ids -> 0..MaxSends]
        /\ WP!StoreTypeOK'
    BY <1>1 DEF SP!CoreInv, SP!TypeInv, SP!TypeOK, SP!StoreTypeOK, WP!StoreTypeOK
  <2>2. QED
    BY <1>0, <1>2, <2>1 DEF WP!TypeOK
<1>4. WP!Control' /\ WP!FewRunning'
  BY <1>0, <1>2 DEF WP!Control, WP!FewRunning, WP!IsFiniteSet
<1>5. WP!OnlyPushed'
  <2>1. list' = list \/ \E id \in pushing : list' = <<id>> \o list
    BY <1>0, Assumptions, SP!HeldStep
  <2>2. \A id \in Ids : sends[id] > 0 => sends'[id] > 0
    BY <1>0, Assumptions, SP!SentStaysSent
  <2>3. \A id \in pushing : sends[id] > 0 /\ id \in Ids
    BY <1>0 DEF SP!CoreInv, SP!OnlySent, SP!TypeInv, SP!TypeOK
  <2>4. \A id \in Ids : WP!Range(<<id>> \o list) = WP!Range(list) \cup {id}
    BY <1>0, WP!RangeOfCons, Assumptions DEF WP!TypeOK
  <2>5. /\ WP!Range(list) \subseteq Ids /\ WP!Range(processing) \subseteq Ids
        /\ \A w \in Workers : WP!Range(wbatch[w]) \subseteq Ids
    BY <1>0, WP!RangeOfSeq DEF WP!TypeOK, WP!Range
  <2>6. WP!Range(list') \subseteq WP!Range(list) \cup pushing
    <3>1. CASE list' = list
      BY <3>1
    <3>2. ASSUME NEW id \in pushing, list' = <<id>> \o list
          PROVE  WP!Range(list') \subseteq WP!Range(list) \cup pushing
      BY <2>3, <2>4, <3>2
    <3>3. QED
      BY <2>1, <3>1, <3>2
  <2>7. \A id \in WP!Range(list) \cup WP!Range(processing) : sends[id] > 0 /\ id \in Ids
    BY <1>0, <2>5 DEF WP!OnlyPushed
  <2>8. \A id \in WP!Range(list') \cup WP!Range(processing') : sends'[id] > 0
    BY <1>2, <2>2, <2>3, <2>6, <2>7
  <2>9. \A w \in Workers : \A id \in WP!Range(wbatch'[w]) : sends'[id] > 0
    BY <1>0, <1>2, <2>2, <2>5 DEF WP!OnlyPushed
  <2>10. QED
    BY <2>8, <2>9 DEF WP!OnlyPushed
<1>6. WP!AckStored'
  <2>1. /\ sites' \subseteq sites
        /\ \A id \in Ids : SiteOf[id] \in sites' /\ id \in receipts => id \in receipts'
    BY <1>0, Assumptions, SP!HeldStep
  <2>2. \A w \in Workers : WP!Range(wbatch[w]) \subseteq Ids
    BY <1>0, WP!RangeOfSeq DEF WP!TypeOK, WP!Range
  <2>3. QED
    BY <1>0, <1>2, <2>1, <2>2 DEF WP!AckStored
<1>7. QED
  BY <1>1, <1>3, <1>4, <1>5, <1>6 DEF PipelineInv, WorkerInv

LEMMA WorkerKeeps ==
  ASSUME PipelineInv, NEW w \in Workers, WP!WorkerStep(w), UNCHANGED <<serviceOnly, sends>>
  PROVE  PipelineInv'
<1>0. /\ SP!CoreInv /\ SP!TypeInv /\ WP!IInv /\ WP!Next
      /\ WP!TypeOK /\ WP!Control /\ WP!OnlyPushed /\ WP!FewRunning /\ WP!AckStored
  BY WorkerIInv, WorkerStepIsNext DEF PipelineInv, WorkerInv, SP!CoreInv
<1>1. WP!TypeOK' /\ WP!Control'
  BY <1>0, Assumptions, WP!TypeStep
<1>2. WP!OnlyPushed' /\ WP!ExactlyOnce'
  BY <1>0, Assumptions, WP!OnlyPushedStep, WP!ExactlyOnceStep
<1>3. WP!FewRunning'
  BY <1>0, Assumptions, WP!OnlyOneMoves, WP!FewRunningStep
<1>4. WP!AckStored'
  BY <1>0, Assumptions, WP!AckStoredStep
<1>5. UNCHANGED <<siteIDs, pushing, stopped, ch, batch, input, retry, cancelled, ctx,
                  fpc, mpc, stopErr, acked, lost, pushFaults, restarts, sends>>
  BY DEF serviceOnly
<1>6. SP!TypeInv'
  <2>1. list' \in Seq(Ids) /\ SP!StoreTypeOK'
    BY <1>1 DEF WP!TypeOK, WP!StoreTypeOK, SP!StoreTypeOK
  <2>2. SP!TypeOK'
    BY <1>0, <1>5, <2>1 DEF SP!TypeInv, SP!TypeOK
  <2>3. QED
    BY <1>0, <1>5, <2>2 DEF SP!TypeInv, SP!InputOpen, SP!ExitedEmpty, SP!DrainStopped,
       SP!NoSendOnClosed
<1>7. SP!OnlySent' /\ SP!CleanShutdown' /\ SP!DoneAccounted'
  BY <1>0, <1>5 DEF SP!CoreInv, SP!OnlySent, SP!CleanShutdown, SP!DoneAccounted, SP!Range
<1>8. SP!ExactlyOnce'
  BY <1>2 DEF SP!ExactlyOnce, WP!ExactlyOnce
<1>9. QED
  BY <1>1, <1>2, <1>3, <1>4, <1>6, <1>7, <1>8 DEF PipelineInv, WorkerInv, SP!CoreInv

LEMMA PipelineInvStep ==
  ASSUME PipelineInv, [Next]_vars
  PROVE  PipelineInv'
BY StepOfOne, ServiceKeeps, WorkerKeeps

(* The invariants of the two parts hold when they run together. *)
THEOREM Inductive == Spec => []PipelineInv
<1>1. PipelineInv /\ [Next]_vars => PipelineInv'
  BY PipelineInvStep
<1>2. QED
  BY InitPipelineInv, <1>1, PTL DEF Spec

-----------------------------------------------------------------------------
(* From the answer to the row *)

(* The worker's count of copies, for every record that may be in Redis; an  *)
(* answered one has a copy to spare or is in the memory of the service.     *)
Kept ==
  \A id \in Ids \ Malformed : WP!Unstored(id) =>
    /\ WP!Copies(id) >= WP!Debt(id)
    /\ id \in acked => \/ WP!Copies(id) > WP!Debt(id)
                     \/ id \in SP!Held

LEMMA Countable ==
  ASSUME PipelineInv, NEW id
  PROVE  WP!Copies(id) \in Nat /\ WP!Debt(id) \in Nat
BY Assumptions, WP!CopiesType, WP!DebtType DEF PipelineInv, WorkerInv

LEMMA ServiceKeepsKept ==
  ASSUME PipelineInv, Kept, [SP!Next]_(SP!vars), UNCHANGED workerOnly
  PROVE  Kept'
<1>0. SP!CoreInv /\ WP!TypeOK /\ SP!TypeInv
  BY DEF PipelineInv, WorkerInv, SP!CoreInv
<1>1. UNCHANGED <<processing, wpc, wbatch, widx>>
  BY DEF workerOnly
<1>2. /\ sites' \subseteq sites
      /\ \A id \in Ids : SiteOf[id] \in sites' /\ id \in SP!Held => id \in SP!Held'
      /\ \A id \in Ids : SiteOf[id] \in sites' /\ id \in receipts => id \in receipts'
      /\ list' = list \/ \E id \in pushing : list' = <<id>> \o list
      /\ \A id \in acked' : \/ id \in acked
                            \/ id \in SP!Range(ch')
                            \/ list' = <<id>> \o list
  BY <1>0, Assumptions, SP!HeldStep
<1>3. pushing \subseteq Ids
  BY <1>0 DEF SP!TypeInv, SP!TypeOK
<1>4. ASSUME NEW id \in Ids \ Malformed, WP!Unstored(id)'
      PROVE  /\ WP!Copies(id)' >= WP!Debt(id)'
             /\ id \in acked' => \/ WP!Copies(id)' > WP!Debt(id)'
                               \/ id \in SP!Held'
  <2>1. WP!Unstored(id)
    BY <1>2, <1>4 DEF WP!Unstored
  <2>2. /\ WP!Copies(id) \in Nat /\ WP!Debt(id) \in Nat
        /\ WP!Copies(id) >= WP!Debt(id)
        /\ id \in acked => WP!Copies(id) > WP!Debt(id) \/ id \in SP!Held
    BY <2>1, Countable DEF Kept
  <2>3. WP!Debt(id)' = WP!Debt(id)
    BY <1>1 DEF WP!Debt, WP!Owed, WP!Cardinality, WP!IsFiniteSet
  <2>4. \A e \in Ids : list' = <<e>> \o list =>
          WP!Copies(id)' = WP!Copies(id) + IF e = id THEN 1 ELSE 0
    BY <1>0, <1>1, Assumptions, WP!LPushAddsACopy DEF WP!LPush
  <2>5. list' = list => WP!Copies(id)' = WP!Copies(id)
    BY <1>1 DEF WP!Copies, WP!Occurrences, WP!Places, WP!Cardinality, WP!IsFiniteSet
  <2>6. WP!Copies(id)' \in Nat /\ WP!Copies(id)' >= WP!Copies(id)
    <3>1. CASE list' = list
      BY <2>2, <2>5, <3>1
    <3>2. ASSUME NEW e \in pushing, list' = <<e>> \o list
          PROVE  WP!Copies(id)' \in Nat /\ WP!Copies(id)' >= WP!Copies(id)
      <4>1. WP!Copies(id)' = WP!Copies(id) + IF e = id THEN 1 ELSE 0
        BY <1>3, <2>4, <3>2
      <4>2. QED
        BY <2>2, <4>1
    <3>3. QED
      BY <1>2, <3>1, <3>2
  <2>7. ASSUME id \in acked'
        PROVE  WP!Copies(id)' > WP!Debt(id)' \/ id \in SP!Held'
    <3>1. CASE id \in acked
      <4>1. SiteOf[id] \in sites'
        BY <1>4 DEF WP!Unstored
      <4>2. CASE WP!Copies(id) > WP!Debt(id)
        BY <2>2, <2>3, <2>6, <4>2
      <4>3. CASE id \in SP!Held
        BY <1>2, <4>1, <4>3
      <4>4. QED
        BY <2>2, <3>1, <4>2, <4>3
    <3>2. CASE id \in SP!Range(ch')
      BY <3>2 DEF SP!Held
    <3>3. CASE list' = <<id>> \o list
      BY <2>2, <2>3, <2>4, <3>3
    <3>4. QED
      BY <1>2, <2>7, <3>1, <3>2, <3>3
  <2>8. QED
    BY <2>2, <2>3, <2>6, <2>7
<1>5. QED
  BY <1>4 DEF Kept

LEMMA WorkerKeepsKept ==
  ASSUME Refusals = FALSE, PipelineInv, Kept,
         NEW w \in Workers, WP!WorkerStep(w), UNCHANGED <<serviceOnly, sends>>
  PROVE  Kept'
<1>0. WP!TypeOK /\ WP!Control /\ WP!FewRunning /\ WP!AckStored
  BY DEF PipelineInv, WorkerInv
<1>1. UNCHANGED <<ch, batch, acked, lost>>
  BY DEF serviceOnly
<1>2. sites' = sites /\ receipts \subseteq receipts'
  BY <1>0, Assumptions, WP!WorkerStoreFacts
<1>3. ASSUME NEW id \in Ids \ Malformed, WP!Unstored(id)'
      PROVE  /\ WP!Copies(id)' >= WP!Debt(id)'
             /\ id \in acked' => \/ WP!Copies(id)' > WP!Debt(id)'
                               \/ id \in SP!Held'
  <2>1. WP!Unstored(id)
    BY <1>2, <1>3 DEF WP!Unstored
  <2>2. /\ WP!Copies(id) \in Nat /\ WP!Debt(id) \in Nat
        /\ WP!Copies(id) >= WP!Debt(id)
        /\ id \in acked => WP!Copies(id) > WP!Debt(id) \/ id \in SP!Held
    BY <2>1, Countable DEF Kept
  <2>3. /\ WP!Copies(id) + WP!Debt(id)' <= WP!Copies(id)' + WP!Debt(id)
        /\ WP!Copies(id)' \in Nat /\ WP!Debt(id)' \in Nat
    BY <1>0, <2>1, Assumptions, WP!BalanceKept
  <2>4. id \in SP!Held => id \in SP!Held'
    BY <1>1, <1>2 DEF SP!Held, SP!Range
  <2>5. QED
    BY <1>1, <2>2, <2>3, <2>4
<1>4. QED
  BY <1>3 DEF Kept

(* As long as Redis refuses no command to a worker, a record answered 200   *)
(* is in the database, in Redis or in the memory of the service, unless its *)
(* site is gone, or a crash or a reported incomplete drain accounts for it, *)
(* whatever way or ways it takes.                                           *)
THEOREM AcceptedStaysKept == ASSUME Refusals = FALSE PROVE Spec => []AcceptedIsKept
<1>1. Init => Kept
  <2>1. SUFFICES ASSUME Init PROVE Kept
    OBVIOUS
  <2>2. PipelineInv
    BY <2>1, InitPipelineInv
  <2>3. ASSUME NEW id \in Ids \ Malformed
        PROVE  WP!Copies(id) >= WP!Debt(id) /\ id \notin acked
    <3>1. WP!Debt(id) = 0
      <4>1. sends[id] = 0 /\ acked = {}
        BY <2>1 DEF Init, Service!Init
      <4>2. QED
        BY <2>2, <4>1, Assumptions, WP!NoDebtUnpushed DEF PipelineInv, WorkerInv
    <3>2. acked = {}
      BY <2>1 DEF Init, Service!Init
    <3>3. QED
      BY <2>2, <3>1, <3>2, Countable
  <2>4. QED
    BY <2>3 DEF Kept
<1>2. PipelineInv /\ Kept /\ [Next]_vars => Kept'
  BY StepOfOne, ServiceKeepsKept, WorkerKeepsKept
<1>3. PipelineInv /\ Kept => AcceptedIsKept
  <2>1. SUFFICES ASSUME PipelineInv, Kept, NEW id \in acked \ Malformed,
                        SiteOf[id] \in sites, id \notin receipts
                 PROVE  \/ id \in Range(list) \cup Range(processing)
                        \/ id \in Range(ch) \cup Range(batch) \cup lost
    BY DEF AcceptedIsKept
  <2>2. id \in Ids /\ WP!Unstored(id)
    BY <2>1 DEF PipelineInv, SP!CoreInv, SP!TypeInv, SP!TypeOK, WP!Unstored
  <2>3. CASE id \in SP!Held
    BY <2>1, <2>3 DEF SP!Held, SP!Range, Range
  <2>4. CASE WP!Copies(id) > WP!Debt(id)
    <3>1. WP!Copies(id) > 0
      BY <2>1, <2>4, Countable
    <3>2. id \in WP!Range(list) \cup WP!Range(processing)
      BY <2>1, <3>1, Assumptions, WP!CopiesType DEF PipelineInv, WorkerInv
    <3>3. QED
      BY <3>2 DEF WP!Range, Range
  <2>5. QED
    BY <2>1, <2>2, <2>3, <2>4 DEF Kept
<1>4. QED
  BY <1>1, <1>2, <1>3, Inductive, PTL DEF Spec

-----------------------------------------------------------------------------
(* The pipeline implements StoredOnce *)

LEMMA SamePromise ==
  /\ [SP!Promise!Next]_(SP!Promise!vars) <=> [Promise!Next]_(Promise!vars)
  /\ [WP!Promise!Next]_(WP!Promise!vars) <=> [Promise!Next]_(Promise!vars)
BY DEF Promise!Next, Promise!Offer, Promise!Store, Promise!Delete, Promise!vars,
   SP!Promise!Next, SP!Promise!Offer, SP!Promise!Store, SP!Promise!Delete, SP!Promise!vars,
   WP!Promise!Next, WP!Promise!Offer, WP!Promise!Store, WP!Promise!Delete, WP!Promise!vars

(* Two ways to the database at once, and still no event gets a second row,  *)
(* a row without having been sent, or a row of a deleted site.              *)
THEOREM ImplementsStoredOnce == Spec => StoresOnce
<1>1. Init => Promise!Init
  BY DEF Init, Service!Init, Service!StoreInit, Promise!Init
<1>2. PipelineInv /\ [Next]_vars => [Promise!Next]_(Promise!vars)
  <2>1. SUFFICES ASSUME PipelineInv, [Next]_vars
                 PROVE  [Promise!Next]_(Promise!vars)
    OBVIOUS
  <2>2. CASE [SP!Next]_(SP!vars) /\ UNCHANGED workerOnly
    <3>1. [SP!Promise!Next]_(SP!Promise!vars)
      BY <2>1, <2>2, Assumptions, SP!PromiseStep DEF PipelineInv
    <3>2. QED
      BY <3>1, SamePromise
  <2>3. ASSUME NEW w \in Workers, WP!WorkerStep(w)
        PROVE  [Promise!Next]_(Promise!vars)
    <3>1. [WP!Promise!Next]_(WP!Promise!vars)
      BY <2>1, <2>3, Assumptions, WorkerIInv, WorkerStepIsNext, WP!PromiseStep
    <3>2. QED
      BY <3>1, SamePromise
  <2>4. QED
    BY <2>1, <2>2, <2>3, StepOfOne
<1>3. QED
  BY <1>1, <1>2, Inductive, PTL DEF Spec, StoresOnce, Promise!Spec
=============================================================================
