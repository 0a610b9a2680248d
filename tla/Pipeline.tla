------------------------------- MODULE Pipeline -------------------------------
(***************************************************************************)
(* Ingestion with Redis: the ingestion service and the standalone workers  *)
(* at work on the same Redis list and the same database.  Each keeps its   *)
(* own state; what one of them does leaves that of the other alone.  When  *)
(* Redis fails the service, records reach the database on two ways at      *)
(* once, from the service's channel and from the list.                     *)
(***************************************************************************)
EXTENDS Sequences, FiniteSets, Functions

CONSTANTS
  Ids, Sites, SiteOf,
  BatchSize, BufferSize, Workers, Malformed, Refusals,
  MaxSends,        \* bound: how often one record is sent to the service
  MaxPushFaults,   \* bound: failed pushes and transactions of the service
  MaxWorkerFaults, \* bound: failed transactions of the workers
  MaxDrops,        \* bound: Redis answers lost on their way to a worker
  MaxStops,        \* bound: crashes and signals of workers
  MaxRestarts,     \* bound: how often the service is started again
  MaxDeletes       \* bound: deleted sites

ASSUME PipelineAssumption ==
  /\ SiteOf \in [Ids -> Sites]
  /\ Malformed \subseteq Ids
  /\ Refusals \in BOOLEAN
  /\ BatchSize \in Nat \ {0} /\ BufferSize \in Nat \ {0}
  /\ MaxSends \in Nat /\ MaxPushFaults \in Nat /\ MaxWorkerFaults \in Nat
  /\ MaxDrops \in Nat /\ MaxStops \in Nat
  /\ MaxRestarts \in Nat /\ MaxDeletes \in Nat

VARIABLES
  sites, receipts, rows,                               \* PostgreSQL
  list, processing,                                    \* Redis
  siteIDs, pushing, stopped, ch, batch, input, retry,  \* the service
  cancelled, ctx, fpc, mpc, stopErr,
  wpc, wbatch, widx, wstop,                            \* the workers
  sends, acked, lost, pushFaults, restarts,            \* history and bounds
  workerFaults, drops, stops

Service == INSTANCE IngestBuffer
  WITH UseRedis <- TRUE, MaxFaults <- MaxPushFaults, faults <- pushFaults

Worker == INSTANCE QueueWorker
  WITH MaxFaults <- MaxWorkerFaults, faults <- workerFaults

serviceOnly ==
  <<siteIDs, pushing, stopped, ch, batch, input, retry, cancelled, ctx, fpc,
    mpc, stopErr, acked, lost, pushFaults, restarts>>
workerOnly == <<processing, wpc, wbatch, widx, wstop, workerFaults, drops, stops>>
vars == <<sites, receipts, rows, list, sends, serviceOnly, workerOnly>>

Init == Service!Init /\ Worker!Init

ServiceStep ==
  /\ \/ Service!Handler \/ Service!Flusher
     \/ Service!MainShutdown \/ Service!MainClose \/ Service!MainExit
     \/ Service!Signal \/ Service!Crash \/ Service!Restart
     \/ \E s \in Sites : Service!ExpireSiteInfo(s)
  /\ UNCHANGED workerOnly

WorkerStep ==
  /\ \E w \in Workers :
       \/ Worker!Step(w) \/ Worker!TakeLost(w) \/ Worker!PipelineResent(w)
       \/ Worker!RefusedForEver(w) \/ Worker!Signal(w) \/ Worker!Crash(w)
  /\ UNCHANGED <<serviceOnly, sends>>

OwnerDeletes(s) ==
  /\ Service!OwnerDeletes(s)
  /\ UNCHANGED workerOnly

Terminated ==
  /\ Service!Terminated
  /\ \A w \in Workers : wpc[w] = "down"
  /\ UNCHANGED vars

Next ==
  \/ ServiceStep \/ WorkerStep \/ Terminated
  \/ \E s \in Sites : OwnerDeletes(s)

Spec == Init /\ [][Next]_vars

-----------------------------------------------------------------------------
(* Properties *)

Promise == INSTANCE StoredOnce WITH offered <- {id \in Ids : sends[id] > 0}

(* The two ways together keep the promise that each of them keeps alone.    *)
StoresOnce == Promise!Spec

(* From the answer 200 to the row: a record is in the database, in Redis or *)
(* in the memory of the service, or its site is gone, or the service has    *)
(* crashed with it or reported an incomplete drain.  No hand-over between   *)
(* the service, the list, the claims and the database drops it.             *)
AcceptedIsKept ==
  \A id \in acked \ Malformed :
    \/ SiteOf[id] \notin sites
    \/ id \in receipts \cup Range(list) \cup Range(processing)
    \/ id \in Range(ch) \cup Range(batch) \cup lost
=============================================================================
