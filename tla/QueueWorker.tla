----------------------------- MODULE QueueWorker -----------------------------
(***************************************************************************)
(* The standalone worker (backend/cmd/worker/main.go): it claims records   *)
(* from the Redis list into a processing list, persists them in batches,   *)
(* and acknowledges them with a pipeline of commands that Redis executes   *)
(* one by one, between those of other clients.                             *)
(* A worker can be killed and restarted at any step, and several may run   *)
(* on the same Redis.  A call under way when the signal comes counts as    *)
(* made before the signal.                                                 *)
(***************************************************************************)
EXTENDS IngestStore, SequencesExt

CONSTANTS
  Workers,      \* worker processes
  BatchSize,    \* cfg.BatchSize
  Malformed,    \* records that do not decode
  Refusals,     \* whether Redis can refuse LPUSH for lack of memory
  MaxSends,     \* bound: how often one record is pushed
  MaxFaults,    \* bound: failed transactions, those of a deleted site included
  MaxDrops,     \* bound: Redis answers lost on the way
  MaxStops,     \* bound: crashes and signals
  MaxDeletes    \* bound: deleted sites

ASSUME WorkerAssumption ==
  /\ BatchSize \in Nat \ {0}
  /\ Malformed \subseteq Ids
  /\ Refusals \in BOOLEAN
  /\ MaxSends \in Nat /\ MaxFaults \in Nat /\ MaxDrops \in Nat
  /\ MaxStops \in Nat /\ MaxDeletes \in Nat

VARIABLES
  list,        \* Redis list webstats:pageviews, head first
  processing,  \* Redis list webstats:pageviews:processing, head first
  wpc,         \* where each worker is
  wbatch,      \* the records each worker claimed (batch and raws)
  widx,        \* next command of the pipeline
  wstop,       \* the worker's signal context is done
  sends,       \* how often each record was pushed (history)
  faults, drops, stops

workerVars == <<wpc, wbatch, widx, wstop>>
boundVars == <<faults, drops, stops>>
vars == <<storeVars, list, processing, workerVars, sends, boundVars>>

TypeOK ==
  /\ StoreTypeOK
  /\ list \in Seq(Ids)
  /\ processing \in Seq(Ids)
  /\ wpc \in [Workers -> {"down", "recover", "take", "flush",
                          "requeue", "unclaim", "ack"}]
  /\ wbatch \in [Workers -> Seq(Ids)]
  /\ \A w \in Workers : Len(wbatch[w]) <= BatchSize
  /\ widx \in [Workers -> 1..BatchSize]
  /\ wstop \in [Workers -> BOOLEAN]
  /\ sends \in [Ids -> 0..MaxSends]
  /\ faults \in 0..MaxFaults /\ drops \in 0..MaxDrops /\ stops \in 0..MaxStops

Init ==
  /\ StoreInit
  /\ list = <<>>
  /\ processing = <<>>
  /\ wpc = [w \in Workers |-> "down"]
  /\ wbatch = [w \in Workers |-> <<>>]
  /\ widx = [w \in Workers |-> 1]
  /\ wstop = [w \in Workers |-> FALSE]
  /\ sends = [id \in Ids |-> 0]
  /\ faults = 0 /\ drops = 0 /\ stops = 0

(* LPUSH list id *)
LPush(id) == list' = <<id>> \o list

(* BLMOVE list processing RIGHT LEFT *)
MoveToProcessing ==
  /\ list # <<>>
  /\ list' = Front(list)
  /\ processing' = <<Last(list)>> \o processing

(* RPOPLPUSH processing list *)
MoveBack ==
  /\ processing # <<>>
  /\ processing' = Front(processing)
  /\ list' = <<Last(processing)>> \o list

(* LREM processing 1 id: the first occurrence, if there is one *)
LRem(id) ==
  IF id \in Range(processing)
  THEN \E i \in DOMAIN processing :
         /\ processing[i] = id
         /\ \A j \in 1..(i - 1) : processing[j] # id
         /\ processing' = RemoveAt(processing, i)
  ELSE UNCHANGED processing

Goto(w, pc) == wpc' = [wpc EXCEPT ![w] = pc]

-----------------------------------------------------------------------------
(* The ingestion service, as seen from the list *)
Push(id) ==
  /\ sends[id] < MaxSends
  /\ sends' = [sends EXCEPT ![id] = @ + 1]
  /\ LPush(id)
  /\ UNCHANGED <<storeVars, processing, workerVars, boundVars>>

-----------------------------------------------------------------------------
(* Startup: RPOPLPUSH processing list until the processing list is empty *)

(* Mutant: a worker starts without looking for stranded records. *)
StartWithoutRecovery(w) ==
  /\ wpc[w] = "down"
  /\ Goto(w, "take")
  /\ wbatch' = [wbatch EXCEPT ![w] = <<>>]
  /\ wstop' = [wstop EXCEPT ![w] = FALSE]
  /\ UNCHANGED <<storeVars, list, processing, widx, sends, boundVars>>

Start(w) ==
  /\ wpc[w] = "down"
  /\ Goto(w, "recover")
  /\ wbatch' = [wbatch EXCEPT ![w] = <<>>]
  /\ wstop' = [wstop EXCEPT ![w] = FALSE]
  /\ UNCHANGED <<storeVars, list, processing, widx, sends, boundVars>>

Recover(w) ==
  /\ wpc[w] = "recover" /\ ~wstop[w]
  /\ MoveBack
  /\ UNCHANGED <<storeVars, workerVars, sends, boundVars>>

(* redis.Nil, or an error: the loop is left either way. *)
RecoverEnd(w) ==
  /\ wpc[w] = "recover"
  /\ \/ processing = <<>> /\ UNCHANGED drops
     \/ wstop[w] /\ UNCHANGED drops
     \/ drops < MaxDrops /\ drops' = drops + 1
  /\ Goto(w, "take")
  /\ UNCHANGED <<storeVars, list, processing, wbatch, widx, wstop, sends,
                 faults, stops>>

-----------------------------------------------------------------------------
(* The main loop *)

(* A record that does not decode is removed from processing at once; the    *)
(* others join the batch, which is flushed when full.                       *)
Take(w) ==
  /\ wpc[w] = "take" /\ ~wstop[w] /\ list # <<>>
  /\ LET id == Last(list) IN
       IF id \in Malformed
       THEN /\ list' = Front(list)
            /\ UNCHANGED <<processing, wbatch, wpc>>
       ELSE /\ MoveToProcessing
            /\ wbatch' = [wbatch EXCEPT ![w] = Append(@, id)]
            /\ Goto(w, IF Len(wbatch[w]) + 1 >= BatchSize THEN "flush" ELSE "take")
  /\ UNCHANGED <<storeVars, widx, wstop, sends, boundVars>>

(* The move happens, but its answer (or, for a malformed record, the removal *)
(* that follows) is lost: the record stays behind in processing.            *)
TakeLost(w) ==
  /\ wpc[w] = "take" /\ drops < MaxDrops
  /\ MoveToProcessing
  /\ drops' = drops + 1
  /\ UNCHANGED <<storeVars, workerVars, sends, faults, stops>>

(* redis.Nil after five seconds without a record, and the flush after the   *)
(* loop has ended; flush of an empty batch returns at once.                 *)
TakeTimeout(w) ==
  /\ wpc[w] = "take"
  /\ IF wstop[w] THEN wbatch[w] # <<>> ELSE list = <<>>
  /\ Goto(w, IF wbatch[w] = <<>> THEN "take" ELSE "flush")
  /\ UNCHANGED <<storeVars, list, processing, wbatch, widx, wstop, sends,
                 boundVars>>

Exit(w) ==
  /\ wpc[w] = "take" /\ wbatch[w] = <<>> /\ wstop[w]
  /\ Goto(w, "down")
  /\ UNCHANGED <<storeVars, list, processing, wbatch, widx, wstop, sends,
                 boundVars>>

-----------------------------------------------------------------------------
(* flush: FlushNow, then the pipeline *)

FlushOK(w) ==
  /\ wpc[w] = "flush"
  /\ Commit(wbatch[w])
  /\ Goto(w, "ack")
  /\ widx' = [widx EXCEPT ![w] = 1]
  /\ UNCHANGED <<list, processing, wbatch, wstop, sends, boundVars>>

(* Mutant: a failed flush is acknowledged like a successful one. *)
FlushErrorAcks(w) ==
  /\ wpc[w] = "flush"
  /\ UNCHANGED storeVars \/ Commit(wbatch[w])
  /\ faults < MaxFaults /\ faults' = faults + 1
  /\ Goto(w, "ack")
  /\ widx' = [widx EXCEPT ![w] = 1]
  /\ UNCHANGED <<list, processing, wbatch, wstop, sends, drops, stops>>

(* The transaction is refused, fails, or is applied without an answer. *)
FlushError(w) ==
  /\ wpc[w] = "flush"
  /\ UNCHANGED storeVars \/ Commit(wbatch[w])
  /\ faults < MaxFaults /\ faults' = faults + 1
  /\ Goto(w, "requeue")
  /\ widx' = [widx EXCEPT ![w] = 1]
  /\ UNCHANGED <<list, processing, wbatch, wstop, sends, drops, stops>>

(* Bound: a batch with a record of a deleted site is refused again and again; *)
(* the model stops following it when MaxFaults is spent.                    *)
RefusedForEver(w) ==
  /\ wpc[w] = "flush" /\ ~Persistable(wbatch[w]) /\ faults = MaxFaults
  /\ UNCHANGED vars

(* The pipeline moves on to its next command. *)
NextCommand(w, after) ==
  IF widx[w] < Len(wbatch[w])
  THEN /\ widx' = [widx EXCEPT ![w] = @ + 1]
       /\ UNCHANGED <<wpc, wbatch>>
  ELSE /\ widx' = [widx EXCEPT ![w] = 1]
       /\ Goto(w, after)
       /\ wbatch' = [wbatch EXCEPT ![w] = IF after = "take" THEN <<>> ELSE @]

(* pipe.Exec(ctx) sends all commands at once, unless ctx is done already. *)
Sent(w) == ~wstop[w] \/ widx[w] > 1 \/ wpc[w] = "unclaim"

(* pipe.LPush for each record; Redis may refuse the command, and the error  *)
(* is only logged.                                                          *)
Requeue(w) ==
  /\ wpc[w] = "requeue" /\ Sent(w)
  /\ \/ LPush(wbatch[w][widx[w]])
     \/ Refusals /\ UNCHANGED list
  /\ NextCommand(w, "unclaim")
  /\ UNCHANGED <<storeVars, processing, wstop, sends, boundVars>>

(* pipe.LRem for each record, after the LPUSHes of a failed flush or alone. *)
Unclaim(w) ==
  /\ wpc[w] \in {"unclaim", "ack"} /\ Sent(w)
  /\ LRem(wbatch[w][widx[w]])
  /\ NextCommand(w, "take")
  /\ UNCHANGED <<storeVars, list, wstop, sends, boundVars>>

(* pipe.Exec(ctx) is not sent, or breaks part-way; the batch is cleared all *)
(* the same.                                                                *)
PipelineBroken(w) ==
  /\ wpc[w] \in {"requeue", "unclaim", "ack"}
  /\ \/ ~Sent(w) /\ UNCHANGED drops
     \/ drops < MaxDrops /\ drops' = drops + 1
  /\ Goto(w, "take")
  /\ wbatch' = [wbatch EXCEPT ![w] = <<>>]
  /\ widx' = [widx EXCEPT ![w] = 1]
  /\ UNCHANGED <<storeVars, list, processing, wstop, sends, faults, stops>>

(* The client library resends a whole pipeline after a network error. *)
PipelineResent(w) ==
  /\ wpc[w] \in {"requeue", "unclaim", "ack"} /\ ~wstop[w]
  /\ drops < MaxDrops /\ drops' = drops + 1
  /\ Goto(w, IF wpc[w] = "ack" THEN "ack" ELSE "requeue")
  /\ widx' = [widx EXCEPT ![w] = 1]
  /\ UNCHANGED <<storeVars, list, processing, wbatch, wstop, sends, faults, stops>>

-----------------------------------------------------------------------------
Signal(w) ==
  /\ wpc[w] # "down" /\ ~wstop[w] /\ stops < MaxStops
  /\ wstop' = [wstop EXCEPT ![w] = TRUE]
  /\ stops' = stops + 1
  /\ UNCHANGED <<storeVars, list, processing, wpc, wbatch, widx, sends,
                 faults, drops>>

Crash(w) ==
  /\ wpc[w] # "down" /\ stops < MaxStops
  /\ Goto(w, "down")
  /\ wbatch' = [wbatch EXCEPT ![w] = <<>>]
  /\ widx' = [widx EXCEPT ![w] = 1]
  /\ stops' = stops + 1
  /\ UNCHANGED <<storeVars, list, processing, wstop, sends, faults, drops>>

OwnerDeletes(s) ==
  /\ Cardinality(Sites \ sites) < MaxDeletes
  /\ DeleteSite(s)
  /\ UNCHANGED <<list, processing, workerVars, sends, boundVars>>

(* What a running worker does of itself. *)
Step(w) ==
  \/ Start(w) \/ Recover(w) \/ RecoverEnd(w)
  \/ Take(w) \/ TakeTimeout(w) \/ Exit(w)
  \/ FlushOK(w) \/ FlushError(w)
  \/ Requeue(w) \/ Unclaim(w) \/ PipelineBroken(w)

Next ==
  \/ \E w \in Workers : Step(w) \/ TakeLost(w) \/ PipelineResent(w)
                                \/ RefusedForEver(w) \/ Signal(w) \/ Crash(w)
  \/ \E id \in Ids : Push(id)
  \/ \E s \in Sites : OwnerDeletes(s)

Spec == Init /\ [][Next]_vars

(* Someone starts a worker that has ended (docker-compose.yml names no       *)
(* restart policy for it), Redis and PostgreSQL answer, and nobody has to    *)
(* push, stop or delete.                                                    *)
Fairness == \A w \in Workers : WF_vars(Step(w))

FairSpec == Spec /\ Fairness

-----------------------------------------------------------------------------
(* Properties *)

(* The worker implements StoredOnce for what was pushed on the list. *)
Promise == INSTANCE StoredOnce WITH offered <- {id \in Ids : sends[id] > 0}
StoresOnce == Promise!Spec

Pushed == {id \in Ids \ Malformed : sends[id] > 0}

(* "acknowledged (removed) only after a successful commit": at every moment *)
(* a record that decodes and whose site exists is stored or in one of the   *)
(* two Redis lists, whichever worker holds, stole, requeued or released it. *)
NothingDropped ==
  \A id \in Pushed :
    SiteOf[id] \in sites => id \in receipts \cup Range(list) \cup Range(processing)

(* "push it back to the head of the queue so it is retried before newer     *)
(* records": the next record taken is one of the requeued batch.            *)
RequeuedFirst ==
  [][\A w \in Workers :
       Requeue(w) /\ list' # list => Last(list') \in Range(wbatch[w])]_vars

(* Every record is stored in the end: a failed transaction, a crash between *)
(* claim and commit, or a second worker delays it and no more.              *)
AllStored == \A id \in Ids : id \in Pushed ~> id \in receipts
=============================================================================
