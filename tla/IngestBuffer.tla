----------------------------- MODULE IngestBuffer -----------------------------
(***************************************************************************)
(* The ingestion service (backend/internal/ingest, backend/cmd/ingest):    *)
(* HTTP handlers push records into Redis or into a bounded channel, one    *)
(* flusher goroutine batches the channel into PostgreSQL, and a signal     *)
(* makes the flusher and main race to close the channel and drain it.      *)
(***************************************************************************)
EXTENDS IngestStore, Sequences, FiniteSets

CONSTANTS
  BatchSize,    \* cfg.BatchSize
  BufferSize,   \* cfg.BufferSize, capacity of the channel
  UseRedis,     \* cfg.RedisURL # ""
  MaxSends,     \* bound: how often one record is sent to the service
  MaxFaults,    \* bound: failed Redis pushes and failed transactions
  MaxRestarts,  \* bound: how often the process is started again
  MaxDeletes    \* bound: deleted sites

ASSUME BufferAssumption ==
  /\ BatchSize \in Nat \ {0}
  /\ BufferSize \in Nat \ {0}
  /\ UseRedis \in BOOLEAN
  /\ MaxSends \in Nat /\ MaxFaults \in Nat
  /\ MaxRestarts \in Nat /\ MaxDeletes \in Nat

VARIABLES
  list,       \* Redis list webstats:pageviews, head first
  siteIDs,    \* sites whose key is in the handler's SiteInfo cache
  pushing,    \* records whose Push holds acceptMu for reading
  stopped,    \* b.stopped: the channels ch and stop are closed
  ch,         \* b.ch
  batch,      \* the flusher's batch
  input,      \* whether the flusher's select still listens to ch
  retry,      \* whether a retry timer is armed (retryC # nil)
  cancelled,  \* the signal context is done
  ctx,        \* the flusher's context: the signal's, then Background
  fpc,        \* where the flusher is
  mpc,        \* where main is
  stopErr,    \* b.stopErr # nil
  sends,      \* how often each record was sent (history)
  acked,      \* records answered 200 (history)
  lost,       \* records dropped by a crash or a reported incomplete drain
  faults, restarts

flusherVars == <<ch, batch, input, retry, ctx, fpc, stopErr>>
processVars == <<flusherVars, siteIDs, pushing, stopped, cancelled, mpc>>
historyVars == <<sends, acked, lost, faults, restarts>>
vars == <<storeVars, list, processVars, historyVars>>

TypeOK ==
  /\ StoreTypeOK
  /\ list \in Seq(Ids)
  /\ siteIDs \subseteq Sites
  /\ pushing \subseteq Ids
  /\ ch \in Seq(Ids) /\ Len(ch) <= BufferSize
  /\ batch \in Seq(Ids) /\ Len(batch) <= BatchSize
  /\ stopped \in BOOLEAN /\ input \in BOOLEAN /\ retry \in BOOLEAN
  /\ cancelled \in BOOLEAN /\ stopErr \in BOOLEAN
  /\ ctx \in {"signal", "background"}
  /\ fpc \in {"select", "flush", "closing", "drain", "done"}
  /\ mpc \in {"serving", "stopping", "waiting", "exited"}
  /\ sends \in [Ids -> 0..MaxSends]
  /\ acked \subseteq Ids /\ lost \subseteq Ids
  /\ faults \in 0..MaxFaults /\ restarts \in 0..MaxRestarts

Init ==
  /\ StoreInit
  /\ siteIDs = {} /\ pushing = {}
  /\ ch = <<>> /\ batch = <<>>
  /\ input = TRUE /\ retry = FALSE
  /\ stopped = FALSE /\ cancelled = FALSE /\ stopErr = FALSE
  /\ ctx = "signal" /\ fpc = "select" /\ mpc = "serving"
  /\ list = <<>>
  /\ sends = [id \in Ids |-> 0]
  /\ acked = {} /\ lost = {}
  /\ faults = 0 /\ restarts = 0

-----------------------------------------------------------------------------
(* Handlers: CollectHandler and Push *)

(* A caller of acceptMu.Lock excludes new readers from the moment it waits. *)
LockRequested == fpc = "closing" \/ mpc = "stopping"

(* CollectHandler finds the site in its cache or in the database and Push   *)
(* passes the stopped check under the read lock.  A request refused here    *)
(* (404, 429, 403, 400, 503) leaves no trace.                               *)
PushBegin(id) ==
  /\ mpc # "exited" /\ ~stopped /\ ~LockRequested
  /\ id \notin pushing /\ sends[id] < MaxSends
  /\ SiteOf[id] \in sites \cup siteIDs
  /\ siteIDs' = siteIDs \cup {SiteOf[id]}
  /\ pushing' = pushing \cup {id}
  /\ sends' = [sends EXCEPT ![id] = @ + 1]
  /\ UNCHANGED <<storeVars, list, flusherVars, stopped, cancelled, mpc,
                 acked, lost, faults, restarts>>

(* The non-blocking send on ch: answered 200 when there is room, 503 when   *)
(* the buffer is full.                                                      *)
SendLocal(id) ==
  IF Len(ch) < BufferSize
  THEN ch' = Append(ch, id) /\ acked' = acked \cup {id}
  ELSE UNCHANGED <<ch, acked>>

(* Mutant: a failed LPUSH is answered 200 without the fallback.             *)
PushEndNoFallback(id) ==
  /\ id \in pushing
  /\ pushing' = pushing \ {id}
  /\ acked' = acked \cup {id}
  /\ \/ UseRedis /\ list' = <<id>> \o list /\ UNCHANGED faults
     \/ UseRedis /\ faults < MaxFaults /\ faults' = faults + 1 /\ UNCHANGED list
  /\ UNCHANGED <<storeVars, siteIDs, stopped, flusherVars, cancelled, mpc,
                 sends, lost, restarts>>

(* A successful LPUSH answers 200.  A failed one, which Redis may still     *)
(* have applied when only the answer was late, falls back to the channel,   *)
(* where every record goes when there is no Redis.                          *)
PushEnd(id) ==
  /\ id \in pushing
  /\ pushing' = pushing \ {id}
  /\ \/ /\ UseRedis
        /\ list' = <<id>> \o list
        /\ acked' = acked \cup {id}
        /\ UNCHANGED <<ch, faults>>
     \/ /\ IF UseRedis
           THEN /\ faults < MaxFaults /\ faults' = faults + 1
                /\ list' \in {list, <<id>> \o list}
           ELSE UNCHANGED <<list, faults>>
        /\ SendLocal(id)
  /\ UNCHANGED <<storeVars, siteIDs, stopped, batch, input, retry, cancelled,
                 ctx, fpc, mpc, stopErr, sends, lost, restarts>>

(* cacheTTL passes. *)
ExpireSiteInfo(s) ==
  /\ s \in siteIDs
  /\ siteIDs' = siteIDs \ {s}
  /\ UNCHANGED <<storeVars, list, flusherVars, pushing, stopped, cancelled,
                 mpc, historyVars>>

-----------------------------------------------------------------------------
(* The flusher goroutine *)

(* Everything but the flusher's own variables and the store. *)
OthersUnchanged ==
  UNCHANGED <<list, siteIDs, pushing, stopped, cancelled, mpc,
              sends, acked, restarts>>

(* case r, ok := <-input: a full batch is flushed at once. *)
Receive ==
  /\ fpc = "select" /\ input /\ ch # <<>>
  /\ batch' = Append(batch, Head(ch))
  /\ ch' = Tail(ch)
  /\ fpc' = IF Len(batch') < BatchSize THEN "select" ELSE "flush"
  /\ UNCHANGED <<storeVars, input, retry, ctx, stopErr, lost, faults>>
  /\ OthersUnchanged

(* The same case on the closed and empty channel. *)
ReceiveClosed ==
  /\ fpc = "select" /\ input /\ ch = <<>> /\ stopped
  /\ input' = FALSE
  /\ UNCHANGED <<storeVars, ch, batch, retry, ctx, fpc, stopErr, lost, faults>>
  /\ OthersUnchanged

(* case <-ticker.C: nothing to do for an empty batch. *)
Tick ==
  /\ fpc = "select" /\ batch # <<>>
  /\ fpc' = "flush"
  /\ UNCHANGED <<storeVars, ch, batch, input, retry, ctx, stopErr, lost, faults>>
  /\ OthersUnchanged

(* case <-retryC *)
RetryTimer ==
  /\ fpc = "select" /\ retry
  /\ retry' = FALSE
  /\ fpc' = IF batch = <<>> THEN "select" ELSE "flush"
  /\ UNCHANGED <<storeVars, ch, batch, input, ctx, stopErr, lost, faults>>
  /\ OthersUnchanged

FlushOK ==
  /\ fpc = "flush"
  /\ Commit(batch)
  /\ batch' = <<>>
  /\ fpc' = "select"
  /\ UNCHANGED <<ch, input, retry, ctx, stopErr, lost, faults>>
  /\ OthersUnchanged

(* The transaction is not applied, or is applied and the acknowledgement    *)
(* lost.  A refused batch and a cancelled context (the drain has one of its *)
(* own) fail at no cost to the fault bound.                                 *)
TransactionFails ==
  /\ \/ UNCHANGED storeVars
     \/ Commit(batch)
  /\ \/ ~Persistable(batch) /\ UNCHANGED faults
     \/ fpc = "flush" /\ cancelled /\ ctx = "signal" /\ UNCHANGED faults
     \/ faults < MaxFaults /\ faults' = faults + 1

(* Mutant: a failed batch is dropped.                                       *)
FlushErrorDropsBatch ==
  /\ fpc = "flush"
  /\ TransactionFails
  /\ batch' = <<>>
  /\ fpc' = "select"
  /\ UNCHANGED <<ch, input, retry, ctx, stopErr, lost>>
  /\ OthersUnchanged

(* Mutant: the loop goes on receiving while the failed batch is full.       *)
FlushErrorKeepsInput ==
  /\ fpc = "flush"
  /\ TransactionFails
  /\ retry' = TRUE
  /\ fpc' = "select"
  /\ UNCHANGED <<ch, batch, input, ctx, stopErr, lost>>
  /\ OthersUnchanged

(* The batch is kept, a retry timer armed, and the head of the loop stops   *)
(* listening to ch while the batch is full.                                 *)
FlushError ==
  /\ fpc = "flush"
  /\ TransactionFails
  /\ retry' = TRUE
  /\ input' = (input /\ Len(batch) < BatchSize)
  /\ fpc' = "select"
  /\ UNCHANGED <<ch, batch, ctx, stopErr, lost>>
  /\ OthersUnchanged

(* case <-ctx.Done: go on with a fresh context and enter stopOnce.          *)
FlusherCancelled ==
  /\ fpc = "select" /\ cancelled /\ ctx = "signal"
  /\ ctx' = "background"
  /\ fpc' = "closing"
  /\ UNCHANGED <<storeVars, ch, batch, input, retry, stopErr, lost, faults>>
  /\ OthersUnchanged

(* Mutant: the channels are closed without waiting for the readers.         *)
FlusherCloseUnlocked ==
  /\ fpc = "closing"
  /\ stopped' = TRUE
  /\ input' = FALSE
  /\ fpc' = "select"
  /\ UNCHANGED <<storeVars, list, siteIDs, pushing, cancelled, mpc, ch, batch,
                 retry, ctx, stopErr, historyVars>>

(* stopOnce.Do in the flusher: close both channels under the write lock,    *)
(* unless main has done so.                                                 *)
FlusherClose ==
  /\ fpc = "closing"
  /\ stopped \/ pushing = {}
  /\ stopped' = TRUE
  /\ input' = FALSE
  /\ fpc' = "select"
  /\ UNCHANGED <<storeVars, list, siteIDs, pushing, cancelled, mpc, ch, batch,
                 retry, ctx, stopErr, historyVars>>

(* The inner loop of the drain: top the batch up from the closed channel.   *)
Fill(b) ==
  LET room == IF Len(b) < BatchSize THEN BatchSize - Len(b) ELSE 0
      n == IF room < Len(ch) THEN room ELSE Len(ch)
  IN  /\ batch' = b \o SubSeq(ch, 1, n)
      /\ ch' = SubSeq(ch, n + 1, Len(ch))

(* case <-b.stop *)
EnterDrain ==
  /\ fpc = "select" /\ stopped
  /\ fpc' = "drain"
  /\ Fill(batch)
  /\ UNCHANGED <<storeVars, input, retry, ctx, stopErr, lost, faults>>
  /\ OthersUnchanged

(* Mutant: the drain ends with the first batch it has stored.               *)
DrainOKOnce ==
  /\ fpc = "drain"
  /\ Commit(batch)
  /\ Fill(<<>>)
  /\ fpc' = "done"
  /\ UNCHANGED <<input, retry, ctx, stopErr, lost, faults>>
  /\ OthersUnchanged

(* Mutant: an empty channel does not end the drain.                         *)
DrainOKForever ==
  /\ fpc = "drain"
  /\ Commit(batch)
  /\ Fill(<<>>)
  /\ UNCHANGED <<fpc, input, retry, ctx, stopErr, lost, faults>>
  /\ OthersUnchanged

DrainOK ==
  /\ fpc = "drain"
  /\ Commit(batch)
  /\ Fill(<<>>)
  /\ fpc' = IF ch = <<>> THEN "done" ELSE "drain"
  /\ UNCHANGED <<input, retry, ctx, stopErr, lost, faults>>
  /\ OthersUnchanged

DrainError ==
  /\ fpc = "drain" /\ batch # <<>>
  /\ TransactionFails
  /\ UNCHANGED <<ch, batch, input, retry, ctx, fpc, stopErr, lost>>
  /\ OthersUnchanged

(* A flush fails after drainCtx has expired: what is left is reported. *)
DrainExpired ==
  /\ fpc = "drain" /\ batch # <<>>
  /\ stopErr' = TRUE
  /\ lost' = lost \cup Range(batch) \cup Range(ch)
  /\ fpc' = "done"
  /\ UNCHANGED <<storeVars, ch, batch, input, retry, ctx, faults>>
  /\ OthersUnchanged

-----------------------------------------------------------------------------
(* main, signals, crashes and the database's other user *)

Signal ==
  /\ mpc # "exited" /\ ~cancelled
  /\ cancelled' = TRUE
  /\ UNCHANGED <<storeVars, list, flusherVars, siteIDs, pushing, stopped, mpc,
                 historyVars>>

(* Listen has returned: main calls Shutdown and enters stopOnce. *)
MainShutdown ==
  /\ mpc = "serving" /\ cancelled
  /\ mpc' = "stopping"
  /\ UNCHANGED <<storeVars, list, flusherVars, siteIDs, pushing, stopped,
                 cancelled, historyVars>>

(* stopOnce.Do in main; only the first of the two callers closes.           *)
MainClose ==
  /\ mpc = "stopping"
  /\ stopped \/ pushing = {}
  /\ stopped' = TRUE
  /\ mpc' = "waiting"
  /\ UNCHANGED <<storeVars, list, flusherVars, siteIDs, pushing, cancelled,
                 historyVars>>

(* <-b.done, then the process ends and its memory with it. *)
MainExit ==
  /\ mpc = "waiting" /\ fpc = "done"
  /\ mpc' = "exited"
  /\ ch' = <<>> /\ batch' = <<>>
  /\ UNCHANGED <<storeVars, list, input, retry, ctx, fpc, stopErr, siteIDs,
                 pushing, stopped, cancelled, historyVars>>

Crash ==
  /\ mpc # "exited"
  /\ mpc' = "exited" /\ fpc' = "done" /\ stopped' = TRUE
  /\ ch' = <<>> /\ batch' = <<>> /\ pushing' = {}
  /\ lost' = lost \cup Range(batch) \cup Range(ch)
  /\ UNCHANGED <<storeVars, list, input, retry, ctx, stopErr, siteIDs,
                 cancelled, sends, acked, faults, restarts>>

(* NewBuffer: memory is empty since the last process ended. *)
Restart ==
  /\ mpc = "exited" /\ restarts < MaxRestarts
  /\ restarts' = restarts + 1
  /\ siteIDs' = {} /\ input' = TRUE /\ retry' = FALSE
  /\ stopped' = FALSE /\ cancelled' = FALSE /\ stopErr' = FALSE
  /\ ctx' = "signal" /\ fpc' = "select" /\ mpc' = "serving"
  /\ UNCHANGED <<storeVars, list, pushing, ch, batch, sends, acked, lost, faults>>

(* The dashboard deletes a site while its records are on their way. *)
OwnerDeletes(s) ==
  /\ Cardinality(Sites \ sites) < MaxDeletes
  /\ DeleteSite(s)
  /\ UNCHANGED <<list, processVars, historyVars>>

(* The last process has ended. *)
Terminated ==
  /\ mpc = "exited" /\ restarts = MaxRestarts
  /\ UNCHANGED vars

Handler == \E id \in Ids : PushBegin(id) \/ PushEnd(id)

Flusher ==
  \/ Receive \/ ReceiveClosed \/ Tick \/ RetryTimer
  \/ FlushOK \/ FlushError
  \/ FlusherCancelled \/ FlusherClose
  \/ EnterDrain \/ DrainOK \/ DrainError \/ DrainExpired

Environment ==
  \/ Signal \/ Crash \/ Restart \/ Terminated
  \/ \E s \in Sites : ExpireSiteInfo(s) \/ OwnerDeletes(s)

Next ==
  \/ Handler \/ Flusher
  \/ MainShutdown \/ MainClose \/ MainExit
  \/ Environment

Spec == Init /\ [][Next]_vars

(* Goroutines are scheduled, transactions end and select picks among its    *)
(* ready cases at random, so no case that is ready again and again is       *)
(* passed over for ever.  Nobody has to send, to signal or to crash.        *)
Fairness ==
  /\ \A id \in Ids : WF_vars(PushEnd(id))
  /\ SF_vars(Receive) /\ SF_vars(ReceiveClosed)
  /\ SF_vars(Tick) /\ SF_vars(RetryTimer)
  /\ SF_vars(FlusherCancelled) /\ SF_vars(EnterDrain)
  /\ WF_vars(FlushOK \/ FlushError)
  /\ WF_vars(DrainOK \/ DrainError) /\ WF_vars(DrainExpired)
  /\ SF_vars(FlusherClose) /\ SF_vars(MainClose)
  /\ WF_vars(MainShutdown) /\ WF_vars(MainExit)

FairSpec == Spec /\ Fairness

-----------------------------------------------------------------------------
(* Properties *)

(* The service implements the promise of StoredOnce: no interleaving of     *)
(* handlers, flusher, shutdown, crashes and site deletions stores an event  *)
(* that was never sent, or one twice, or one of a deleted site.             *)
Promise == INSTANCE StoredOnce WITH offered <- {id \in Ids : sends[id] > 0}
StoresOnce == Promise!Spec

(* A record answered 200 is in the database, in Redis or in memory, unless  *)
(* its site was deleted, or a crash or an incomplete drain (an error that   *)
(* Shutdown returns) accounts for it: no record disappears silently.        *)
NoSilentLoss ==
  \A id \in acked :
    \/ SiteOf[id] \notin sites
    \/ id \in receipts \cup Range(list) \cup Range(ch) \cup Range(batch) \cup lost

(* acceptMu: when the channel is closed no Push is between its stopped      *)
(* check and its send, which would panic.                                   *)
NoSendOnClosed == stopped => pushing = {}

(* A Shutdown that reports no error leaves nothing behind in memory.        *)
CleanShutdown == fpc = "done" /\ ~stopErr => ch = <<>> /\ batch = <<>>

(* A record in the flusher's batch survives failed transactions: it is      *)
(* stored, or a reported loss ends the process.                             *)
BatchIsStored ==
  \A id \in Ids : id \in Range(batch) ~> id \in receipts \cup lost

(* A closed buffer is drained in bounded time: Shutdown returns.            *)
ShutdownReturns == stopped ~> fpc = "done"

(* "a persist failure must retain the batch for retry": the service goes on *)
(* after the database has recovered, so every accepted record leaves the    *)
(* channel for the database.                                                *)
ChannelIsStored ==
  \A id \in Ids : id \in Range(ch) ~> id \in receipts \cup lost
=============================================================================
