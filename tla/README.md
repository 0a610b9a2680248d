# WebStats in TLA+

Specifications, model-checking runs and machine-checked proofs for WebStats, a
self-hosted web analytics system: a Go backend (`backend/`), a Next.js
dashboard (`frontend/`) and a browser tracker (`tracker/`). Every definition is
translated from the source; `PROJECT.json` maps each one to the lines it stands
for, lists the runs, the hazards the properties are aimed at, and the theorems.

    tlc -workers 2 -config Pipeline.cfg MCPipeline.tla     # one run
    tlapm IngestBufferProofs.tla                           # one module of proofs

## 1. The system

    browser tracker --HTTP--> ingestion service --LPUSH--> Redis list --BLMOVE--> workers
                                    |  (no Redis, or LPUSH failed)                   |
                                    +--> bounded channel --> flusher --> PostgreSQL <-+
                                                                            ^
    frontend --HTTP--> dashboard: handlers + eight timer loops -------------+

| Component | Source (under `src/`) | State it keeps | Operations | What is hard | What makes it correct |
|---|---|---|---|---|---|
| Ingestion service | `backend/internal/ingest`, `backend/cmd/ingest` | channel, batch, retry timer, `stopped`, site caches | Push, flush, retry, Shutdown, drain | handlers race shutdown; a flush fails, or succeeds without an answer; crash | an accepted record is never lost silently, never stored twice; no send on a closed channel; drain is complete or says it is not |
| Event storage | `Buffer.flush`, migrations | `ingest_receipts`, `pageviews`, `events` | one transaction per batch; site deletion cascades | idempotence under retry, a site deleted under a batch | a row exactly while there is a receipt |
| Standalone worker | `backend/cmd/worker` | Redis `list` and `processing`, its batch | recover, claim, flush, requeue, acknowledge | several workers, lost answers, pipelines that are not transactions, crash between claim and commit | a record is in Redis until it is stored; it is stored in the end |
| Uptime checks and incidents | `cmd/dashboard/main.go` `uptimeLoop`, `alertloop.go` | `site_checks`, `site_alert_state`, `incidents`, `dashboard_alert_events` | store a check; process checks behind a cursor | cursor and results must move together; bounded batches; restart | incidents are the outages; one event per transition; the loop catches up |
| Alert outbox | `alertloop.go` `drainAlertEvents`... | `dashboard_alert_events`, row locks | claim, notify rules, delete | two loops drain one table; a delivery or a commit fails part-way | nothing leaves unnoticed; repeats only after failures; everything leaves |
| Heartbeats | `reliability.go` | `heartbeats.status`, `last_ping` | ping, overdue, recovery | three statements without a transaction, racing pings | one missed and one ok event per silence |
| Maintenance windows | `reliability.go` | `maintenance_windows` | create, match | windows that wrap midnight, `start = end` | matches exactly the minutes that the window names |
| Monitors | `monitor_handlers.go` | `monitors`, `monitor_checks` | create, delete, PATCH, check loop | read-modify-write racing the loop or another PATCH; rows edited or deleted while a run fetches; statements whose errors are ignored | settings are those asked for last; checks are an interval apart; what is due is checked |
| Accounts, invites, settings | `handlers.go`, `account_handlers.go`, `member_handlers.go` | `users`, `sessions`, `invites`, `site_members`, settings | login, change of password and role, delete, accept, publish | check-then-act on the last admin; a login racing a new password; invites accepted in five statements, twice; columns read and written back | an admin remains; old passwords open no session that stays; an invite gives its membership; a published dashboard has a token |
| Retention | `member_handlers.go` | age of stored rows | delete expired rows | deletes while the alert loop reads | the cursor is never left behind the table |
| Funnels and goals | `funnel_handlers.go` | `funnels`, `funnel_steps` | replace | DELETE and INSERT racing each other | one consistent list of steps |
| Reports | `feature_handlers.go` | `last_sent_at` | due?, send | schedules that are valid and never due; failure after sending | one report per period |
| Threshold alerts | `feature_handlers.go`, `insights.go` | `last_sent_at`, `notif_logs` | check, notify | cooldown written only after success; logs can be cleared | at most one notice per cooldown |
| Rate limiter | `internal/ingest/ratelimit.go` | tokens per site | allow | burst and refill within one window | the stated number per minute |
| Partitions | `internal/database/analytics.go` | monthly partitions | create, move rows of the default one | two processes create and insert at once | no row lost or doubled |
| Browser tracker | `tracker/track.js` | localStorage: queue, visit, opt-out; routes, vitals of a page | send, enqueue, flush; route, scroll, vitals; session id | tabs share the store; a lost answer is a failure to the tracker; `sendBeacon` says nothing; a timer against the page being hidden | one row per payload, at most `MAX_TRIES + 1` attempts, nothing dropped but for a stated reason; reports once each; visits end by the timeout |
| Pages of the dashboard | `frontend/src/components`, `frontend/src/app` | React state: lists, forms, flags, what a card shows | a handler per button, effects, reloads | a handler gives the browser back at each `await`: others run in between, answers come late or not at all, the user reloads | a list at rest is what is stored; a card shows the answer to its present question; no form stays disabled |
| Geo cache | `internal/geo` | bounded map | lookup | eviction | - |
| Notification channels, analytics queries, auth primitives, network policy, configuration, static files, user agents, charts | `internal/notify`, `internal/auth`, `internal/egress`, ... | none of their own | formatting, HTTP and SQL | - | - |

`PROJECT.json` has one entry per component, including those that are not
modelled and why, and 40 hazards at the line where each one bites; for the 9
that no property covers it says why.

## 2. The modules

| Module | Models | Extends / instantiates |
|---|---|---|
| `StoredOnce` | **abstract**: what ingestion promises to a site owner | - |
| `IngestStore` | the transaction of `flush`, site deletion with its cascade | - |
| `IngestBuffer` | the ingestion service | `IngestStore`; implements `StoredOnce` |
| `QueueWorker` | any number of standalone workers on one Redis | `IngestStore`; implements `StoredOnce` |
| `Pipeline` | service and workers on the same list and the same tables | instances of `IngestBuffer` and `QueueWorker`; implements `StoredOnce` |
| `Uptime` | sites, outbox and monitors, one of them per behaviour | `SiteChecks`, `AlertOutbox`, `Monitors` |
| `SiteChecks` | uptime loop, alert loop up to the event, its transaction check by check | - |
| `AlertOutbox` | delivery of events by concurrent loops | - |
| `Monitors` | requests that edit monitors, the loop that checks them | - |
| `Heartbeats` | the dead man's switch: pings and the three statements of its loop, in discrete time | - |
| `ReportMails` | the loop that mails reports by day and hour, edits of their schedules | - |
| `MaintenanceWindows` | windows of a site and the delivery that asks for them | - |
| `Loops` | what the dashboard does by the clock, one loop per behaviour | `Heartbeats`, `ReportMails`, `MaintenanceWindows` |
| `IngestFacts` | lemmas on the store, sequences and the refinement step | `IngestStore` |
| `IngestBufferProofs`, `QueueWorkerProofs` | theorems | their component, `IngestFacts` |
| `PipelineProofs` | theorems | `Pipeline`; instances of the two modules above |
| `AlertsProofs` | theorems | `Uptime` |
| `LoopsProofs` | theorems | `Loops` |
| `Page` | what all pages share: a request leaves, the server answers, refuses or is not reached, the handler goes on; reload | - |
| `SiteSettings` | the settings page of a site, nine sections, with the dashboard's handlers | `Page` |
| `NotificationsPage` | providers, rules, reports, delivery log | `Page` |
| `AccountPages` | users of an instance, sites of a user, password and API keys | `Page` |
| `StatsPage` | navigation, goals, occurrences, cards with effects, streaming and polling panels | `Page` |
| `Accounts` | sessions and passwords, the last admin, an invite: concurrent requests statement by statement | `Page` |
| `TrackerQueue` | the tracker's way to the service: beacon, fetch, retry queue, opt-out, any number of tabs | - |
| `TrackerPage` | what the tracker reports of a page: routes, scroll depths, vitals, visits | - |
| `Browser` | all of these side by side | the seven above |
| `TrackerProofs` | theorems | `TrackerQueue`, `TrackerPage` |
| `PagesProofs` | theorems | `Browser`, `TrackerProofs` |
| `MC*` | constants of the runs | their component |

### State and actions

**Records.** A record is its id. The service chooses `"<site>:<client id>"`
before anything is queued, so a retry, a second delivery and a requeue carry
the same id; nothing in these components looks at the rest of the record.
Pageviews and custom events take the same path and are not told apart.

**IngestStore.** `flush` runs one transaction: partitions, receipts with
`ON CONFLICT DO NOTHING RETURNING id`, then COPY of the rows whose receipt is
new. It is atomic for its readers, so it is one action, `Commit`; a
transaction that fails either did nothing or was applied and lost its answer
(`TransactionFails`, `FlushError`). The foreign key to `sites` refuses a batch
that names a deleted site (`Persistable`). Creating partitions is left out.

**IngestBuffer.** One action per case of the flusher's `select`, per entry to
`stopOnce`, per outcome of a transaction. `fpc` is where the flusher is, `mpc`
where main is. `pushing` is the set of records whose `Push` holds `acceptMu` for
reading: a push is two actions, the stopped check and the send, so that the
close of the channel can come between. `LockRequested` is Go's rule that a
waiting writer excludes new readers. `input` is the local channel variable
that the head of the loop sets to `nil`. A signal cancels the flusher's context
and makes main call `Shutdown` in either order; both race for `stopOnce`. A
failed LPUSH may still have been applied. A crash empties the memory.

**QueueWorker.** The claim (BLMOVE) and every command of the two pipelines is
one action, because Redis runs the commands of a plain pipeline one by one
between those of other clients. An answer can be lost, a pipeline not be sent
because the context is done, break part-way, or be resent as a whole by the
client library; with `Refusals`, Redis refuses an LPUSH. A worker that starts moves all
of `processing` back, the claims of a live worker included.

**Pipeline.** Instances of both modules share `sites`, `receipts`, `rows`,
`list` and `sends`. `Push` of `QueueWorker`, which stands there for the service, is
replaced by the service itself. A record can reach the database on two ways at
once: an LPUSH that was applied without an answer also goes to the channel.

**SiteChecks.** A time is the number of the check. A round of `uptimeLoop`
checks all sites side by side and inserts one row each; the error of an insert
is ignored. `tx` is the transaction of `processSiteChecks`: it reads the state
row and at most `CheckLimit` checks behind the cursor (`BeginSite`), takes the
checks one after the other (`TrackCheck`), and writes incidents, events, cursor
and status (`CommitSite`), while the uptime loop stores more checks. Until then
nothing it did is seen. A statement that fails rolls it back and the loop goes
on with the next site; a restart drops it. Only this loop writes these rows, so
`FOR UPDATE` is never contended in one process.

**AlertOutbox.** A claimed row stays locked (`held`) while the rules are
notified; `Unlocked` is `FOR UPDATE SKIP LOCKED`. A delivery that fails may have
reached the receiver. `Delete` is the DELETE and the commit.

**Monitors.** `updateMonitorHandler` is two steps, the SELECT (`readMonitor`) and the
UPDATE (`writeMonitor`), between which other requests and the loop write the same
row; `Merged` is what the UPDATE sets: what the request names, and the rest as it was
read, but the address as the row has it. `runMonitors` lists what is due, fetches one
address after the other, and after each stores the check and sets `last_check_at`, two
statements whose errors are ignored (`statementBreaks`); a restart drops the rest of
the list. Monitors are created, deleted and edited between any two of these steps.
`wanted` and `monitorChecks` are history: the settings asked for, with whether a request
wrote what it had read before another one wrote (`crossed`), and when a monitor was last
checked. The expected status and the keyword are read and written back like the interval,
and what a check finds has no bearing on these properties.

**Heartbeats.** Time advances one unit at a time; `Allowed` is
`period_seconds + grace_seconds` in that unit. Each of the three statements of
`processHeartbeats` commits by itself, so each is a step of its own and pings,
failures and restarts come between; a statement's UPDATE and the INSERT of its
events are one step. The events are those that `AlertOutbox` calls `Insert`;
they are kept here in the order of insertion and stay when the beat is deleted.

**ReportMails.** A clock of hours, `HoursPerDay` to a day; the date of each day
is given, so a month may end between two days. The loop takes the hour
(`beginRun`), asks the database, which takes the date (`selectDue`), and then
mails and records one report after the other, with hours passing and requests
coming in between any two steps. A mail may fail, go out without being
recorded (`recordFails`: the UPDATE fails, whose error is ignored, or the mail's
answer is lost), or be the last thing the process does (`diesAfterMail`).
`sent` is history: how many mails on which day, and for the listing of which
day. The day of a monthly report is stored as text, in whatever form `Atoi` takes:
`form` says whether it is the bare number, has one zero before it, or is written
otherwise (more zeros, a plus sign). `PaddedDay` is what `lpad(day, 2, '0')` spells, the
number, another date or none, and `OnDay` compares that; `Names` is the day that was
meant, and `misread` remembers where the two can differ (`Padded`).

**MaintenanceWindows.** A clock of minutes, `MinutesPerDay` to a day.
`maintenanceMatches` is the code's test with its two cases, `Covers` the
reference: some beginning of the window is at most its length ago, where the length is
what the migration says of the columns (an end that is not after the start is on the next
day). The two differ for an end that is the start (`AllRound`).
Windows are created and deleted while an event waits, and the windows of the
delivery decide about the time of the event. Windows that cannot be read
keep nothing back. A failed delivery leaves the event as it is (`AlertOutbox`);
`told` is what the attempt did that removed it.

**Page.** A *section* is a part of a page whose handlers share state; no handler
touches two, so a behaviour has one open. `db` is its tables, `ui` its React
state, `calls` the handlers under way. A handler is cut at its `await`s: the
click up to the request is one action (`sendInvite`), the server's work another
(`createInviteHandler`), what follows the answer a third (`sendInviteThen`).
`Reply` may lose the answer of a request that was served, `Lose` is one that was
not, `Refuse` a status that is not 2xx: `apiFetch` throws for all three. A
`...Panel` is the set of buttons the rendered section offers, with the
conditions under which each is there and enabled; it is the guard of the clicks
and stands for the markup. After a reload the requests on their way are
served for nobody. `hist` remembers that a connection broke, or that two
handlers that disturb each other were under way; the agreement of a list with the table is
promised by the code only without these.

**SiteSettings, NotificationsPage, AccountPages.** One action per handler.
Rows are `[kind, id, on, of]`; texts, messages, copied links are left out.
`updateSettingsHandler` is a read, a write and a read (`readShared`,
`writeShared`), since two requests to it can overlap; handlers that are one
statement or one transaction are one step. Deleting a provider takes its rules
and reports along in the database (`ON DELETE CASCADE`), on the page it does not.

**StatsPage.** A figure is the question it answers. The router lets a newer
navigation overtake an older one. The clean-up of an effect makes a fetch under
way answer nobody, as a reload does. `RealtimePanel` polls for good after the
first error of its stream.

**Accounts.** Every statement of a handler that is not in a transaction is an
action, with what the handler remembers in `calls[n].got`. A password is a version number, and
a session remembers the version it was opened with. The last admin: middleware,
count, write; `both` remembers that one wrote while another had counted. An
invite: read, user, membership, delete (whose error is
ignored), session, in two tabs.

**TrackerQueue.** `localStorage` is one store for all tabs and a task of a tab is
not interrupted, so `enqueue` and `flushQueue` are one step each. A request is
`out`, `kept`, `refused` or `broken`; `store` adds the row that the service's
receipts allow (`StoredOnce`), so only a new id could add a second one. A
fetch of a closed tab goes on (`keepalive`), but nobody hears that it failed,
as with a beacon.

**TrackerPage.** `page`, `vitals` and `visit` share no state. A route change may
fire several of the hooked events. `observe` is an observer's call of
`schedule`, `flushAll` both listeners. The clock of `visit` may be set back, the
store may be read-only or be cleared, a tab be reloaded.

## 3. The runs

| Run | Instance | Question |
|---|---|---|
| `ingest` | 2 records of 2 sites, each sent twice; batch 2, channel 1; 3 failures, 1 restart, 1 deletion | Is anything stored twice, lost silently, sent on a closed channel, or left behind by a clean shutdown? |
| `ingest_live` | 2 records once each, without Redis, 1 failure | Is a batch stored after a failure; does a closed buffer drain? |
| `ingest_wedge` | as above, each sent twice | **Violated**: does the channel keep moving after a failed full batch? |
| `worker` | 2 workers, 2 records, batch 2, 1 failure, 1 lost answer or resent pipeline, 1 crash or signal, 1 deletion | Is a record always in Redis or stored, and stored once? |
| `worker_live` | 2 workers, 3 records, one of which does not decode; 1 failure, 1 crash or signal | Is every record stored in the end? |
| `worker_order` | 1 worker, batch 1, 1 failure | **Violated**: is a requeued batch taken before newer records? |
| `worker_refused` | 1 worker, Redis refuses an LPUSH | **Violated**: is a record removed only after its commit? |
| `pipeline` | service and 1 worker, 2 records of one site, 1 failure on each side, 1 crash or signal, 1 deletion | Is an accepted record kept from the answer 200 to the row, whichever way it takes? |
| `uptime` | 2 sites, 3 checks each, 2 per transaction, 2 failed inserts, failed transactions or restarts; 2 loops, 3 events of 2 kinds, 3 rules, 1 failure or restart; 1 monitor, 2 requests that name one column each, 2 intervals, 2 addresses, 3 instants, 1 failed statement or restart | Are incidents and events those of the checks; does the loop catch up? Is an event forgotten, repeated without a failure, or stuck? Do the settings of a monitor stay as they were asked for; are its checks an interval apart; is it checked when it is due? |
| `browser` | one section or tracker part per behaviour; 2 handlers under way, 2 rows made, 3 clicks or reloads; 2 tabs, 2 payloads, 2 tries, a queue of 1; 2 routes, 3 changes; timeout 2, clock 4 | Do pages at rest show what is stored; do cards, accounts, invites, public links stay right when requests overlap or break; is a payload stored once or given up for a reason of the code; do reports and visits follow the rules? |
| `loops` | 2 beats with limits 1 and 2, 6 instants, 1 failure or restart; 1 report of any schedule, its day in any form, 5 hours of 3 days of 2 hours over the end of February, dates 2 and 28 to choose from, 2 requests, 1 mail unrecorded; 1 window at a time of any days and minutes, 3 days of 4 minutes and more | Do misses and recoveries alternate and agree with the row; are silence and recovery noticed? Does a report go out on time and once? Are the alerts within a window, and no others, kept back? |
| `sessions_revoked` | the section of sessions, as in `browser` | **Violated**: does a change of password end the sessions opened with the old one? |

**Why the bounds suffice.** A channel of one makes the buffer full with one
record, a batch of two distinguishes full from partial batches and lets one
batch name two sites, of which one is deleted. Sending a record twice gives
duplicates within one batch and across batches. Three failed pushes are what
it takes, with Redis, to put three records into memory: a full batch and one
more. Two workers are enough to steal a claim, resend a
requeue and acknowledge late. Three checks with a limit of two leave a
backlog across a batch boundary, and two lapses roll a transaction back and lose
a check, or restart in the middle of what was rolled back before. Three events with two kinds give two loops
something to do while a third event waits. Six instants are enough for a beat
to go late, recover and go late again. A report goes out on three days, with two hours
a day so that a schedule can be moved to an earlier or a later one; reports do not read
each other's rows, so one is enough. A week of three days of four minutes has every
kind of window (of one minute, within a day, across midnight, and all round the clock)
before, at and after its first and last minute, over a full week. Monitors do not read each
other's rows either, so one is enough; that a run has others to fetch first is time that
passes between its steps, and the proofs hold for any number. Two requests cross; each
names one column, so that there is another one to write back. Two handlers are what it takes to overlap,
and the third click or reload comes between one that has been answered and one
that has not; two made rows are one more than the handlers that are about to
drop them; a queue of one overflows with the second payload, two tries run out
with the third attempt; a clock of four passes a timeout of two twice and can go back
across it. The safety properties of
every module named in section 4 do not depend
on these numbers. Every bound is a constant named `Max...`; `RefusedForEver` is
the only action that exists for a bound.

**Fairness.** Safety needs none. `IngestBuffer`: goroutines are scheduled and
`select` picks among its ready cases at random, so a case that is ready again
and again is taken (SF); transactions end (WF); nobody has to send, signal or
crash. The lock of `acceptMu` is handed on (SF of the two closes).
Failures are bounded, which stands for a database that recovers.
`QueueWorker`: a running worker goes on, and **somebody starts a worker that
has ended** - an assumption on the deployment: `docker-compose.yml` gives the
worker no restart policy, and of the systemd units none is for the worker.
`SiteChecks`, `AlertOutbox` and `Monitors` (in `Uptime`), `Heartbeats` (in `Loops`): the
loops tick for ever, the address of a monitor answers or the client's timeout ends the
request, and a transaction that is not rolled back goes on (WF of `ProcessSites`); a loop that can claim
again and again does (SF of `Claim`, since another loop may hold the oldest row
now and then).

`Browser`: the server answers a request that has reached it, or the connection
breaks, a handler goes on when its answer is there, effects and timers run (WF of each). Nobody has to click, reload
or lose a connection. The realtime panel is busy until its stream reports or
fails, and one of the two is assumed to happen. `BusyEnds` exempts the login form after a broken
connection: `signIn` throws and `onSubmit` has no `catch`, so `loading` stays
true.

**Deadlock** is checked in every run but those of `Browser`, where users may stop
clicking. Where a process may really be finished, an explicit `Terminated` step
says so.

### What the runs found

1. *The flusher stops listening after a failed full batch*
   (`ingest.go:243-245`, run `ingest_wedge`). The head of the loop sets
   `input = nil` while the batch is full; nothing sets it back after the retry
   has succeeded, so without Redis the channel fills up and every later event
   is refused until the process is stopped.
2. *A requeued batch goes to the wrong end* (`worker/main.go:79`, run
   `worker_order`): the comment says "head of the queue so it is retried before
   newer records", but LPUSH adds at the end that BLMOVE reaches last.
3. *A refused LPUSH drops the record* (`worker/main.go:83`, run
   `worker_refused`): the LREM of the same pipeline runs all the same.
4. *A login outlives a change of password* (`handlers.go:103`, run `sessions_revoked`):
   it compared the old password before the change, and stores its session after every
   session was deleted. `OldPasswordSessions` says that these are the only
   ones: no run checks it, `NoOldSessions` proves it for any number of logins.

### Where the pages and the tracker differ from what they say

Met while modelling; they are in the model as the code has them, and the properties are
stated around them.

- The confirmation of `deleteProvider` says "Rules using it stop working"
  (`NotificationsView.tsx:192`); the database deletes them and the provider's
  reports, while the page keeps showing both. `NotificationsAgree` compares the
  rows that can still act.
- `toggleRule` and `toggleReport` send the opposite of the row as it was rendered and
  show the opposite of the row as it is after the answer: two quick clicks send
  the same value twice and flip the display twice.
- A test that fails is logged (502), but the page refreshes its log only after
  one that worked.
- `toggleEvent` shows whatever answer comes last: opening two events quickly
  can list the first under the second. The occurrences also stay those of the
  period they were opened in when another period is chosen.
- `applyRange` drops the filters that `setPeriod` keeps.
- Settings that could not be loaded are shown as defaults (hashing on,
  retention 0), which a save would store.
- The certificate is checked for the saved domain, the button is offered for
  the typed one.
- A request for a new public link that overlaps the one that switches the
  dashboard off can switch it on again: it writes back the flag it has read.
  `PublicDashboard` holds all the same: a published dashboard has a token.
- Two requests that both count two admins can leave none (`handlers.go:601`):
  `LastAdmin` says that this takes two that had both counted before either wrote.
- An admin who resets his own password on the users page ends his own session.
- A route change before the load event reports the new route twice and the
  first one never; `PageReports` exempts it.
- The comment at `track.js:249` says that vitals are flushed "once stable and
  again on page hide with the final value"; each is sent once, so a value that
  was stable for three seconds is the one that stays. Vitals and visits
  advance for visitors who have opted out, of whom nothing is sent.
- The queue is sent only when a page loads the tracker with `data-auto`.

Of what goes by the clock:

- A run of `reportLoop` that crosses midnight records its mail on the next day,
  whose own report is then not sent: `last_sent_at` is the time of the UPDATE
  (`feature_handlers.go:423`), not the day that was listed. `ReportsOnTime`
  exempts the day after such a record.
- A mail whose answer is lost, or whose UPDATE fails, goes out again at the
  next tick of the hour; `ReportsOnTime` counts one more mail for each of these.
- A report that fails throughout its hour, or whose hour passes while the
  dashboard is down, waits for its next day; `ReportsOnTime` speaks of runs in
  the hour. A monthly report for the 31st skips shorter months.
- The migration says that a window with "end <= start wraps midnight"
  (`013_reliability.sql:21`), so that one whose end is its start lasts a day; in the
  code it lasts one minute (`reliability.go:214`). `Covers` follows the migration, and
  `AlertsSilenced` exempts these windows (`AllRound`).
- The day of a monthly report is accepted if `Atoi` makes of it a number from 1 to 31,
  and compared as text (`feature_handlers.go:195-197`, `:391`): "+5" and "007" are never
  due, "028" is due on the 2nd, and the page says "on day" of each of them.
  `ReportsOnTime` exempts such schedules (`misread`).
- Of two PATCH requests that cross, the later UPDATE writes back what it read before the
  other's: a monitor that was paused meanwhile is enabled again, which the comment at
  `monitor_handlers.go:148-149` means to prevent. `EditsStand` exempts them (`crossed`).
- A monitor whose check was stored and whose `last_check_at` could not be set is
  checked again at the next tick; `ChecksSpaced` exempts it.
- Deleting a window while an event of it waits lets the event out, and creating
  one keeps back what happened before (`alertloop.go:167`).

### Around the findings of ingestion

The proofs and `NoSilentLoss` state what does hold: nothing is stored twice,
and with answers that are only lost (not refused) nothing is dropped.

## 4. What is proved

TLAPS checks these for every value of the constants, under the assumptions
named in the modules: `SiteOfAssumption` (every record has a site),
`BufferAssumption`, `WorkerAssumption`, `PipelineAssumption` (a batch holds at
least one record, bounds are naturals), `OutboxAssumption`, `CheckAssumption`,
`BeatAssumption`, `ReportAssumption`, `WindowAssumption` (limits, lengths of
days and of weeks are positive), `MonitorAssumption` (intervals are positive, there is
one, and an address), `PageAssumption`, `TrackerAssumption`,
`TrackerPageAssumption` (the tracker's queue, its tries and the session timeout are
positive, a page has a route). Nothing is assumed of the bounds but that they
are numbers.

Every safety property of every passing run is proved, and beside them the types of
the workers (`QueueWorkerProofs!TypeCorrect`) and of the checks
(`ChecksTypeCorrect`), which the runs do not check again. The table has the inductive
invariant behind each theorem, or the part of it that the property does not already say.

| Theorem | Argument |
|---|---|
| `IngestBufferProofs!TypeCorrect` | `TypeInv`: with `InputOpen` (a flusher that listens has room in its batch, so `Receive` never exceeds `BatchSize`), `ExitedEmpty`, `DrainStopped`, `NoSendOnClosed` |
| `StoredExactlyOnce` (service, worker) | `ExactlyOnce` is inductive with the types of the store: a row is copied for exactly the ids that `Accepted` adds to the receipts, and a deletion removes both |
| `NothingSilentlyLost` | a record moves from a handler to list or channel, from channel to batch, from batch to receipts; `FillFacts`: topping up loses no element; `DoneAccounted`: what a finished flusher leaves in memory is counted in `lost`, so that the end of the process takes nothing else with it |
| `NeverSendsOnClosed` | the channel is closed only with no reader, and `stopped` keeps new readers out |
| `ShutdownIsClean` | `done` without an error is reached from an empty channel and an empty batch, and a stopped buffer receives nothing more |
| `ImplementsStoredOnce` (service, worker, pipeline) | every step maps to `Offer`, `Store`, `Delete` or a stutter; `Store` needs `ExactlyOnce` (a new receipt has no row) and `OnlySent` / `OnlyPushed` (what is queued was offered) |
| `QueueWorkerProofs!TypeCorrect` | `Control`: a worker that takes has room, and the command index of a pipeline stays within the batch |
| `NeverDropped` | that a record which is not stored is in Redis is not inductive: a requeue adds a copy before it removes one, a worker that starts moves the claims of the others, a resent pipeline removes twice. `Balanced` counts: an unstored record has more copies in both lists than LREMs are still owed for it (`Debt`), and `AckStored`: what is acknowledged is stored. It supposes `Refusals = FALSE`; run `worker_refused` shows that it must |
| `PipelineProofs!Inductive` | the core of the service's invariant and the worker's hold side by side: a step of the one keeps what the other's says of list, tables and `sends`; the lemmas of both are cited through instances of their proofs |
| `AcceptedStaysKept` | what the service has answered 200 is held: in its memory, in Redis (`Balanced` again), stored, or counted as lost |
| `SitesInvariant`, `IncidentsAreOutages`, `EventsAreTransitions` | `Agree`: up to the cursor, incidents are the outages and events the transitions, in their order, and an incident is open exactly while the site is known to be down, which is what makes the next transition close the right one; `TxAgreed` says it of the transaction up to its own cursor, and that what is left to it is an interval that begins there |
| `AlertsProofs!TypeCorrect` | `OneHolder`: a locked row is in the table because only its holder deletes it |
| `LosesNothing` | `Progress`: a loop that fires an event has notified every rule for it that is not in its `todo` |
| `RepeatsAreRetries` | `Progress` (`got <= failed` for the rules in `todo`) and `Waiting` (the same for every event that nobody holds) |
| `BeatsTypeCorrect` | each statement yields a status and appends at most one event |
| `EventsAreFaithful`, `LoopsEventsAreFaithful` | `UpWasPinged`: a beat is up only because it was pinged, so its next silence is reported; without it a recovered beat could go late unheard and the next recovery would be announced twice |
| `ReportsAreOnTime` | `Accounted`: today's mail of a report is recorded, or is in `now` (mailed, not yet recorded), or is one of its slips, and a report in `due` has none of the first two; so the next mail is at most one more than the slips, and a listing that leaves a report out finds a record of the day, or was misled by the text of a day (`misread`) |
| `AlertsAreSilenced` | `MatchIsCover`: the code's two cases match the minutes of a window that began at most its length ago, by arithmetic modulo a `MinutesPerDay` that is any positive number; the one minute of a window whose end is its start lies within its day too |
| `EditsAlwaysStand` | `EditState`: a request that has read, and since whose read nobody has written, still knows the row; so what it writes back is what is there. The loop writes other columns |
| `MonitorChecksSpaced` | `LastIsLater`: `last_check_at`, once set, is not before the last check; so what is listed has waited for its interval (`Waited`), and a run has a monitor on its list once (`RunShape`), so that nothing it stores meanwhile changes that |
| `UptimeAsSpecified` | a step of `Uptime` is one of its part and leaves the variables of the others alone; so the safety theorems of all three hold there (`UptimeIsSafe`) |
| `QueueTypeCorrect` | `LastOfFacts`: `slice(-20)` of a queue with one payload more stays within the cap and drops only the first |
| `OneRowAlways` | `OwnIds`: every payload in the queue or under way, and every row, carries the id that was made with the view |
| `SentAtMostAlways` | `OneCopy`: a payload is in one place of one of queue and requests; `Counted`: wherever it is, its `_tries` is the number of attempts so far, less the one under way |
| `KeptOrGivenUpAlways` | `NoneLeft`: nothing that is queued or under way has been given up, so what a step gives up is gone for one reason; `AnswerStored`: a request is answered only after its row is stored |
| `ReportsSafe` | page: `Reported` (without an early route change the reports are the visits), `CountsSeen` (a depth counted in the visit under way is in `seen`, and `seen` is of its route); vitals: `Once` (what is in `sent` was said once, nothing else was; a timer runs only for what can be said), `Told`; `ReportFacts` says what `report` does to one metric and leaves of the others |
| `VisitsSplitAtTimeout` | `VisitInv`: an id in the store is that of the last report of any tab, an id in the memory of the tab that reported last is too, and no id is above `made`, so a new one is nobody's |
| `TrackerAsSpecified` | a step of `Browser` is one of the tracker's part or leaves its variables alone; so the five theorems above hold there as well (`TrackerIsSafe`) |
| `NoOldSessions` | `Compared`: a login that has compared the password did so with the one stored now, or a change has overtaken it; so the session it will insert is allowed |
| `LastAdminStays` | `CountedTwo`: a request that has counted and would take an admin away found two (`MoreThanOneIsTwo`), and none has written since, or `both` |
| `InviteNeverLost` | `Joined`: a request that has come to its DELETE, or has been answered, has written the membership; so neither the DELETE nor a page that goes on can come before it |
| `PublicDashboardHolds` | `PrivacyState`: a request that has read an enabled dashboard has read its token, so what it writes back is a pair that may stand; and while no two requests disturb each other (`PrivacyCalm`) what a request has read is still so, and page and row differ only between a write and the end of its handler |
| `StatsAreCurrent` | one invariant per section: the answer under way is to what is unfolded (`EventsState`); at most one fetch asks the present question, the others answer nobody (`CardsState`); a stream at work has no request under way, and a poll that was answered has the latest data (`PanelsState`) |
| `RowsAgreeHolds` | `ListState`, for nine sections at once: the list with the answers under way taken over (`After`: rows dropped, switched, added) is what is stored. So each request brings the rest of the way the change it began, in whatever order the answers come; `OneOfARow`: calm handlers have rows of their own; `Fresh`: a row to be added is nowhere yet; `AloneOK`: where a handler fetches the list again it is alone, and either its request has not been served or the fetch will bring everything |
| `NotificationsAgreeHolds` | `NotifyState`: rows are paired by their ids (`Paired`): a row on both sides is the same, turned around where a toggle has been answered; a stored row that is not shown is in the answer of the handler that adds it (`Listed`); a shown one that is not stored is about to be dropped or has lost its provider (`InDb`). `OneOfAnId`, `AppendedOnce`, `LogsAlone`: calm handlers have rows of their own, and one that touches the log is alone. `NotifyDb`: foreign keys hold and no id is used twice |

Each inductive invariant is a conjunction of named parts, and the proof that a
step preserves it has one step per action. `IngestFacts` has the lemmas used by
both ingestion modules. `PagesProofs` begins with what the shapes of `Page` do to
a request (`StartFacts` to `FinishFacts`, `StartStep` to `OpenStep`), that no step
opens another section (`SectionStays`), and which handlers a section has (`SettingsOps`,
`OtherOps` and the `...Sections` lemmas); the invariant of a section then
meets only its own handlers. Safety is proved of the specifications without fairness,
which the ones with it (`FairSpec`, `UptimeFairSpec`) imply.

**Model-checked only.** Liveness (fairness and ENABLED are outside the prover's reach):
`BatchIsStored`, `ShutdownReturns`, `AllStored`, `CatchesUp`,
`EveryEventLeaves`, `DueIsChecked`, `SilenceIsNoticed`, `RecoveryIsNoticed`,
`BusyEnds`. The four violations.

## 5. Not modelled

Rate limits and the other refusals of `CollectHandler` (a request that is
refused leaves no trace, and neither does a bot's, which is answered 200 and
dropped on purpose), the site cache's second key (IP hashing), the
timeouts of individual statements, partition creation within `flush`, what a
notification or a report says and to whom it is sent, edits of rules while an
event waits, the number of 1000 events per drain (a drain may end at any
point), and everything in section 1 that section 6 plans.

In the browser: texts, layout and validation of single inputs, the clipboard,
the export of a file, charts and tables, the theme and the notice of a new
version, the public pages (which render what one request returned); storage that is full or
switched off while the retry queue is used (the payload is dropped, as with a
full queue); `setupAutoEvents`' recognition of links. Two users who edit the same rows
at once are only in `Accounts`; elsewhere one user has up to two requests under
way. Expiry of sessions and invites, and cryptography.

SQL aggregation, formatting and calls to external services have no state of
their own and are not planned.

## 6. Plan

In the order of how much a mistake would cost and how little a test reaches it.

1. **`Alerting`** - instances of `SiteChecks`, `Heartbeats` and `AlertOutbox`
   sharing the events table, as `Pipeline` does for ingestion: from a change of
   status to a rule that has been told; with it the comment's "1h cooldown for
   misses" (`reliability.go:131`), of which the code has only the column
   `last_alert_at`, written and never read.
2. **`Tracker`** - `TrackerQueue` composed with `Pipeline` through `StoredOnce`,
   in place of the action `store`.
3. **`Cooldowns`** - threshold alerts with `last_sent_at` and the log that can be
   cleared, beside `ReportMails` in `Loops`.
4. **`RateLimiter`** - the token bucket in integer time against a count per window.
5. **`Partitions`**, **`Retention`**, two replacements of a **funnel** at READ
   COMMITTED.

Proofs next: the modules of this list, each with its invariant as it is written.
