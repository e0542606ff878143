# A verification of the notification pipeline

This directory holds TLA+ models of the notification system in this
repository (Go: `cmd/`, `internal/`, `migrations/`), the TLC configurations
that model-check them on small instances, and theorems about them, checked by
TLAPS for every value of the constants.

Paths below are relative to the repository's root.

| File | What it is |
|---|---|
| `Notification.tla` | statuses and the rule for what may be cancelled |
| `Faults.tla` | failing calls, dying processes, SIGTERM |
| `Repository.tla` | the table `notifications` and the statements on it |
| `MessageQueue.tla` | Kafka as the producer and the consumers use it |
| `NotificationService.tla` | `Create`, `CreateBatch`, `Cancel` (the API) |
| `Worker.tla` | the delivery and retry consumers |
| `Scheduler.tla` | the scheduler goroutine |
| `Pipeline.tla` | the seven above composed; the specification and its properties |
| `NotificationLife.tla` | abstract: what the service promises about one notification |
| `PipelineLife.tla` | the pipeline as an implementation of it, for every notification |
| `PipelineClients.tla` | what the clients of a batch may rely on |
| `RetrySchedule.tla` | when retries happen: delays, jitter, the `retry-after` header |
| `RateLimiter.tla` | how fast messages leave: the token buckets |
| `CreateRequest.tla` | a POST up to its INSERT: checks, template, error codes |
| `ListPaging.tla` | a client that pages through a listing that changes |
| `RestApi.tla` | both of these, as the handlers of one API |
| `WSHub.tla` | the WebSocket hub and its PostgreSQL listener |
| `ApiProcess.tla` | `cmd/api` from its start to the end of its shutdown |
| `MC*.tla`, `*.cfg` | the instances for TLC |
| `PipelineProofs.tla` | types, no silent loss, no false delivery, nothing given up early: proofs |
| `PipelineStepProofs.tla` | what a step does to one notification: promises to clients, the refinement |
| `PipelineCalmProofs.tla` | without a failure: copies, sends, and delivered stays delivered |
| `RetryScheduleProofs.tla`, `RateLimiterProofs.tla`, `RestApiProofs.tla`, `WSHubProofs.tla`, `ApiProcessProofs.tla` | proofs about these |
| `PROJECT.json` | which lines each definition models, runs, hazards, findings |

## 1. The system

A client posts a notification to the API. The API stores a row in PostgreSQL,
and publishes a copy to a Kafka topic, unless it is scheduled for later. A
worker replica fetches the copy, sends it to the provider's webhook, and
records the outcome in the row. A copy that was refused goes to a retry topic
with a delay, and after `MAX_RETRIES` attempts to a dead letter topic that
nobody reads. A scheduler in every worker replica publishes what has become
due. A trigger on the table notifies the API, which tells WebSocket clients.

### Components

**Domain** (`internal/core/domain`). A `Notification` with a status
(`pending`, `queued`, `processing`, `delivered`, `failed`, `cancelled`),
`RetryCount`, `ScheduledAt`, `IdempotencyKey`, `BatchID`. `IsCancellable` says
that only `pending` and `queued` may be cancelled; no other transition is
checked anywhere. `ResolveTemplate` substitutes `{{variables}}`. *Correct when*
the status never claims what did not happen, and final statuses are final.

**Service** (`internal/core/service/notification.go`). Stateless. `Create` is
INSERT, UPDATE to `queued`, publish, and an UPDATE back to `pending` when the
publish fails; `CreateBatch` inserts all in one transaction, then publishes
each and sets it `queued` afterwards; `Cancel` reads, checks and runs a
conditional UPDATE. *Correct when* what was answered agrees with where the
notification is, and a cancellation is honoured.

**PostgreSQL adapter** (`internal/adapters/postgres`, `migrations`). The only
durable state besides Kafka. `UpdateStatus` is unconditional; `Cancel` is
conditional; `GetDueScheduled` selects due pending rows without a lock; a
partial unique index enforces idempotency keys. *Correct when* one key has one
row and the counters agree with what happened.

**Kafka adapter** (`internal/adapters/kafka`). Nine topics
`notifications-<channel>-<priority>`, one retry topic, one dead letter topic.
`Consume` fetches, runs the handler, *logs* its error, and commits in every
case. `ConsumeWithDelay` waits first for the message's `retry-after` header.
*Correct when* no message is committed before somebody took care of it.

**Worker** (`internal/worker/worker.go`, `cmd/worker/main.go`). One goroutine
per topic and replica. `processNotification` waits for a token, sets
`processing`, sends, and sets `delivered`; `handleFailure` increments the
counters and publishes to the retry or the dead letter topic. `main` cancels
the context on SIGTERM and waits for none of its goroutines. *Correct when*
everything is attempted, nothing is given up early, and the number of sends is
bounded.

**Scheduler** (`internal/worker/scheduler.go`). In every replica, on every
tick: select, then publish and set `queued`, one by one. *Correct when* nothing
is early, nothing is forgotten, and replicas do not multiply deliveries beyond
a bound.

**Webhook client** (`internal/adapters/webhook`). One POST with a 10 s timeout:
accepted, refused, or accepted with the answer lost.

**REST handlers** (`internal/adapters/rest/handler.go`, `request.go`).
Stateless: parse, check, call the service, map errors to status codes; a
listing with filters and pages. *Correct when* a
request is stored as a whole or leaves nothing behind, an error blames the right
side, and a walk through the pages misses nothing that was there all along.

**WebSocket hub** (`websocket.go`). A map from notification to connections
under a read-write lock, one handler and one reader per connection, and one
listener per API process, fed by the trigger's `pg_notify`. *Correct when* a
connected client sees every change, in order, and no connection or map entry
outlives its client.

**API process** (`cmd/api/main.go`). Pool, producer, hub and server, put
together and torn down by `main` and its deferred calls. *Correct when* a
shutdown cuts off no request before its time and ends.

**Configuration and telemetry.** Environment variables; logs, counters, spans.

### How they interact, and what is hard

* The row, the message and the handler each hold a status or a retry count, and
  nothing keeps them together: API, worker and scheduler write the row in any
  order, and the message is a copy made earlier.
* Any call may fail, and a call that fails may have taken effect.
* A process may die between two calls. A worker is told to stop by cancelling
  the context every call uses, so a shutdown makes handlers fail half-way.
* Kafka redelivers what was not committed, also while the previous owner is
  still working on it.
* Every replica runs the same scheduler on the same rows.
* A schedule may become due between the INSERT and the check that follows it.

PROJECT.json lists each hazard at its line with the properties that watch it.

Outside the pipeline:

* The hub's listener looks a connection set up, releases the lock and takes it
  again, while handlers subscribe, unsubscribe and close.
* Deferred calls run last first, so what a deferred call waits for may need a
  later one.
* A delay is computed, jittered, formatted and parsed again by another process,
  which may be restarted while it waits.
* Several goroutines draw on one token bucket, and one message on two. A cancelled
  context fails all of them at once.
* A retry waits in its partition behind the delays of others.
* A page is two statements and a walk is many pages, while rows come and change.

## 2. How the modules correspond to the code

There are five independent specifications besides the pipeline:
`RetrySchedule`, `RateLimiter`, `RestApi` (with `CreateRequest` and
`ListPaging`), `WSHub` and `ApiProcess`. What they share with it is named in their headers; they are not composed with it because
none of the pipeline's properties depends on their state: delays, tokens,
pages, pushes and an API's shutdown only make a step of the pipeline happen
later, or end a request (`RequestDies`).

### State of the pipeline

| Variable | In the code |
|---|---|
| `rows` | the table; each row has status, retry_count, scheduled_at, idempotency_key, batch_id |
| `log[t]` | topic `t` and its consumer group's progress: a message is `ready`, `fetched` (a handler has it), `handled` (the handler returned, the commit failed) or `committed` |
| `dlq` | what was written to `notifications-dlq` |
| `create`, `reply` | the program counter of the request that makes a notification, and its answer |
| `cancel`, `cancelled` | a cancel request between its read and its UPDATE; those answered 204 |
| `consumer[w][t]` | the program counter of replica `w`'s goroutine for topic `t`, and the message it has |
| `due[w]`, `marking[w]` | the scheduler's list of copies, and the copy it has published but not yet marked |
| `stopping[w]`, `faults` | whether `w`'s context is cancelled; failures so far |
| `sent`, `fails`, `errored` | history: accepted by the provider, errors returned by the notifier, handler errors logged |

`Ids` are the notifications that requests may create. `scheduled_at` is
abstracted to what the code asks of it: NULL, after now, or not after now;
`TimePasses` moves the clock past one. Recipient, content, payload and
timestamps influence no step and are left out.

### Steps of the pipeline

Each call to PostgreSQL, Kafka or the provider is an atomic step, as each is
one statement, one write or one request; between two calls anything else may
happen. Each action names its function in PROJECT.json's `map`. The steps of
the handlers:

    Create       CreateInsert -> CreateQueue -> CreatePublish [-> CreateRollback]
    CreateBatch  CreateBatchInsert -> (BatchPublish -> BatchMark)* -> BatchReturn
    Cancel       CancelRead -> CancelUpdate
    consumer     Fetch [-> RetryAfter] -> RateLimit -> MarkProcessing -> Send
                   -> MarkDelivered -> Commit
                   -> Increment -> ScheduleRetry -> Commit
                   -> Increment -> MarkFailed -> DeadLetter -> Commit
    scheduler    SelectDue -> (PublishDue -> MarkQueued)*

The environment: `Restart` (a process ends and is replaced), `Rebalance` (a
group starts again from its committed offsets while members finish, too late,
what they had), `Sigterm`, `RequestDies`, `TimePasses`.

### The other specifications

**`NotificationLife`** has one notification: its place (`nowhere`, `stored`,
`underway`, `settled`, `withdrawn`), whether it is due, the client's answer,
and what has become of it. `PipelineLife` instantiates it for every
notification: `Life(id) == INSTANCE NotificationLife WITH place <- Place(id),
...`, where `Place` is computed from the row, the topics, the schedulers' copies
and the request's progress.

**`RetrySchedule`** has notifications between two attempts: in a partition of the
retry topic, held by a replica's retry consumer for its delay, or attempted. A
partition (`topic[p]`, what is not committed of it) is read in order by the replica
that owns it (`owner`), one message at a time (`reading`): a retry that is due
waits behind another's delay, also while another replica is idle. A replica that
ends leaves its message in its place, and its partitions go to any replica. Time is
in ticks, `Second` of them a second; `wait` is the time until `retry-after` and
`waited` the time since the failure. `ScheduleRetry` computes the delay with any
jitter in `[0, BaseRetryDelay)` and drops the fraction of a second, as
`time.RFC3339` does.

**`RateLimiter`** has, for one channel and every replica, the bucket that the
priorities' consumers share and the retry consumer's, each of
`RATE_LIMIT_PER_SEC` tokens. A retry takes two (`consumeRetry`, then
`processNotification`). `Wait` reserves the next token, so tokens fall in the order
of arrival (`WaitReturns`), and the goroutine sends at any time after its token
fell. A `Wait` fails (`WaitFails`) when the bucket can hold no token, or when SIGTERM
has cancelled the context, and then the message is committed unsent. The measurement
may start at any moment.

**`CreateRequest`** takes a POST through the handler's parsing, the service's
validation, the template and the INSERT, in the code's order, with the errors of
each. What is stored may be answered 500 all the same: the answer to the INSERT may
be lost, and the UPDATE and the publish that follow it (`NotificationService` has
them) may fail. Content is a sequence of tokens, of which some are placeholders.
`ResolveTemplate` is the code's loop over the variables in *any* order, since Go
ranges over a map; `Substitute` is the reference definition it is compared with.

**`ListPaging`** has rows with the `created_at` they got before they were
committed, which several may share, and whose status changes; a client that walks
through the pages, with or without a filter, until a page is not full or the total
is reached; and `List` with its COUNT and its SELECT as two steps. The SELECT leaves
rows of one `created_at` in any order, another one each time. `Offset` wraps around
at `MaxInt`. `left` says that a row left the status filter during the walk, and
`matching` how many rows the last SELECT found.

**`RestApi`** is the handlers of both: a behaviour is one POST or one walk.

**`WSHub`** has the database's queue of changes, the listener's program counter,
the map (`present`, `subscribers`), and each connection's handler. The set
Broadcast looked up is shared with the map, as in Go; `dropped` says that it
was taken out of the map in between.

**`ApiProcess`** has `main`'s progress, the pool's connections, the producer, the
listener, and requests as lists of calls to the database and to Kafka.

### Modelling decisions

* **A call that fails may have taken effect.** Every failing branch offers both
  outcomes. After SIGTERM every call of that worker fails, at no cost in
  `faults`; before it, each failure counts.
* **Offsets.** A commit moves a partition's offset, so it may also cover
  earlier messages whose own commit failed; `CommitMessage` covers any set of
  `handled` ones. It is not modelled that a stale commit moves an offset
  backwards: that only redelivers, as a rebalance does.
* **Order.** The writers balance over partitions by least bytes, whatever the
  key, so a consumer may fetch any ready message of its topic.
* **A fetch error** other than the context's ends the process
  (`cmd/worker/main.go`): `Restart`.
* **The scheduler** publishes the copies it read in any order; the code's order
  is that of `scheduled_at`, which the model does not have.
* **Rates and delays** take time but nothing else: in the pipeline `RateLimit`
  and `RetryAfter` are steps that happen in the end. The numbers are the subject
  of `RateLimiter` and `RetrySchedule`. A rate of 0, with which every `Wait`
  fails, is in `RateLimiter` only; that `Wait` fails on a cancelled context is in
  both.
* **Messages that do not unmarshal** are left out: only `json.Marshal` of a
  notification is ever written.
* **One cancel request per notification at a time**, and every notification is
  asked for once. Cancel requests that come one after the other are covered.
* The history variables are read by properties only.

## 3. What is checked

The pipeline's runs use `MCPipeline` with one channel and priority, so one main
topic besides the retry topic; topics differ only in which goroutine serves
them.

| Run | Instance | Question |
|---|---|---|
| `delivery` | 1 notification, 2 workers, 1 failure, `MAX_RETRIES` 2 | Does anything disappear without a logged error (`NoSilentLoss`), is anything given up too soon (`DeadLetterEarned`), does the status claim a delivery that did not happen (`DeliveredIsSent`)? Without failures: is there one delivery (`SendsBounded`) and does it stay the status (`DeliveredIsFinal`)? |
| `schedule` | 1 notification, any schedule, alone or as a batch, 1 cancel, 1 worker, 1 failure; fairness | Create, CreateBatch, Cancel, the scheduler and the clock interleave: is anything early (`NeverEarly`), is anything accepted and stranded (`AcceptedIsKept`, `AcceptedResolved`, `BatchResolved`), is a timely cancellation final (`EffectiveCancel`), is all of it a life of a notification (`ImplementsLife`)? |
| `schedulers` | 2 replicas, any schedule, 1 cancel, no failure | How many copies do two schedulers and the creating request publish (`CopiesBounded`)? |
| `requests` | 2 notifications, 1 key, 1 batch, 1 failure | One by one, with a shared key, or as a batch: does a 202 of Create mean the notification is in Kafka (`AcceptedIsKept`), and does each notification live its own life (`ImplementsLife`)? |
| `retry` | 2 notifications, 2 partitions, 2 replicas, 3 attempts, 1 restart; fairness | Is the backoff kept (`BackoffAlmostKept`), does it grow (`DelaysGrow`), and is every retry attempted, whatever it waits behind (`EveryRetryAttempted`)? |
| `rate` | 1 replica, 3 priorities, rates 0, 1 and 3, a SIGTERM | How many first attempts and retries can a replica send in any stretch of time (`AttemptsBounded`, `RetriesBounded`), and can one priority crowd out another (`NoOvertaking`)? |
| `rest` | every request of `MCRestApi`; 3 notifications, 3 filters, 2 ways to stop, pages of 2 and of the default | Is a request stored as a whole (`AllOrNothing`), within limits (`ContentWithinLimit`), with its template's meaning (`TemplateMeaning`), or rejected with the right code (`ClientErrorsAre4xx`)? Does a walk miss a row that was there all along (`NoneSkipped`), end too soon (`FullPages`), or get a wrong page (`WrongOnlyFarAway`)? |
| `hub` | 1 notification, 2 connections, 3 changes, 1 failure; fairness | Are changes pushed in order, completely and to open connections only, and is every connection and entry removed? |
| `api` | 3 requests, 2 pool connections, 1 failure; fairness | Does a SIGTERM cut off a request (`NotCutOff`), and does the process end (`ShutdownEnds`)? |
| `lost` | 1 failure | divergence 1 below |
| `cancelled_sent` | no failure | divergence 2 below |
| `delivered_queued` | no failure | divergence 3 below |

The properties are stated, with comments, in the modules. Some deserve a word.

* `CopiesBounded` allows `|Workers| + 1` copies of a scheduled notification:
  each replica's scheduler may have read it before another marked it `queued`,
  and the request that creates it publishes one more when `scheduled_at` passes
  between the INSERT and `IsScheduled()`. The run `schedulers` shows that
  the bound is kept, and it is exact: three copies with two workers do occur.
* `DeliveredIsFinal` excludes batches and scheduled notifications, because for
  them it does not hold even without failures (divergence 3).
* `EffectiveCancel` speaks of a notification with nothing on its way. A
  cancellation that comes after the publish is divergence 2.
* `ImplementsLife` is the refinement: `Init` and every step of the pipeline map,
  for every notification, to `Init` and a step (or a stutter) of
  `NotificationLife`.
* `NoneSkipped` names three exceptions, and the run has all of them: TLC finds a
  missed row as soon as any one is taken out. Rows of one `created_at` come in any
  order, and `ORDER BY created_at` has no second key; a row that leaves a status
  filter moves all later ones up a place; and a client that stops by `total` misses
  what was stored between the COUNT and the SELECT of its last page.
* `AllOrNothing` says nothing of a 500 except that what is stored is complete:
  such a request may be stored or not (`AcceptedIsKept` and `AcceptedResolved` say
  what becomes of it).
* `NoOvertaking` is a property of steps: while a consumer waits for a token, no
  other one sends twice.
* `ShutdownEnds` has the one way in which the process hangs as its alternative
  (`HeldByListener`, divergence 6). Without it TLC finds the hang.
* `TemplateMeaning` excepts values that contain a placeholder: with those the
  text depends on the order in which Go ranges over the map.

### Bounds

* `MaxFaults` bounds failing calls, deaths, SIGTERMs and rebalances together.
  Each can happen anywhere. Longer chains (a failed call and the crash before its
  consequence is seen) are covered by the proofs, which have no such bound:
  every invariant and action property of a run, and the refinement, is proved
  for all values of the constants (section 4).
* `MAX_RETRIES` 2 goes through one retry and then the dead letter; 1 where
  retries are not the question; 3 in `retry`, for two delays one after the other.
* One notification where the question is about its copies, its row and its
  handlers: notifications meet only in keys and batches, which `requests` has,
  and in the retry consumer, where `retry` has two.
* Two workers where members or schedulers compete; one of the two does what any
  further one could. Workers, keys and notifications are symmetric in every
  formula and their symmetry is used in the safety runs only.
* `ClientSchedules` and `ClientCancels` bound what clients ask for.
* `hub`: two connections, as Broadcast treats all others alike; three changes,
  so that one can be missed between two that are seen.
* `api`: three requests for two pool connections, so that one waits.
* `rate`: a rate of 1 is below the two tokens of a retry; `MaxTime` 4 periods
  are longer than the largest bucket needs to fill.
* `retry`: two partitions that one replica or two may own. `BaseRetryDelay` 2 has a jitter that is not zero and delays that
  double; two ticks to a second let the truncation bite. `Horizon`, where a wait
  is no longer counted, is longer than any delay that is chosen.
* `rest`: contents of up to three tokens against a limit that a resolved
  placeholder exceeds; batches of up to `MaxBatchSize + 1`. Three notifications and
  pages of two, so that a walk has a page after the one that shifts. `MaxInt` 127
  stands for 2^63 - 1: page 64 has the last offset that is in range with pages of two,
  and one that wraps to a negative number with pages of 20; that of page 129 wraps
  to 0.

Every counter is bounded by these: attempts by `MAX_RETRIES` and the number of
copies, copies by the failures. No state constraint is used.

Deadlock is checked in `retry`, whose clock always ticks. Elsewhere it is not:
when every request is answered and every message is committed, nothing is left
to do, and the system waits for clients.

### Fairness

`Pipeline!FairSpec` assumes weak fairness of every step of a request's handler,
every consumer and every scheduler, of the passing of time, and of the end of a
worker that was told to stop. The code justifies it: a goroutine that can go on
does, the handlers wait for nothing but calls that return, the tokens and the
delays are granted in the end, and `main` returns right after `cancel()`. No
fairness is assumed of clients, failures, SIGTERM or rebalances, nor of *which*
outcome a call has: the provider may refuse forever. `CancelUpdate` is not among
the fair steps since no property waits for it.

`RetrySchedule!FairSpec`: time passes, timers fire, handlers return, and the owner of
each partition goes on reading it.

`WSHub!FairSpec`: the listener goes on, weakly; a connection's handler strongly,
because what it waits for, the lock, is taken and released again and again by
the listener: Go's `RWMutex` lets a waiting writer in before new readers.

`ApiProcess!FairSpec`: `main`, the listener and a query that was started go on. A
handler may take forever, since the Kafka writer retries while no broker
answers; that is what Shutdown's timeout is for.

### What the code does and its documentation does not say

The first three have a run that finds the counterexample. For the others the
property of a passing run states what does hold, with the exception in it.

1. **`lost`.** README: manual offset commits give an "At-least-once delivery
   guarantee". `Consume` commits also when the handler failed. The run's way there:
   a worker has fetched a message and is about to take a token when SIGTERM cancels
   its context; `limiter.Wait` fails, the handler returns that error, and the commit,
   which kafka-go may still carry out, ends the message, which was never sent. Another
   way, which needs no SIGTERM: the provider refuses the message and its retry or its
   dead letter cannot be published. `NoSilentLoss` is the weaker promise the code
   does keep.
2. **`cancelled_sent`.** A queued notification can be cancelled, with a 204; its
   message is already in Kafka and the worker sends it without looking at the
   row, which it sets to `processing` and `delivered`.
3. **`delivered_queued`.** The scheduler publishes first and sets `queued`
   afterwards. A fast worker has delivered by then, the row says `queued` for good,
   and a delivered notification may be cancelled. The run's notification had its
   request answered before it became due. There are two more ways: `CreateBatch`
   works in the same order, and a request whose `scheduled_at` passes between its
   INSERT and its check sets `queued` after a scheduler has published.
4. **`BatchResolved`.** `CreateBatch` only logs a failed publish. The item is
   `pending` with no `scheduled_at`, which no scheduler looks for: accepted and
   never sent.
5. **`PushedWhileListening`.** The listener ends on its first error and nothing
   starts it again; from then on no client of that replica is pushed anything.
6. **`ShutdownEnds`.** `pool.Close` waits for the listener's connection,
   and the `cancel()` that would end the listener is deferred *before* it and so
   runs after it: after SIGTERM the API logs "server stopped" and hangs as long as
   its listener keeps the connection. It ends if the listener fails, at any time, or
   had no connection yet.
7. **`ContentWithinLimit`.** The length is checked before the template is
   resolved.
8. **`TemplateMeaning`.** A batch item's template is not resolved.
9. **`BackoffAlmostKept`.** `retry-after` has no fraction of a second: a retry
   may come up to a second early, and a base delay below a second is none.

Met while modelling and not the subject of a property: a client that repeats a
request answered 500 may get 409 for its own first attempt, since the INSERT may
have committed (`CreateInsert`'s third branch, then its second); `MAX_RETRIES`
counts the first attempt, so that there are `MAX_RETRIES - 1` retries; the
retries' own limiters, and those of each replica, add to "max messages per second
per channel"; a retry waits behind another channel's in the one retry topic,
which "per-channel isolation" does not suggest; a recipient or key of more than
255 characters is answered 500; the `scheduled_at` of a batch item is dropped, and it
is sent at once (README: "The `scheduled_at` field accepts RFC 3339 timestamps");
with `RATE_LIMIT_PER_SEC` 0 or less every `Wait` fails at once and every message is
committed unsent; a page so far away that its offset wraps to a small number is
answered with the rows of an earlier one.

## 4. What is proved

For all values of the constants: any notifications, topics, replicas, clients,
`MAX_RETRIES`, rates, and any number of failures and crashes.

| Module | Theorem |
|---|---|
| `PipelineProofs` | `TypeCorrect`: `[]TypeOK` |
| | `NothingLostSilently`: `[]NoSilentLoss` |
| | `DeliveredIsTrue`: `[]DeliveredIsSent` |
| | `GivenUpIsEarned`: `[]DeadLetterEarned` |
| `PipelineStepProofs` | `NothingIsEarly`: `[]NeverEarly` |
| | `AcceptedStaysKept`: `[]AcceptedIsKept` |
| | `CancelIsEffective`: `EffectiveCancel`, a property of steps |
| | `PipelineImplementsLife`: `ImplementsLife`, the refinement |
| `PipelineCalmProofs` | `FewCopies`: `[]CopiesBounded`; `FewSends`: `[]SendsBounded` |
| | `DeliveredStays`: `DeliveredIsFinal`, a property of steps |
| `RetryScheduleProofs` | `TypeCorrect`: `[]TypeOK` |
| | `BackoffIsAlmostKept`: `BackoffAlmostKept`; `DelaysGrowAlways`: `DelaysGrow`, properties of steps |
| `RateLimiterProofs` | `AttemptsStayBounded`, `RetriesStayBounded` |
| | `NobodyIsOvertaken`: `NoOvertaking`, a property of steps |
| `RestApiProofs` | `AllOrNothingStored`: `[]AllOrNothing` |
| | `ContentStaysWithinLimit`: `[]ContentWithinLimit` |
| | `ChecksAreAnswered4xx`: `[]ClientErrorsAre4xx` |
| | `TemplatesAreSubstituted`: `[]TemplateMeaning` |
| | `NoRowIsSkipped`: `[]NoneSkipped`; `ShortPagesAreLast`: `[]FullPages` |
| | `ListingWrongFarAway`: `[]WrongOnlyFarAway` |
| `WSHubProofs` | `UpdatesInOrder`: `[]InOrder`; `ClientsCatchUp`: `[]ViewCurrent` |
| | `NoWriteAfterClose`: `[]WritesToOpen`; `EntriesAreServed`: `[]NoEntryLeaks` |
| `ApiProcessProofs` | `RequestsAreServedOut`: `[]NotCutOff` |

The assumptions are the named `ASSUME`s of the modules, which TLC evaluates in
every run: every notification has a main topic, the retry topic is not one of
them, `NoKey` and `NoBatch` are not keys or batches, every connection has a
notification, the bounds are natural numbers, there are finitely many replicas,
and what clients ask for is of the right type: a posted request is a finite list
of items (one, unless it is a batch) with finite texts and finitely many
variables, and a page or a size is an integer or missing. A table has no more
rows than `MaxInt`.

**Types.** `TypeOK` is not inductive: a consumer's steps read
`log[t][consumer[w][t].slot]`. `TypeInv` adds `SlotsOK`: a consumer between its
fetch and its commit has a position that is in the log. This lasts because no
step shortens a log or changes a message's id or retry count (`Grows`, proved
of every step along with the types). There is one lemma per group of actions:
requests, consumers, schedulers, environment.

**No silent loss.** Only a commit ends a pending message, so at a commit
something else must account for the notification. `LossInv` says of each
consumer what its handler achieved: at `delivered`, the provider accepted; at
`ack`, the notification is resolved (accepted, dead-lettered, or reported), or
it is *carried*: a pending message for it has a **larger** retry count than the
one in hand. "Larger" is what makes the claim last. The carrier may itself be
handled and committed, by another consumer, but then that consumer's own claim
provides a still later carrier or a resolution; and because the order is
strict, the message a commit ends is never the one its claim rests on. With
"some other message" in place of "a later one", two copies of a notification
could each rely on the other, and the invariant would not be inductive.

The proof has three parts: steps that finish nothing and move no handler
(`UnmovedStep`: requests, schedulers, rebalances, time, SIGTERM), steps of one
handler (`ConsumerStepLoss`, with `QuietStep` for the steps after which nothing
is claimed and `AckStep` for those that resolved), and the commit
(`CommitCarries`, `CommitLoss`).

**Delivered.** `DeliveredIsSent` is inductive together with `LossInv`: every
step that writes a status other than `delivered` makes no new claim
(`NoNewClaim`), and `MarkDelivered` has `DeliveredSent`.

**One notification at a time.** `PipelineStepProofs` first proves what any step
of the whole pipeline can be, seen from one notification: one of fifteen
`Effect`s (its row inserted, its request answered, handed over to Kafka, marked
by a scheduler, cancelled, become due, or nothing at all). The only difficulty
is a batch, whose items share a handler that dies for all of them at once:
`BatchInv` says that the items of one batch are done together. The promises to
clients are then few lines each: `PromiseInv` says what each answer, each place
and each copy a scheduler has means for the row and the topics, and each
`Effect` preserves it.

**Given up.** `DeadLetterEarned` compares a row or a dead letter with the failed
attempts, which no variable of the code counts. `CountInv` follows the count
through its three copies. A message's and a scheduler's copy never exceed the
failures; a handler that has just failed is one ahead of its message and still
not ahead of the failures; and the row's counter *plus the handlers that are
about to add to it* does not exceed them. The last sum is over a finite set of
consumers that changes by one with a failure and back by one with the
increment: two replicas that handle copies of one notification, and
redeliveries of either, increment the same row.

**Without a failure.** `CopiesBounded`, `SendsBounded` and `DeliveredIsFinal`
speak of behaviours in which nothing has failed yet (`faults = 0`), so their
invariant `CalmInv` is carried only as far as that lasts. Its first half counts
where a copy of a notification is or can still come from (`CopyInv`): the
messages in its topic (`Slots`), the replicas whose scheduler has read the row
or could still select it (`Open`), and the request, until it has published
(`Turn`). The sum never exceeds the number of replicas and one, and for a
notification that is not scheduled messages and request are one: each step that
adds a message takes a replica or the request away, and a row that was set to
`queued` is selected by nobody any more. Its second half charges each attempt to
a copy: the messages whose handling is undecided form at most one *chain* per
copy, because a retry is published in the place of the message it comes from,
and each chain has `MAX_RETRIES` attempts less those it used. `DeliveredIsFinal`
follows: of a notification that is not scheduled there is one copy, a delivery
ends its only chain, and `Effect` says that nothing else writes the row.

**Refinement.** `Life(id)!Init` follows from `Init`, and each step is, for each
notification, a step of `NotificationLife` or a stutter (`LifeStep`): by
`Effect`, what became of the request and the row; by `StepOutcome`, what the
handlers added to the outcome; by `PlacesNext`, where the notification is
afterwards. `Known` collects the invariants that rule out the other
combinations. `LossInv` is among them: a notification may be settled only with
a known outcome.

**Rates.** Neither bound is inductive, since a message that is sent had its token
taken before, maybe before the measurement began. The invariant counts the
tokens where they are: spent, in a consumer's hands, or in the bucket.
`NoOvertaking` rests on the order of the line: whoever has sent while `p` waits, and
waits or holds a token again, must have come after `p`, so that its second token
cannot fall before `p`'s.

**Retries.** What a retry has waited and has still to wait add up to its backoff
but for the fraction of a second that `retry-after` drops (`WaitInv`), wherever
it is and whoever holds it: a restart loses the timer and not the header. The
last delay is shorter than the next backoff (`DelayInv`), as a backoff doubles
and the jitter stays below the base delay. That it doubles takes no induction: a
power of two is the number of subsets of a finite set, and one more element
doubles those.

**Requests.** `Answered` says, for each answer, what the checks found and what is
stored, and of anything stored that it is all of the request. The first error of a list is the one at the least wrong position, and
a set of natural numbers has a least one because finite sets are well-founded
under inclusion: of the intervals `0 .. k` one has no other inside it.

**Templates.** `TemplateMeaning` compares a loop of `ReplaceAll`s with one
simultaneous substitution. `ReplaceEvery` distributes over concatenation, so a
round changes each piece of the text by itself: a token that is the round's
placeholder becomes its value, any other stays, and a value put in by an earlier
round stays too, because it contains no placeholder (`OneMoreVariable`). After `k`
rounds the text is the substitution of the first `k` variables, and after all of
them nothing depends on their order. Functions defined by recursion (in
`FlattenSeq` and `ResolveTemplate`) are first shown to have a solution; the
inductions are over sets of numbers (`Induction`).

**Pages.** `OffsetIs` computes the wrapped product, which is the product up to
`MaxInt`; a table has no more rows than that, so that a client that comes from the
first page never walks beyond. `ShortPagesAreLast` holds since the listing can only
grow between the COUNT and the SELECT while no row leaves its filter. For
`NoRowIsSkipped`, a row's place is the number of newer rows in the listing (`Newer`),
if no other row has its `created_at`. This number never falls: rows that arrive push
the others to later pages, where the client still goes. The invariant says that
whatever the client expects and has not seen has at least `(page - 1) * size` newer
rows (`Behind`), and that a row the last page left out is beyond that page and
counted in `matching` (`Missed`).

**Hub.** The invariant has four parts. `QueueInv`: what the listener has still
to read of a notification is in order, without a gap, up to its last change, and
follows the change in hand. `HubInv`: the map holds exactly the connections that
are served and not closed. `DropInv`: whoever subscribed after the looked-up set
was dropped from the map came after the change in hand, so that it misses
nothing. `ViewInv`: a connection that was written something is to be written
every later change (`Following`), one that was not, everything it was promised
(`Expecting`). The number a write appends is then the next one (`NextNumber`).

**Shutdown.** Until Shutdown returns everything is open; once it returned in
time, no request is active, and none is accepted any more.

*Only model-checked*: liveness, since properties under fairness are outside the
prover's reach: `AcceptedResolved`, `BatchResolved`, `EveryRetryAttempted`,
`PushedWhileListening`, `GoneIsClosed` and `ShutdownEnds`. The
counterexamples of divergences 1 to 3 are TLC's.

## 5. What is not modelled

* **Configuration and telemetry**: reading environment variables; logs, spans and
  counters, which influence nothing.
* **Middleware and response helpers** of the REST layer: correlation ids, request
  logging, recovery from panics, the JSON of answers. They keep no state.
* **Reads that are one SELECT**: `GET` of a notification or a batch, and the
  health check. They change nothing, and no promise relates their answer to a
  later state.
* **Ports and mocks**: interfaces, and code that only tests use.
* **The text** of notifications and the provider's payload, except the tokens of
  `CreateRequest`.
* **A write to a WebSocket that blocks.** The hub sets no write deadline, so a client
  that stops reading can hold the lock once its socket's buffer is full; `WSHub`
  assumes that the few updates of one notification fit.
* **Clocks** of the replicas and of the database are one clock.
* Duplicates that kafka-go's writer makes when it repeats a write whose
  acknowledgement was lost. They are a redelivery of the same message, as after
  a rebalance, except that a write of two copies is reported as a success.
* Messages that cannot be unmarshalled, and offsets that move backwards (above).

## 6. Plan

What is left, in the order of its importance.

1. **`KafkaTopic`**: partitions with offsets, members and generations, shown to
   implement the message states of `MessageQueue`.
2. **Liveness with two failures** (`schedule`, `retry`), where the runs have one.
3. **A lemma for each liveness property**: the invariant that names, in every state
   in which something is still owed, a step that can bring it nearer. The invariants
   of section 4 are most of it; that the step is enabled stays with TLC.
