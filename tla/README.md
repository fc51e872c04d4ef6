# servicedesk-lite: TLA+ verification project

servicedesk-lite accepts tickets over HTTP, stores each ticket together with an
event in one PostgreSQL transaction (transactional outbox), relays the events to
Kafka, and consumes them in a notification service. This directory models all
three services and the way an event takes through them: concurrent requests and
their transaction, the relays, the producer, one Kafka partition and the
consumers, with several copies of a service running, crashing and being
overtaken by one another.

Paths below are relative to the repository.

## Inventory

| Component | State | Operations | Interacts with |
|---|---|---|---|
| ticket-service (`cmd/ticket-service`, `internal/ticket`, `internal/shared/httpx`) | `tickets`; in-memory store without a database | `POST /tickets` (decode, `Validate`, `Store.Create`), `GET /tickets/{id}`, graceful shutdown | writes `tickets` and `outbox` in one transaction |
| outbox store (`internal/outbox/store.go`) | `outbox` rows: status, attempts, `processing_started_at`, `next_retry_at` | `ResetStuck`, `ClaimPending`, `MarkSent`, `MarkFailed`, `MarkDead`, `LagSeconds` | called by outbox-relay |
| outbox-relay (`cmd/outbox-relay/main.go`) | the claimed batch and the row in hand; nothing survives a `tick` | a ticker calls `tick`: reset, claim, then publish and mark row by row; `maybeDead`, `backoff` | outbox store, producer, DLQ producer |
| kafkax producer (`internal/shared/kafkax/producer.go`) | the current writer, time of the last reset | `Produce` (write, reset on suspicious errors, write again) | Kafka |
| Kafka (external) | the partition, the group's committed offset, the owner of the partition | append, assign, rebalance | producer, consumer |
| kafkax consumer (`internal/shared/kafkax/consumer.go`) | the current reader | `FetchMessage`, `CommitMessages`, `Reopen` | Kafka |
| notification-service (`cmd/notification-service/main.go`) | message in hand, `attempt`, `timeoutStreak` | fetch loop, in-process retry loop, `handleMessage`, dead path | consumer, processed_events store, DLQ producer |
| processed_events store (`internal/notify/store.go`) | one row per `event_id`: status, attempts, `processed_at` | `StartProcessing`, `MarkDone`, `MarkFailed`, `MarkDead` | called by notification-service |
| config, env, logger, db pool, metrics, request ids, access log | start-up values, counters | | |
| migrations, Helm, Terraform, Ansible, CI, scripts | | | decide how many copies of a service run |

What is hard here:

- **Overlap.** Helm runs one replica of each service with the default rolling
  update, so two overlap at every deployment, and `docs/90-capacity.md` recommends
  several relays. A relay whose lease expired, or a consumer whose partition was
  taken away, does not notice and goes on with unguarded `UPDATE ... WHERE id`.
- **Failure between two steps.** Publishing and marking, notifying and marking,
  marking and committing are separate steps on separate systems; every statement
  can also fail after it was applied.
- **Counting.** Attempts are counted by one statement and compared with the limit
  elsewhere, with the number that was read earlier.
- **Ambiguity.** A `COMMIT`, an answer to a client or a Kafka write may take
  effect although its sender was told of an error, and even later than that; the
  sender tries again.
- **Progress.** Retries, leases, reopening of idle readers and the attempt limit
  must between them make sure that every event ends somewhere.

What makes each component correct: ticket-service stores a ticket and its event
together or not at all and tells a client nothing that is not so; the producer
reports success only of what is in the topic; the outbox store and the relay lose no event
(a `sent` row is in Kafka, a `failed` one used all its attempts and was
dead-lettered, a claimed one is freed again) and bound the duplicates they make;
the consumer commits nothing it has not accounted for, deduplicates by
`event_id`, gives up only after the limit, and never stands still; and between
the services no event is lost.

## Modules

| Module | Contents |
|---|---|
| `TicketStore` | abstract: what ticket-service promises its clients |
| `TicketService` | requests and their handlers, both stores, the transaction, the process |
| `TicketServiceProofs` | its TLAPS proofs |
| `MCTicketService` | TLC instance: request bodies |
| `OutboxRelay` | the outbox table, the relays, the topic as a count of copies per event, the DLQ |
| `OutboxRelayProofs` | its TLAPS proofs |
| `OutboxRelayBoundProofs` | what faults and takeovers cost the relays: attempts and copies |
| `MCOutboxRelay` | TLC instance: model values, symmetry |
| `Publisher` | abstract: what a caller of `Produce` may rely on |
| `KafkaProducer` | `Produce`, its second write, the rate-limited reset, `Close` |
| `KafkaProducerProofs` | its TLAPS proofs |
| `NotificationService` | the partition and its consumer group, the consumers, `processed_events`, the DLQ |
| `NotificationServiceProofs` | its TLAPS proofs |
| `NotificationServiceBoundProofs` | what faults cost one consumer: repeats, attempts, verdicts |
| `MCNotificationService` | TLC instance |
| `Delivery` | abstract: what the services promise together |
| `Pipeline` | `OutboxRelay` and `NotificationService` joined by the partition |
| `PipelineProofs` | TLAPS proofs about the composition and its refinement of `Delivery` |

Definitions marked *Mutant* are wrong on purpose: each stands for a bug that its
property must detect, and no specification uses them.

### TicketService

A request is the *n*-th try of a client; each try has its own ticket, since the
handler generates the id. `pc` is the place of its handler, `tx` the tables its
open transaction has written to, `tickets` and `events` what is committed, `heard`
what the client has been told.

| Place | Step | Code |
|---|---|---|
| `unsent` | `CreateTicket` | method, decoding, `Validate`; rejected requests go to `reply` |
| `memory` | `MemoryCreate` | `InMemoryStore.Create`, one step because of its mutex |
| `begin` | `BeginTx` | waits for one of `DB_MAX_OPEN_CONNS` connections |
| `insertTicket`, `insertOutbox` | `InsertTicket`, `InsertOutbox`; `TxFails` | the two `INSERT`s; an error rolls back |
| `commit` | `Commit`, `CommitFails` | |
| `reply` | `Reply` | the answer reaches the client or is lost |

A failed `COMMIT` either was not carried out or is an *orphan*: it was sent, nobody
waits for its answer, and PostgreSQL may still apply it (`OrphanEnds`), also after
the handler has answered 500 or the process has died. A client that got an error
or nothing may send its request again, also while the first handler is still
running. When the client leaves, net/http cancels the request's context, and any
later call may fail; `database/sql` also rolls back a transaction whose context is
cancelled, which happens when a handler returns, so a connection is given back
even on a path without `Rollback`. `Sigterm` closes the listener and `Drained` ends
the process when no handler is running. `ShutdownTimesOut` is the end of the ten
seconds of `Shutdown` with handlers still at work, after which the deferred `Close`
takes the pool from them; it needs nothing but SIGTERM and a slow handler, so it is
no fault and has a count of its own (`timeouts`). `Killed` is a crash. The fields of a ticket are not told apart; a body is its method,
whether it decodes and the byte lengths `Validate` looks at.

`TicketStore` is what a client can observe: a ticket and its event appear in one
step, `created` is said only of what is stored, a GET of a ticket it was told of
answers from what is stored or fails, answers get lost, the memory is lost with
the process. The variables are those of `TicketService` with the same
names; everything between `BeginTx` and `Commit` is a stuttering step.

### OutboxRelay

`outbox[e]` is the row: `status`, `attempts`, `startedAgo` (the age of
`processing_started_at`, `Null` for NULL) and `wait` (what is left until
`next_retry_at`). Keeping ages instead of timestamps makes the state space
finite; time advances by half a second (`Tick`), the granularity of all the
durations in the relay. `last_error`, `sent_at`, `failed_at` and `updated_at` are
never read by the code and are left out. `MarkFailed` computes `next_retry_at` with
the relay's clock and the claim compares it with PostgreSQL's, so the wait is the
back-off give or take `MaxSkew` (`RetryWaits`).

Each relay has a place in `tick` (`pc`), the rows of its batch it has still to
process, and the row in hand with the attempt number `RETURNING` gave it.

| Place | Step | Code |
|---|---|---|
| `idle` | `ResetStuck` | ticker, `store.ResetStuck` |
| `claim` | `ClaimPending` | `store.ClaimPending`; an empty batch ends the tick |
| `loop` | `Publish` | next row, `Produce`; branches to `sent`, `retry`, `dlq`, `dead` |
| `sent` | `MarkSent` | |
| `retry` | `MarkFailed` | with `backoff` of the claimed attempt |
| `dlq`, `dead` | `PublishDlq`, `MarkDead` | `maybeDead` |

SQL statements are atomic, as PostgreSQL makes them; `FOR UPDATE SKIP LOCKED` only
keeps concurrent claims from waiting for each other. An error of a statement
may or may not hide that it was applied. `Produce` is one step: on success the
message is in the topic one to `MaxCopies` times, on an error zero to
`MaxCopies` times, which is what `Publisher` promises. (After an error
`Publisher` lets copies come late; here they are there at once, which differs only
in the order of the partition.) Publish errors are not counted as faults: Kafka may
be down for ever. Crashes and database errors are, and bounded by `MaxFaults`.
`CreateTicket` is the commit of `PostgresStore.Create`; it may happen in another
order than that of `created_at`.

### KafkaProducer

One producer and its calls, one after the other, as both services make them from
a single goroutine. `pc` is the place in `Produce`: the first write, `resetOnce`,
the second write. A write succeeds (`WriteOk`, not with stale metadata), ends with
an error that `shouldReset` recognises (`WriteBroken`; the message may be in the
topic all the same) or with its context (`WriteTimeout`; not a suspect, so
`Produce` returns). In the last case kafka-go keeps the message and may send it
later: it is `pending` until `Flush`. `resetOnce` skips the reset within
`ResetPause` of the last one; else closing the old writer waits until nothing is
pending. kafka.Writer and the broker are modelled from this use.

`Publisher` has only the results and the copies of each call. With `PerWrite` copies
per write a call makes at most `2 * PerWrite`; that is the `MaxCopies` of
`OutboxRelay`.

### NotificationService

One partition, since the code treats partitions independently. `log`,
`committed`, `owner` and `pos` model Kafka and kafka-go from how the code uses
them: a reader with a group id delivers consecutive offsets from where it
started, whether or not they are committed; a new owner starts at the committed
offset or else at the configured start offset; a member that lost the partition
may still process and commit the message in hand, and a commit may move the
offset back. Commits are synchronous (the reader has no `CommitInterval`).

A message is an envelope, told apart by its `event_id`, or a value that
`json.Unmarshal` rejects. `Rejected` are envelopes PostgreSQL refuses (the
`event_id` column is a UUID), `ForceFail` those `NOTIFY_FORCE_FAIL` matches.
`notified` counts the notifications, the effect for which the service exists.

`attempt` keeps its value over the retries of a message and is only assigned
when `StartProcessing` succeeds, as in the code. The 30 seconds between two
reopenings of an idle reader never delay one (a streak of twelve time-outs of
five seconds takes a minute), so `lastReopenAt` is left out. A SIGTERM cancels
the context of everything that follows, which is no different from a crash.
An idle member, one that does not own the partition included, reopens its reader
every minute for ever, and each time the group rebalances and the partition may
move: that is no fault and not bounded. Crashes, errors (of a fetch, a statement or a
commit), stalled readers and other rebalances are faults.

### Pipeline

The actions of `OutboxRelay` and `NotificationService`, instantiated, over one
partition and one budget of faults. The relays' `copies` is replaced by the number
of copies in `log`, and `Publish` appends to `log`; the consumers' own
`AppendMessage` is not used. Every message is therefore an envelope with a UUID:
no garbage, nothing rejected. The group starts at the first offset, since with
`last` delivery is not promised (`notify_start_last`).

`Delivery` keeps, for each of the two services, the tries of an event and whether it
has given the event up, and the events accepted and notified. The mapping takes an
event as accepted when its row is there, as tries of a service the attempts its
table counts, and as given up by a service when that service has tried to write a
dead letter (whether it got there is not promised, as both services drop that
error).

## Runs

`pass` runs find no error; `violation` runs show that something the
documentation says is not what the code does.

| Run | Instance | Shows |
|---|---|---|
| `ticket_service` | 2 clients, 2 tries each, 2 connections, both stores, 2 faults, 1 timed-out shutdown, fairness | a ticket is there exactly when its event is, 201 means stored, second tickets are paid by faults or timed-out shutdowns, every handler ends, `TicketStore` is implemented |
| `relay_takeover` | 3 relays, 1 row, 2 faults, up to 2 copies per publish | a status tells the truth (`SentMeansPublished`, `DeadMeansExhausted`, `DeadLettered`), claims are unique, duplicates are bounded by attempts, every row in processing has a lease |
| `relay_single` | 1 relay, 3 rows, batches of 2, 2 faults, no DLQ | a relay alone owns its rows, `sent` and `failed` are final, overruns of the limit are paid by faults |
| `relay_live` | 2 relays, 1 row, limit 3, 2 faults, fairness | every row is settled for good |
| `kafka_producer` | 3 calls, 2 copies per write, 2 moves of the broker, fairness | `Publisher` is implemented, every call returns |
| `notify_group` | 2 consumers, 3 messages (good, failing, garbage), 2 faults | at-least-once, `DoneMeansNotified`, `FailedMeansExhausted` |
| `notify_single` | 1 consumer, 3 messages, 3 faults, no DLQ, fairness | at-least-once, repeats, overruns and missing verdicts (`VerdictsPaidByFaults`) are paid by faults, every message is committed |
| `pipeline` | 1 event that `NOTIFY_FORCE_FAIL` matches, 1 relay, 2 consumers, 1 fault, fairness | a `sent` event is notified or still ahead of the committed offset; every event is notified, or its row stays `failed` (its dead letter was tried, which with Kafka down does not get written); `Delivery` is implemented |
| `relay_sent_final` | 2 relays, no fault | **violated**: an overtaken relay moves a `sent` row back to `pending` |
| `notify_empty_letter` | 1 consumer, no fault | **violated**: the dead letter of a value that is not JSON is empty |
| `notify_rejected` | 1 consumer, no fault, fairness | **violated**: an error of `StartProcessing` leaves `attempt` at 0, so the limit never ends the loop |
| `notify_start_last` | 1 consumer, start offset `last` | **violated**: reopening before the first commit skips a message |

`relay_sent_final` and `relay_single` check the same property: it is true of one
relay (and proved), and false of two. In the same way `RepeatsPaidByFaults` is
checked for one consumer only. With two it is false without any fault: an idle
member's reopening moves the partition while the owner is at work on a message,
`StartProcessing` starts the row that says `processing` once more, and both notify. A
member that lost the partition can also put a row that is done back to
`processing` with its `MarkFailed`. The skipping of duplicates that the documentation
describes therefore holds only while one consumer runs.

Three things the documentation says hold only while nothing fails: the limit on
attempts (a crash uses an attempt without looking at the limit), the skipping of
duplicates (a crash before `MarkDone` repeats a notification) and `failed` after
the last attempt (an error of `MarkDead` is dropped). This is what at-least-once
delivery costs, and the runs check its price: every exception has a fault of its
own (`OverrunPaidByFaults`, `RepeatsPaidByFaults`, `VerdictsPaidByFaults`), as long as one
consumer or relay runs.

Graceful shutdown has a limit too: SIGTERM cuts off a request that takes longer than
ten seconds, although `WriteTimeout` gives it fifteen and nothing limits its wait for
a connection, where `docs/40-docker.md:22` asks for active requests to be completed.
What it costs is part of `DuplicatesPaidByFaults`.

Seen and not a run, as no behaviour depends on it: `Validate` counts bytes and
wants at least three, while `api/openapi/ticket-service.yaml:227-231` allows titles
from 1 to 200 characters and descriptions of 5000 characters, so that long texts
in Cyrillic are refused at half the documented length.

**Bounds.** Three relays are enough for a relay to be overtaken by one that is
overtaken itself; three rows with a batch of two give full and partial batches.
A limit of two attempts has a first, a last and (after a fault) an excessive
attempt. The lease is one half second: only its order with the other events
matters. Two faults allow a failure during the recovery from another. Three
messages let an event be in the topic twice with another between, and two
consumers give a stale member. Two clients with two tries make up to four handlers
compete for two connections, with a retry overtaking its first try; a limit below
the number of handlers is what makes waiting happen. Three calls of `Produce` with
a pause of two ticks give a reset, a skipped one and one after the pause. The
pipeline has one event, as events meet only in batches and in the partition,
which the component runs cover; two attempts, of which one may report an error with
its message in the topic, and a lost `MarkSent` put several copies into the
partition, some behind the committed offset and some ahead. The event always fails,
so that the consumers' retries and their giving up are met. `MaxLog`, `MaxFaults`, `MaxTimeouts`, `MaxCopies`, `MaxTries`, `MaxCalls` and `MaxMoves` are
bounds of the model; `MaxSkew` and `PerWrite` describe the environment; all other
constants are settings of the program.

`kafka_producer` does not check for deadlock: when all its calls are made the
producer may be closed and nothing more happens.

**Fairness.** `RelayStep` is weakly fair: the ticker of a running relay keeps
firing and statements return. `Tick` is weakly fair: time passes. A consumer's
steps are weakly fair because its loop never blocks for ever (fetches and
publishes have time-outs), and the coordinator assigns a free partition.
`FetchMessage` is strongly fair: another member's reopening can take the partition
away before a message is fetched, but reopenings are at least a minute apart and a
fetch of a message that is there takes milliseconds, so this does not happen for
ever. A handler
of ticket-service goes on (`HandlerStep`); clients, signals and the restart of the
process are not assumed to happen. A write of the producer ends, at the latest
with its context, and kafka-go works off what is left in a writer (`Flush`). `Pipeline`
has the fairness of its components. Nothing is assumed of Kafka's availability to the relay: `EventuallySettled` rests on the
attempt limit. Faults are finite in number, so liveness is about what happens
once they stop.

## Proofs

TLAPS checks the proofs for every number of relays, rows, consumers, messages and
faults and every setting; the only assumptions are the named `ASSUME`s on the
constants and, where stated, that there is one relay (`OneRelay`), one consumer
(`OneConsumer`) or that `StartFirst` holds. Every invariant and every safety
refinement that a passing run checks is the statement of a theorem.

*TicketService.* The inductive invariant `IInv` ties the place of a handler to what
its transaction has written (`At`): both rows at `commit` and in every orphan, so
that whoever applies the transaction applies both (`OutboxMatchesTickets`). A ticket
is stored only by a handler's last step or by its orphan, never twice, and an
answer `created` is only in the hands of a handler whose ticket is stored
(`Truthful`). From `Spec => []IInv` follow `TypeOK`, `OutboxMatchesTickets` and
`CreatedIsStored`, and step by step the refinement `Spec => ImplementsTicketStore`:
`MemoryCreate`, `Commit` and a carried-out orphan are `Accept`, `Reply` and
`ClientLeaves` are `Tell`, `GetTicket` is `Get`, the end of the process is `End`, all else
stutters. For `DuplicatesPaidByFaults` a second invariant
(`AllPaid`) follows the tries of a client: the *n*-th is only sent after *n* - 1
faults or timed-out shutdowns, since a client repeats a request only when the last
try has failed, and that failure is one more. A client's tickets are then among its
first `faults + timeouts + 1` tries.

*KafkaProducer.* `IInv` counts the room for copies: none before the first write of a
call, those of one write before the second, and a message still in the writer is
one whose call ended with an error and has room for one more write. With it every
write is a `Deliver` or `Return` of `Publisher`: `Spec => ImplementsPublisher`.

*OutboxRelay.* The inductive invariant `IInv` adds to the properties what each
place in `tick` knows (`Control`): at `sent` the message was published, at `dlq`
and `dead` the claim has used up the attempts, at `dead` the DLQ was tried. These
facts are about the claim in hand and about things that only grow (copies, the
attempts of the row, the DLQ), and this is why an overtaken relay can do no harm
to what a status means. `ClaimsUnique` makes the claim's attempt number at most
that of the row. From `Spec => []IInv` follow `TypeOK`, `SentMeansPublished`,
`DeadMeansExhausted`, `DeadLettered`, `ClaimsUnique` and `LeaseIffProcessing`. For
one relay `SoleOwner` is inductive together with `IInv`, and with it every
`UPDATE` hits a row in `processing`: `SettledIsFinal`.

Two more invariants count. `BudgetInv`, for one relay: a row that is neither settled
nor in the relay's hands has an attempt left, by the limit or by a fault, since
only a crash or a database error lets go of a row with its last attempt used.
It gives `OverrunPaidByFaults`. `CopiesInv`, for any number of relays: the copies of
an event are at most `MaxCopies` for each *spent* attempt, that is, for each one
counted by the row and not waiting in some batch. A publish takes its claim out of
the batch and so spends one attempt; that claims are unique is what makes attempts
minus waiting claims a count of claims published or lost. It gives
`BoundedDuplication`.

*NotificationService.* `TablesGrow` and `LogGrows` state that steps only add:
attempts, notifications, `processed_at` and dead letters are never taken back, the
partition is append-only. So what a consumer knows about its message (`At`) stays
true while others work. `GroupInv` says that the committed offset, and the owner's
position but for the message in hand, have only accounted messages below them:
a fetch therefore hands over a message with all before it accounted for, and its
commit, however late, extends such a prefix. From `Spec => []IInv` follow
`TypeOK`, `DoneMeansNotified`, `FailedMeansExhausted` and, when the group starts at
the first message, `CommittedIsAccounted`. Without that assumption it is false
(`notify_start_last`).

With one consumer, `PaidInv` says what is still paid for: an event that may be
started again (its row is not final, or is about to be put back by `MarkFailed`)
was notified at most `faults` times, and one that is open with nobody at work on it
has an attempt left below the limit plus the faults. The attempt the consumer was
told is that of the row, which is where a second consumer would break it. It gives
`RepeatsPaidByFaults` and `OverrunPaidByFaults`. `VerdictInv` gives every event without a
verdict a fault of its own: the `Debt` are the events whose row is neither done nor
`failed` and that the group has passed, or whose attempts are used up with nobody
at work on them, and there are never more of them than faults. A step adds at most
one event to the debt, the one the consumer lets go of, and only when a statement
fails or the process dies; a passed event stays in the debt it has entered. It
gives `VerdictsPaidByFaults`.

*Pipeline.* The proofs of the components are used through instances of their proof
modules (`RP`, `CP`), whose assumptions on the constants follow from those of
`Pipeline`. A step of the whole is a step of one side (`Moves`). A step of the relays
only appends to the partition, which the invariant of the consumers survives
(`PartitionGrows`); a step of the consumers only adds to the faults, which that of
the relays survives (`FaultsElsewhere`). So both invariants hold of the composition,
together with `LogRelayed`: every message belongs to a row that was claimed. From
`Spec => []IInv`: a `sent` row has a copy in the partition, and what is below the
committed offset is accounted for, hence `SentIsDeliveredOrAhead`. The refinement
`Spec => ImplementsDelivery` goes step by step: `CreateTicket` is `Accept`,
`ClaimPending` is `Relay` of the claimed events, `StartProcessing` is `Notify` of the
message in hand unless its row is final or the statement was not applied, the two
`PublishDlq` are `RelayGivesUp` and `NotifyGivesUp`, with the attempts of the claim or
message in hand at the limit and counted in its row; all else stutters.

*Only model-checked:* the liveness properties (`EventuallySettled`,
`EventuallyCommitted`, `EveryHandlerEnds`, `EveryCallReturns`, `EventuallyDelivered`),
which are outside of what TLAPS can prove here, and the violations, which are
counterexamples of single instances.

## Not modelled

- Loss of an acknowledged message by Kafka (`RequireOne` allows it when the
  leader fails), several partitions, the order of events.
- The inside of kafka-go, `database/sql`, net/http and PostgreSQL, beyond what the
  code's use of them shows.
- The contents of tickets, events and dead letters, except that a value that is
  not JSON makes an empty letter.
- A port that is taken: `ListenAndServe` fails, the error is logged and the process
  stays up without serving.
- Metrics, logging, the HTTP router, request ids, configuration parsing and
  infrastructure: nothing that is modelled depends on them. The relay's
  documentation names `OUTBOX_PROCESSING_TIMEOUT`, the code reads
  `OUTBOX_RELAY_PROCESSING_TIMEOUT`; that is outside of what a model can show.

## Plan

All invariants and refinements that the passing runs check are proved. What is
left is to say more:

1. What several consumers cost: a bound on repeated notifications that holds with
   takeovers, where `RepeatsPaidByFaults` is only true of one consumer.
2. The bounds of the relays (`BoundedDuplication`) as a statement about the partition
   of `Pipeline`.
