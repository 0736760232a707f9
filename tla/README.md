# Formal verification of OpenPayNet

TLA+ specifications of the services under `services/`, model-checked with TLC.
Every invariant and action property the runs check is also proved with TLAPS;
liveness is model-checked only.  Paths below are relative to the repository
(`src/...` in `PROJECT.json`).

## 1. The system

```
issuer -> auth-service -> token -> client
client -> api-gateway -> [payment-initiated] -> payment-service
       -> [payment-processed] -> fraud-service -> [fraud-evaluated]
       -> ledger-service (Postgres), notification-service (Redis),
          audit-service (Elasticsearch)
every consumer -> [<its own>-dlq] for what failed MAX_PROCESSING_RETRIES times
```

Topics are keyed by `txn_id`, so the events of one transaction share a
partition (3 partitions in `infra/kubernetes/platform.yaml`, 1 in Compose).
Every deployment has 2 replicas (`infra/kubernetes/apps.yaml`).

| Component | State it keeps | Operations | What makes it correct |
|---|---|---|---|
| api-gateway (`routes/payments.py`, `core/*`) | per process: circuit breaker, Kafka producer; in Redis, shared: rate-limit counters, idempotency cache | `POST /v1/payments` | an accepted payment is queued; the limiter holds under concurrency; the breaker follows the failures; shared producers are neither leaked nor closed without cause; every call is answered |
| payment-service (`consumer.py`) | committed offsets of its group; nothing else survives it | consume: decide, publish, commit, retry, dead-letter | no payment lost, none ahead of its partition, duplicates and dead letters only for failures, progress |
| fraud-service (`rules_engine.py`) | in Redis, shared: velocity counter, last location, processed mark | check the mark, evaluate, publish, mark, commit, retry, dead-letter | no evaluation lost; the mark can be trusted; replays suppressed; one verdict per transaction |
| ledger-service (`consumer.py`, `db.py`, `main.py`) | Postgres: `transactions`, `p2p_contacts` | consume: look up, upsert the contact, insert; `DELETE` of a contact | append-only rows, contacts consistent with rows, deletions effective, progress |
| notification-service (`notifier.py`) | Redis: sent mark, stored notification | consume: route, mark, store | dispatched at most once, lost only by a failure |
| audit-service (`elastic_logger.py`) | Elasticsearch documents by `txn_id` | consume: index | nothing escapes; the last verdict is the one indexed |
| auth-service (`main.py`), `api-gateway/app/core/{auth,config}.py`, `shared/config.py` | the settings each process read when it started; the tokens in the hands of clients | issue a token, validate a key, admit a caller; restart | a withdrawn permission ends; the two readers of one configuration agree; a permitted client gets in whatever the order of a rotation |
| start of the five consumers (readiness loops, `get_producer`, `startup`/`shutdown`, `lifespan`) | per process: step, attempts, producer | wait for the store and Kafka, start, leave, restart | an outage at any point is survived, or ends a hosted task visibly in the model |
| `scripts/ledger_backup.sh` | dump files, the ledger database | backup, restore | what a restore takes from the ledger is what the dump did not have |
| release, staging and deployment scripts; manifests; tests | none at run time | | not modelled; manifests give the bounds, tests and docs the claims of the violation runs |

**Interaction.**  Services interact only through topics; the replicas of one
service interact through its consumer group and its store.  The calls inside
one gateway process interact through globals (`producer`,
`payment_publish_breaker`) whenever one of them awaits.  auth-service and the
gateway never call each other: they meet in a configuration that each replica
reads when it starts, and in the tokens.  The backup script works on the ledger
database next to the live service.

**What is hard.**  A publish or commit that raises may have happened; a
rebalance leaves a replica working on a message another replica gets again;
every `await` is a point where another replica or coroutine reads or writes the
same Redis key, row or global; retries repeat side effects; an exception in the
`except` block of `consume()` ends a process (payment, fraud, audit) or only a
background task of a live one (ledger, notification); readiness is confirmed once
and dependencies go away later; secrets and policies change replica by replica;
a restore is several statements and older than the committed offsets.
`PROJECT.json` lists each
hazard at its line.

## 2. Modules

| Module | Models | Composes |
|---|---|---|
| `ConsumerLoop` | the `consume()` loop the five consumers share, the consumer group, crashes and restarts | extended by each service |
| `AtLeastOnce` | abstract: what a consumer promises its topic | `INSTANCE`d by the services as `Promise` |
| `Payments` | the payment requests, `process_transaction`, the events | |
| `PaymentService` | `services/payment-service/app/consumer.py` | `ConsumerLoop`, `Payments` |
| `FraudService` | `services/fraud-service/app/rules_engine.py` | `ConsumerLoop`, `Payments` |
| `LedgerService` | `services/ledger-service/app/{consumer,db,main}.py` | `ConsumerLoop` |
| `NotificationService` | `services/notification-service/app/notifier.py` | `ConsumerLoop` |
| `AuditService` | `services/audit-service/app/elastic_logger.py` | `ConsumerLoop` |
| `Gateway` | `services/api-gateway/app/routes/payments.py` and `core/` | |
| `PaymentFlow` | the stages from `payment-initiated` to ledger and audit index, and `scripts/ledger_backup.sh` | `Payments`; each stage as `AtLeastOnce` shows it |
| `Startup` | how the five consumers start and leave: readiness loops, `get_producer`, `startup`, `shutdown`, `lifespan` | |
| `Access` | `services/auth-service/app/main.py`, `services/api-gateway/app/core/{auth,config}.py`, `shared/config.py` | |
| `MC*` | constants, symmetry sets for TLC | the module they are named after |
| `ConsumerLoopProofs` | lemmas about the loop, used by the proofs of every consumer | `ConsumerLoop` |
| `PaymentServiceProofs`, `FraudServiceProofs`, `LedgerServiceProofs`, `NotificationServiceProofs`, `AuditServiceProofs` | lemmas and theorems | the service they are named after, `ConsumerLoopProofs` |
| `GatewayProofs` | lemmas and theorems about the two modules of `POST /v1/payments` | `Access`, `Gateway` |
| `PaymentFlowProofs` | lemmas and theorems about the consuming processes and the flow through them | `Startup`, `PaymentFlow` |

`Access` and `Startup` prefix the names they would share with `Gateway` and
`PaymentFlow` (`AccessInit`, `StartupInit`, ...), since a proof module extends both.
The gateway's type invariant is `GatewayTypeOK`, since two of its hazards rest on it.

**ConsumerLoop.**  A worker is one replica.  `pc[w]` is the statement of the
body it executes next; `part`/`offset` the message in its hands; `attempts` the
local of the same name.  `owner` is the assignment; `committed[p]` the group's
offset.  `leased[w]` says that the message was fetched under the present
assignment: `consumer.commit()` without arguments commits the positions of the
present assignment, so a message from an earlier one is not covered by it.
`Begin` is `async for msg in consumer`, `RetryOrGiveUp` the `except` clause,
`CommitAt`, `CommitRaisesAt` and `CommitKillsAt` a `commit()` that answers,
raises inside the `try`, or raises outside it.  `"down"` is a dead process that
the platform restarts; `"halted"` a live process whose consumer task has ended.
Kafka itself, Redis key expiry, and the SQLAlchemy flush are external and
modelled from how the services use them.

**Services.**  Each broker, Redis, SQL or Elasticsearch call of a body is one
action, since other replicas run while it is awaited.  Each has a failing
variant in which the effect of the call may or may not have happened (a
timeout, a lost answer).  What happens between two awaits is one step.

**Data.**  A request or event is a record of the fields some rule reads;
`card_pan`, trace ids, headers and wording are left out.  Distances are the
relation `FarApart`; a bad IP address is a Boolean; personal data of a contact
is one value.  In the ledger an object loaded by a session remembers what it
read, because the flush writes only the columns that changed since.

**Gateway.**  A call is a coroutine.  A Kafka producer is named after the call
that made it, so that "the global" (`producer[g]`), "the one this call sends
with" (`prod[c]`) and the state of each (`health`) can differ, as they do in
`core/kafka_producer.py`.  Time is two actions: the window of a counter ends,
the open breaker becomes half open.  `late` holds records whose sender has given
up and which the broker may still append.

**PaymentFlow.**  A stage has no replicas here: it is what its promise, checked in
its own run, lets it be (`StagesKeepPromises` instantiates that promise for each
stage, with what it has handed on read from the next topic or from its store).  `done[s]` is what its group has passed, `next[s]` what
has become of the message after that (`new`, `published`, `settled`);
`Reached(s)` are the messages a replica can have in its hands, those already
passed included, because a replica that lost its partition finishes its work.
The first handling of a message costs nothing, any other is one of `MaxFaults`.
A fault is thus what the flow sees of a failure: one redelivery, one lost mark, one
dead letter, and so on.  It is not a failure as the services count them, of which one
can lead to two redeliveries (`ReplaysSuppressed` allows two verdicts for each).
`consumer` is all that is kept of the processes of the ledger: the consumers of
the group run, or have all ended inside processes that live, or are down
with their processes (`ConsumerEnds`, `LedgerCrash`, `LedgerStarts`); only a database
that exists lets them start, and `init_db` then creates the missing tables.
The state behind the stages is real: the processed mark, the rows, the documents.
`Terminate` to `LoadRows` are the statements of the restore in their order,
`ScriptFails` an interruption between two of them; `rows[t]` may hold two rows
after a restore, since the dump recreates the unique constraint last.

**Startup.**  One process, of any of the five services.  A call raises exactly
when its dependency is down, outages begin and end at any time.  `Leave` is an
exception out of `consume()`: the end of the process for payment, fraud and
audit, the end of the task for ledger and notification.  `producer` tells
"assigned" from "started", as the global of `get_producer` does not.
`ProcessMessage`, `Publish`, `MarkProcessed`, `CommitOffset` and `PublishDlq` are the
awaited calls of the body; the effects of those calls are in the service's own module.

**Access.**  `conf` is what the operator has written, `loaded[r]` what replica `r`
read when it last started.  `IssueToken` is the token endpoint, `Admitted` is
`require_auth` with the scope and role checks of `POST /v1/payments`.  `allowed`
remembers until when some auth-service would have issued a token.

## 3. Runs

`DEADLOCK` checking is off everywhere: when the bounded input is consumed (or
all calls are answered) the system rightly rests.

| Run | Asks | Bounds |
|---|---|---|
| `payment_service` | loss, overtaking, duplicates, dead letters, the inductive invariant, refinement of `AtLeastOnce` with liveness | 2 replicas, 2 partitions (both requests in one, the other reassigned next to it), 2 messages, 2 attempts, 3 failures |
| `fraud_replays` | trust in the mark, duplicates, decline per delivery | 2 replicas, 1 partition, 3 requests of one user from two places, 2 messages, 2 attempts, 2 failures |
| `fraud_promise` | velocity overshoot, counters without an end, refinement with liveness | 2 replicas, 1 transaction delivered twice, limit 1, 1 attempt, 2 failures: the shortest way through every failing handler |
| `ledger_service` | final rows, contacts against rows, steps of the promise, progress unless all tasks ended | 2 replicas, one contact under two names, one transaction with two verdicts, 1 deletion at a time, 2 messages, 2 attempts, 3 failures |
| `notification_service` | losses, at most one dispatch, progress unless all tasks ended | 2 replicas, one transaction with two verdicts, one that needs no notification, 2 attempts, 3 failures |
| `audit_service` | stale documents, refinement with liveness | 2 replicas, one transaction with two verdicts and another, 3 messages, 2 attempts, 3 failures |
| `gateway_service` | accepted is queued, replays hit the cache, rate limit, damage (counters without an end and refusals only by failures, a leaked producer only by a failed call of its own), breaker, every call is answered | 3 calls of one user, a valid and a malformed payment, 1 process, limit 2, threshold 2, 2 failures |
| `payment_flow` | nothing vanishes, each stage keeps the promise of its service, how far ledger and audit index can differ, every payment settles, also next to a restore that never ends, unless the ledger is stopped for good | one payment submitted twice, 2 of redeliveries, dead letters, expired marks, ended or crashed ledger consumers, interruptions and restores, in any mix |
| `startup` | producers that never started, every message is passed at last | each service, 3 attempts of each loop, 3 messages, 5 outages, crashes or deployments: enough to use up every loop twice |
| `access` | withdrawn permissions end, both readers agree, permitted clients get in | 2 replicas of each service, 6 configurations, 2 changes, 3 instants, a token lives for 1 |

The types of every module are checked too (`IInv`, `StartupInv`, `AccessInv` and
`FlowInv` contain the type invariant).  That the committed offsets of the fraud, ledger
and audit services are settled is part of their promise, which allows the
commit of nothing else (`PassedIsSettled` in `AtLeastOnce`, a theorem of each).

**Why the bounds are enough.**  Two replicas are what is deployed and make every
race of two (a reassignment makes both work on one partition, and two payments
of one user meet there); two failures give a failure inside the handling of
another one, and a third is used where the path "retries used up, and the dead
letter fails too" is longer.  With two messages in a partition a worker can be
behind, at, or ahead of its neighbour; a replayed message appears twice.  The code has no
counter that wraps, and its limits (5 per minute, 10 per minute, 3 retries,
threshold 3) only enter through comparisons, so the runs use 1 to 3 of them.
`MaxLog`, `MaxFaults` bound the environment, never the program.  Workers are
interchangeable, hence the symmetry set of `fraud_replays`; runs with
liveness do not use one.  In `payment_flow` one transaction is enough, since no
rule relates two of them behind the fraud stage, and two submissions of it give
everything a partition can do to its order.  In `access` two changes are what a
rotation and its reversal, or a withdrawal during a rotation, need.

**Violation runs** refute a statement of a document, comment or test
(`PROJECT.json`, `findings`, quotes each):

| Run | What happens |
|---|---|
| `fraud_flag` | a flagged payment whose publish is retried is published as `skipped` |
| `ledger_erasure` | a deleted contact gets its personal data back and stays stamped as deleted |

**Further behaviour** that the modules contain and no property forbids, because
no document says exactly what is owed then, or because a run shows it only as
the excuse of a property:

- After a crash between publish and mark, two verdicts on one transaction can
  disagree (`fraud_replays`); the ledger then keeps the first, the audit index
  the last (`payment_flow`).
- Two replicas can both insert one contact (`ledger_service`); a deletion scrubs
  one of the two rows.
- A payment answered 503 or 504 may be processed; overlapping calls with one
  idempotency key both publish (`gateway_service`).
- `produce_event` (`kafka_producer.py:44`) asks the breaker before its
  `try`, so the `except CircuitBreakerOpenError` around the send never runs, and
  the counter that `observability.py:26` describes stays at 0.
- A notification whose store raises after the mark was set is lost
  (`notifier.py:160`); `LossesCostFailures` bounds how many.
- When the exception of a hosted consumer leaves `consume()`, ledger and
  notification answer `/health` and consume nothing (`startup`, and the excuse
  of `SettledOrHalted`, `Drained` and `EveryPaymentSettles`).
- A ledger replica that goes down during a restore that never ends cannot come back,
  since `startup()` needs the database (`payment_flow`).
- A transaction recorded while a restore runs can be in the ledger twice
  (`payment_flow`).
- A subject whose entry in `SUBJECT_POLICIES` is withdrawn falls back to the
  entry `*`; emptying the list of credentials revives the keys in the old format
  (`access`).

## 4. Fairness

`Spec` of each consumer assumes three things, and never that a failure happens:
a live worker keeps executing (`WF` of the steps that do not fail: the event
loop runs, and an awaited call returns or raises); a dead process is restarted
(Kubernetes Deployments restart their containers; the Compose file does not, and
its users are not covered); the group notices an absent
member (session timeout).  The code gives a timeout to its publishes, to the ledger's
transaction, to the audit service's `es.index`, and to nothing else: that the Redis
calls, `commit()`, and `start()` and `stop()` of a consumer or producer return or raise
at last is assumed of the client libraries.

`PaymentFlow` assumes that a stage with a consumer goes on with its next message, and
that a dead process of the ledger is started again, which needs a database
(`startup()` awaits `init_db()`).  For payment, fraud and audit the first is the
liveness of the promise, checked in `payment_service`, `fraud_promise` and
`audit_service`.  For the ledger it is what `SettledOrHalted` of `ledger_service`
leaves: the ledger's consumer can end inside a live process (`ConsumerEnds`), or be
down without a database to start with.  Nobody owes a restore, the end of one that was
begun, or the restart of a process whose consumer task alone has ended, because its
`/health` keeps answering.  `EveryPaymentSettles` therefore excuses a ledger that is
`Stopped` for good (`[]Stopped`); one that comes back, by whatever restart, has to
catch up, and one that runs next to an absent database has to dead-letter.

`Startup` assumes that the process runs, that one that ended is
started again, and that outages end.  `Access` assumes that a refused client asks
again and that the operator rolls every replica after a change.  No fairness
is assumed for arrivals or failures.  Liveness holds for finitely many failures
(`MaxFaults`); under failures without end the code promises nothing.  The
gateway's `Spec` assumes that a coroutine whose await is over is run, and that
`producer.stop()`, which has no timeout either, returns or raises.

## 5. Proofs

All theorems hold for any sets of replicas, calls, clients, configurations,
partitions, messages and transactions, any limits, any number of retries, and any
bound on failures.

| Module | Invariants proved (`SafeSpec => []...`) | Action properties, refinement |
|---|---|---|
| `PaymentServiceProofs` | `IInv`, `TypeOK`, `CommittedIsSettled`, `NoOvertaking`, `DeadLetterAfterRetries`, `DuplicatesBounded` | `Promise!SafeSpec` |
| `FraudServiceProofs` | `TypeOK`, `MarkedIsPublished`, `VelocityBounded`, `UntimedCostsFailures`, `ReplaysSuppressed`, `Promise!PassedIsSettled` | `DeclineSticks`, `Promise!SafeSpec` |
| `LedgerServiceProofs` | `TypeOK`, `ContactsMatchRows`, `Promise!PassedIsSettled` | `RowsAreFinal`, `StaysWithinPromise` |
| `NotificationServiceProofs` | `TypeOK`, `DispatchedOnce`, `LossesCostFailures` | |
| `AuditServiceProofs` | `TypeOK`, `StaleCostsFailures`, `Promise!PassedIsSettled` | `Promise!SafeSpec` |
| `GatewayProofs` | `AccessInv`; `GatewayTypeOK`, `AcceptedIsQueued`, `RateLimited`, `BreakerMatchesCount`, `DamageCostsFailures` | `ReplaysHitCache` |
| `PaymentFlowProofs` | `StartupInv`; `FlowInv` (`TypeOK` and `NothingVanishes`), `StoresFollowVerdicts` | `StagesKeepPromises` |

### Assumptions

TLC evaluates each of them in a run.

- `ConsumerLoopAssumption`: there is a replica, and finitely many of them; there
  is a partition; retries and failures are natural numbers.
- `PaymentsAssumption`: amounts are integers.  `<Service>Assumption`: every
  transaction has a partition, bounds and limits are natural numbers.
- `LedgerServiceAssumption`, `AuditServiceAssumption`, `GatewayAssumption`: `NoRow`
  and `NoDocument` are not events, `None` is no call, process, request or answer: what the code calls `None` is
  different from everything it stores.
- `GatewayAssumption`: there are finitely many calls (the leaked producers are
  counted), limit and threshold are positive, as `core/config.py` has them.
- `PaymentFlowAssumption`: the bounds are natural numbers.
- `StartupAssumption`: each loop makes at least one attempt, as the literals in
  the readiness loops and `get_producer` and the default of
  `MAX_PROCESSING_RETRIES` have it.
- `AccessAssumption`: no replica is of both services, a token may live for at
  least one instant, policies name only scopes and roles of the model (in which
  `"ledger:read"` and `"viewer"` stand for every one that cannot pay).

### The loop

`ConsumerLoopProofs` shows once, for the loop of all five services, that the five
kinds of steps (arrival, fetch, staying with the message, letting go of it,
reassignment) keep `Positions`: a busy worker holds a message at or before the
first uncommitted one, and if its commit covers it, the worker owns the partition
and is at that message.  `StepKinds` of each service sorts its handlers into
these kinds.  A second lemma of each service (`Edge`) says where one worker can go
in one step and what it takes along.

Two more parts count.  `Taken(p)` are the messages of a partition that are
committed or leased to a worker: a fetch adds one, a commit that answered keeps
it, and only a lost lease gives one back (`TakenStays`).  What a failure costs
is not over with the failure: a replica that goes down takes its lease along,
and the two reassignments that follow (the group notices, the replica comes back)
orphan the messages of others.  `Debt(p)` therefore counts the reassignments of `p` still to
come, one for each absent replica and one when a live owner is about to lose
`p` because another owner is gone.  `Pays(p)`: a step that ends a lease of
`p` lowers the debt or counts a failure, and each failure pays for two units,
a lost lease or a reassignment still to come.  A crash of the leaseholder loses its
lease and owes only the return, since `p` has no live owner to lose it to the takeover;
a crash of another replica owes both; a reassignment without a crash is one lost lease.

### Payment service

`CommittedIsSettled` is not inductive: a `commit()` moves the offset of whatever
the worker holds.  `IInv` adds `Positions`, `SettledBeforeCommit` (who is at its
commit has published or dead-lettered the message) and `Routed` (a message is in
the partition of its key, so that the result goes to the partition of the
request).  With these a commit that moves an offset moves it by one, past a
settled message (`OnlyCommitsAdvance`).  The refinement maps the log to the input
topic, `done` to the committed offsets, `handled` to the requests with a result,
`buried` to the dead letters; publishing handles, dead-lettering buries, a commit
advances or stutters, and all the rest stutters.

`DeadLetterAfterRetries` needs a budget (`RetryInv`): the failed attempts of the
deliveries now in the workers' hands (`Failures`, a set of pairs of a worker and a
number) together with `Tries` for each dead letter are at most the failures so
far.  A step forgets attempts (a crash, a success), fails one and counts one
failure, or turns the `Tries` attempts of one delivery into one dead letter.

`DuplicatesBounded` bounds the results of a request by its submissions and two
for every failure.  The account (`CopiesInv`) is: the results, the workers about to publish one,
and the debt of the partition are at most the submissions handed out (`Turns`)
and two for every failure.  A fetch adds a turn and a worker; a publication
turns a worker into a result; a failed publication may add a result, a failed
commit sends a worker back; a lost lease takes a turn away, and the debt or a
failure pays for it.

### Fraud service

`MarkedIsPublished` needs that a worker at its mark, its commit or its skip has the
verdict of its transaction in the topic (`SettledBeforeCommit`), hence that the
dict in its hands is the message it holds (`HoldsItsMessage`), hence `Positions`.
`DeclineSticks` follows from the edges: only `Decides` changes a status, and never
from declined.  `VelocityBounded` is not inductive, for an increment may come
long after its check; `VelocityInv` counts the workers that passed the check with
the counter: a check passes below the limit and adds one worker, of whom all
others are at most `Cardinality(Workers) - 1`.  The refinement is by transaction id,
as the mark is: a verdict handles, a dead letter buries, a skip is the commit of a
transaction that is handled already.

`ReplaysSuppressed` is the same account without turns, because here a replay is
no reason for another verdict: the verdicts, the workers on their way to one
(`Underway`), one when the next replica that reads the mark will evaluate
(`Free`), and the debt are at most one and two for every failure
(`ReplaysInv`).  A transaction is not free while it is marked or while the
worker with the lease evaluates it or is about to mark it (`Claims`); since
there is one lease on a partition, only one worker takes what is free.  A lost lease either makes
the transaction free again or sends its holder, who has not read the mark yet, on its way without a
claim; never both.

### Ledger service

`RowsAreFinal` holds because an insertion checks its key in the same transaction
of the database, under any interleaving.  `ContactsMatchRows` needs what the two
sessions hold (`SessionsOK`: a loaded object's row is still there) and that a
transaction either inserts a row and its contact together or neither;
the counting is `Len(contacts[k]) <= Cardinality(Paid(k))`, kept because an upsert
adds a contact row only next to the insertion of a payment to it.

### Notification service

`DispatchedOnce` needs `DispatchInv`: what was dispatched plus the workers about to
dispatch is at most the mark that stands now plus the failures so far; the mark is set by
one `SET NX`, and goes away only in an expiry that counts as a failure.
`LossesCostFailures` needs the set `Gone` of the transactions that some replica
took for notified and that are neither stored, nor about to be, nor
dead-lettered: it grows by one at most, and only in a failure (`LossStep`).  The
property's own set `Missing` is not inductive, since a lost notification shows
only at the commit after.

### Audit service

The refinement is the one of the ledger, with the index in the place of the table:
a document handles its transaction, and `SettledBeforeCommit` with `Positions` makes
each commit an `Advance`.

`StaleCostsFailures` counts, for one partition, the transactions whose document is
older than an event the group has passed (`Stale(p)`). It is not inductive: the old
document is often written long after the failure that made it possible. `RisksPaid`
counts with them the transactions a worker still threatens (`Risk(p)`): one about
to be buried, one in the hands of a worker that lost the partition and that
somebody may overtake, one whose commit would pass an event over which an older one
was written. `Due(p)` adds one when a reassignment will take `p` from a live owner
that is not alone, and each absent replica adds one for its return. A write adds no
risk, because only a threatening worker can write behind the offset; a commit passes
what is current or was at risk already; a failure pays for what it adds.

How much a failure may add depends on the replicas. With two, as deployed, a crash
leaves nobody else for the takeover to orphan, and its return orphans one: one
document per partition and failure. With three, the takeover orphans one and the
return another, so `StalePerFailure` is 2, and TLC reaches that bound with three
replicas. The proof corrected the property: it used to count the stale documents of all
partitions against the failures, which is true of the one partition of the run and false
of the three in `infra/kubernetes/platform.yaml`, where one crash takes a partition
from each of the others; and it took a document *ahead* of the offset for a stale one.

### What is passed is settled

`NoEventIsLost` of the fraud, ledger and audit services (`CommittedIsSettled` in the
payment service) is `PassedIsSettled` of `AtLeastOnce` under the refinement
mapping. It uses the refinement (what is handled or buried stays so), the growth of
the topic (an event stays at its offset), and `SettledBeforeCommit` for the one event
that a commit passes (`PassedStep`). The notification service passes lost
notifications, too; `LossesCostFailures` says how many.

### Start of a consumer

`StartupInv` says that a process is back at the topic only with a producer that runs,
or with none. `StartupIInv` adds where an unstarted one can be (`UnstartedInHand`): in payment and
fraud between the attempts at the message that needed it, and in its dead letter; in
ledger and notification only after the end, when the start failed that the dead letter
needed: `get_producer` has assigned the global by then, and the process keeps it. That
needs which service takes which step (`StepsOfServices`), and for the backlog that a
message in hand is one not yet passed (`InHandIsWaiting`).

### Gateway

`RateLimited` needs `Limiter`: the calls admitted are among those counted in the
window, and the one that counted first is not admitted before it has set the
timer.  `AcceptedIsQueued` needs `StoredIsQueued` (a response about to be cached, or
cached, belongs to an event in the topic), because an accepted answer may come from
the cache.  `DamageCostsFailures` needs `OwnProducers` (a process uses only producers
it made), `Undamaged` (before the first failure no producer is closed and no call
is on its way to a refusal) and `DroppedCostCalls` (the running producers that no
process will take again are no more than the failed calls).  `ReplaysHitCache`
needs `AnswersCached`.

The proof of the last part corrected the model: the run used to check that
there are no more leaked producers than *failures*, and this is false beyond
its three calls.  With five calls, one failed send is enough for two leaks, since
every call that shared the failed producer resets the global of
`core/kafka_producer.py`, and may drop a new producer that another call has made in
between.  What holds for every number of calls is that each leaked producer has a
failed call of its own (`LeaksCostCalls`).

### Payment flow

`NothingVanishes` looks at one payment across all stages, and no step of a
stage keeps it by itself: that an offset may advance depends on what the stage
did with the message before. `PassedIsAccounted` is the account each stage
owes: whatever it has passed, or has settled and is about to pass (`Past`), it
has buried or handed on (`Out`: a result, a verdict, a row, a document). The
accounts of the stages chain: a payment is behind the first stage that has not
passed it, or in a dead-letter topic, or at the end. Two steps hand on without
publishing. A skip trusts the mark, hence `MarkedIsPublished`; a restore takes
rows away, hence `RestoredFromDump`, which says that a complete one has brought
back all that its dump had.

`StoresFollowVerdicts` has two halves. The row is the first verdict as long as
nothing is restored, because the ledger inserts in the order of the topic
unless it buries, and passing means accounted for: an unburied transaction
without a row has no verdict behind the offset (`PassedIsAccounted`), and a row
is of a verdict in the topic (`RowsHaveVerdicts`). The number of verdicts is
not inductive, because the failure that makes a second evaluation possible
comes before it, or with it. `VerdictsInv` adds the one verdict that is still
free (`Free(t)`): it is there as long as `t` is not marked and no verdict on
the message in hand is out; an evaluation without a failure uses it up, and
whatever gives it back (an expired mark, a redelivery) counts as a failure.

`StagesKeepPromises` ties the flow to the services. Each of them is proved to
implement the safety of `AtLeastOnce`; a stage, seen by
itself (`Promise(s)`: its topic, its offset, its dead letters, and in `HandedOn` what
it has made of its messages), is proved to do the same. An action of the flow is then
one thing to the stage that takes it and another to the next: `Process` is `Handle`
for the payment stage and `Arrive` for the fraud stage, `Skip` and `Mark` are
nothing, and `Commit` is `Advance`, for which `PassedIsAccounted` is needed again. A
restore takes back what the ledger has handed on, which no promise allows: from the
first one on the ledger is not held to it.

### Access

`RevocationTakesEffect` is about an admission at the gateway long after the
token was issued, by a replica of auth-service that may have been restarted
since. `AccessIInv` therefore keeps two histories: `Remembered` (`allowed` is the
present as long as some running auth-service would issue the token, and never
more) and `TokensWereAllowed` (a token for payments ends at most one time to
live after `allowed`). `RunningHasSecret` excludes the replica without a
secret, which would take an unset signature for its own. `ViewsAgree` follows
from the definitions, which are separate translations of the two copies of the
code.

### Only model-checked

- All liveness (`EveryCallAnswered`, `SettledOrHalted`, `EveryPaymentSettles`,
  `Drained`, `ClientGetsIn`, and the liveness in `ImplementsAtLeastOnce`): the
  prover does not handle `ENABLED`, on which weak fairness depends.
- The two violation runs, which are counterexamples: there is nothing to prove.
- That the bounds of the runs are reached (that a failure can cost two duplicates, a
  crash two stale documents with three replicas): the theorems say "at most".

## 6. Not modelled

- `scripts/` other than `ledger_backup.sh`: the release, staging and deployment
  tools compare files or call a provider once, keep no state, and nothing runs
  next to them; what they configure is the operator of `Access`.
  `verify_restore.py` polls one read endpoint.
- Pure functions no property depends on: tokenization, the number and flag
  parsers of `shared/config.py` (their results are constants here), token claims
  no check reads, cryptography.
- The read endpoints, and metrics.
- The notification service as a reader in `PaymentFlow` (nothing in the flow
  depends on it; `NotificationService` models it).
- A message that is not JSON or lacks `txn_id` (the producers of this system
  write both).
- The inside of Kafka, Redis, Postgres and Elasticsearch.
- Manifests and tests, which are read as bounds and as statements.

## 7. State of the plan

Done: the consumer loop and the services, the gateway, the flow with backup and
restore, start and access as models; a theorem for every invariant and action
property of a run, and the safety half of every refinement.

Left open:

1. The notification service as a refinement of `AtLeastOnce` with the losses as an
   explicit exception; `LossesCostFailures` bounds them without it.
2. The notification service as a third reader in `PaymentFlow`.
3. The converse of `StagesKeepPromises`: that everything a service can make of its
   messages is a step its stage can take. Services and stages are proved to keep the
   same promise; that the flow leaves out no step of it a service takes is read from
   the modules.
4. Liveness, when the prover handles `ENABLED`.
