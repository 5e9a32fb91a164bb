# Formal models of ecommerce-commons

TLA+ models of the parts of this library whose correctness depends on
interleavings, failures, restarts and the way components are put together, with
the TLC configurations that check them and TLAPS proofs of what matters most.
Paths are relative to `src/pkg`.

## 1. The system

`ecommerce-commons` is a Go library of building blocks that every service of a
shop composes with `fx`.  A service is a process with several replicas; the
replicas share MongoDB and Kafka and nothing else.

| Component | State it keeps | Operations | Hard behaviour |
|---|---|---|---|
| **Outbox** `kafka/outbox` | collection `outbox` (status, lock, next attempt, attempts), `entitiesChan`, `confirmChan`, the Kafka client's buffer, the Confirmer's batch | `Create` in the caller's transaction, `SendFunc` after it, Fetcher, Sender, promise callback, Confirmer, TTL index | leases shared by replicas, copies that outlive their lease, batches of mixed results, blocked channels, stop and crash at any point |
| **Consumer** `kafka/consumer` | group offset, marks, two channels, the record in work | Reader, MessageDeserializer, Processor with retries, ResultHandler, DLQ | rebalances that drain nothing, cumulative marks, failed DLQ writes, cancelled contexts |
| **Producer** `kafka/producer` | the shared Kafka client | `Produce`, `Close`, waiting for brokers | close order, delivery timeout |
| **Worker** `core/worker` | context, goroutine | `Start`, `run`, `Stop` | stop while waiting for readiness, stop that times out |
| **Readiness** `core/health`, `http/health` | components, two one-shot channels | `AddComponent`, mark ready, probes, waiters | concurrent probes, components added late, gates that an environment decides about |
| **Tenants** `tenant` (registry) | registry collection, one database per tenant | sync at start, create and delete events, cleanup worker | stale snapshots, create racing cleanup |
| **Tenant context** `tenant` (propagation) | none of its own: slug in header, context, record header, database name | resolver and validator interceptors, header population, `ContextFromKafkaHeaders` | a slug that is dropped or kept across a boundary, a service's own token good for every tenant |
| **Security** `security` | loaded configuration | JWKS validation, claims, permissions, client credentials | what a missing section or list means, the order of the checks |
| **Repository** `mongo` | documents with versions | insert, optimistic update, `UpsertIfNewer`, paging, transactions | lost updates, racing upserts |
| **MongoDB configuration, migrations** `mongo` | loaded configuration | defaults, validation, both URIs, migration runners | the same database derived in four places |
| **Kafka configuration** `kafka/config` | loaded configuration | defaults, inheritance, validation | boundary values, zero as "not set" |
| **HTTP client** `http/client` | connection pool, per-request attempts | retrying round trip, connection lifetimes, timeout | requests whose answer was lost, pools of dead connections, expiry in the middle of a call |
| **Interceptors** `http/connect`, server `http/server` | bulkhead slots, rate limiter | chain of handlers | slots given back after panics and deadlines, handlers that outlive them |
| **Configuration loader** `core/config` | none after start-up | unmarshal, defaults, validation | fields the decoder does not reach |
| Payloads, tracing, logger, observability, swagger, test containers | none that a property reads | - | - |

How they meet: the outbox's and the consumer's goroutines are Workers, started
by `fx` in the order of their registration and stopped in the reverse order;
Workers wait for Readiness, which the HTTP probe drives; the consumer's DLQ and
the outbox share one Kafka client; the tenant Lifecycle is called by a
consumer's handler; a service creates outbox documents inside a transaction of
the TxManager; the tenant of a request goes through the interceptors into the
name of the database, into the headers of the outbox's record and, at the
consumer, back into a context.

What makes each part correct: for the outbox, at-least-once delivery of every
committed message, no false `SENT`, and no second record without a cause; for
the consumer, that no record reaches a handler and no offset is committed past
one that nothing was decided about; for Readiness, that no worker sees traffic
early and each one starts; for tenants, that only deleted tenants lose data and
that they do; for the repository, no lost update; for calls, that a request is
repeated only when it must be and that no slot leaks; for the whole chain, that
tenants stay apart and projections agree with their aggregates in the end.

## 2. Modules

| Module | Models | State |
|---|---|---|
| `AtLeastOnce` | the promise of the outbox to its callers | `stored`, `published` |
| `Outbox` | `kafka/outbox` with the Kafka client, MongoDB and the TTL monitor; implements `AtLeastOnce` | documents, topic, and per process the channels, buffers and batches |
| `Delivery` | the promise of the consumer to its handler | `log`, `handling`, `settled`, `committed` |
| `Consumer` | `kafka/consumer` on one partition with its group; implements `Delivery` | topic, committed offset, owner, and per member the client, channels and the record in work |
| `Service` | the promise of a process to its components and workers | components opened, open; announcements; workers' states |
| `Lifecycle` | `AppConfig`, `fx` hooks, `core/health`, `http/health`, `core/worker` in one process; implements `Service` | environment, application phase, components, the two channels, probes, workers |
| `TenantRegistry` | the promise of a service to the tenants of a tenant service that uses a slug once | tenants known, listed, active; time since a deletion; databases |
| `Tenants` | `tenant`: sync, migration, lifecycle events, cleanup, for several instances; implements `TenantRegistry` | registry, databases, the tenant service's list and events, and per instance the start, the event and the cleanup in work |
| `VersionedStore` | the promise of the repository to its callers | documents, reported edits and versions |
| `Repository` | `mongo`: `GenericRepository` and `TxManager` for several clients; implements `VersionedStore` | documents, and per client what it holds, its transaction, its upsert |
| `Exchange` | the promise of a call to its caller | runs, lost answers, results |
| `Calls` | `http/client` and `http/connect` with `http/server`, for several calls to one server; implements `Exchange` | loaded configurations, pool, and per call the retry loop, its connection and its request in the server |
| `Access` | `security` and the interceptors of `tenant`: who may call what, and for which tenant | none: operators on a configuration and a request |
| `KafkaConfig` | `kafka/config`: defaults, inheritance, validation, what a consumer's start still refuses | none |
| `MongoConfig` | `mongo/config.go`, the URIs and the databases that are derived from them | none |
| `Pipeline` | the composition: requests through `Access`, the outbox as `AtLeastOnce`, the consumer as `Delivery`, a projection by `UpsertIfNewer`, in services loaded from `KafkaConfig` and `MongoConfig` | configuration, aggregates, documents, partition, members, projections |
| `OutboxProofs`, `OutboxLeaseProofs`, `ConsumerProofs`, `LifecycleProofs`, `TenantsProofs`, `RepositoryProofs`, `CallsProofs`, `PipelineProofs` | theorems about the module they are named after | - |
| `MCOutbox`, `MCConsumer`, `MCLifecycle`, `MCTenants`, `MCRepository`, `MCCalls`, `MCPipeline` | symmetry, hooks, configurations and callers for TLC | - |

**Outbox.**  One action per step that can interleave: `Create`/`Commit`/`Abort`
are the caller's transaction; `SendFuncEnqueue` and `SendFuncDrop` the arms of
the `select` in `createSendFunc`; `FetchAndLock` the atomic
`FindOneAndUpdate`, whose answer may be lost; `SenderSend` the call of
`Produce`; `KafkaWrite`, `KafkaFail` and `KafkaAckLost` what Kafka may make of
a record; `Promise` the callback that blocks on `confirmChan`;
`ConfirmerReceive` and `ConfirmerTick` the arms of the Confirmer's `select`;
`UpdateAsSentByIDs` and `UpdateFails` the end of a `handleConfirmation`
goroutine, any number of which may be running (`confirming` counts them).
`BeginStop` ... `ClientClose` follow the stop hooks: Confirmer, Sender, Fetcher,
client; `Crash` may happen anywhere.  Deadlines are kept as the ticks left until
they pass, so time needs no bound.  `older` is the order of the fetch
(`nextAttemptAfter`), as a relation between documents.

**Consumer.**  `Poll` and `ReaderHandOver` are the Reader; `DeserializerTake`,
`DeserializeFails`, `DeserializerSend` the MessageDeserializer; `ProcessorTake`,
`Attempt*`, `HandleError`, `HandleReturns` the Processor with the ResultHandler,
whose deferred mark comes last whatever happened before.  `Assign`, `Revoke` and
`AutoCommit` are the group and the client: the mark of a record whose partition
has moved on is kept and committed, and the callbacks only log.  A record is an
offset and the number of the assignment it was fetched under; all that is kept
of its contents is whether it can be deserialized.  `DeliveryPromise` is
`Delivery`'s specification under the mapping: what a Processor works on is
`handling`, what was handled, dead-lettered, given up or passed over by an
offset reset is `settled`.

**Lifecycle.**  The environment is a set of keys; `Unmarshalled` are the ones
`loader.Load` can store, so `IsKubernetes` is what `ApplyDefaults` makes of them.
Hooks are numbered in the order `fx` appends them; component
hooks mark themselves ready in `OnStart`, worker hooks start a goroutine.  All
`AddComponent` calls happen while the hooks are appended, so `AppendHook`
registers and `StartComponent` marks.  `Probe`, `TestClosed`, `EnterOnce`,
`SkipOnce`, `CloseTraffic` are the steps of a text probe through
`MarkTrafficReady`; a probe answered "not ready" and a JSON probe change
nothing.  `PassGate` and `LeaveGate` are the arms of the `select` of the waits.
Stops go down the hooks: `CancelWorker`, then `WorkerStopped` or
`StopTimesOut`.  The HTTP server is a component; while it stops it takes no new
probe and waits for the ones inside.  `KeepsPromise` is `Service`'s specification
under the mapping: the components that are marked ready have been `opened`, the
closes of the traffic channel are the announcements, and a worker at a gate is as
good as one that has not begun.

**Tenants.**  `ReadRegistry` ... `Up` are `TenantMigrationRunner.Run` with
`Sync` and `syncRegistry`, one MongoDB or API call a step; `local`, `todo`,
`doomed` and `deadline` are what `Run` has read and not yet used.
`CreateUpsert`, `CreateMigrate`, `Delete` are the `Lifecycle`, called by an
event consumer that redelivers what is not committed and whose former owners
finish what they have.  `AttemptFails` is an attempt that returned an error:
`executeWithRetry` makes it again up to `MaxRetries` times, and then the
ResultHandler marks the event and it does not come back (`abandoned`);
`StopInEvent` is a stop that ends the retries in the same way.  `FindExpired` ... `RemoveRecord` are the cleanup worker.
Time is kept as ticks left, so the clock needs no bound.  `KeepsRegistry` is
`TenantRegistry`'s specification: `known` is who has a created event, `listed` the
tenant service's list, `gone` the clock, `active` the status on record.

**Repository.**  A document is a version and the set of edits in its content, so
that a lost update is an edit that is reported and not there.  `held` are the
domain objects a client has read, arbitrarily old.  A transaction updates every
entity on its snapshot; `TxRetry` is the driver calling the function again after
a write conflict, with the objects it read before.  `AnswerLost` is a write that
was done although the caller gets an error: an `Insert`, an `Update`, an upsert or
a commit.  `UpsertReplace`,
`UpsertNoMatch` and `UpsertInsert` are the two steps of MongoDB's upsert.
`ActsAtomically` is `VersionedStore`'s specification, on the same documents and
histories: neither what clients hold nor snapshots nor open transactions show.

**Calls.**  `pool` counts idle connections by what has become of them: `fresh`,
`aged` (past `MaxConnLifetime`) or `dead`, which nobody notices before the next
write.  `phase` is the place in `RoundTrip`: `ready` before a `doRequest`,
`drain` between the loop and the final attempt, `writing`, `waiting`.
`ConnectionError` is an error of `isRetryableError`, `Expired` is
`ErrConnExpired`, and `SendSpentBody` the request whose body an expired
connection has read.  On the other side `Refuse` stands for the checks before
the bulkhead, `Admit` ... `NoSlot` for the bulkhead inside the timeout
interceptor, `HandlerReturns` and `HandlerPanics` for what passes back through
the chain.  `WriteTimeout` counts from the head of the request, so it may cut the
answer before `RequestTimeout` ends, too.  What `net/http` does (it takes another connection when a reused one
writes nothing; the size of the pool) is external.  Both configurations come
from `ApplyDefaults` and then `Validate`, as the loader calls them.  `lost` counts
the runs whose answer the server had to give while the caller waited, and could
not: an answer that is cut off counts only when a handler had run for it
(`LoseAnswer`).  `TruthfulResults` is `Exchange`'s specification, on `ran`, `lost`
and `outcome` as they are.

**Access.**  A token is whether it is valid, its tenant and its scopes; a request
a slug header, a token and a kind of procedure.  `Handled` is the conjunction of
what the interceptors refuse, each one with what the ones before it in the chain
have put in the context; `ContextSlug` is the tenant the handler then works
for; `Onward` the request a handler's client makes: the context's tenant with
the service's own token, whose scopes `CredentialsValid` and the defaults decide.

**KafkaConfig, MongoConfig.**  `ApplyDefaults` and `Validate` as operators on
the numbers and names of a configuration.  A name is a sequence, so that
concatenation (`topic + ".dlq"`, `database_slug`) is `Append` and distinct names
stay distinct; a connection string is its server, its path and whether
`url.Parse` takes it.  `ConsumerStarts` adds what the constructors of a consumer
refuse.  `StaticDatabase`, `TenantDatabase`, `SingleTarget` and `TenantTarget`
are the four derivations of a database: two through the client, two through a
URI for the migrations.

**Pipeline.**  `Running` are the configurations that start.  `Call` and
`CallOnward` are requests that a handler serves, directly or by way of another
service; `WriteAndCreate` is its transaction.  `Publish` is `AtLeastOnce`'s
action, in any order of the messages and again; `Take`, `Settle`, `Reset`,
`Crash` and `Return` wrap the actions of `Delivery`, so that what `Outbox` and
`Consumer` are shown to implement is what is composed here, by construction.  That
an event is sent after the commit is a guard of `AtLeastOnce`'s `Publish`: `Create`
hands out the `SendFunc`, and when it is called is up to the caller.  `Replace`,
`NoMatch` and `Insert` are the upsert of a projecting handler; `AttemptFails`
is the Processor's retry loop with the number of retries from the loaded
configuration; `Panic` is `MustSlugFromContext` on a record without tenant.

A definition marked with the comment `mutant` is a deliberately wrong variant of
the one below it.  Nothing uses it: put in the other's place it breaks the
property named in `PROJECT.json`, which shows that the property is sensitive to
that line of the code.

## 3. Runs

Every run finishes in less than five minutes.

| Run | Question | Instance | Result |
|---|---|---|---|
| `OutboxProcess` | Is a committed message ever lost or falsely `SENT` in one process?  Is the promise kept? | 2 messages, 1 process, channels of 1, batches of 2, 1 stop or crash | holds, 1.5 million states |
| `OutboxReplicas` | Do the leases keep replicas apart?  What does the TTL delete? | 1 message, 2 processes, up to 2 copies of it on their way, TTL 5, 1 stop or crash | holds, 263 thousand states |
| `OutboxProgress` | Is every message `SENT` in the end?  Can the channels block each other? | 1 message, 1 process, 2 stops or crashes, fairness | holds, 16 thousand states |
| `ConsumerRebalance` | Do records left behind by a rebalance reach a handler, or get committed, past an undecided one?  (`DeliveryPromise`: the refinement) | 2 records, 2 members, revocations up to the third assignment, no stop, polls of 1 or 2, both reset policies | holds, 1.5 million states |
| `ConsumerProgress` | Is every record decided about and committed?  Is the promise (`DeliveryPromise`) kept through stops and crashes? | 2 records, 1 member, 1 retry, 2 stops or crashes, a revocation between the first two assignments, fairness | holds, 130 thousand states |
| `Lifecycle` | Do the gates hold and open, is the channel closed once, does nothing close under a running worker, does a stop end, does a fatal error stop the process?  Is the promise kept (`KeepsPromise`)? | 7 hooks (4 components, 3 workers), 4 environments, 2 probes, 2 faults, fairness | holds, 58 thousand states |
| `LifecyclePod` | Does a worker in a pod wait for the readiness probe? | the same hooks, a pod as Kubernetes starts it, no fault | **violated** |
| `TenantsReplicas` | Does a live tenant keep record and database, a deleted one its database for the delay, and is each created one served?  Does a start repair what events have left undone (`StartsRepair`)?  Is the registry's promise kept (`KeepsRegistry`)? | 1 slug used once, 2 instances, 2 cleaners, delay 1, 1 retry, 2 failed calls, 1 crash, stop or rebalance, fairness | holds, 408 thousand states |
| `TenantsReuse` | Is an active tenant operational if slugs are used again? | 1 slug, 2 instances, delay 1, no fault | **violated** |
| `Repository` | Are updates lost, transactions torn, projections set back?  Is every write one atomic step (`ActsAtomically`)? | 2 clients, 2 entities, 1 projection with 2 versions, 4 edits, 1 fault | holds, 554 thousand states |
| `Calls` | Is a request repeated only when its answer was lost?  Do retries get past a pool of dead connections?  Do slots leak?  Does a result say whether the handler ran (`TruthfulResults`)?  Does every call end? | 2 calls, pools of 0 to 2, 1 retry, 1 slot or no bulkhead, 1 crash, 1 lifetime that ends, fairness | holds, 374 thousand states |
| `Pipeline` | Do tenants stay apart from a request to the projection?  Is data only where migrations ran?  Are events given up only with a cause, do projections only advance, and do they agree with their aggregates in the end? | 7 configurations of three services, 4 of which start, 2 tenants, 3 tokens and an invalid one, 2 members, 2 writes, 2 failed attempts, 1 upset, fairness | holds, 482 thousand states |

Why the bounds are enough: capacities of one make every channel fill, which
capacities of 100 and 1000 do only under load; two messages are needed for a
batch that mixes a failed and a written record; two records for a mark that
passes over another; three assignments for a partition that comes back to a
member with old records in its channels.  `Consumer` has two instances because their bounds multiply:
`ConsumerRebalance` has the members and the assignments and no stop,
`ConsumerProgress` the stops, the retries and one revocation, and `PromiseKept` has
everything at once.  `MaxStops` bounds the
stops, `MaxCopies` keeps the Fetcher from putting more than that many copies of
one message on their way, `AttemptCap` stops counting where the backoff has
reached its maximum, `RevokeBound` ends the rebalances, `MaxRecords` the topic.
Two probes are needed to race for the close, a component hook after the last
worker for a gate that must wait for it (the outbox's schema is such a hook); two
instances for a start that races a cleanup and for a redelivered event, and two
failed calls with one retry for an event that is given up; four
edits for two inserts and two transactions at once; two calls for a slot that is
taken and a pool that one fills and the other empties.  `MaxAgings` bounds the
lifetimes that end during the calls: each lasts for many calls.  In `Pipeline`,
`MaxWrites = 2` gives a tenant a second version, which may overtake the first,
or both tenants one; `MaxFaults = 2` is one more than the retries of its
consumer, so that a record is given up for them; `MaxUpsets = 1` is one record
published or read twice, one stop or one crash.  Larger instances of what holds
are the proofs' part.

Symmetry is used where the properties are invariants or refinements without
fairness (`OutboxProcess`, `OutboxReplicas`, `ConsumerRebalance`, `TenantsReuse`,
`Repository`), and in no run with a liveness property.

**What the violated runs show.**

* `TenantsReuse`: `cleanupTenant` acts on a record that was read before
  (`tenant/cleanup_worker.go:53-68`).  A `Create` in between makes the tenant
  active and migrates its database, which the cleaner then drops; `Remove` takes
  the record too.  `repository.go:17` says that an active tenant is operational.
  With slugs that are used once a live tenant is safe (`TenantsReplicas`, and
  `TenantsProofs` for any number of them), but the same gap lets `Remove` forget
  a deletion that was marked again after a redelivered event, which leaves a
  database behind.
* `LifecyclePod`: the field of `AppConfig` for `KUBERNETES_SERVICE_HOST` is not
  exported (`core/config/config.go:12`), so the loader's `Unmarshal` never stores
  it and `ApplyDefaults` leaves `IsKubernetes` false in every pod whose manifest
  does not set `ISKUBERNETES` itself.  `WaitForTrafficReady` then passes as soon
  as the components are ready, where `core/health/readiness.go:183` says that it
  waits for the readiness probe.  No unit test covers this.

### Seen while modelling

Facts about the code without a run of their own; those about the outbox, the
consumer, the repository and the calls are behaviour the models have.

* The Confirmer's last `flush()` starts `handleConfirmation` with the context
  that was just cancelled (`outbox/confirmer.go:58`), so the update fails and
  each message of the last batch is sent again after the restart.
  `confirmer_test.go:166` says that the results should be flushed; its assertion
  (`len(ids) >= 0`) cannot fail.  `Outbox` has it: `ConfirmerExit` drops the
  results, and `EventuallySent` holds all the same.
* When the Fetcher's `FindOneAndUpdate` takes the lease and its answer is lost,
  the document waits for the lease and the backoff of an attempt nobody made.
* `MarkCommitRecords` is deferred (`consumer/result_handler.go:39`) and a failed
  `SendToDLQ` is only logged (`consumer/dlq_handler.go:73`): the record is
  committed, was not processed and is not in the DLQ, where `handler.go:19` says
  that it goes.  Besides a broker error a cancelled context suffices, that is, a
  shutdown during a retry.  `Delivery` and `Pipeline` count it as given up.
* For a created tenant this means that after `max-retries` failed attempts, or a
  stop in the middle of one, nothing provisions it: the record may be active, the
  database has no schema, and only the next start of an instance migrates it
  (`tenant/lifecycle.go:40`).  `CreatedEventuallyServed` excuses these tenants by
  name (`abandoned`), `StartsRepair` is about that next start.
* The filter of `UpsertIfNewer` names the version, so a document that is not
  older does not match, MongoDB inserts, and the `_id` is taken: a duplicate key
  error, where `mongo/generic_repository.go:318` says false.  A handler that
  passes the error on retries an event that is merely old or a repetition and
  sends it to the DLQ (`Excused` in `Pipeline`).
* `ErrConnExpired` in the middle of the first write repeats the request with the
  body that was already read, because `doRequest` clones only from the second
  attempt on (`client/retry.go:51`); after the loop the error goes to the caller.
  In `Calls` these are the outcomes `spentBody` and `expired`.
* An `ErrConnExpired` while the answer's head is read repeats a request that was
  answered, and no counter limits this; only the lifetimes' length does.  In
  `Calls` finitely many lifetimes end (`MaxAgings`), and `EventuallyEnds` rests on
  that.
* A negative `max-concurrent`, rate or burst is replaced by the default before
  `Validate` sees it, although `server/config.go:80` says that negative values are
  errors (`ServerDefaults`).
* Kafka settings: every check has the form `> 0 &&`, so negative values pass; a
  negative `ChannelBufferSize` panics in `make(chan)` at the start
  (`MessageChannelFits`), a negative `ProcessingTimeout` ends every attempt at
  once.  `ReadinessTimeoutSeconds` promises "0 = no timeout", but 0 becomes 60
  or 30; the compression's comment says "snappy", the default is "none"; a DLQ
  topic of white space is accepted; an empty group id is accepted and fails at
  the start; "unique" consumer names are not checked and the first match wins; an
  offset reset that is left out means the end of the topic.
* MongoDB settings: `Migrations.Enabled` is read by nothing; a connection string
  that names another database than `Database` makes the single-database
  migrations run elsewhere (`OwnDatabase`); one that `url.Parse` does not take
  (several hosts with ports) is used by the client as it is, while the tenants'
  migrations fall back to `Host` and `Port` (`OwnServer`); without `Database` it
  passes `Validate`.
* Security: a service without any JWKS key runs without validation; a service
  whose client-credentials section names no scope gets a token with `openid`
  only, which every tenant-checking service refuses; the wildcard permission of
  `validation/claims.go:24` is not implemented.
* A JSON probe is answered "ready" without `MarkTrafficReady`, so it opens no
  gate.

**Deadlock** is checked in the outbox runs (time never stops); the consumer may
really have nothing to do, and so have a stopped process, tenants and a
repository nobody calls, calls that have all ended, and a pipeline that has
projected everything: their runs do not check it.

**Fairness.**  Weak fairness for the steps of the goroutines is what the Go
scheduler gives.  For the outbox, strong fairness says that a message due again
and again is fetched some time with the answer received, and that the broker does not
refuse every record of a message nor MongoDB every update; without it the code
does not promise delivery either.  For the consumer, the handler is assumed to
return (its context times out), the client to commit every few seconds, the
group to assign a free partition and a stopped process to be started again.
Stops and revocations need no fairness: there are finitely many.
For `Lifecycle`, weak fairness also says that an `OnStart` returns, that
Kubernetes goes on probing in the text format, and that a run function returns
once its context is cancelled; for `Tenants`, that time passes, a crashed
instance is started again and the goroutines run; for `Calls`, that `RoundTrip`
and the server go on and a handler returns or panics in the end.  Nothing is
assumed there of timeouts or of a restart: a refused connection ends a call too.
For `Pipeline`, it is what the parts are shown to give: a pending message is
published (`EventuallySent`), a record is handed to some member
(`EventuallySettled`), and a Processor goes on.  Requests, offset resets, stops
and repetitions have none.

## 4. Proofs

What TLC checks on the instances above TLAPS proves for every value of the
constants that satisfies the module's named assumption.  For each of the seven
modules `TypeCorrect` says `Spec => []TypeOK`, which the rest builds on.  The
first six also implement an abstract specification of their own (the theorems
marked *refines* below); `Pipeline` is built from the actions of two of these.
Where such a promise implies a property, the runs check the promise alone and the
theorem states the property for its readers: `NothingSkipped` follows from
`Delivery`, `ClosedOnce` and `NoUseAfterClose` from `Service`, `DelayRespected` from
`TenantRegistry`, `NewestKept` from `VersionedStore`, `RunsExplained` from
`Exchange`.  The mutants of these properties break the promise (`PROJECT.json`).
`HandledInOrder`, the order within one assignment, is proved and in no run: what
would reorder the records on their way breaks `DeliveryPromise` (the mutant
`NewestFirst`).

| Module | Theorem | Property | For any |
|---|---|---|---|
| `OutboxProofs` | `SentOnlyIfPublished` | `SentIsPublished` | messages, processes, capacities, deadlines, bounds |
| | `NothingLost` | `ReliableDelivery` | |
| | `ImplementsAtLeastOnce` | *refines* `AtLeastOnce` (`AtLeastOnceSpec`): `stored <- StoredAs`, `published <- Range(topic)` | |
| `OutboxLeaseProofs` | `DuplicatesHaveCause` | `DuplicateHasCause` | |
| `ConsumerProofs` | `NoRecordSkipped` | `NothingSkipped` | records, members, buffers, retries, bounds |
| | `InOrder` | `HandledInOrder` | |
| | `PromiseKept` | *refines* `Delivery` (`DeliveryPromise`) | |
| `LifecycleProofs` | `NeverClosedTwice` | `ClosedOnce` | hooks, gates, environments, probes, faults |
| | `NoWorkerEarly` | `GatesHold` | |
| | `NothingClosedInUse` | `NoUseAfterClose` | |
| | `PromiseKept` | *refines* `Service` (`KeepsPromise`) | |
| `TenantsProofs` | `LiveTenantsSafe` | `LiveTenantServed`, slugs used once | tenants, instances, cleaners, delay, faults |
| | `DeletionDelayed` | `DelayRespected`, slugs used once | |
| | `RegistryKept` | *refines* `TenantRegistry` (`KeepsRegistry`), slugs used once | |
| `RepositoryProofs` | `NoUpdateLost` | `NoLostUpdate` | clients, entities, projections, versions, edits |
| | `TransactionsAtomic` | `AllOrNothing` | |
| | `ProjectionsAdvance` | `NewestKept` | |
| | `Atomic` | *refines* `VersionedStore` (`ActsAtomically`) | |
| `CallsProofs` | `SlotsNeverLeak` | `SlotsConserved` | calls, configurations (negative numbers included), bounds |
| | `RepeatsExplained` | `RunsExplained` | |
| | `FailuresHaveCause` | `FailureHasCause` | |
| | `ResultsTruthful` | *refines* `Exchange` (`TruthfulResults`) | |
| `PipelineProofs` | `TenantsApart` | `RightTenant` | configurations of the services, tenants, tokens, members, bounds |
| | `NothingUncommitted` | `NeverAhead` | |
| | `GivenUpForAReason` | `DeadLettersExplained` | |
| | `DataWhereMigrated` | `SchemaWhereWritten` | |
| | `ViewsApart`, `ViewsAdvance` | `RightView`, `ViewAdvances` | |

**Outbox.**  `SentIsPublished` is not inductive: what makes an update truthful is
that every result on its way was written.  `IInv` adds that only messages of
committed transactions travel through the channels (`OnlyCommittedTravels`), that
every result without error and every running batch speaks of written records
(`ResultsAreTrue`), and how the collection, the topic and the commit order hang
together (`StoreMatchesTopic`).  The proof goes variable group by variable group:
each conjunct of `IInv` has a lemma per actor, on top of four lemmas about the
range of a sequence after `Append` and `Tail`.  The refinement uses `IInv` before
and after the step: a commit, a write, a batch update and a TTL deletion map to
the abstract actions, all other steps stutter.  `ReliableDelivery` follows from
`StoreMatchesTopic` by cases on the status.

**The leases.**  `DuplicateHasCause` says that a lease does what it is for, and
needs an invariant about every place a copy can be in (`At`, with nine `Places`
from the open transaction to the batch).  `LeasesHold` says of each message that
is not late: at most one process has a copy, in one place (`OneHolder`), once
(`Once`); a copy is under a lease that has not run out (`UnderLease`); and once
the record is written, no copy is left to be written, the one that is left is on
its way back without an error, and the document cannot be leased again before
that copy has marked it (`OnTheWayBack`).  The last part is what rules out a
second record: a lease is free again only when the copy is gone, and a copy that
is gone without a mark has made the message late.  Four lemmas say what a step
may do to the copies (`SameGood`, `UnwrittenMoves`, `MovesBack`,
`NotWrittenGoes`), one per action says which of them it is.  TLC has checked
`LeasesHold` on the instances of `OutboxReplicas` and `OutboxProcess`.

**Consumer.**  `IInv` holds for each member's pipe, the records from the one in
work back to the position it fetches at: in front of each record every earlier
offset is settled or in the pipe before it (`GapFree`), nothing before the
position is missing (`Covered`), each assignment's records ascend (`Ascending`)
and are behind the position (`Below`); what has been marked is decided about
(`MarksSettled`).  `GapFree` holds only while the member's Processor runs: a stop
drops channels, but then nothing is handed over any more (`Attended`).  The
refinement follows: `ProcessorTake` is `Take` because of `GapFree` at the first
record, the end of an attempt is `Decide`, `HandleReturns` is `Return`, a
deserializer's failure is `Reject`, an assignment that resets to the end is
`Jump`, a commit is `Commit` because of `MarksSettled`, a crash in the middle of
a record is `Abandon`, and everything else stutters.

**Lifecycle.**  `OnceHolds` counts the closes by the state of the `Once`;
`AllRegistered` says that all components are added before the first is ready, so
that the last one closes `readyChan` and nobody before it; `GatesPassed` that a
worker is behind a gate only when it is open; `OpenBelow` that the open components
are exactly those up to the highest started hook and that the living workers are
among the started hooks, which is the reverse order of the stops.  For the
refinement two parts are needed beyond the invariants: `ProbesReady`, that whoever
is on the way into the Once found the process ready, so that the announcement
comes after the last component, and `StartsInTurn`, that a worker is new when its
hook starts.  Before the first stop the open components are the ready ones, which
makes `StartComponent` an `Open` that nothing was closed before; the state of a
worker after a step is read off the invariant after it, so `Run` needs no case for
each gate.  TLC has checked these parts on the instance of `Lifecycle`.

**Tenants.**  What a start, an event handler or the cleanup worker acts on is
arbitrarily old, so the invariant is about what each of them has read:
`OnlyKnown` and `OnlyGone` say that whoever is about to mark or erase a tenant is
right, `Timely` that each `delete_after`, also one that is computed and not yet
written, is late enough, and `Migrates` that a migration under way finds its
tenant active.  `OnlyGone` is an invariant only because a deletion is for good;
the three theorems therefore assume `~Recreate`, and `TenantsReuse` shows that
this is needed.  For the refinement the same parts say that each write of the
status and each drop is one the promise allows now, not when the list, the event
or the record was read: `Deactivate` and `Drop` need `OnlyGone` and `Timely`,
`Migrate` needs `Migrates`.

**Repository.**  None of the promises is inductive.  The heart is `HeldCurrent`:
whatever a client holds is not newer than the document, and an object of the
document's version has the document's edits, so that a replacement whose version
matches can only add one.  `Reserved` says that what a transaction has written
still matches when it commits and that no two transactions have written the same
document; `InUse` that an id is not inserted a second time after its deletion,
when old objects of it may still be held; `EditsIssued` that a new edit is new.
The proof has one lemma per action, and single updates and commits share
`ReplacedInv`.  The refinement (`Atomic`) uses `IInv` and one more part,
`OpenEditsNew`: the edit of an open transaction is nowhere yet, so that a commit,
however often the driver ran its function, is the promise's `UpdateAll` with a new
edit on the documents as they are then, not as they were in its snapshot.

**Calls.**  `SlotsConserved` is inductive on top of the types: taking and giving
back a slot changes the set of running handlers by one member, which
`FS_AddElement` and `FS_RemoveElement` count.  The other two are not.
`RunsExplained` needs
`LostButLast`: every run of a handler has lost its answer, except the one that is
running or whose answer ended the call; for this a request must be in the server
only for a call that waits or timed out, never on a dead connection (`Served`).
`LostButLast` is exact, the numbers are equal and not only bounded, because the
refinement needs both directions: that an answer of the handler stands for a run
whose answer was not lost, and that an error other than a timeout or a deadline
stands for none.  It was this proof's first attempt that showed `lost` counting
the cut-off answers of requests that no handler had run for.
`FailureHasCause` needs `Causes`: a call that is going on while the server is down,
one on a dead connection, and one in its final attempt beside dead idle connections
already has a cause.  The last part is where `CloseIdleConnections` counts: it is
what makes the final attempt start from an empty pool, so that connections which
died before the call cannot fail it, however many they are and however few
retries the pool's size leaves.  A lemma says what a failing attempt does
to a call (`ConnectionErrorMoves`, `ExpiredMoves`, `DoneMoves`), one what any step
of the client does to the invariant (`MovesInv`), and `ReplyInv` and `InsideInv`
do the same for the server.

**Pipeline.**  `RightTenant` comes from one lemma about the chain
(`HandledEntitled`): a handled request has a right to the tenant of its context,
unless nothing looked at its token; for a call onward the slug is the context's,
so the right is the first caller's.  `NeverAhead` needs `WrittenTogether`: a
tenant's messages are exactly the versions its aggregate has had.
`DeadLettersExplained` needs `TriesExplained`: a record that is not late has used
its tries for faults, and one for losing the race for the first insert, after
which there is a projection that it replaces.  `SchemaWhereWritten` is two lemmas
about `MongoConfig`, for every configuration.  With `ImplementsAtLeastOnce` and
`PromiseKept` the theorems about
`Pipeline` hold of any outbox and consumer that behave as `Outbox` and `Consumer`
do, as far as the two promises tell them apart, and of callers who send after the
commit.  That the number of retries is a
number for every accepted configuration (`RetriesAreSet`, `DefaultsApplied`) is
part of the types.

**Only model-checked:** all liveness (`EventuallySent`, `ClientDrains`,
`EventuallySettled`, `EventuallyCommitted`, `GatedWorkersRun`, `StopCompletes`,
`FatalErrorStops`, `CreatedEventuallyServed`, `StartsRepair`, `EventuallyEnds`,
`Converges`):
fairness and ENABLED are out of the prover's reach.  So is induction over data;
no module that is proved about declares a RECURSIVE operator.

## 5. What is not modelled

See `components` in `PROJECT.json`.  Payloads, tracing, logging, metrics and
static pages nowhere matter to a property; of headers only the tenant and the
token do.  Not modelled of components that are:

* the queries of the repository, which change nothing, and the text of their
  filters;
* the rate limiter's tokens (a library's) and the construction of gRPC
  connections;
* how YAML files and the environment are merged, and how a URI is parsed: a
  configuration is what the merge gave, a connection string what it means;
* the signature of a token: it is valid or not;
* a second `AddComponent` under one name, which is logged and gets a mark that does
  nothing: the name is ready when its first owner is;
* the read preference of the MongoDB client: no property depends on it;
* migrations inside golang-migrate: they succeed, fail, or are cut off by a crash.

The models take MongoDB's single-document operations as atomic and its
transactions as all-or-nothing, and a Kafka client as a queue that keeps its
records in order.  `worker.Stop` may give up on a worker when the stop context
ends; `Lifecycle` has it, `Outbox` and `Consumer` cover it by `Crash`.
`Pipeline` uses the promises `AtLeastOnce` and `Delivery` without their expiry
and their commits: the TTL is `Outbox`'s subject, and a commit only disables
redeliveries.

Hazards with a remark about what their properties leave open are in
`PROJECT.json`, in their notes.

## 6. Plan

Done: `Outbox`, `Consumer`, `Lifecycle`, `Tenants`, `Repository` and `Calls`, each
with an abstract specification that it is proved to implement, the configurations
and access rules, the composition `Pipeline`, and the proofs of every safety
property that a passing run checks.  What could come next:

1. `TenantRegistry` and `Service` in `Pipeline`, for tenants that come and go and
   instances that start and stop while requests are served;
2. several partitions and a cooperative rebalance, if the consumer moves to one;
3. the rate limiter in `Calls`, with two windows of its tokens.
