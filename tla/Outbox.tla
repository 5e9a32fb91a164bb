------------------------------- MODULE Outbox -------------------------------
(***************************************************************************)
(* The transactional outbox of pkg/kafka/outbox.                           *)
(*                                                                         *)
(* A service stores a message in the "outbox" collection inside its own    *)
(* MongoDB transaction (outbox.Create) and, after the commit, hands the    *)
(* entity to the Sender through entitiesChan (SendFunc).  A Fetcher leases *)
(* the documents nobody confirmed in time and feeds them into the same     *)
(* channel; the Sender gives each entity to the Kafka client, whose        *)
(* promise callback puts a ConfirmResult into confirmChan; the Confirmer   *)
(* collects results and marks the documents SENT in batches, each batch in *)
(* a goroutine of its own.  Several replicas (Instances) of the service    *)
(* share the collection and may stop, crash and restart at any point.      *)
(*                                                                         *)
(* Time: one Tick is one unit of the deadlines; lockExpiresAt and          *)
(* nextAttemptAfter are kept as the ticks left until the filter            *)
(* "deadline < now" accepts them (0: the deadline has passed), so the      *)
(* clock itself needs no bound.                                            *)
(***************************************************************************)
EXTENDS Integers, Sequences, FiniteSets, FiniteSetsExt, SequencesExt

CONSTANTS
    Messages,       \* outbox messages, all of one topic and key
    Instances,      \* replicas of the service
    NoMessage,      \* "no entity"
    CreateDelay,    \* ticks of the lock and first attempt set by Create (10s)
    LockLease,      \* ticks of the lock set by FetchAndLock (30s)
    BaseBackoff,    \* ticks of the first retry delay (30s)
    MaxBackoff,     \* ticks of Config.MaxBackoff
    AttemptCap,     \* attemptsToSend saturates here: the backoff no longer grows
    EntitiesCap,    \* capacity of entitiesChan (100)
    ConfirmCap,     \* capacity of confirmChan (1000)
    BatchSize,      \* results the Confirmer flushes at (100)
    MaxBuffered,    \* MaxBufferedRecords of the Kafka client
    TTLTicks,       \* ticks of the TTL index; 0: runs shorter than the TTL
    MaxCopies,      \* bound: copies of one message on their way when it is fetched
    MaxStops        \* bound: stops and crashes in one behaviour

ASSUME OutboxAssumption ==
    /\ NoMessage \notin Messages
    /\ CreateDelay \in Nat \ {0} /\ LockLease \in Nat \ {0}
    /\ BaseBackoff \in Nat \ {0} /\ MaxBackoff \in Nat \ {0}
    /\ EntitiesCap \in Nat \ {0} /\ ConfirmCap \in Nat \ {0}
    /\ BatchSize \in Nat \ {0} /\ MaxBuffered \in Nat \ {0}
    /\ AttemptCap \in Nat /\ TTLTicks \in Nat
    /\ MaxCopies \in Nat /\ MaxStops \in Nat

VARIABLES
    \* the MongoDB collection "outbox"
    status,     \* status[m]: the document's status
    attempts,   \* attempts[m]: attemptsToSend
    lockLeft,   \* lockLeft[m]: ticks until lockExpiresAt < now
    nextLeft,   \* nextLeft[m]: ticks until nextAttemptAfter < now
    age,        \* age[m]: ticks since createdAt, up to TTLTicks
    older,      \* <<m, n>>: both are due, and m's nextAttemptAfter passed before n's
    \* the Kafka topic
    topic,      \* messages in the order of their first record
    duplicates, \* messages with more than one record
    \* one running process per instance
    phase,      \* where the process is between start and exit
    txn,        \* txn[p]: messages created in a still open transaction
    sendFunc,   \* sendFunc[p]: committed messages whose SendFunc has not returned
    fetched,    \* fetched[p]: the entity the Fetcher is about to hand over
    entities,   \* entities[p]: entitiesChan
    producing,  \* producing[p]: records buffered or in flight in the client
    promises,   \* promises[p]: finished records whose callback has not returned
    confirms,   \* confirms[p]: confirmChan
    results,    \* results[p]: the Confirmer's unflushed results
    confirming, \* confirming[p][ids]: running handleConfirmation calls for ids
    \* bounds and history
    stops,      \* stops and crashes so far
    commitLog,  \* messages in commit order
    late        \* messages a copy of which outlived its lease or was lost by a fault

docVars == <<status, attempts, lockLeft, nextLeft, age, older>>
topicVars == <<topic, duplicates>>
callVars == <<txn, sendFunc>>
pipeVars == <<fetched, entities, producing, promises, confirms, results, confirming>>
vars == <<docVars, topicVars, phase, callVars, pipeVars, stops, commitLog, late>>

Statuses == {"None", "Uncommitted", "Aborted", "PROCESSING", "SENT", "Expired"}

\* The hooks run in the reverse order of their registration: the Confirmer is
\* cancelled and awaited first, then the Sender, the Fetcher and the client.
Phases == {"running", "stopConfirmer", "stopSender", "stopFetcher", "closeClient", "down"}

ConfirmResult == [id : Messages, ok : BOOLEAN]

Smaller(a, b) == IF a < b THEN a ELSE b

Without(S) == {pair \in older : pair[1] \notin S /\ pair[2] \notin S}

AllIds(rs) == {r.id : r \in Range(rs)}                      \* mutant: Err not skipped
OkIds(rs) == {r.id : r \in {x \in Range(rs) : x.ok}}
-----------------------------------------------------------------------------
NoBatches == [ids \in SUBSET Messages |-> 0]

Init ==
    /\ status = [m \in Messages |-> "None"]
    /\ attempts = [m \in Messages |-> 0]
    /\ lockLeft = [m \in Messages |-> 0]
    /\ nextLeft = [m \in Messages |-> 0]
    /\ age = [m \in Messages |-> 0]
    /\ older = {}
    /\ topic = <<>>
    /\ duplicates = {}
    /\ phase = [p \in Instances |-> "running"]
    /\ txn = [p \in Instances |-> {}]
    /\ sendFunc = [p \in Instances |-> {}]
    /\ fetched = [p \in Instances |-> NoMessage]
    /\ entities = [p \in Instances |-> <<>>]
    /\ producing = [p \in Instances |-> <<>>]
    /\ promises = [p \in Instances |-> <<>>]
    /\ confirms = [p \in Instances |-> <<>>]
    /\ results = [p \in Instances |-> <<>>]
    /\ confirming = [p \in Instances |-> NoBatches]
    /\ stops = 0
    /\ commitLog = <<>>
    /\ late = {}

Alive(p) == phase[p] # "down"

\* A worker whose context is cancelled may still win one more select (for the
\* Confirmer this changes nothing: what it then receives is lost at its exit).
FetcherOn(p) == phase[p] \in {"running", "stopConfirmer", "stopSender", "stopFetcher"}
SenderOn(p) == phase[p] \in {"running", "stopConfirmer", "stopSender"}

\* The copies in p's channels and buffers, from entitiesChan to the Confirmer.
Pipe(p) ==
    entities[p] \o producing[p]
        \o [i \in DOMAIN (promises[p] \o confirms[p] \o results[p]) |->
               (promises[p] \o confirms[p] \o results[p])[i].id]

\* p still holds a copy of m, from the open transaction to the unfinished
\* UpdateAsSentByIDs.
Holds(p, m) ==
    \/ m \in txn[p] \cup sendFunc[p]
    \/ m = fetched[p]
    \/ m \in Range(Pipe(p))
    \/ \E ids \in SUBSET Messages : m \in ids /\ confirming[p][ids] > 0

\* How many copies of m are past entitiesChan's entrance, over all processes.
Copies(m) ==
    MapThenSumSet(LAMBDA p :
        Len(SelectSeq(Pipe(p), LAMBDA x : x = m))
          + MapThenSumSet(LAMBDA ids : confirming[p][ids], {ids \in SUBSET Messages : m \in ids}),
        Instances)

InPipeline(m) == \E p \in Instances : Holds(p, m)
-----------------------------------------------------------------------------
(* The calling service: outbox.Create in a transaction, commit, SendFunc.  *)

\* The repository's Create: the Fetcher leaves a new document alone until
\* the SendFunc has had its time.
InsertEntity(m) ==
    /\ status' = [status EXCEPT ![m] = "Uncommitted"]
    /\ lockLeft' = [lockLeft EXCEPT ![m] = CreateDelay]
    /\ nextLeft' = [nextLeft EXCEPT ![m] = CreateDelay]

Create(p, m) ==
    /\ Alive(p)
    /\ status[m] = "None"
    /\ InsertEntity(m)
    /\ txn' = [txn EXCEPT ![p] = @ \cup {m}]
    /\ UNCHANGED <<attempts, age, older, topicVars, phase, sendFunc, pipeVars,
                   stops, commitLog, late>>

Commit(p, m) ==
    /\ m \in txn[p]
    /\ status' = [status EXCEPT ![m] = "PROCESSING"]
    /\ txn' = [txn EXCEPT ![p] = @ \ {m}]
    /\ sendFunc' = [sendFunc EXCEPT ![p] = @ \cup {m}]
    /\ commitLog' = Append(commitLog, m)
    /\ UNCHANGED <<attempts, lockLeft, nextLeft, age, older, topicVars, phase, pipeVars,
                   stops, late>>

Abort(p, m) ==
    /\ m \in txn[p]
    /\ status' = [status EXCEPT ![m] = "Aborted"]
    /\ txn' = [txn EXCEPT ![p] = @ \ {m}]
    /\ UNCHANGED <<attempts, lockLeft, nextLeft, age, older, topicVars, phase, sendFunc,
                   pipeVars, stops, commitLog, late>>

\* "case o.entitiesChan <- entity".
SendFuncEnqueue(p, m) ==
    /\ m \in sendFunc[p]
    /\ Len(entities[p]) < EntitiesCap
    /\ entities' = [entities EXCEPT ![p] = Append(@, m)]
    /\ sendFunc' = [sendFunc EXCEPT ![p] = @ \ {m}]
    /\ UNCHANGED <<docVars, topicVars, phase, txn, fetched, producing, promises,
                   confirms, results, confirming, stops, commitLog, late>>

\* The caller's context ends or the timer fires: the entity is dropped.
SendFuncDrop(p, m) ==
    /\ m \in sendFunc[p]
    /\ sendFunc' = [sendFunc EXCEPT ![p] = @ \ {m}]
    /\ UNCHANGED <<docVars, topicVars, phase, txn, pipeVars, stops, commitLog, late>>
-----------------------------------------------------------------------------
(* The Fetcher.                                                            *)

Backoff(n) == Smaller(BaseBackoff * 2^n, MaxBackoff)

\* The part of the filter that is not the lock.
Due(m) == status[m] = "PROCESSING" /\ nextLeft[m] = 0

DueFirst(m) == Due(m) /\ ~\E n \in Messages : <<n, m>> \in older  \* mutant: lock not looked at

\* The document FindOneAndUpdate picks: the first, in the order of
\* nextAttemptAfter, of those that match the filter.
Lockable(m) ==
    /\ Due(m)
    /\ lockLeft[m] = 0
    /\ \A n \in Messages : <<n, m>> \in older => lockLeft[n] > 0

\* FindOneAndUpdate is atomic; when its answer is lost, or the context ends
\* first, the lease is taken and the Fetcher gets an error instead of the entity.
FetchAndLock(p, m) ==
    /\ FetcherOn(p)
    /\ fetched[p] = NoMessage
    /\ Lockable(m)
    /\ Copies(m) < MaxCopies
    /\ lockLeft' = [lockLeft EXCEPT ![m] = LockLease]
    /\ nextLeft' = [nextLeft EXCEPT ![m] = Backoff(attempts[m])]
    /\ attempts' = [attempts EXCEPT ![m] = Smaller(@ + 1, AttemptCap)]
    /\ older' = Without({m})
    /\ \E answer \in {m, NoMessage} : fetched' = [fetched EXCEPT ![p] = answer]
    /\ UNCHANGED <<status, age, topicVars, phase, callVars, entities, producing,
                   promises, confirms, results, confirming, stops, commitLog, late>>

FetcherHandOver(p) ==
    /\ FetcherOn(p)
    /\ fetched[p] # NoMessage
    /\ Len(entities[p]) < EntitiesCap
    /\ entities' = [entities EXCEPT ![p] = Append(@, fetched[p])]
    /\ fetched' = [fetched EXCEPT ![p] = NoMessage]
    /\ UNCHANGED <<docVars, topicVars, phase, callVars, producing, promises, confirms,
                   results, confirming, stops, commitLog, late>>
-----------------------------------------------------------------------------
(* The Sender and the Kafka client.                                        *)

\* Produce blocks while the client holds MaxBuffered records.
SenderSend(p) ==
    /\ SenderOn(p)
    /\ entities[p] # <<>>
    /\ Len(producing[p]) + Len(promises[p]) < MaxBuffered
    /\ producing' = [producing EXCEPT ![p] = Append(@, Head(entities[p]))]
    /\ entities' = [entities EXCEPT ![p] = Tail(@)]
    /\ UNCHANGED <<docVars, topicVars, phase, callVars, fetched, promises, confirms,
                   results, confirming, stops, commitLog, late>>

AppendRecord(m) ==
    IF m \in Range(topic)
    THEN topic' = topic /\ duplicates' = duplicates \cup {m}
    ELSE topic' = Append(topic, m) /\ duplicates' = duplicates

FinishWithoutErr(p, ok) ==                                 \* mutant: Err not passed on
    /\ producing' = [producing EXCEPT ![p] = Tail(@)]
    /\ promises' = [promises EXCEPT ![p] = Append(@, [id |-> Head(producing[p]), ok |-> TRUE])]

\* The record leaves the buffer and its callback is due.
Finish(p, ok) ==
    /\ producing' = [producing EXCEPT ![p] = Tail(@)]
    /\ promises' = [promises EXCEPT ![p] = Append(@, [id |-> Head(producing[p]), ok |-> ok])]

KafkaWrite(p) ==
    /\ Alive(p)
    /\ producing[p] # <<>>
    /\ AppendRecord(Head(producing[p]))
    /\ Finish(p, TRUE)
    /\ UNCHANGED <<docVars, phase, callVars, fetched, entities, confirms, results,
                   confirming, stops, commitLog, late>>

\* Delivery timeout, cancelled context or a closed client: nothing was written.
KafkaFail(p) ==
    /\ Alive(p)
    /\ producing[p] # <<>>
    /\ Finish(p, FALSE)
    /\ UNCHANGED <<docVars, topicVars, phase, callVars, fetched, entities, confirms,
                   results, confirming, stops, commitLog, late>>

\* The record was written but its acknowledgement was lost.
KafkaAckLost(p) ==
    /\ Alive(p)
    /\ producing[p] # <<>>
    /\ AppendRecord(Head(producing[p]))
    /\ Finish(p, FALSE)
    /\ late' = late \cup {Head(producing[p])}
    /\ UNCHANGED <<docVars, phase, callVars, fetched, entities, confirms, results,
                   confirming, stops, commitLog>>

\* "confirmChan <- ConfirmResult{...}": blocks the client while the channel is full.
Promise(p) ==
    /\ Alive(p)
    /\ promises[p] # <<>>
    /\ Len(confirms[p]) < ConfirmCap
    /\ confirms' = [confirms EXCEPT ![p] = Append(@, Head(promises[p]))]
    /\ promises' = [promises EXCEPT ![p] = Tail(@)]
    /\ UNCHANGED <<docVars, topicVars, phase, callVars, fetched, entities, producing,
                   results, confirming, stops, commitLog, late>>
-----------------------------------------------------------------------------
(* The Confirmer.                                                          *)

\* flush() starts handleConfirmation, which returns at once without an Ok id.
Flush(p, rs) ==
    /\ results' = [results EXCEPT ![p] = <<>>]
    /\ confirming' = IF OkIds(rs) = {}
                     THEN confirming
                     ELSE [confirming EXCEPT ![p][OkIds(rs)] = @ + 1]

ReceivesOk(p) == confirms[p] # <<>> /\ Head(confirms[p]).ok  \* mutant: stops at an Err
Receives(p) == confirms[p] # <<>>

ConfirmerReceive(p) ==
    /\ phase[p] = "running"
    /\ Receives(p)
    /\ confirms' = [confirms EXCEPT ![p] = Tail(@)]
    /\ LET rs == Append(results[p], Head(confirms[p]))
       IN  IF Len(rs) = BatchSize
           THEN Flush(p, rs)
           ELSE /\ results' = [results EXCEPT ![p] = rs]
                /\ UNCHANGED confirming
    /\ UNCHANGED <<docVars, topicVars, phase, callVars, fetched, entities, producing,
                   promises, stops, commitLog, late>>

ConfirmerTick(p) ==
    /\ phase[p] = "running"
    /\ Flush(p, results[p])
    /\ UNCHANGED <<docVars, topicVars, phase, callVars, fetched, entities, producing,
                   promises, confirms, stops, commitLog, late>>

BatchDoneTwice(p, ids) == confirming' = [confirming EXCEPT ![p][ids] = @ - 2]  \* mutant
BatchDone(p, ids) == confirming' = [confirming EXCEPT ![p][ids] = @ - 1]

Leased(ids) == {m \in ids : status[m] = "PROCESSING" /\ lockLeft[m] > 0}  \* mutant: fenced

\* The update matches by _id alone: every document of ids that still exists.
Matched(ids) == {m \in ids : status[m] \in {"PROCESSING", "SENT"}}

UpdateAsSentByIDs(p, ids) ==
    /\ Alive(p)
    /\ confirming[p][ids] > 0
    /\ LET stored == Matched(ids)
       IN  /\ status' = [m \in Messages |-> IF m \in stored THEN "SENT" ELSE status[m]]
           /\ lockLeft' = [m \in Messages |-> IF m \in stored THEN 0 ELSE lockLeft[m]]
           /\ nextLeft' = [m \in Messages |-> IF m \in stored THEN 0 ELSE nextLeft[m]]
           /\ older' = Without(stored)
    /\ BatchDone(p, ids)
    /\ UNCHANGED <<attempts, age, topicVars, phase, callVars, fetched, entities,
                   producing, promises, confirms, results, stops, commitLog, late>>

\* The error is logged and the batch forgotten.
UpdateFails(p, ids) ==
    /\ Alive(p)
    /\ confirming[p][ids] > 0
    /\ BatchDone(p, ids)
    /\ late' = late \cup ids
    /\ UNCHANGED <<docVars, topicVars, phase, callVars, fetched, entities, producing,
                   promises, confirms, results, stops, commitLog>>
-----------------------------------------------------------------------------
(* Shutdown, crash and restart.                                            *)

BeginStop(p) ==
    /\ phase[p] = "running"
    /\ stops < MaxStops
    /\ stops' = stops + 1
    /\ phase' = [phase EXCEPT ![p] = "stopConfirmer"]
    /\ UNCHANGED <<docVars, topicVars, callVars, pipeVars, commitLog, late>>

\* The last flush() runs handleConfirmation with the cancelled worker context,
\* so its UpdateMany returns the context error without reaching the server;
\* wg.Wait then waits for the batches that were running already.
ConfirmerExit(p) ==
    /\ phase[p] = "stopConfirmer"
    /\ confirming[p] = NoBatches
    /\ late' = late \cup OkIds(results[p])
    /\ results' = [results EXCEPT ![p] = <<>>]
    /\ phase' = [phase EXCEPT ![p] = "stopSender"]
    /\ UNCHANGED <<docVars, topicVars, callVars, fetched, entities, producing, promises,
                   confirms, confirming, stops, commitLog>>

SenderExit(p) ==
    /\ phase[p] = "stopSender"
    /\ phase' = [phase EXCEPT ![p] = "stopFetcher"]
    /\ UNCHANGED <<docVars, topicVars, callVars, pipeVars, stops, commitLog, late>>

\* An entity the Fetcher had not handed over is dropped, its lease still taken.
FetcherExit(p) ==
    /\ phase[p] = "stopFetcher"
    /\ phase' = [phase EXCEPT ![p] = "closeClient"]
    /\ fetched' = [fetched EXCEPT ![p] = NoMessage]
    /\ UNCHANGED <<docVars, topicVars, callVars, entities, producing, promises, confirms,
                   results, confirming, stops, commitLog, late>>

\* The process is gone: channels, buffers and goroutines with it; MongoDB rolls
\* back its open transactions.
Die(p) ==
    /\ phase' = [phase EXCEPT ![p] = "down"]
    /\ late' = late \cup {m \in Messages : Holds(p, m)}
    /\ status' = [m \in Messages |-> IF m \in txn[p] THEN "Aborted" ELSE status[m]]
    /\ txn' = [txn EXCEPT ![p] = {}]
    /\ sendFunc' = [sendFunc EXCEPT ![p] = {}]
    /\ fetched' = [fetched EXCEPT ![p] = NoMessage]
    /\ entities' = [entities EXCEPT ![p] = <<>>]
    /\ producing' = [producing EXCEPT ![p] = <<>>]
    /\ promises' = [promises EXCEPT ![p] = <<>>]
    /\ confirms' = [confirms EXCEPT ![p] = <<>>]
    /\ results' = [results EXCEPT ![p] = <<>>]
    /\ confirming' = [confirming EXCEPT ![p] = NoBatches]
    /\ UNCHANGED <<attempts, lockLeft, nextLeft, age, older, topicVars, commitLog>>

ClientClose(p) ==
    /\ phase[p] = "closeClient"
    /\ Die(p)
    /\ UNCHANGED stops

Crash(p) ==
    /\ Alive(p)
    /\ stops < MaxStops
    /\ stops' = stops + 1
    /\ Die(p)

Restart(p) ==
    /\ phase[p] = "down"
    /\ phase' = [phase EXCEPT ![p] = "running"]
    /\ UNCHANGED <<docVars, topicVars, callVars, pipeVars, stops, commitLog, late>>
-----------------------------------------------------------------------------
(* Time and the TTL index on createdAt.                                    *)

Countdown(left) == [m \in Messages |-> IF left[m] > 0 THEN left[m] - 1 ELSE 0]

\* Deadlines that pass in the same tick are in either order.
Tick ==
    /\ lockLeft' = Countdown(lockLeft)
    /\ nextLeft' = Countdown(nextLeft)
    /\ age' = [m \in Messages |-> IF status[m] = "None" THEN 0 ELSE Smaller(age[m] + 1, TTLTicks)]
    /\ older' = older \cup ({m \in Messages : Due(m)}
                              \X {m \in Messages : status[m] = "PROCESSING" /\ nextLeft[m] = 1})
    /\ late' = late \cup {m \in Messages : lockLeft[m] = 1 /\ InPipeline(m)}
    /\ UNCHANGED <<status, attempts, topicVars, phase, callVars, pipeVars, stops, commitLog>>

\* The TTL monitor deletes by createdAt alone, sent or not.
Expire(m) ==
    /\ TTLTicks > 0
    /\ age[m] = TTLTicks
    /\ status[m] \in {"PROCESSING", "SENT"}
    /\ status' = [status EXCEPT ![m] = "Expired"]
    /\ older' = Without({m})
    /\ UNCHANGED <<attempts, lockLeft, nextLeft, age, topicVars, phase, callVars, pipeVars,
                   stops, commitLog, late>>
-----------------------------------------------------------------------------
Caller(p) == \E m \in Messages : Create(p, m) \/ Commit(p, m) \/ Abort(p, m)
                                 \/ SendFuncEnqueue(p, m) \/ SendFuncDrop(p, m)
Fetcher(p) == (\E m \in Messages : FetchAndLock(p, m)) \/ FetcherHandOver(p)
Broker(p) == KafkaWrite(p) \/ KafkaFail(p) \/ KafkaAckLost(p)
Confirmer(p) == ConfirmerReceive(p) \/ ConfirmerTick(p)
Batch(p) == \E ids \in SUBSET Messages : UpdateAsSentByIDs(p, ids) \/ UpdateFails(p, ids)
Stop(p) == BeginStop(p) \/ ConfirmerExit(p) \/ SenderExit(p) \/ FetcherExit(p) \/ ClientClose(p)

Next ==
    \/ \E p \in Instances :
           \/ Caller(p) \/ Fetcher(p) \/ SenderSend(p) \/ Broker(p) \/ Promise(p)
           \/ Confirmer(p) \/ Batch(p) \/ Stop(p) \/ Crash(p) \/ Restart(p)
    \/ Tick
    \/ \E m \in Messages : Expire(m)

Spec == Init /\ [][Next]_vars

\* What the Go scheduler, a running Kafka and a running MongoDB owe: every
\* worker keeps running, a process that is down or stopping moves on, time
\* passes, and for no message does the broker refuse every record or MongoDB
\* every update.
Fairness ==
    /\ WF_vars(Tick)
    /\ \A p \in Instances :
        /\ SF_vars(\E m \in Messages : FetchAndLock(p, m) /\ fetched'[p] = m)
        /\ WF_vars(FetcherHandOver(p))
        /\ WF_vars(SenderSend(p))
        /\ WF_vars(Broker(p))
        /\ WF_vars(Promise(p))
        /\ WF_vars(ConfirmerReceive(p))
        /\ WF_vars(ConfirmerTick(p))
        /\ WF_vars(Restart(p))
        /\ WF_vars(ConfirmerExit(p) \/ SenderExit(p) \/ FetcherExit(p) \/ ClientClose(p))
        /\ WF_vars(Batch(p))
        /\ \A m \in Messages :
            /\ SF_vars(KafkaWrite(p) /\ m = Head(producing[p]))
            /\ SF_vars(\E ids \in SUBSET Messages : m \in ids /\ UpdateAsSentByIDs(p, ids))

FairSpec == Spec /\ Fairness
-----------------------------------------------------------------------------
TypeOK ==
    /\ status \in [Messages -> Statuses]
    /\ attempts \in [Messages -> Nat]
    /\ lockLeft \in [Messages -> Nat]
    /\ nextLeft \in [Messages -> Int]
    /\ age \in [Messages -> Nat]
    /\ older \subseteq Messages \X Messages
    /\ topic \in Seq(Messages)
    /\ duplicates \subseteq Messages
    /\ phase \in [Instances -> Phases]
    /\ txn \in [Instances -> SUBSET Messages]
    /\ sendFunc \in [Instances -> SUBSET Messages]
    /\ fetched \in [Instances -> Messages \cup {NoMessage}]
    /\ entities \in [Instances -> Seq(Messages)]
    /\ producing \in [Instances -> Seq(Messages)]
    /\ promises \in [Instances -> Seq(ConfirmResult)]
    /\ confirms \in [Instances -> Seq(ConfirmResult)]
    /\ results \in [Instances -> Seq(ConfirmResult)]
    /\ confirming \in [Instances -> [SUBSET Messages -> Nat]]
    /\ stops \in Nat
    /\ commitLog \in Seq(Messages)
    /\ late \subseteq Messages

\* A document is SENT only when Kafka has its message: of all the results, of
\* any replica and any age, that travel through confirmChan and the batches,
\* none counts a record that was not written.
SentIsPublished == \A m \in Messages : status[m] = "SENT" => m \in Range(topic)

\* A committed message is never lost but to the TTL index: until Kafka has it,
\* its document stays PROCESSING, and so is leased again, whatever channel
\* overflow, failed record, shutdown or crash dropped the copies of it.
ReliableDelivery ==
    \A m \in Range(commitLog) \ Range(topic) :
        status[m] = "PROCESSING" \/ (status[m] = "Expired" /\ age[m] = TTLTicks)

\* The locks of Create and FetchAndLock keep two copies of a message apart,
\* between the Fetcher and a SendFunc and between replicas: a message has a
\* second record only when a lease ran out under a copy still on its way, or a
\* fault lost what was known of a copy.
DuplicateHasCause == duplicates \subseteq late

\* Why the two invariants above hold, as an inductive invariant.  Only messages
\* of committed transactions travel through the channels.
Committed == {m \in Messages : status[m] \in {"PROCESSING", "SENT", "Expired"}}

OnlyCommittedTravels ==
    \A p \in Instances :
        /\ \A m \in txn[p] : status[m] = "Uncommitted"
        /\ \A q \in Instances \ {p} : txn[p] \cap txn[q] = {}
        /\ sendFunc[p] \subseteq Committed
        /\ fetched[p] \in Committed \cup {NoMessage}
        /\ Range(entities[p]) \subseteq Committed
        /\ Range(producing[p]) \subseteq Committed

\* A result without Err, and a batch being confirmed, speak of written records.
ResultsAreTrue ==
    \A p \in Instances :
        /\ OkIds(promises[p]) \subseteq Range(topic)
        /\ OkIds(confirms[p]) \subseteq Range(topic)
        /\ OkIds(results[p]) \subseteq Range(topic)
        /\ \A ids \in SUBSET Messages : confirming[p][ids] > 0 => ids \subseteq Range(topic)

StoreMatchesTopic ==
    /\ Range(topic) \subseteq Committed
    /\ Range(commitLog) = Committed
    /\ SentIsPublished
    /\ \A m \in Messages : status[m] = "Expired" => age[m] = TTLTicks

IInv == TypeOK /\ OnlyCommittedTravels /\ ResultsAreTrue /\ StoreMatchesTopic

\* What a document is to the caller: one that is not committed does not exist.
StoredAs ==
    [m \in Messages |->
        CASE status[m] = "PROCESSING" -> "pending"
          [] status[m] = "SENT" -> "sent"
          [] status[m] = "Expired" -> "expired"
          [] OTHER -> "absent"]

Abstract == INSTANCE AtLeastOnce WITH stored <- StoredAs, published <- Range(topic)

\* Every behaviour of the workers, channels and leases is one of the promise.
AtLeastOnceSpec == Abstract!Spec

\* A committed message is eventually marked SENT, through finitely many stops
\* and crashes, failed records, lost acknowledgements and failed updates.
EventuallySent ==
    \A m \in Messages : (status[m] = "PROCESSING") ~> (status[m] = "SENT")

\* The channels cannot block each other for ever: what the client holds always
\* leaves it, although its callbacks block on confirmChan and Produce on it.
ClientDrains == \A p \in Instances : (promises[p] # <<>>) ~> (promises[p] = <<>>)
=============================================================================
