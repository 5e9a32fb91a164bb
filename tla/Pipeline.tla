------------------------------ MODULE Pipeline ------------------------------
(***************************************************************************)
(* A change on its way through the system: a request passes the chain of   *)
(* interceptors of one service, directly or by a call from another one;    *)
(* the handler writes an aggregate and an outbox message in one            *)
(* transaction; the outbox publishes it (AtLeastOnce); the consumer of a   *)
(* third service is handed the records (Delivery) and keeps a projection   *)
(* with UpsertIfNewer.  The tenant travels along: in the request's header, *)
(* in the context, in the record's header, in the context again.           *)
(*                                                                         *)
(* With tenancy every tenant has a database of its own, and NoTenant       *)
(* stands for the base database; without it there is only that one.        *)
(***************************************************************************)
EXTENDS Access, Sequences, FiniteSets

Kafka == INSTANCE KafkaConfig
Mongo == INSTANCE MongoConfig

CONSTANTS
    Systems,        \* configurations of the three services
    ConsumerName,   \* the name the projecting service registers
    Callers,        \* tokens callers have
    Members,        \* members of the consumer group
    MaxWrites,      \* bound: transactions that commit
    MaxFaults,      \* bound: attempts of the handler that fail in between
    MaxUpsets       \* bound: stops and crashes, records published or read again

ASSUME PipelineAssumption ==
    /\ \A s \in Systems : s.front \in Services /\ s.back \in Services /\ s.kafka \in Kafka!Configs
    /\ Callers \subseteq Tokens
    /\ MaxWrites \in Nat /\ MaxFaults \in Nat /\ MaxUpsets \in Nat

VARIABLES
    system,     \* the configuration that runs
    source,     \* source[t]: version of the aggregate in t's database, 0: none
    stored,     \* the outbox documents, as in AtLeastOnce
    topic,      \* the partition
    handling,   \* as in Delivery
    settled,
    committed,
    wronged,    \* tenants whose database was written for a caller without a right to it
    view,       \* view[t]: version of the projection in t's database, 0: none
    attempt,    \* attempt[p]: how far p's handler is
    tries,      \* tries[p]: attempts of p's handler that failed
    givenUp,    \* offsets that went to the DLQ, or would have
    jumped,     \* offsets the offset reset passed over
    cancelled,  \* offsets whose handler was cancelled by a stop
    faults, upsets

groupVars == <<handling, settled, committed>>
handlerVars == <<attempt, tries>>
boundVars == <<cancelled, faults, upsets>>
vars == <<system, source, wronged, stored, topic, groupVars, view, handlerVars, givenUp,
          jumped, boundVars>>

Messages == [tenant : Slugs, version : 1..MaxWrites]

Published == {topic[o] : o \in DOMAIN topic}

Outbox == INSTANCE AtLeastOnce WITH published <- Published
Group == INSTANCE Delivery WITH log <- [o \in DOMAIN topic |-> TRUE]

\* Load refuses the rest, or the start fails.
Starts(s) ==
    /\ JwksValid(s.front.jwks) /\ JwksValid(s.back.jwks)
    /\ CredentialsValid(s.front.credentials)
    /\ Kafka!ConsumerStarts(s.kafka, ConsumerName)
    /\ Mongo!Accepted(s.mongo)
    /\ s.back.tenancy \/ Mongo!MigrationStarts(Mongo!SingleTarget(s.mongo))

\* What Load returns.
Loaded(s) ==
    [front |-> s.front, back |-> s.back, mongo |-> Mongo!ApplyDefaults(s.mongo),
     consumer |-> Kafka!ConsumerConfig(Kafka!ApplyDefaults(s.kafka), ConsumerName)]

Running == {Loaded(s) : s \in {x \in Systems : Starts(x)}}

MaxRetries == system.consumer.settings["maxRetries"]

Init ==
    /\ system \in Running
    /\ wronged = {}
    /\ source = [t \in Slugs |-> 0]
    /\ stored = [m \in Messages |-> "absent"]
    /\ topic = <<>>
    /\ handling = [p \in Members |-> 0] /\ settled = {} /\ committed = 0
    /\ view = [t \in Slugs |-> 0]
    /\ attempt = [p \in Members |-> "none"]
    /\ tries = [p \in Members |-> 0]
    /\ givenUp = {} /\ jumped = {}
    /\ cancelled = {} /\ faults = 0 /\ upsets = 0
-----------------------------------------------------------------------------
(* Requests.                                                               *)

Event(t) == [tenant |-> t, version |-> source[t] + 1]

HeaderDropped(t) ==                           \* mutant: SaveToHeaders is not called
    /\ source' = [source EXCEPT ![t] = @ + 1]
    /\ stored' = [stored EXCEPT ![[Event(t) EXCEPT !.tenant = NoTenant]] = "pending"]
\* One transaction: the aggregate with its next version, and the message with
\* the context's tenant in its headers.
WriteAndCreate(t) ==
    /\ source' = [source EXCEPT ![t] = @ + 1]
    /\ stored' = [stored EXCEPT ![Event(t)] = "pending"]

\* What has committed so far.
Writes == {m \in Messages : stored[m] # "absent"}

\* Nothing in the chain looks at the caller's token.
Unchecked(svc, r) == ~AuthEnabled(svc.jwks) \/ r.procedure = "public"

\* The back service works for a caller that sent r to svc.  An error or an
\* aborted transaction leaves nothing behind.
Serve(svc, r, t) ==
    /\ WriteAndCreate(t)
    /\ wronged' = IF t = NoTenant \/ Entitled(r.token, t) \/ Unchecked(svc, r)
                  THEN wronged ELSE wronged \cup {t}
    /\ UNCHANGED <<system, topic, groupVars, view, handlerVars, givenUp, jumped, boundVars>>

Call(r) ==
    /\ Handled(system.back, r)
    /\ Serve(system.back, r, ContextSlug(system.back, r))

\* The handler of the front service calls the back service.
CallOnward(r) ==
    /\ Handled(system.front, r)
    /\ LET onward == Onward(system.front, r, "restricted")
       IN /\ Handled(system.back, onward)
          /\ Serve(system.front, r, ContextSlug(system.back, onward))

\* A worker changes something in the base database: its context has no tenant.
Job ==
    /\ system.back.tenancy
    /\ source[NoTenant] = 0
    /\ Cardinality(Writes) < MaxWrites
    /\ WriteAndCreate(NoTenant)
    /\ UNCHANGED <<system, wronged, topic, groupVars, view, handlerVars, givenUp, jumped,
                   boundVars>>
-----------------------------------------------------------------------------
(* The outbox.                                                             *)

UncommittedSent(m) ==                         \* mutant: SendFunc called inside the transaction
    /\ topic' = Append(topic, m)
    /\ UNCHANGED stored

SentWhenStored(m) ==
    /\ topic' = Append(topic, m)
    /\ Outbox!Publish(m)

\* Out of the order of the writes.
Publish(m) ==
    /\ SentWhenStored(m)
    /\ UNCHANGED <<system, source, wronged, groupVars, view, handlerVars, givenUp, jumped,
                   cancelled, faults>>

PublishFirst == \E m \in Messages \ Published : Publish(m) /\ UNCHANGED upsets

PublishAgain ==
    /\ upsets < MaxUpsets
    /\ upsets' = upsets + 1
    /\ \E m \in Published : Publish(m)
-----------------------------------------------------------------------------
(* The consumer group.                                                     *)

Take(p, o) ==
    /\ UNCHANGED topic
    /\ Group!Take(p, o)
    /\ attempt' = [attempt EXCEPT ![p] = "trying"]
    /\ UNCHANGED <<system, source, wronged, stored, view, tries, givenUp, jumped, cancelled,
                   faults>>

\* Several members may work on one record, which a rebalance gave to another.
TakeNext(p) == \E o \in DOMAIN topic \ settled : Take(p, o) /\ UNCHANGED upsets

\* A record that was settled but not committed.
TakeAgain(p) ==
    /\ upsets < MaxUpsets
    /\ upsets' = upsets + 1
    /\ \E o \in settled : Take(p, o)

\* A member that finds no commit starts at the end.  (The group's commit is left
\* out: all it does is to disable this and TakeAgain.)
Reset ==
    /\ Kafka!StartsAtEnd(system.consumer)
    /\ UNCHANGED topic
    /\ Group!Jump
    /\ jumped' = jumped \cup (DOMAIN topic \ settled)
    /\ UNCHANGED <<system, source, wronged, stored, view, handlerVars, givenUp, boundVars>>

Crash(p) ==
    /\ handling[p] # 0
    /\ upsets < MaxUpsets
    /\ upsets' = upsets + 1
    /\ UNCHANGED topic
    /\ Group!Abandon(p)
    /\ attempt' = [attempt EXCEPT ![p] = "none"]
    /\ tries' = [tries EXCEPT ![p] = 0]
    /\ UNCHANGED <<system, source, wronged, stored, view, givenUp, jumped, cancelled, faults>>
-----------------------------------------------------------------------------
(* The handler: a Router with one projection.                              *)

Record(p) == topic[handling[p]]

\* mutant: the context is kept, and with it the record's before
KeptTenant(p) == topic[IF handling[p] = 1 THEN 1 ELSE handling[p] - 1].tenant
\* ContextFromKafkaHeaders, on the Processor's own context.
Tenant(p) == Record(p).tenant

Version(p) == Record(p).version

Newer(p) == view[Tenant(p)] \in 1..(Version(p) - 1)

AnyVersion(p) == view[Tenant(p)] > 0                        \* mutant: no version in the filter
Matches(p) == Newer(p)

Orphan(t) == system.back.tenancy /\ t = NoTenant

\* The ResultHandler marks the record, whatever became of it.
Settle(p) ==
    /\ UNCHANGED topic
    /\ Group!Decide(p)
    /\ attempt' = [attempt EXCEPT ![p] = "returned"]
    /\ tries' = [tries EXCEPT ![p] = 0]

\* To the DLQ, or it is lost if there is none or it cannot be reached.
GiveUp(p) ==
    /\ givenUp' = givenUp \cup {handling[p]}
    /\ Settle(p)

RetryOrGiveUp(p, left) ==
    \/ /\ left
       /\ tries' = [tries EXCEPT ![p] = @ + 1]
       /\ attempt' = [attempt EXCEPT ![p] = "trying"]
       /\ UNCHANGED <<topic, groupVars, givenUp>>
    \/ ~left /\ GiveUp(p)

OneTryLess(p) == RetryOrGiveUp(p, tries[p] + 1 < MaxRetries)    \* mutant

OneTryMore(p) == RetryOrGiveUp(p, tries[p] <= MaxRetries)       \* mutant

\* An error that is not permanent.
AttemptFails(p) == RetryOrGiveUp(p, tries[p] < MaxRetries)

\* MustSlugFromContext panics in the CollectionProvider: ErrPermanent.
Panic(p) ==
    /\ attempt[p] = "trying"
    /\ Orphan(Tenant(p))
    /\ GiveUp(p)
    /\ UNCHANGED <<system, source, wronged, stored, view, jumped, boundVars>>

Project(p) ==
    /\ view' = [view EXCEPT ![Tenant(p)] = Version(p)]
    /\ Settle(p)
    /\ UNCHANGED givenUp

Replace(p) ==
    /\ attempt[p] = "trying"
    /\ ~Orphan(Tenant(p))
    /\ Matches(p)
    /\ Project(p)
    /\ UNCHANGED <<system, source, wronged, stored, jumped, boundVars>>

NoMatch(p) ==
    /\ attempt[p] = "trying"
    /\ ~Orphan(Tenant(p))
    /\ ~Matches(p)
    /\ attempt' = [attempt EXCEPT ![p] = "inserting"]
    /\ UNCHANGED <<system, source, wronged, stored, topic, groupVars, view, tries, givenUp, jumped,
                   boundVars>>

\* The upsert's insert: a duplicate key when the projection exists, because it is
\* not older or because another member was faster.
Insert(p) ==
    /\ attempt[p] = "inserting"
    /\ \/ view[Tenant(p)] = 0 /\ Project(p)
       \/ view[Tenant(p)] # 0 /\ AttemptFails(p) /\ UNCHANGED view
    /\ UNCHANGED <<system, source, wronged, stored, jumped, boundVars>>

Fault(p) ==
    /\ attempt[p] \in {"trying", "inserting"}
    /\ faults < MaxFaults
    /\ faults' = faults + 1
    /\ AttemptFails(p)
    /\ UNCHANGED <<system, source, wronged, stored, view, jumped, cancelled, upsets>>

\* A stop ends the context of the record in work: no retry.
Cancel(p) ==
    /\ attempt[p] \in {"trying", "inserting"}
    /\ upsets < MaxUpsets
    /\ upsets' = upsets + 1
    /\ cancelled' = cancelled \cup {handling[p]}
    /\ GiveUp(p)
    /\ UNCHANGED <<system, source, wronged, stored, view, jumped, faults>>

Return(p) ==
    /\ attempt[p] = "returned"
    /\ UNCHANGED topic
    /\ Group!Return(p)
    /\ attempt' = [attempt EXCEPT ![p] = "none"]
    /\ UNCHANGED <<system, source, wronged, stored, view, tries, givenUp, jumped, boundVars>>
-----------------------------------------------------------------------------
Handler(p) ==
    Panic(p) \/ Replace(p) \/ NoMatch(p) \/ Insert(p) \/ Return(p)

Next ==
    \/ /\ Cardinality(Writes) < MaxWrites
       /\ \E s \in Slugs, k \in Callers \cup {Invalid}, x \in Procedures :
              LET r == [slug |-> s, token |-> k, procedure |-> x]
              IN Call(r) \/ CallOnward(r)
    \/ Job
    \/ PublishFirst \/ PublishAgain
    \/ Reset
    \/ \E p \in Members :
           \/ TakeNext(p) \/ TakeAgain(p)
           \/ Handler(p) \/ Fault(p) \/ Cancel(p) \/ Crash(p)

Spec == Init /\ [][Next]_vars

\* The outbox sends every committed message (AtLeastOnce), a member of the group
\* is handed every record, and its workers keep running (Consumer).
Fairness ==
    /\ WF_vars(PublishFirst)
    /\ WF_vars(\E p \in Members : TakeNext(p))
    /\ \A p \in Members : WF_vars(Handler(p))

FairSpec == Spec /\ Fairness
-----------------------------------------------------------------------------
(* Type: every variable has the shape the code gives it; a member without  *)
(* a record has no attempt.                                                *)
TypeOK ==
    /\ system \in Running
    /\ wronged \subseteq Tenants
    /\ source \in [Slugs -> 0..MaxWrites]
    /\ stored \in [Messages -> {"absent", "pending"}]
    /\ topic \in Seq(Messages)
    /\ handling \in [Members -> {0} \cup DOMAIN topic]
    /\ settled \subseteq DOMAIN topic
    /\ committed \in 0..(Len(topic) + 1)
    /\ view \in [Slugs -> 0..MaxWrites]
    /\ attempt \in [Members -> {"none", "trying", "inserting", "returned"}]
    /\ \A p \in Members : handling[p] = 0 <=> attempt[p] = "none"
    /\ tries \in [Members -> 0..MaxRetries]
    /\ givenUp \subseteq settled /\ jumped \subseteq settled /\ cancelled \subseteq DOMAIN topic
    /\ faults \in 0..MaxFaults /\ upsets \in 0..MaxUpsets

(* Tenants stay apart: a tenant's database is written only on behalf of a  *)
(* caller whose own token is good for that tenant, unless the procedure it *)
(* called asks for none; the call of one service by another, made with a   *)
(* token for every tenant, gives nobody another tenant                     *)
(* (tenant/interceptor.go:43-56, http/client/tenant.go:16).                *)
RightTenant == wronged = {}

(* The same on the other side: a projection is written only by an event of *)
(* its own tenant (processor.go:78, tenant/messaging.go:27).               *)
RightView ==
    [][\A t \in Slugs :
          view'[t] # view[t] =>
              \E p \in Members : handling[p] # 0 /\ topic[handling[p]].tenant = t]_vars

(* No projection is ahead of its aggregate, and no record of the topic:    *)
(* what a consumer acts on has been committed, although the send runs      *)
(* beside the transaction (outbox.go:48-79).                               *)
NeverAhead ==
    /\ \A m \in Published : m.version <= source[m.tenant]
    /\ \A t \in Slugs : view[t] <= source[t]

(* A projection never goes back, whatever the order and the number of the  *)
(* deliveries, to one member or to two at once                             *)
(* (generic_repository.go:316-336).                                        *)
ViewAdvances == [][\A t \in Slugs : view'[t] >= view[t]]_vars

\* Why a record may have been given up.
Excused(o) ==
    \/ Orphan(topic[o].tenant)
    \/ topic[o].version <= view[topic[o].tenant]
    \/ o \in cancelled
    \/ faults >= MaxRetries

(* An event that is newer than its projection is not given up for being    *)
(* late: that takes a stop in the middle, or as many failed attempts as    *)
(* there are retries; the race for the first insert costs only one.  What  *)
(* has no tenant is given up at once (processor.go:92-156).                *)
DeadLettersExplained == \A o \in givenUp : Excused(o)

\* The aggregate's last event was given up or passed over.
LastEventLost(t) == \E o \in givenUp \cup jumped : topic[o] = [tenant |-> t, version |-> source[t]]

(* In the end every projection agrees with its aggregate, in spite of      *)
(* repetitions, reordering and redeliveries, unless the consumer gave up   *)
(* the last event itself or started behind it.                             *)
Converges == \A t \in Slugs : <>[](view[t] = source[t] \/ LastEventLost(t))

\* What the connection string, if there is one, has to be for that: url.Parse
\* takes it, and it names no database but the configured one.
OwnServer(c) == c.connection # <<>> => c.connection[1].parses
OwnDatabase(c) ==
    c.connection # <<>> =>
        c.connection[1].path = c.database \/ Mongo!WithoutPath(c.connection[1])

(* Data lies only where migrations ran: the databases of the repositories  *)
(* are the ones the migration runner derives from the same configuration   *)
(* (mongo/config.go:77-140, tenant/migrator.go:68, collection_provider.go).*)
SchemaWhereWritten ==
    \A t \in {s \in Slugs : source[s] > 0} :
        IF system.back.tenancy
        THEN t \in Tenants /\ OwnServer(system.mongo) =>
                 Mongo!TenantDatabase(system.mongo, t) = Mongo!TenantTarget(system.mongo, t)
        ELSE OwnDatabase(system.mongo) =>
                 Mongo!StaticDatabase(system.mongo) = Mongo!SingleTarget(system.mongo)
=============================================================================
