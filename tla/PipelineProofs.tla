--------------------------- MODULE PipelineProofs ---------------------------
(***************************************************************************)
(* Theorems about the way of a change through the system, for any          *)
(* configurations, tenants, callers, members, writes, faults and upsets.   *)
(***************************************************************************)
EXTENDS Pipeline, FiniteSetTheorems, SequenceTheorems, TLAPS

(* The smallest of some natural numbers.                                   *)
LEMMA Smallest ==
  ASSUME NEW S \in SUBSET Nat, S # {}
  PROVE  \E i \in S : \A j \in S : i <= j
<1>1. PICK i \in S : \A j \in S : ~(<<j, i>> \in OpToRel(<, Nat))
  BY NatLessThanWellFounded, WFMin, Zenon
<1>2. \A j \in S : ~(<<j, i>> \in {ss \in Nat \X Nat : ss[1] < ss[2]})
  BY <1>1 DEF OpToRel
<1>3. \A j \in S : ~(j < i)
  BY <1>2
<1>4. QED
  BY <1>3

(* The consumer of an accepted configuration has a number of retries, its  *)
(* own, the global one or the default.                                     *)
LEMMA RetriesAreSet ==
  ASSUME NEW given \in Kafka!Values, NEW global \in Kafka!Values
  PROVE  Kafka!Inherit(given, Kafka!Inherit(global, Kafka!Default))["maxRetries"] \in Nat
BY DEF Kafka!Inherit, Kafka!Or, Kafka!Unset, Kafka!Default, Kafka!Values, Kafka!Settings

LEMMA ConsumerFound ==
  ASSUME NEW cfg, DOMAIN cfg.consumers \subseteq Nat, NEW name,
         Kafka!Registered(cfg, name) # {}
  PROVE  \E i \in DOMAIN cfg.consumers :
            /\ Kafka!ConsumerConfig(cfg, name) = cfg.consumers[i]
            /\ cfg.consumers[i].name = name
<1>1. Kafka!Registered(cfg, name) \in SUBSET Nat
  BY DEF Kafka!Registered
<1>2. \E i \in Kafka!Registered(cfg, name) : \A j \in Kafka!Registered(cfg, name) : i <= j
  BY <1>1, Smallest
<1>3. QED
  BY <1>2 DEF Kafka!ConsumerConfig, Kafka!Registered

(* A loaded consumer has what it was given, what it inherits or a default. *)
LEMMA DefaultsApplied ==
  ASSUME NEW raw \in Kafka!Configs
  PROVE  /\ DOMAIN Kafka!ApplyDefaults(raw).consumers = DOMAIN raw.consumers
         /\ \A i \in DOMAIN raw.consumers :
              Kafka!ApplyDefaults(raw).consumers[i].settings
                = Kafka!Inherit(raw.consumers[i].settings,
                                Kafka!Inherit(raw.global.settings, Kafka!Default))
<1>1. Kafka!ApplyGlobalDefaults(raw.global).settings
        = Kafka!Inherit(raw.global.settings, Kafka!Default)
  BY DEF Kafka!ApplyGlobalDefaults, Kafka!Configs
<1>2. \A i \in DOMAIN raw.consumers : \A g :
         Kafka!ApplyConsumerDefaults(raw.consumers[i], g).settings
           = Kafka!Inherit(raw.consumers[i].settings, g.settings)
  <2>1. \A i \in DOMAIN raw.consumers : raw.consumers[i] \in Kafka!Consumers
    BY DEF Kafka!Configs
  <2>2. QED
    BY <2>1 DEF Kafka!ApplyConsumerDefaults, Kafka!Consumers
<1>3. Kafka!ApplyDefaults(raw).consumers
        = [i \in DOMAIN raw.consumers |->
              Kafka!ApplyConsumerDefaults(raw.consumers[i], Kafka!ApplyGlobalDefaults(raw.global))]
  BY DEF Kafka!ApplyDefaults, Kafka!Configs
<1>4. QED
  BY <1>1, <1>2, <1>3

LEMMA RunningRetries ==
  ASSUME NEW s \in Running
  PROVE  s.consumer.settings["maxRetries"] \in Nat
<1>1. PICK x \in Systems : Starts(x) /\ s = Loaded(x)
  BY DEF Running
<1>2. x.kafka \in Kafka!Configs
  BY <1>1, PipelineAssumption
<1> DEFINE cfg == Kafka!ApplyDefaults(x.kafka)
<1>3. DOMAIN cfg.consumers = DOMAIN x.kafka.consumers /\ DOMAIN cfg.consumers \subseteq Nat
  <2>1. x.kafka.consumers \in Seq(Kafka!Consumers)
    BY <1>2 DEF Kafka!Configs
  <2>2. QED
    BY <1>2, <2>1, DefaultsApplied
<1>4. PICK i \in DOMAIN cfg.consumers :
         Kafka!ConsumerConfig(cfg, ConsumerName) = cfg.consumers[i]
  <2>1. Kafka!Registered(cfg, ConsumerName) # {}
    BY <1>1 DEF Starts, Kafka!ConsumerStarts
  <2>2. QED
    BY <1>3, <2>1, ConsumerFound
<1>5. x.kafka.consumers[i].settings \in Kafka!Values /\ x.kafka.global.settings \in Kafka!Values
  <2>1. x.kafka.consumers \in Seq(Kafka!Consumers)
    BY <1>2 DEF Kafka!Configs
  <2>2. x.kafka.consumers[i] \in Kafka!Consumers
    BY <1>3, <2>1
  <2>3. QED
    BY <1>2, <2>2 DEF Kafka!Configs, Kafka!Consumers
<1>6. s.consumer = Kafka!ConsumerConfig(cfg, ConsumerName)
  BY <1>1 DEF Loaded
<1>7. QED
  BY <1>2, <1>3, <1>4, <1>5, <1>6, DefaultsApplied, RetriesAreSet

(* A tenant's events end in the database the runner of its migrations used *)
(* (mongo/config.go:77-140, tenant/migrator.go:68), and without tenancy    *)
(* the same holds of the one database.                                     *)
LEMMA TenantDatabaseMigrated ==
  ASSUME NEW c, NEW t, OwnServer(c)
  PROVE  Mongo!TenantDatabase(c, t) = Mongo!TenantTarget(c, t)
<1>1. Mongo!BuildURI(c).server = Mongo!BuildBaseURI(c).server
  BY Zenon DEF OwnServer, Mongo!BuildURI, Mongo!BuildBaseURI
<1>2. Mongo!TenantTarget(c, t) =
         [server |-> Mongo!BuildBaseURI(c).server, database |-> Append(c.database, t)]
  BY DEF Mongo!TenantTarget, Mongo!BuildBaseURI
<1>3. QED
  BY <1>1, <1>2 DEF Mongo!TenantDatabase, Mongo!Client

LEMMA StaticDatabaseMigrated ==
  ASSUME NEW c, OwnDatabase(c)
  PROVE  Mongo!StaticDatabase(c) = Mongo!SingleTarget(c)
BY DEF OwnDatabase, Mongo!StaticDatabase, Mongo!SingleTarget, Mongo!Client,
       Mongo!BuildURI, Mongo!WithoutPath

(* A handled request has a right to the tenant in whose context it is      *)
(* handled, unless nothing looked at its token                             *)
(* (tenant/interceptor.go:43-56, security/validation).                     *)
LEMMA HandledEntitled ==
  ASSUME NEW svc, NEW r, Handled(svc, r), ~Unchecked(svc, r), ContextSlug(svc, r) # NoTenant
  PROVE  Entitled(r.token, ContextSlug(svc, r))
<1>1. "resolver" \in Installed(svc) /\ ContextSlug(svc, r) = r.slug
  BY DEF ContextSlug
<1>2. "auth" \in Installed(svc) /\ "validator" \in Installed(svc)
  BY <1>1 DEF Installed, Interceptors, Unchecked
<1>3. AuthPasses(r) /\ ValidatorPasses(svc, r)
  BY <1>2 DEF Handled, Passes
<1>4. r.token.valid
  BY <1>3 DEF AuthPasses, Unchecked
<1>5. HasClaims(svc, r)
  BY <1>2 DEF HasClaims, SetBefore, Priority, Unchecked
<1>6. r.token.tenant = r.slug \/ (r.token.tenant = NoTenant /\ CrossTenant \in r.token.scopes)
  BY <1>3, <1>5 DEF ValidatorPasses, IsTenantScoped, CanAccessAnyTenant, Permissions
<1>7. QED
  BY <1>1, <1>4, <1>6 DEF Entitled
-----------------------------------------------------------------------------
(* The inductive invariant.                                                *)

(* A tenant's messages are those of the versions its aggregate has had, in *)
(* one transaction with it.                                                *)
WrittenTogether ==
    /\ IsFiniteSet(Writes)
    /\ \A m \in Messages : stored[m] # "absent" <=> m.version <= source[m.tenant]
    /\ Published \subseteq Writes

Late(p) == Version(p) > view[Tenant(p)]

(* A record that is not late has used its tries for faults, and one for    *)
(* the race with another member at the most, after which there is a        *)
(* projection, which it replaces.                                          *)
TriesExplained ==
    \A p \in Members :
        /\ attempt[p] \in {"none", "returned"} => tries[p] = 0
        /\ attempt[p] = "trying" /\ Late(p) =>
               tries[p] <= faults + IF view[Tenant(p)] = 0 THEN 0 ELSE 1
        /\ attempt[p] = "inserting" /\ Late(p) => tries[p] <= faults

IInv ==
    /\ TypeOK
    /\ WrittenTogether
    /\ RightTenant
    /\ NeverAhead
    /\ TriesExplained
    /\ DeadLettersExplained

(* It holds when the services start.                                       *)
THEOREM InitInv == Init => IInv
<1> SUFFICES ASSUME Init
             PROVE  IInv
  OBVIOUS
<1>1. MaxRetries \in Nat
  BY RunningRetries DEF Init, MaxRetries
<1>2. TypeOK
  BY <1>1, PipelineAssumption DEF Init, TypeOK
<1>3. WrittenTogether
  <2>1. Writes = {}
    BY DEF Init, Writes
  <2>2. \A m \in Messages : m.version \in 1..MaxWrites /\ m.tenant \in Slugs
    BY DEF Messages
  <2>3. QED
    BY <2>1, <2>2, FS_EmptySet, PipelineAssumption DEF Init, WrittenTogether, Published
<1>4. NeverAhead
  BY DEF Init, NeverAhead, Published
<1>5. TriesExplained
  BY DEF Init, TriesExplained
<1>6. QED
  BY <1>2, <1>3, <1>4, <1>5 DEF Init, IInv, RightTenant, DeadLettersExplained

(* The record a member works on.                                           *)
LEMMA RecordType ==
  ASSUME TypeOK, NEW p \in Members, attempt[p] # "none"
  PROVE  /\ handling[p] \in DOMAIN topic
         /\ Record(p) \in Messages /\ Record(p) \in Published
         /\ Tenant(p) \in Slugs /\ Version(p) \in 1..MaxWrites
<1>1. handling[p] \in DOMAIN topic
  BY DEF TypeOK
<1>2. topic[handling[p]] \in Messages
  BY <1>1 DEF TypeOK
<1>3. QED
  BY <1>1, <1>2 DEF Record, Tenant, Version, Published, Messages

LEMMA RetriesType ==
  ASSUME TypeOK
  PROVE  MaxRetries \in Nat /\ (UNCHANGED system => MaxRetries' = MaxRetries)
BY RunningRetries DEF TypeOK, MaxRetries

-----------------------------------------------------------------------------
(* The writes.                                                             *)

(* Below the bound no aggregate has had all its versions.                  *)
LEMMA VersionLeft ==
  ASSUME TypeOK, WrittenTogether, Cardinality(Writes) < MaxWrites, NEW t \in Slugs
  PROVE  source[t] < MaxWrites
<1> SUFFICES ASSUME source[t] = MaxWrites
             PROVE  FALSE
  BY PipelineAssumption DEF TypeOK
<1> DEFINE f == [v \in 1..MaxWrites |-> [tenant |-> t, version |-> v]]
<1>1. \A v \in 1..MaxWrites : f[v] \in Writes
  BY DEF Messages, Writes, WrittenTogether
<1>2. f \in Injection(1..MaxWrites, Writes)
  BY <1>1 DEF Injection, IsInjective
<1>3. Cardinality(1..MaxWrites) <= Cardinality(Writes)
  BY <1>2, FS_Injection DEF WrittenTogether
<1>4. Cardinality(1..MaxWrites) = MaxWrites
  BY PipelineAssumption, FS_Interval
<1>5. Cardinality(Writes) \in Nat
  BY FS_CardinalityType DEF WrittenTogether
<1>6. QED
  BY <1>3, <1>4, <1>5, PipelineAssumption

(* The aggregate and its message are written together.                     *)
LEMMA WriteInv ==
  ASSUME TypeOK, WrittenTogether, Cardinality(Writes) < MaxWrites,
         NEW t \in Slugs, WriteAndCreate(t), UNCHANGED topic
  PROVE  /\ source' \in [Slugs -> 0..MaxWrites]
         /\ stored' \in [Messages -> {"absent", "pending"}]
         /\ WrittenTogether'
         /\ \A s \in Slugs : source[s] <= source'[s]
<1>1. Event(t) \in Messages /\ source[t] + 1 \in 1..MaxWrites
  BY VersionLeft, PipelineAssumption DEF TypeOK, Event, Messages
<1>2. /\ source' \in [Slugs -> 0..MaxWrites]
      /\ stored' \in [Messages -> {"absent", "pending"}]
      /\ \A s \in Slugs : source[s] <= source'[s]
  BY <1>1, PipelineAssumption DEF TypeOK, WriteAndCreate
<1>3. Writes' = Writes \cup {Event(t)}
  BY <1>1 DEF TypeOK, WriteAndCreate, Writes
<1>4. IsFiniteSet(Writes')
  BY <1>3, FS_AddElement DEF WrittenTogether
<1>5. ASSUME NEW m \in Messages
      PROVE  stored'[m] # "absent" <=> m.version <= source'[m.tenant]
  <2>1. m.tenant \in Slugs /\ m.version \in 1..MaxWrites
        /\ m = [tenant |-> m.tenant, version |-> m.version]
    BY DEF Messages
  <2>2. m = Event(t) <=> m.tenant = t /\ m.version = source[t] + 1
    BY <2>1 DEF Event
  <2>3. CASE m = Event(t)
    BY <1>1, <2>1, <2>2, <2>3 DEF TypeOK, WriteAndCreate
  <2>4. CASE m # Event(t)
    <3>1. stored'[m] = stored[m]
      BY <2>4 DEF TypeOK, WriteAndCreate
    <3>2. m.tenant = t => source'[t] = source[t] + 1 /\ m.version # source[t] + 1
      BY <2>2, <2>4 DEF TypeOK, WriteAndCreate
    <3>3. m.tenant # t => source'[m.tenant] = source[m.tenant]
      BY <2>1 DEF TypeOK, WriteAndCreate
    <3>4. QED
      BY <2>1, <3>1, <3>2, <3>3, PipelineAssumption DEF TypeOK, WrittenTogether
  <2>5. QED
    BY <2>3, <2>4
<1>6. Published' \subseteq Writes'
  BY <1>3 DEF WrittenTogether, Published
<1>7. QED
  BY <1>2, <1>4, <1>5, <1>6 DEF WrittenTogether

(* What does not touch the records leaves their explanations.              *)
LEMMA WriteStep ==
  ASSUME IInv, Cardinality(Writes) < MaxWrites, NEW t \in Slugs, WriteAndCreate(t),
         UNCHANGED <<system, topic, groupVars, view, handlerVars, givenUp, jumped, boundVars>>,
         wronged' = {}
  PROVE  IInv'
<1>1. /\ source' \in [Slugs -> 0..MaxWrites]
      /\ stored' \in [Messages -> {"absent", "pending"}]
      /\ WrittenTogether'
      /\ \A s \in Slugs : source[s] <= source'[s]
  BY WriteInv DEF IInv
<1>2. TypeOK'
  BY <1>1 DEF IInv, TypeOK, groupVars, handlerVars, boundVars, MaxRetries
<1>3. NeverAhead'
  <2>1. \A m \in Published : m.tenant \in Slugs /\ m.version \in 1..MaxWrites
    BY DEF IInv, WrittenTogether, Writes, Messages
  <2>2. Published' = Published
    BY DEF Published
  <2>3. QED
    BY <1>1, <2>1, <2>2, PipelineAssumption DEF IInv, TypeOK, NeverAhead
<1>4. TriesExplained'
  BY DEF IInv, TriesExplained, groupVars, handlerVars, boundVars, Late, Version, Tenant, Record
<1>5. DeadLettersExplained'
  BY DEF IInv, DeadLettersExplained, Excused, Orphan, MaxRetries, boundVars
<1>6. QED
  BY <1>1, <1>2, <1>3, <1>4, <1>5 DEF IInv, RightTenant

LEMMA ServeStep ==
  ASSUME IInv, Cardinality(Writes) < MaxWrites, NEW svc, NEW r, NEW t \in Slugs,
         Serve(svc, r, t),
         t = NoTenant \/ Entitled(r.token, t) \/ Unchecked(svc, r)
  PROVE  IInv'
<1>1. wronged' = {}
  BY DEF IInv, RightTenant, Serve
<1>2. QED
  BY <1>1, WriteStep DEF Serve

LEMMA SlugType ==
  ASSUME NEW svc, NEW r, r.slug \in Slugs
  PROVE  ContextSlug(svc, r) \in Slugs
BY DEF ContextSlug, Slugs

LEMMA CallStep ==
  ASSUME IInv, Cardinality(Writes) < MaxWrites, NEW r, r.slug \in Slugs, Call(r)
  PROVE  IInv'
BY HandledEntitled, SlugType, ServeStep DEF Call

(* The token of the service gives the caller no tenant: the slug the back  *)
(* service is sent is the one the front service has checked.               *)
LEMMA CallOnwardStep ==
  ASSUME IInv, Cardinality(Writes) < MaxWrites, NEW r, r.slug \in Slugs, CallOnward(r)
  PROVE  IInv'
<1> DEFINE onward == Onward(system.front, r, "restricted")
           t == ContextSlug(system.back, onward)
<1>1. Handled(system.front, r) /\ Serve(system.front, r, t)
  BY DEF CallOnward
<1>2. onward.slug = ContextSlug(system.front, r)
  BY DEF Onward
<1>3. t \in Slugs /\ (t = NoTenant \/ t = ContextSlug(system.front, r))
  BY <1>2, SlugType DEF ContextSlug
<1>4. t = NoTenant \/ Entitled(r.token, t) \/ Unchecked(system.front, r)
  BY <1>1, <1>3, HandledEntitled
<1> HIDE DEF t
<1>5. QED
  BY <1>1, <1>3, <1>4, ServeStep

LEMMA JobStep ==
  ASSUME IInv, Job
  PROVE  IInv'
BY WriteStep DEF IInv, RightTenant, Job, Slugs
-----------------------------------------------------------------------------
(* The outbox.                                                             *)

LEMMA PublishStep ==
  ASSUME IInv, NEW m \in Messages, Publish(m), upsets' \in 0..MaxUpsets
  PROVE  IInv'
<1>1. topic' = Append(topic, m) /\ stored[m] # "absent" /\ stored' = stored
  BY DEF Publish, SentWhenStored, Outbox!Publish
<1>2. /\ topic' \in Seq(Messages)
      /\ Len(topic') = Len(topic) + 1
      /\ DOMAIN topic \subseteq DOMAIN topic'
      /\ \A o \in DOMAIN topic : topic'[o] = topic[o]
  BY <1>1 DEF IInv, TypeOK
<1>3. Published' = Published \cup {m}
  <2>1. topic'[Len(topic) + 1] = m /\ DOMAIN topic' = DOMAIN topic \cup {Len(topic) + 1}
    BY <1>1 DEF IInv, TypeOK
  <2>2. QED
    BY <1>2, <2>1 DEF Published
<1>4. TypeOK'
  BY <1>1, <1>2 DEF IInv, TypeOK, Publish, groupVars, handlerVars, MaxRetries
<1>5. WrittenTogether'
  BY <1>1, <1>3 DEF IInv, WrittenTogether, Writes, Publish
<1>6. NeverAhead'
  BY <1>1, <1>3 DEF IInv, NeverAhead, WrittenTogether, Publish
<1>7. TriesExplained'
  <2>1. \A p \in Members : attempt[p] # "none" => Record(p)' = Record(p)
    BY <1>2, RecordType DEF IInv, Publish, groupVars, Record
  <2>2. QED
    BY <2>1 DEF IInv, TriesExplained, Publish, groupVars, handlerVars, Late, Version, Tenant
<1>8. DeadLettersExplained'
  BY <1>2 DEF IInv, TypeOK, DeadLettersExplained, Excused, Orphan, MaxRetries, Publish, groupVars
<1>9. QED
  BY <1>4, <1>5, <1>6, <1>7, <1>8 DEF IInv, RightTenant, Publish
-----------------------------------------------------------------------------
(* The members.                                                            *)

(* The part of the type invariant that the steps of a member disturb.      *)
MembersType ==
    /\ handling \in [Members -> {0} \cup DOMAIN topic]
    /\ settled \subseteq DOMAIN topic
    /\ attempt \in [Members -> {"none", "trying", "inserting", "returned"}]
    /\ \A p \in Members : handling[p] = 0 <=> attempt[p] = "none"
    /\ tries \in [Members -> 0..MaxRetries]
    /\ givenUp \subseteq settled /\ jumped \subseteq settled

(* What a step of p says of p's own tries.                                 *)
TryExplained(p) ==
    /\ attempt[p] \in {"none", "returned"} => tries[p] = 0
    /\ attempt[p] = "trying" /\ Late(p) =>
           tries[p] <= faults + IF view[Tenant(p)] = 0 THEN 0 ELSE 1
    /\ attempt[p] = "inserting" /\ Late(p) => tries[p] <= faults

OthersWait(p) ==
    \A q \in Members \ {p} :
        handling'[q] = handling[q] /\ attempt'[q] = attempt[q] /\ tries'[q] = tries[q]

(* What every step of a member has in common.                              *)
MemberFrame(p) ==
    /\ UNCHANGED <<system, source, wronged, stored, topic, committed>>
    /\ OthersWait(p)
    /\ view' \in [Slugs -> 0..MaxWrites]
    /\ \A t \in Slugs : view[t] <= view'[t] /\ view'[t] <= source[t]
    /\ cancelled \subseteq cancelled' /\ cancelled' \subseteq DOMAIN topic
    /\ faults <= faults' /\ faults' \in 0..MaxFaults
    /\ upsets' \in 0..MaxUpsets

LEMMA MemberStep ==
  ASSUME IInv, NEW p \in Members, MemberFrame(p), MembersType', TryExplained(p)',
         \A o \in givenUp' \ givenUp : Excused(o)'
  PROVE  IInv'
<1>1. MaxRetries' = MaxRetries /\ MaxRetries \in Nat
  BY RetriesType DEF IInv, MemberFrame
<1>2. TypeOK'
  BY <1>1 DEF IInv, TypeOK, MemberFrame, MembersType
<1>3. WrittenTogether' /\ RightTenant' /\ NeverAhead'
  BY DEF IInv, WrittenTogether, RightTenant, NeverAhead, Writes, Published, MemberFrame
<1>4. ASSUME NEW q \in Members, q # p
      PROVE  TryExplained(q)'
  <2>1. handling'[q] = handling[q] /\ attempt'[q] = attempt[q] /\ tries'[q] = tries[q]
    BY <1>4 DEF MemberFrame, OthersWait
  <2>2. TryExplained(q)
    BY DEF IInv, TriesExplained, TryExplained
  <2>3. CASE attempt[q] = "none"
    BY <2>1, <2>2, <2>3 DEF TryExplained
  <2>4. CASE attempt[q] # "none"
    <3>1. Record(q)' = Record(q) /\ Tenant(q) \in Slugs /\ Version(q) \in 1..MaxWrites
      BY <2>1, <2>4, RecordType DEF IInv, Record, MemberFrame
    <3>2. Tenant(q)' = Tenant(q) /\ Version(q)' = Version(q)
      BY <3>1 DEF Tenant, Version
    <3>3. tries[q] \in Nat /\ faults \in Nat /\ view[Tenant(q)] \in Nat
      BY <1>1, <3>1, PipelineAssumption DEF IInv, TypeOK
    <3>4. view[Tenant(q)] <= view'[Tenant(q)] /\ view'[Tenant(q)] \in Nat
          /\ faults <= faults' /\ faults' \in Nat
      BY <3>1, PipelineAssumption DEF MemberFrame
    <3>5. QED
      BY <2>1, <2>2, <3>1, <3>2, <3>3, <3>4, PipelineAssumption DEF TryExplained, Late
  <2>5. QED
    BY <2>3, <2>4
<1>5. TriesExplained'
  BY <1>4 DEF TriesExplained, TryExplained
<1>6. ASSUME NEW o \in givenUp
      PROVE  Excused(o)'
  <2>1. topic[o].tenant \in Slugs /\ topic[o].version \in 1..MaxWrites /\ topic'[o] = topic[o]
    <3>1. o \in DOMAIN topic /\ topic \in Seq(Messages)
      BY DEF IInv, TypeOK
    <3>2. topic[o] \in Messages
      BY <3>1
    <3>3. QED
      BY <3>2 DEF Messages, MemberFrame
  <2>2. Excused(o)
    BY DEF IInv, DeadLettersExplained
  <2>3. view[topic[o].tenant] \in Nat /\ view'[topic[o].tenant] \in Nat
        /\ view[topic[o].tenant] <= view'[topic[o].tenant]
    BY <2>1, PipelineAssumption DEF IInv, TypeOK, MemberFrame
  <2>4. faults \in Nat /\ faults' \in Nat /\ faults <= faults'
    BY PipelineAssumption DEF IInv, TypeOK, MemberFrame
  <2>5. Orphan(topic[o].tenant)' = Orphan(topic[o].tenant)
    BY <2>1 DEF Orphan, MemberFrame
  <2>6. QED
    BY <1>1, <2>1, <2>2, <2>3, <2>4, <2>5, PipelineAssumption DEF Excused, MemberFrame
<1>7. DeadLettersExplained'
  BY <1>6 DEF DeadLettersExplained
<1>8. QED
  BY <1>2, <1>3, <1>5, <1>7 DEF IInv

(* Nothing that bounds the record's time is used up.                       *)
SameBounds == UNCHANGED <<view, cancelled, faults>> /\ upsets' \in 0..MaxUpsets

LEMMA FrameOfSameBounds ==
  ASSUME IInv, NEW p \in Members, SameBounds,
         UNCHANGED <<system, source, wronged, stored, topic, committed>>,
         OthersWait(p)
  PROVE  MemberFrame(p)
<1>1. \A t \in Slugs : view[t] <= view[t] /\ view[t] <= source[t]
  BY PipelineAssumption DEF IInv, TypeOK, NeverAhead
<1>2. faults <= faults
  BY PipelineAssumption DEF IInv, TypeOK
<1>3. QED
  BY <1>1, <1>2 DEF IInv, TypeOK, SameBounds, MemberFrame

(* A member takes a record: with no tries behind it.                       *)
LEMMA TakeStep ==
  ASSUME IInv, NEW p \in Members, NEW o \in DOMAIN topic, Take(p, o), upsets' \in 0..MaxUpsets
  PROVE  IInv'
<1>1. /\ handling[p] = 0 /\ handling' = [handling EXCEPT ![p] = o]
      /\ attempt' = [attempt EXCEPT ![p] = "trying"]
      /\ UNCHANGED <<system, source, wronged, stored, topic, settled, committed, view, tries,
                     givenUp, jumped, cancelled, faults>>
  BY DEF Take, Group!Take
<1>2. MemberFrame(p)
  BY <1>1, FrameOfSameBounds DEF SameBounds, OthersWait, IInv, TypeOK
<1>3. o # 0
  BY DEF IInv, TypeOK
<1>4. MembersType'
  BY <1>1, <1>3, RetriesType DEF IInv, TypeOK, MembersType
<1>5. tries[p] = 0
  BY <1>1 DEF IInv, TypeOK, TriesExplained
<1>6. TryExplained(p)'
  BY <1>1, <1>5, PipelineAssumption DEF IInv, TypeOK, TryExplained
<1>7. QED
  BY <1>1, <1>2, <1>4, <1>6, MemberStep

LEMMA CrashStep ==
  ASSUME IInv, NEW p \in Members, Crash(p)
  PROVE  IInv'
<1>1. /\ handling' = [handling EXCEPT ![p] = 0]
      /\ attempt' = [attempt EXCEPT ![p] = "none"]
      /\ tries' = [tries EXCEPT ![p] = 0]
      /\ UNCHANGED <<system, source, wronged, stored, topic, settled, committed, view,
                     givenUp, jumped, cancelled, faults>>
      /\ upsets' \in 0..MaxUpsets
  BY PipelineAssumption DEF IInv, TypeOK, Crash, Group!Abandon
<1>2. MemberFrame(p)
  BY <1>1, FrameOfSameBounds DEF SameBounds, OthersWait, IInv, TypeOK
<1>3. MembersType'
  BY <1>1, RetriesType DEF IInv, TypeOK, MembersType
<1>4. TryExplained(p)'
  BY <1>1 DEF IInv, TypeOK, TryExplained
<1>5. QED
  BY <1>1, <1>2, <1>3, <1>4, MemberStep

LEMMA ReturnStep ==
  ASSUME IInv, NEW p \in Members, Return(p)
  PROVE  IInv'
<1>1. /\ attempt[p] = "returned"
      /\ handling' = [handling EXCEPT ![p] = 0]
      /\ attempt' = [attempt EXCEPT ![p] = "none"]
      /\ UNCHANGED <<system, source, wronged, stored, topic, settled, committed, view, tries,
                     givenUp, jumped, cancelled, faults, upsets>>
  BY DEF Return, Group!Return, boundVars
<1>2. MemberFrame(p)
  BY <1>1, FrameOfSameBounds DEF SameBounds, OthersWait, IInv, TypeOK
<1>3. MembersType'
  BY <1>1, RetriesType DEF IInv, TypeOK, MembersType
<1>4. tries[p] = 0
  BY <1>1 DEF IInv, TriesExplained
<1>5. TryExplained(p)'
  BY <1>1, <1>4 DEF IInv, TypeOK, TryExplained
<1>6. QED
  BY <1>1, <1>2, <1>3, <1>5, MemberStep

LEMMA NoMatchStep ==
  ASSUME IInv, NEW p \in Members, NoMatch(p)
  PROVE  IInv'
<1>1. /\ attempt[p] = "trying" /\ ~Newer(p)
      /\ attempt' = [attempt EXCEPT ![p] = "inserting"]
      /\ UNCHANGED <<system, source, wronged, stored, topic, handling, settled, committed, view,
                     tries, givenUp, jumped, cancelled, faults, upsets>>
  BY DEF NoMatch, Matches, boundVars, groupVars
<1>2. MemberFrame(p)
  BY <1>1, FrameOfSameBounds DEF SameBounds, OthersWait, IInv, TypeOK
<1>3. MembersType'
  BY <1>1, RetriesType DEF IInv, TypeOK, MembersType
<1>4. Tenant(p) \in Slugs /\ Version(p) \in 1..MaxWrites /\ view[Tenant(p)] \in 0..MaxWrites
  BY <1>1, RecordType DEF IInv, TypeOK
<1>5. Late(p) => view[Tenant(p)] = 0
  BY <1>1, <1>4, PipelineAssumption DEF Newer, Late
<1>6. Late(p) => tries[p] <= faults
  <2>1. tries[p] \in Nat /\ faults \in Nat
    BY PipelineAssumption, RetriesType DEF IInv, TypeOK
  <2>2. QED
    BY <1>1, <1>5, <2>1 DEF IInv, TriesExplained
<1>7. TryExplained(p)'
  <2>1. Late(p)' = Late(p)
    BY <1>1 DEF Late, Version, Tenant, Record
  <2>2. attempt'[p] = "inserting"
    BY <1>1 DEF IInv, TypeOK
  <2>3. QED
    BY <1>1, <1>6, <2>1, <2>2 DEF TryExplained
<1>8. QED
  BY <1>1, <1>2, <1>3, <1>7, MemberStep

(* The end of a record, whatever the result.                               *)
LEMMA SettleMembers ==
  ASSUME IInv, NEW p \in Members, attempt[p] # "none", Settle(p),
         UNCHANGED <<system, jumped>>, givenUp' \subseteq givenUp \cup {handling[p]}
  PROVE  MembersType' /\ TryExplained(p)' /\ OthersWait(p) /\ UNCHANGED <<topic, committed>>
<1>1. /\ attempt' = [attempt EXCEPT ![p] = "returned"]
      /\ tries' = [tries EXCEPT ![p] = 0]
      /\ settled' = settled \cup {handling[p]}
      /\ UNCHANGED <<topic, handling, committed>>
  BY DEF Settle, Group!Decide
<1>2. handling[p] \in DOMAIN topic
  BY RecordType DEF IInv
<1>3. MembersType'
  BY <1>1, <1>2, RetriesType DEF IInv, TypeOK, MembersType
<1>4. TryExplained(p)'
  BY <1>1 DEF IInv, TypeOK, TryExplained
<1>5. QED
  BY <1>1, <1>3, <1>4 DEF OthersWait, IInv, TypeOK

(* The data that a failure leaves alone.                                   *)
FailureFrame ==
    /\ UNCHANGED <<system, source, wronged, stored, view, jumped>>
    /\ cancelled \subseteq cancelled' /\ cancelled' \subseteq DOMAIN topic
    /\ faults' \in {faults, faults + 1} /\ faults' \in 0..MaxFaults
    /\ upsets' \in 0..MaxUpsets

LEMMA FailureMemberFrame ==
  ASSUME IInv, NEW p \in Members, FailureFrame, OthersWait(p), UNCHANGED <<topic, committed>>
  PROVE  MemberFrame(p)
<1>1. \A t \in Slugs : view[t] <= view[t] /\ view[t] <= source[t]
  BY PipelineAssumption DEF IInv, TypeOK, NeverAhead
<1>2. faults <= faults'
  BY PipelineAssumption DEF IInv, TypeOK, FailureFrame
<1>3. QED
  BY <1>1, <1>2 DEF IInv, TypeOK, FailureFrame, MemberFrame

LEMMA GiveUpStep ==
  ASSUME IInv, NEW p \in Members, attempt[p] # "none", GiveUp(p), FailureFrame,
         Excused(handling[p])'
  PROVE  IInv'
<1>1. givenUp' = givenUp \cup {handling[p]} /\ Settle(p)
  BY DEF GiveUp
<1>2. MembersType' /\ TryExplained(p)' /\ OthersWait(p) /\ UNCHANGED <<topic, committed>>
  BY <1>1, SettleMembers DEF FailureFrame
<1>3. MemberFrame(p)
  BY <1>2, FailureMemberFrame
<1>4. handling' = handling
  BY <1>1 DEF Settle, Group!Decide
<1>5. QED
  BY <1>1, <1>2, <1>3, <1>4, MemberStep

(* An attempt that fails with an error is accounted for.                   *)
LEMMA AttemptFailsStep ==
  ASSUME IInv, NEW p \in Members, attempt[p] # "none", AttemptFails(p), FailureFrame,
         Late(p) => /\ tries[p] <= faults'
                    /\ tries[p] + 1 <= faults' + IF view[Tenant(p)] = 0 THEN 0 ELSE 1
  PROVE  IInv'
<1>1. tries[p] \in 0..MaxRetries /\ MaxRetries \in Nat /\ MaxRetries' = MaxRetries
      /\ faults' \in Nat
  BY RetriesType, PipelineAssumption DEF IInv, TypeOK, FailureFrame
<1>2. CASE /\ tries[p] < MaxRetries
           /\ tries' = [tries EXCEPT ![p] = @ + 1]
           /\ attempt' = [attempt EXCEPT ![p] = "trying"]
           /\ UNCHANGED <<topic, groupVars, givenUp>>
  <2>1. MembersType'
    BY <1>1, <1>2 DEF IInv, TypeOK, MembersType, FailureFrame, groupVars
  <2>2. MemberFrame(p)
    BY <1>2, FailureMemberFrame DEF IInv, TypeOK, groupVars, OthersWait
  <2>3. Late(p)' = Late(p) /\ Tenant(p)' = Tenant(p)
    BY <1>2 DEF Late, Version, Tenant, Record, groupVars, FailureFrame
  <2>4. attempt'[p] = "trying" /\ tries'[p] = tries[p] + 1 /\ view' = view
    BY <1>2 DEF IInv, TypeOK, FailureFrame
  <2>5. TryExplained(p)'
    BY <2>3, <2>4 DEF TryExplained
  <2>6. QED
    BY <1>2, <2>1, <2>2, <2>5, MemberStep
<1>3. CASE tries[p] >= MaxRetries /\ GiveUp(p)
  <2>1. Tenant(p) \in Slugs /\ Version(p) \in 1..MaxWrites /\ view[Tenant(p)] \in 0..MaxWrites
    BY RecordType DEF IInv, TypeOK
  <2>2. Late(p) => faults' >= MaxRetries'
    BY <1>1, <1>3
  <2>3. ~Late(p) => Version(p) <= view[Tenant(p)]
    BY <2>1, PipelineAssumption DEF Late
  <2>4. topic' = topic /\ view' = view
    BY <1>3 DEF GiveUp, Settle, FailureFrame
  <2>5. Excused(handling[p])'
    <3>1. handling' = handling
      BY <1>3 DEF GiveUp, Settle, Group!Decide
    <3>2. QED
      BY <2>2, <2>3, <2>4, <3>1 DEF Excused, Version, Tenant, Record
  <2>6. QED
    BY <1>3, <2>5, GiveUpStep
<1>4. QED
  BY <1>1, <1>2, <1>3 DEF AttemptFails, RetryOrGiveUp

(* The projection takes the version of a record that is newer.             *)
LEMMA ProjectStep ==
  ASSUME IInv, NEW p \in Members, attempt[p] # "none", Project(p),
         view[Tenant(p)] < Version(p),
         UNCHANGED <<system, source, wronged, stored, jumped, boundVars>>
  PROVE  IInv'
<1>1. MembersType' /\ TryExplained(p)' /\ OthersWait(p) /\ UNCHANGED <<topic, committed>>
  BY SettleMembers DEF Project
<1>2. Tenant(p) \in Slugs /\ Version(p) \in 1..MaxWrites /\ Record(p) \in Published
  BY RecordType DEF IInv
<1>3. Version(p) <= source[Tenant(p)]
  BY <1>2 DEF IInv, NeverAhead, Version, Tenant
<1>4. view' = [view EXCEPT ![Tenant(p)] = Version(p)]
  BY DEF Project
<1>5. \A t \in Slugs : view[t] <= view'[t] /\ view'[t] <= source[t]
  <2>1. \A t \in Slugs : view[t] \in Int /\ source[t] \in Int /\ view[t] <= source[t]
    BY PipelineAssumption DEF IInv, TypeOK, NeverAhead
  <2>2. Version(p) \in Int
    BY <1>2
  <2>3. QED
    BY <1>2, <1>3, <1>4, <2>1, <2>2 DEF IInv, TypeOK
<1>6. view' \in [Slugs -> 0..MaxWrites]
  BY <1>2, <1>4 DEF IInv, TypeOK
<1>7. cancelled' = cancelled /\ faults' = faults /\ upsets' = upsets /\ faults <= faults
  BY PipelineAssumption DEF IInv, TypeOK, boundVars
<1>8. MemberFrame(p)
  BY <1>1, <1>5, <1>6, <1>7 DEF IInv, TypeOK, MemberFrame
<1>9. givenUp' = givenUp
  BY DEF Project
<1>10. QED
  BY <1>1, <1>8, <1>9, MemberStep

LEMMA SameFailureFrame ==
  ASSUME IInv, UNCHANGED <<system, source, wronged, stored, view, jumped, boundVars>>
  PROVE  FailureFrame
BY DEF IInv, TypeOK, boundVars, FailureFrame

LEMMA PanicStep ==
  ASSUME IInv, NEW p \in Members, Panic(p)
  PROVE  IInv'
<1>1. handling' = handling /\ topic' = topic
  BY DEF Panic, GiveUp, Settle, Group!Decide
<1>2. Excused(handling[p])'
  BY <1>1 DEF Panic, Excused, Orphan, Tenant, Record
<1>3. QED
  BY <1>2, SameFailureFrame, GiveUpStep DEF Panic

LEMMA CancelStep ==
  ASSUME IInv, NEW p \in Members, Cancel(p)
  PROVE  IInv'
<1>1. handling' = handling /\ cancelled' = cancelled \cup {handling[p]}
  BY DEF Cancel, GiveUp, Settle, Group!Decide
<1>2. Excused(handling[p])'
  BY <1>1 DEF Excused
<1>3. FailureFrame
  <2>1. handling[p] \in DOMAIN topic
    BY RecordType DEF IInv, Cancel
  <2>2. QED
    BY <1>1, <2>1, PipelineAssumption DEF IInv, TypeOK, Cancel, FailureFrame
<1>4. QED
  BY <1>2, <1>3, GiveUpStep DEF Cancel

LEMMA ReplaceStep ==
  ASSUME IInv, NEW p \in Members, Replace(p)
  PROVE  IInv'
<1>1. Version(p) \in 1..MaxWrites /\ attempt[p] # "none"
  BY RecordType DEF IInv, Replace
<1>2. view[Tenant(p)] < Version(p)
  BY <1>1, PipelineAssumption DEF Replace, Matches, Newer
<1>3. QED
  BY <1>1, <1>2, ProjectStep DEF Replace

(* What an attempt has left, when it fails, in the terms of                *)
(* AttemptFailsStep.                                                       *)
LEMMA TriesLeft ==
  ASSUME IInv, NEW p \in Members, attempt[p] \in {"trying", "inserting"}
  PROVE  /\ tries[p] \in Nat /\ faults \in Nat /\ view[Tenant(p)] \in 0..MaxWrites
         /\ attempt[p] = "trying" /\ Late(p) =>
                tries[p] <= faults + IF view[Tenant(p)] = 0 THEN 0 ELSE 1
         /\ attempt[p] = "inserting" /\ Late(p) => tries[p] <= faults
<1>1. /\ tries[p] \in Nat /\ faults \in Nat
  BY RetriesType, PipelineAssumption DEF IInv, TypeOK
<1>2. Tenant(p) \in Slugs
  BY RecordType DEF IInv
<1>3. view[Tenant(p)] \in 0..MaxWrites
  BY <1>2 DEF IInv, TypeOK
<1>4. QED
  BY <1>1, <1>3 DEF IInv, TriesExplained

LEMMA InsertStep ==
  ASSUME IInv, NEW p \in Members, Insert(p)
  PROVE  IInv'
<1>1. Version(p) \in 1..MaxWrites /\ attempt[p] = "inserting"
  BY RecordType DEF IInv, Insert
<1>2. CASE view[Tenant(p)] = 0 /\ Project(p)
  BY <1>1, <1>2, ProjectStep DEF Insert
<1>3. CASE view[Tenant(p)] # 0 /\ AttemptFails(p) /\ UNCHANGED view
  <2>1. FailureFrame /\ faults' = faults
    BY <1>3, SameFailureFrame DEF Insert, boundVars
  <2>2. Late(p) => tries[p] <= faults'
                   /\ tries[p] + 1 <= faults' + IF view[Tenant(p)] = 0 THEN 0 ELSE 1
    BY <1>1, <1>3, <2>1, TriesLeft
  <2>3. QED
    BY <1>1, <1>3, <2>1, <2>2, AttemptFailsStep
<1>4. QED
  BY <1>2, <1>3 DEF Insert

LEMMA FaultStep ==
  ASSUME IInv, NEW p \in Members, Fault(p)
  PROVE  IInv'
<1>1. FailureFrame
  BY PipelineAssumption DEF IInv, TypeOK, Fault, FailureFrame
<1>2. Late(p) => tries[p] <= faults'
                 /\ tries[p] + 1 <= faults' + IF view[Tenant(p)] = 0 THEN 0 ELSE 1
  BY TriesLeft DEF Fault
<1>3. QED
  BY <1>1, <1>2, AttemptFailsStep DEF Fault

LEMMA ResetStep ==
  ASSUME IInv, Reset
  PROVE  IInv'
<1>1. /\ settled' = settled \cup DOMAIN topic
      /\ jumped' = jumped \cup (DOMAIN topic \ settled)
      /\ UNCHANGED <<system, source, wronged, stored, topic, handling, committed, view, attempt,
                     tries, givenUp, cancelled, faults, upsets>>
  BY DEF Reset, Group!Jump, handlerVars, boundVars
<1>2. TypeOK'
  BY <1>1 DEF IInv, TypeOK, MaxRetries
<1>3. WrittenTogether' /\ RightTenant' /\ NeverAhead'
  BY <1>1 DEF IInv, WrittenTogether, RightTenant, NeverAhead, Writes, Published
<1>4. TriesExplained'
  BY <1>1 DEF IInv, TriesExplained, Late, Version, Tenant, Record
<1>5. DeadLettersExplained'
  BY <1>1 DEF IInv, DeadLettersExplained, Excused, Orphan, MaxRetries
<1>6. QED
  BY <1>2, <1>3, <1>4, <1>5 DEF IInv
-----------------------------------------------------------------------------
(* The invariant is inductive.                                             *)
THEOREM NextInv == IInv /\ [Next]_vars => IInv'
<1> SUFFICES ASSUME IInv, [Next]_vars
             PROVE  IInv'
  OBVIOUS
<1>1. CASE UNCHANGED vars
  <2>1. UNCHANGED <<system, source, wronged, stored, topic, handling, settled, committed, view,
                    attempt, tries, givenUp, jumped, cancelled, faults, upsets>>
    BY <1>1 DEF vars, groupVars, handlerVars, boundVars
  <2>2. TypeOK'
    BY <2>1 DEF IInv, TypeOK, MaxRetries
  <2>3. WrittenTogether' /\ RightTenant' /\ NeverAhead'
    BY <2>1 DEF IInv, WrittenTogether, RightTenant, NeverAhead, Writes, Published
  <2>4. TriesExplained' /\ DeadLettersExplained'
    BY <2>1 DEF IInv, TriesExplained, Late, Version, Tenant, Record, DeadLettersExplained, Excused,
                Orphan, MaxRetries
  <2>5. QED
    BY <2>2, <2>3, <2>4 DEF IInv
<1>2. CASE /\ Cardinality(Writes) < MaxWrites
           /\ \E s \in Slugs, k \in Callers \cup {Invalid}, x \in Procedures :
                  LET r == [slug |-> s, token |-> k, procedure |-> x]
                  IN Call(r) \/ CallOnward(r)
  BY <1>2, CallStep, CallOnwardStep
<1>3. CASE Job
  BY <1>3, JobStep
<1>4. CASE PublishFirst \/ PublishAgain
  <2>1. PICK m \in Messages : Publish(m)
    BY <1>4 DEF PublishFirst, PublishAgain, IInv, WrittenTogether, Writes
  <2>2. upsets' \in 0..MaxUpsets
    BY <1>4, PipelineAssumption DEF PublishFirst, PublishAgain, IInv, TypeOK
  <2>3. QED
    BY <2>1, <2>2, PublishStep
<1>5. CASE Reset
  BY <1>5, ResetStep
<1>6. ASSUME NEW p \in Members, TakeNext(p) \/ TakeAgain(p)
      PROVE  IInv'
  <2>1. PICK o \in DOMAIN topic : Take(p, o)
    BY <1>6 DEF TakeNext, TakeAgain, IInv, TypeOK
  <2>2. upsets' \in 0..MaxUpsets
    BY <1>6, PipelineAssumption DEF TakeNext, TakeAgain, IInv, TypeOK
  <2>3. QED
    BY <2>1, <2>2, TakeStep
<1>7. ASSUME NEW p \in Members, Handler(p)
      PROVE  IInv'
  BY <1>7, PanicStep, ReplaceStep, NoMatchStep, InsertStep, ReturnStep DEF Handler
<1>8. ASSUME NEW p \in Members, Fault(p) \/ Cancel(p) \/ Crash(p)
      PROVE  IInv'
  BY <1>8, FaultStep, CancelStep, CrashStep
<1>9. QED
  BY <1>1, <1>2, <1>3, <1>4, <1>5, <1>6, <1>7, <1>8 DEF Next

(* It holds in every reachable state: a message is written with the data   *)
(* it is about (outbox.go:48-79), and what a member tried, gave up or      *)
(* projected is accounted for.                                             *)
THEOREM Invariance == Spec => []IInv
BY InitInv, NextInv, PTL DEF Spec

(* Every variable keeps the shape the code gives it, a member without a    *)
(* record has no attempt, and no record is tried more often than the       *)
(* loaded configuration says.                                              *)
THEOREM TypeCorrect == Spec => []TypeOK
<1>1. IInv => TypeOK
  BY DEF IInv
<1>2. QED
  BY <1>1, Invariance, PTL

(* No tenant's database is written for a caller without a right to it, by  *)
(* any chain of two services (tenant/interceptor.go:43-56,                 *)
(* http/client/tenant.go:16).                                              *)
THEOREM TenantsApart == Spec => []RightTenant
<1>1. IInv => RightTenant
  BY DEF IInv
<1>2. QED
  BY <1>1, Invariance, PTL

(* What is published or projected has been committed                       *)
(* (outbox.go:48-79).                                                      *)
THEOREM NothingUncommitted == Spec => []NeverAhead
<1>1. IInv => NeverAhead
  BY DEF IInv
<1>2. QED
  BY <1>1, Invariance, PTL

(* A record is given up only for a reason: it is no news, it has no        *)
(* tenant, the service stopped, or as many attempts failed as there are    *)
(* retries (processor.go:92-156).                                          *)
THEOREM GivenUpForAReason == Spec => []DeadLettersExplained
<1>1. IInv => DeadLettersExplained
  BY DEF IInv
<1>2. QED
  BY <1>1, Invariance, PTL

(* Data lies only where migrations ran, for every configuration of the     *)
(* database (mongo/config.go:77-140, tenant/migrator.go:68).               *)
THEOREM DataWhereMigrated == Spec => []SchemaWhereWritten
<1>1. SchemaWhereWritten
  BY TenantDatabaseMigrated, StaticDatabaseMigrated DEF SchemaWhereWritten
<1>2. QED
  BY <1>1, PTL
-----------------------------------------------------------------------------
(* What a step does to the projections.                                    *)

(* Only Replace and Insert write one: the one of the record's tenant, and  *)
(* with a newer version.                                                   *)
LEMMA ViewStep ==
  ASSUME IInv, [Next]_vars, view' # view
  PROVE  \E p \in Members :
            /\ attempt[p] # "none"
            /\ view' = [view EXCEPT ![Tenant(p)] = Version(p)]
            /\ view[Tenant(p)] < Version(p)
<1>1. PICK p \in Members : Replace(p) \/ Insert(p)
  <2>1. \A r : ~Call(r) /\ ~CallOnward(r)
    BY DEF Call, CallOnward, Serve
  <2>2. ~Job /\ ~PublishFirst /\ ~PublishAgain /\ ~Reset
    BY DEF Job, PublishFirst, PublishAgain, Publish, Reset
  <2>3. \A p \in Members : ~TakeNext(p) /\ ~TakeAgain(p) /\ ~Fault(p) /\ ~Cancel(p) /\ ~Crash(p)
    BY DEF TakeNext, TakeAgain, Take, Fault, Cancel, Crash
  <2>4. \A p \in Members : Handler(p) => Replace(p) \/ Insert(p)
    BY DEF Handler, Panic, NoMatch, Return
  <2>5. Next
    BY DEF vars
  <2>6. QED
    BY <2>1, <2>2, <2>3, <2>4, <2>5, Zenon DEF Next
<1>2. attempt[p] # "none" /\ Project(p)
  BY <1>1 DEF Replace, Insert
<1>3. Version(p) \in 1..MaxWrites
  BY <1>2, RecordType DEF IInv
<1>4. view[Tenant(p)] < Version(p)
  BY <1>1, <1>3, PipelineAssumption DEF Replace, Insert, Matches, Newer
<1>5. QED
  BY <1>2, <1>4 DEF Project

(* A projection is written only by an event of its own tenant              *)
(* (processor.go:78, tenant/messaging.go:27).                              *)
THEOREM ViewsApart == Spec => RightView
<1>1. ASSUME IInv, [Next]_vars
      PROVE  [\A t \in Slugs :
                 view'[t] # view[t] =>
                    \E p \in Members : handling[p] # 0 /\ topic[handling[p]].tenant = t]_vars
  <2>1. CASE view' = view
    BY <2>1
  <2>2. CASE view' # view
    <3>1. PICK p \in Members : /\ attempt[p] # "none"
                               /\ view' = [view EXCEPT ![Tenant(p)] = Version(p)]
      BY <1>1, <2>2, ViewStep
    <3>2. handling[p] # 0
      BY <1>1, <3>1 DEF IInv, TypeOK
    <3>3. QED
      BY <1>1, <3>1, <3>2 DEF IInv, TypeOK, Tenant, Record
  <2>3. QED
    BY <2>1, <2>2
<1>2. QED
  BY <1>1, Invariance, PTL DEF Spec, RightView

(* A projection never goes back, whatever the order, the number and the    *)
(* handlers of the deliveries (generic_repository.go:316-336).             *)
THEOREM ViewsAdvance == Spec => ViewAdvances
<1>1. ASSUME IInv, [Next]_vars
      PROVE  [\A t \in Slugs : view'[t] >= view[t]]_vars
  <2>1. \A t \in Slugs : view[t] \in Int
    BY <1>1, PipelineAssumption DEF IInv, TypeOK
  <2>2. CASE view' = view
    BY <2>1, <2>2
  <2>3. CASE view' # view
    <3>1. PICK p \in Members : /\ attempt[p] # "none"
                               /\ view' = [view EXCEPT ![Tenant(p)] = Version(p)]
                               /\ view[Tenant(p)] < Version(p)
      BY <1>1, <2>3, ViewStep
    <3>2. Version(p) \in Int
      BY <1>1, <3>1, RecordType DEF IInv
    <3>3. QED
      BY <1>1, <2>1, <3>1, <3>2 DEF IInv, TypeOK
  <2>4. QED
    BY <2>2, <2>3
<1>2. QED
  BY <1>1, Invariance, PTL DEF Spec, ViewAdvances
=============================================================================
