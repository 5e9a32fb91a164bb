---------------------------- MODULE TenantsProofs ----------------------------
(***************************************************************************)
(* Theorems about the tenant registry, for any tenants, instances,         *)
(* deletion delay, cleaners, events, failed calls and crashes.  The ones   *)
(* about data assume that the tenant service uses a slug once: with slugs  *)
(* that come back they are false (ActiveIsOperational).                    *)
(***************************************************************************)
EXTENDS Tenants, TLAPS

-----------------------------------------------------------------------------
(* The inductive invariant.                                                *)

\* Tenants that were deleted: for good, when slugs are used once.
Gone == Known \ api

\* The tenants the cleanup worker has read and not finished.
Erasing(i) == found[i] \cup ({cleaning[i]} \ {NoTenant})

(* Nobody speaks of a tenant that was never created.                       *)
OnlyKnown ==
    /\ api \subseteq Known /\ provisioned \subseteq Known
    /\ \A t \in Tenants : registry[t].status # "none" => t \in Known
    /\ \A i \in Instances : local[i] \subseteq Known /\ todo[i] \subseteq Known

(* Whoever is about to mark or to erase a tenant, however long ago it read *)
(* what it acts on, is right: the tenant was deleted.                      *)
OnlyGone ==
    /\ \A n \in DOMAIN events : events[n].kind = "deleted" => events[n].slug \in Gone
    /\ \A t \in Tenants : registry[t].status = "pending" => t \in Gone
    /\ \A i \in Instances : doomed[i] \subseteq Gone /\ Erasing(i) \subseteq Gone

(* Every delete_after, also one that is computed and not yet written, is   *)
(* DeletionDelay after the deletion or later, and is over before the       *)
(* tenant is erased.                                                       *)
Timely ==
    /\ \A t \in Tenants : registry[t].status = "pending" => age[t] + registry[t].after >= DeletionDelay
    /\ \A i \in Instances :
        /\ phase[i] \in {"down", "fetch"} => doomed[i] = {}
        /\ phase[i] = "mark" => \A t \in doomed[i] : age[t] + deadline[i] >= DeletionDelay
        /\ \A t \in Erasing(i) : age[t] >= DeletionDelay

(* A migration that is under way finds its tenant active, if it is listed. *)
Migrates ==
    \A i \in Instances :
        /\ phase[i] = "migrate" => todo[i] \cap api \subseteq Active
        /\ migrating[i] => Handling(i, "created") /\ (Slug(i) \in api => Slug(i) \in Active)

IInv ==
    /\ TypeOK
    /\ OnlyKnown
    /\ OnlyGone
    /\ Timely
    /\ Migrates
    /\ LiveTenantServed
    /\ DelayRespected
-----------------------------------------------------------------------------
(* Types.                                                                  *)

Statuses == {"none", "active", "pending"}
Registered == [status : Statuses, after : 0..DeletionDelay]
Events == [kind : {"created", "deleted"}, slug : Tenants]

LEMMA InitType == Init => TypeOK
<1> SUFFICES ASSUME Init
             PROVE  TypeOK
  OBVIOUS
<1>1. /\ registry \in [Tenants -> Registered] /\ age \in [Tenants -> 0..DeletionDelay]
      /\ deadline \in [Instances -> 0..DeletionDelay]
  BY TenantsAssumption DEF Init, NoRecord, Registered, Statuses
<1>2. /\ cleaner \in [Instances -> 1..(Cleaners + 1)] /\ faults \in 0..MaxFaults
      /\ crashes \in 0..MaxCrashes /\ tries \in [Instances -> 0..MaxRetries]
  BY TenantsAssumption DEF Init
<1>3. events \in Seq([kind : {"created", "deleted"}, slug : Tenants]) /\ Len(events) = 0
  BY DEF Init
<1>4. /\ event \in [Instances -> 0..Len(events)] /\ handled \in 0..Len(events)
      /\ committed \in 0..handled
  BY <1>3 DEF Init
<1>5. QED
  BY <1>1, <1>2, <1>3, <1>4 DEF Init, TypeOK, Registered, Statuses

(* The event an instance handles is one of the published ones.             *)
LEMMA EventType ==
  ASSUME TypeOK, NEW i \in Instances, event[i] > 0
  PROVE  /\ event[i] \in DOMAIN events /\ event[i] \in 1..Len(events)
         /\ events[event[i]] \in Events /\ Slug(i) \in Tenants
<1>1. events \in Seq(Events) /\ event[i] \in 0..Len(events)
  BY DEF TypeOK, Events
<1>2. event[i] \in DOMAIN events /\ event[i] \in 1..Len(events) /\ events[event[i]] \in Events
  BY <1>1
<1>3. QED
  BY <1>2 DEF Events, Slug

(* Publishing keeps what was published.                                    *)
LEMMA EventsGrow ==
  ASSUME events \in Seq(Events), NEW e \in Events, events' = Append(events, e)
  PROVE  /\ events' \in Seq(Events) /\ Len(events') = Len(events) + 1
         /\ Len(events) \in Nat /\ DOMAIN events = 1..Len(events)
         /\ DOMAIN events' = 1..(Len(events) + 1)
         /\ \A n \in DOMAIN events : events'[n] = events[n]
         /\ events'[Len(events) + 1] = e
OBVIOUS

LEMMA ServiceType ==
  ASSUME TypeOK, NEW t \in Tenants, CreateTenant(t) \/ DeleteTenant(t)
  PROVE  TypeOK'
<1>1. PICK e \in Events : events' = Append(events, e)
  BY DEF CreateTenant, DeleteTenant, Event, Events
<1>2. /\ events' \in Seq(Events) /\ Len(events') = Len(events) + 1 /\ Len(events) \in Nat
  BY <1>1, EventsGrow DEF TypeOK, Events
<1>3. /\ event' \in [Instances -> 0..Len(events')] /\ handled' \in 0..Len(events')
      /\ committed' \in 0..handled'
  BY <1>2 DEF TypeOK, CreateTenant, DeleteTenant, handlerVars
<1>4. age' \in [Tenants -> 0..DeletionDelay]
  <2>1. 0 \in 0..DeletionDelay
    BY TenantsAssumption
  <2>2. age' = age \/ age' = [age EXCEPT ![t] = 0]
    BY DEF CreateTenant, DeleteTenant
  <2>3. QED
    BY <2>1, <2>2 DEF TypeOK
<1>5. api' \subseteq Tenants /\ provisioned' \subseteq Tenants
  BY DEF TypeOK, CreateTenant, DeleteTenant, mongoVars
<1>6. UNCHANGED <<registry, dbs, phase, startVars, migrating, tries, abandoned, workerVars,
                 faultVars>>
  BY DEF CreateTenant, DeleteTenant, mongoVars, handlerVars
<1>7. QED
  BY <1>2, <1>3, <1>4, <1>5, <1>6
     DEF TypeOK, Events, startVars, workerVars, faultVars

LEMMA TickType ==
  ASSUME TypeOK, Tick
  PROVE  TypeOK'
<1>1. \A n \in 0..DeletionDelay : Less(n) \in 0..DeletionDelay
  BY TenantsAssumption DEF Less
<1>2. \A t \in Tenants : Older(t) \in 0..DeletionDelay
  BY TenantsAssumption DEF TypeOK, Older
<1>3. registry' \in [Tenants -> Registered]
  <2>1. ASSUME NEW t \in Tenants
        PROVE  [registry[t] EXCEPT !.after = Less(@)] \in Registered
    <3>1. registry[t] \in Registered
      BY DEF TypeOK, Registered, Statuses
    <3>2. Less(registry[t].after) \in 0..DeletionDelay
      BY <1>1, <3>1 DEF Registered
    <3>3. QED
      BY <3>1, <3>2 DEF Registered
  <2>2. registry' = [t \in Tenants |-> [registry[t] EXCEPT !.after = Less(@)]]
    BY DEF Tick
  <2>3. QED
    BY <2>1, <2>2
<1>4. deadline' \in [Instances -> 0..DeletionDelay] /\ age' \in [Tenants -> 0..DeletionDelay]
  BY <1>1, <1>2 DEF TypeOK, Tick
<1>5. QED
  BY <1>3, <1>4 DEF TypeOK, Tick, Registered, Statuses, handlerVars, workerVars, faultVars

LEMMA StartType ==
  ASSUME TypeOK, NEW i \in Instances, Starting(i) \/ GetSlugsFails(i)
  PROVE  TypeOK'
<1>1. CASE ReadRegistry(i)
  <2>1. /\ phase' \in [Instances -> {"down", "fetch", "upsert", "mark", "migrate", "up"}]
        /\ local' \in [Instances -> SUBSET Tenants]
    BY <1>1 DEF TypeOK, ReadRegistry, Active
  <2>2. UNCHANGED <<serviceVars, mongoVars, todo, doomed, deadline, handlerVars, workerVars, faultVars>>
    BY <1>1 DEF ReadRegistry
  <2>3. QED
    BY <2>1, <2>2
       DEF TypeOK, serviceVars, mongoVars, startVars, handlerVars, workerVars, faultVars
<1>2. CASE GetSlugs(i)
  <2>1. /\ phase' \in [Instances -> {"down", "fetch", "upsert", "mark", "migrate", "up"}]
        /\ local' \in [Instances -> SUBSET Tenants]
    BY <1>2 DEF TypeOK, GetSlugs
  <2>2. /\ todo' \in [Instances -> SUBSET Tenants]
        /\ doomed' \in [Instances -> SUBSET Tenants]
    BY <1>2 DEF TypeOK, GetSlugs
  <2>3. UNCHANGED <<serviceVars, mongoVars, deadline, handlerVars, workerVars, faultVars>>
    BY <1>2 DEF GetSlugs
  <2>4. QED
    BY <2>1, <2>2, <2>3
       DEF TypeOK, serviceVars, mongoVars, startVars, handlerVars, workerVars, faultVars
<1>3. CASE UpsertNew(i)
  <2>1. PICK t \in todo[i] : Upsert(t) /\ todo' = [todo EXCEPT ![i] = @ \ {t}]
    BY <1>3 DEF UpsertNew
  <2>2. registry' \in [Tenants -> Registered]
    BY <2>1, TenantsAssumption DEF TypeOK, Upsert, Registered, Statuses
  <2>3. todo' \in [Instances -> SUBSET Tenants]
    BY <2>1 DEF TypeOK
  <2>4. UNCHANGED <<serviceVars, dbs, provisioned, phase, local, doomed, deadline, handlerVars,
                  workerVars, faultVars>>
    BY <1>3 DEF UpsertNew
  <2>5. QED
    BY <2>2, <2>3, <2>4
       DEF TypeOK, Registered, Statuses, serviceVars, mongoVars, startVars, handlerVars, workerVars, faultVars
<1>4. CASE SetDeadline(i)
  <2>1. /\ phase' \in [Instances -> {"down", "fetch", "upsert", "mark", "migrate", "up"}]
        /\ deadline' \in [Instances -> 0..DeletionDelay]
    BY <1>4, TenantsAssumption DEF TypeOK, SetDeadline
  <2>2. UNCHANGED <<serviceVars, mongoVars, local, todo, doomed, handlerVars, workerVars, faultVars>>
    BY <1>4 DEF SetDeadline
  <2>3. QED
    BY <2>1, <2>2
       DEF TypeOK, serviceVars, mongoVars, startVars, handlerVars, workerVars, faultVars
<1>5. CASE MarkMissing(i)
  <2>1. PICK t \in doomed[i] : /\ MarkForDeletion(t, deadline[i])
                               /\ doomed' = [doomed EXCEPT ![i] = @ \ {t}]
    BY <1>5 DEF MarkMissing
  <2>2. registry' \in [Tenants -> Registered]
    BY <2>1 DEF TypeOK, MarkForDeletion, Registered, Statuses
  <2>3. doomed' \in [Instances -> SUBSET Tenants]
    BY <2>1 DEF TypeOK
  <2>4. UNCHANGED <<serviceVars, dbs, provisioned, phase, local, todo, deadline, handlerVars,
                  workerVars, faultVars>>
    BY <1>5 DEF MarkMissing
  <2>5. QED
    BY <2>2, <2>3, <2>4
       DEF TypeOK, Registered, Statuses, serviceVars, mongoVars, startVars, handlerVars, workerVars, faultVars
<1>6. CASE ListActive(i)
  <2>1. /\ phase' \in [Instances -> {"down", "fetch", "upsert", "mark", "migrate", "up"}]
        /\ deadline' \in [Instances -> 0..DeletionDelay]
    BY <1>6, TenantsAssumption DEF TypeOK, ListActive
  <2>2. todo' \in [Instances -> SUBSET Tenants]
    BY <1>6 DEF TypeOK, ListActive, Active
  <2>3. UNCHANGED <<serviceVars, mongoVars, local, doomed, handlerVars, workerVars, faultVars>>
    BY <1>6 DEF ListActive
  <2>4. QED
    BY <2>1, <2>2, <2>3
       DEF TypeOK, serviceVars, mongoVars, startVars, handlerVars, workerVars, faultVars
<1>7. CASE MigrateListed(i)
  <2>1. /\ dbs' \subseteq Tenants /\ provisioned' \subseteq Tenants
        /\ todo' \in [Instances -> SUBSET Tenants]
    BY <1>7 DEF TypeOK, MigrateListed, MigrateTenant
  <2>2. UNCHANGED <<serviceVars, registry, phase, local, doomed, deadline, handlerVars,
                  workerVars, faultVars>>
    BY <1>7 DEF MigrateListed
  <2>3. QED
    BY <2>1, <2>2
       DEF TypeOK, serviceVars, mongoVars, startVars, handlerVars, workerVars, faultVars
<1>8. CASE Up(i)
  <2>1. phase' \in [Instances -> {"down", "fetch", "upsert", "mark", "migrate", "up"}]
    BY <1>8 DEF TypeOK, Up
  <2>2. UNCHANGED <<serviceVars, mongoVars, startVars, handlerVars, workerVars, faultVars>>
    BY <1>8 DEF Up
  <2>3. QED
    BY <2>1, <2>2
       DEF TypeOK, serviceVars, mongoVars, startVars, handlerVars, workerVars, faultVars
<1>9. CASE GetSlugsFails(i)
  <2>1. /\ phase' \in [Instances -> {"down", "fetch", "upsert", "mark", "migrate", "up"}]
        /\ local' \in [Instances -> SUBSET Tenants]
    BY <1>9 DEF TypeOK, GetSlugsFails
  <2>2. faults' \in 0..MaxFaults
    BY <1>9, TenantsAssumption DEF TypeOK, GetSlugsFails
  <2>3. UNCHANGED <<serviceVars, mongoVars, todo, doomed, deadline, handlerVars, workerVars, crashes>>
    BY <1>9 DEF GetSlugsFails
  <2>4. QED
    BY <2>1, <2>2, <2>3
       DEF TypeOK, serviceVars, mongoVars, startVars, handlerVars, workerVars
<1>10. QED
  BY <1>1, <1>2, <1>3, <1>4, <1>5, <1>6, <1>7, <1>8, <1>9 DEF Starting

(* The group never goes past the end of the partition.                     *)
LEMMA DoneType ==
  ASSUME TypeOK, NEW i \in Instances, event[i] > 0, EventDone(i),
         UNCHANGED <<events, committed>>
  PROVE  /\ handled' \in 0..Len(events') /\ committed' \in 0..handled'
         /\ event' \in [Instances -> 0..Len(events')] /\ tries' \in [Instances -> 0..MaxRetries]
<1>1. event[i] \in 1..Len(events) /\ Len(events) \in Nat
  <2>1. events \in Seq(Events)
    BY DEF TypeOK, Events
  <2>2. QED
    BY <2>1, EventType
<1>2. handled \in 0..Len(events) /\ committed \in 0..handled
  BY DEF TypeOK
<1>3. handled' = handled \/ (handled' = event[i] /\ event[i] = handled + 1)
  BY DEF EventDone
<1>4. event' \in [Instances -> 0..Len(events)] /\ tries' \in [Instances -> 0..MaxRetries]
  BY <1>1, TenantsAssumption DEF TypeOK, EventDone
<1>5. QED
  BY <1>1, <1>2, <1>3, <1>4

(* Only tenants are passed over.                                           *)
LEMMA AbandonType ==
  ASSUME TypeOK, NEW i \in Instances, event[i] > 0, Abandon(i)
  PROVE  abandoned' \subseteq Tenants
<1>1. Slug(i) \in Tenants
  BY EventType
<1>2. QED
  BY <1>1 DEF TypeOK, Abandon

LEMMA HandlerType ==
  ASSUME TypeOK, NEW i \in Instances, HandleEvent(i) \/ AttemptFails(i)
  PROVE  TypeOK'
<1>1. CASE TakeEvent(i)
  <2>1. handled + 1 \in 0..Len(events)
    BY <1>1 DEF TypeOK, TakeEvent
  <2>2. event' \in [Instances -> 0..Len(events)]
    BY <1>1, <2>1 DEF TypeOK, TakeEvent
  <2>3. QED
    BY <1>1, <2>2 DEF TypeOK, TakeEvent, serviceVars, mongoVars, startVars, workerVars, faultVars
<1>2. CASE CreateUpsert(i)
  <2>1. Slug(i) \in Tenants
    BY <1>2, EventType DEF CreateUpsert, Handling
  <2>2. registry' \in [Tenants -> Registered]
    BY <1>2, <2>1, TenantsAssumption DEF TypeOK, CreateUpsert, Upsert, Registered, Statuses
  <2>3. migrating' \in [Instances -> BOOLEAN]
    BY <1>2 DEF TypeOK, CreateUpsert
  <2>4. QED
    BY <1>2, <2>2, <2>3
       DEF TypeOK, CreateUpsert, Registered, Statuses, serviceVars, startVars, workerVars, faultVars
<1>3. CASE CreateMigrate(i)
  <2>1. event[i] > 0
    BY <1>3 DEF CreateMigrate, Handling
  <2>2. Slug(i) \in Tenants
    BY <2>1, EventType
  <2>3. dbs' \subseteq Tenants /\ provisioned' \subseteq Tenants
    BY <1>3, <2>2 DEF TypeOK, CreateMigrate, MigrateTenant
  <2>4. migrating' \in [Instances -> BOOLEAN]
    BY <1>3 DEF TypeOK, CreateMigrate
  <2>5. UNCHANGED <<events, committed>>
    BY <1>3 DEF CreateMigrate, serviceVars
  <2>6. EventDone(i)
    BY <1>3 DEF CreateMigrate
  <2>7. /\ handled' \in 0..Len(events') /\ committed' \in 0..handled'
        /\ event' \in [Instances -> 0..Len(events')] /\ tries' \in [Instances -> 0..MaxRetries]
    BY <2>1, <2>5, <2>6, DoneType
  <2>8. UNCHANGED <<abandoned, serviceVars, registry, phase, startVars, workerVars, faultVars>>
    BY <1>3 DEF CreateMigrate
  <2>9. QED
    BY <2>3, <2>4, <2>7, <2>8 DEF TypeOK, serviceVars, startVars, workerVars, faultVars
<1>4. CASE Delete(i)
  <2>1. event[i] > 0
    BY <1>4 DEF Delete, Handling
  <2>2. Slug(i) \in Tenants
    BY <2>1, EventType
  <2>3. registry' \in [Tenants -> Registered]
    BY <1>4, <2>2, TenantsAssumption DEF TypeOK, Delete, MarkForDeletion, Registered, Statuses
  <2>4. UNCHANGED <<events, committed>>
    BY <1>4 DEF Delete, serviceVars
  <2>5. EventDone(i)
    BY <1>4 DEF Delete
  <2>6. /\ handled' \in 0..Len(events') /\ committed' \in 0..handled'
        /\ event' \in [Instances -> 0..Len(events')] /\ tries' \in [Instances -> 0..MaxRetries]
    BY <2>1, <2>4, <2>5, DoneType
  <2>7. UNCHANGED <<abandoned, serviceVars, dbs, provisioned, phase, startVars, migrating,
                    workerVars, faultVars>>
    BY <1>4 DEF Delete
  <2>8. QED
    BY <2>3, <2>6, <2>7
       DEF TypeOK, Registered, Statuses, serviceVars, startVars, workerVars, faultVars
<1>5. CASE AttemptFails(i)
  <2>1. faults' \in 0..MaxFaults
    BY <1>5, TenantsAssumption DEF TypeOK, AttemptFails
  <2>2. migrating' \in [Instances -> BOOLEAN]
    BY <1>5 DEF TypeOK, AttemptFails
  <2>3. /\ event[i] > 0
        /\ UNCHANGED <<serviceVars, mongoVars, phase, startVars, committed, workerVars, crashes>>
    BY <1>5 DEF AttemptFails
  <2>4. /\ handled' \in 0..Len(events') /\ committed' \in 0..handled'
        /\ event' \in [Instances -> 0..Len(events')] /\ tries' \in [Instances -> 0..MaxRetries]
        /\ abandoned' \subseteq Tenants
    <3>1. UNCHANGED <<events, committed>>
      BY <2>3 DEF serviceVars
    <3>2. CASE EventDone(i) /\ Abandon(i)
      BY <2>3, <3>1, <3>2, DoneType, AbandonType
    <3>3. CASE /\ tries[i] < MaxRetries
               /\ tries' = [tries EXCEPT ![i] = @ + 1]
               /\ UNCHANGED <<handled, event, abandoned>>
      <4>1. tries' \in [Instances -> 0..MaxRetries]
        BY <3>3, TenantsAssumption DEF TypeOK
      <4>2. QED
        BY <3>1, <3>3, <4>1 DEF TypeOK
    <3>4. QED
      BY <1>5, <3>2, <3>3 DEF AttemptFails, RetryOrGiveUp
  <2>5. QED
    BY <2>1, <2>2, <2>3, <2>4
       DEF TypeOK, serviceVars, mongoVars, startVars, workerVars
<1>6. QED
  BY <1>1, <1>2, <1>3, <1>4, <1>5 DEF HandleEvent

LEMMA CleanupType ==
  ASSUME TypeOK, NEW i \in Instances, CleanupWorker(i) \/ CleanupFails(i)
  PROVE  TypeOK'
<1>1. Cleaners \in Nat /\ 1 \in 1..(Cleaners + 1)
  BY TenantsAssumption
<1>2. CASE FindExpired(i)
  <2>1. found' \in [Instances -> SUBSET Tenants]
    BY <1>2 DEF TypeOK, FindExpired, FindPendingDeletion
  <2>2. UNCHANGED <<serviceVars, mongoVars, phase, startVars, handlerVars, cleaning, cleaner, faultVars>>
    BY <1>2 DEF FindExpired
  <2>3. QED
    BY <2>1, <2>2
       DEF TypeOK, serviceVars, mongoVars, startVars, handlerVars, faultVars
<1>3. CASE CleanupTenant(i)
  <2>1. /\ found' \in [Instances -> SUBSET Tenants]
        /\ cleaning' \in [Instances -> Tenants \cup {NoTenant}]
        /\ cleaner' \in [Instances -> 1..(Cleaners + 1)]
    BY <1>1, <1>3 DEF TypeOK, CleanupTenant
  <2>2. UNCHANGED <<serviceVars, mongoVars, phase, startVars, handlerVars, faultVars>>
    BY <1>3 DEF CleanupTenant
  <2>3. QED
    BY <2>1, <2>2
       DEF TypeOK, serviceVars, mongoVars, startVars, handlerVars, faultVars
<1>4. CASE CallCleaner(i)
  <2>1. cleaner' \in [Instances -> 1..(Cleaners + 1)]
    BY <1>1, <1>4 DEF TypeOK, CallCleaner
  <2>2. dbs' \subseteq Tenants
    BY <1>4 DEF TypeOK, CallCleaner, DropDatabase
  <2>3. QED
    BY <1>4, <2>1, <2>2
       DEF TypeOK, CallCleaner, serviceVars, startVars, handlerVars, faultVars
<1>5. CASE RemoveRecord(i)
  <2>1. registry' \in [Tenants -> Registered]
    BY <1>5, TenantsAssumption DEF TypeOK, RemoveRecord, Remove, NoRecord, Registered, Statuses
  <2>2. /\ cleaner' \in [Instances -> 1..(Cleaners + 1)]
        /\ cleaning' \in [Instances -> Tenants \cup {NoTenant}]
    BY <1>1, <1>5 DEF TypeOK, RemoveRecord, CleanupDone
  <2>3. QED
    BY <1>5, <2>1, <2>2
       DEF TypeOK, RemoveRecord, Registered, Statuses, serviceVars, startVars, handlerVars, faultVars
<1>6. CASE CleanupFails(i)
  <2>1. faults' \in 0..MaxFaults
    BY <1>6, TenantsAssumption DEF TypeOK, CleanupFails
  <2>2. /\ cleaner' \in [Instances -> 1..(Cleaners + 1)]
        /\ cleaning' \in [Instances -> Tenants \cup {NoTenant}]
    BY <1>1, <1>6 DEF TypeOK, CleanupFails, CleanupDone
  <2>3. QED
    BY <1>6, <2>1, <2>2
       DEF TypeOK, CleanupFails, serviceVars, mongoVars, startVars, handlerVars
<1>7. QED
  BY <1>2, <1>3, <1>4, <1>5, <1>6 DEF CleanupWorker

LEMMA GroupType ==
  ASSUME TypeOK, Commit \/ Rebalance
  PROVE  TypeOK'
<1>1. handled' \in 0..Len(events) /\ committed' \in 0..handled'
  BY DEF TypeOK, Commit, Rebalance
<1>2. crashes' \in 0..MaxCrashes
  BY TenantsAssumption DEF TypeOK, Commit, Rebalance, faultVars
<1>3. UNCHANGED <<serviceVars, mongoVars, phase, startVars, event, migrating, tries,
                  abandoned, workerVars, faults>>
  BY DEF Commit, Rebalance, faultVars
<1>4. QED
  BY <1>1, <1>2, <1>3
     DEF TypeOK, serviceVars, mongoVars, startVars, workerVars

LEMMA DownType ==
  ASSUME TypeOK, NEW i \in Instances, Crash(i) \/ StopInEvent(i)
  PROVE  TypeOK'
<1>1. crashes' \in 0..MaxCrashes
  <2>1. crashes < MaxCrashes /\ crashes' = crashes + 1
    BY DEF Crash, StopInEvent, GoDown
  <2>2. crashes \in 0..MaxCrashes /\ MaxCrashes \in Nat
    BY TenantsAssumption DEF TypeOK
  <2>3. QED
    BY <2>1, <2>2
<1>2. UNCHANGED <<serviceVars, mongoVars, faults>>
  BY DEF Crash, StopInEvent
<1>3. handled' \in 0..Len(events) /\ committed' \in 0..handled' /\ abandoned' \subseteq Tenants
  <2>1. CASE Crash(i)
    BY <2>1 DEF TypeOK, Crash
  <2>2. CASE StopInEvent(i)
    <3>1. event[i] > 0
      BY <2>2 DEF TypeOK, StopInEvent
    <3>2. event[i] \in 1..Len(events) /\ abandoned' \subseteq Tenants
      BY <2>2, <3>1, EventType, AbandonType DEF StopInEvent
    <3>3. QED
      BY <2>2, <3>2 DEF StopInEvent
  <2>3. QED
    BY <2>1, <2>2
<1>4. GoDown(i)
  BY DEF Crash, StopInEvent
<1>5. /\ deadline' \in [Instances -> 0..DeletionDelay]
      /\ cleaner' \in [Instances -> 1..(Cleaners + 1)]
      /\ cleaning' \in [Instances -> Tenants \cup {NoTenant}]
  BY <1>4, TenantsAssumption DEF TypeOK, GoDown, CleanupDone
<1>6. /\ local' \in [Instances -> SUBSET Tenants] /\ todo' \in [Instances -> SUBSET Tenants]
      /\ doomed' \in [Instances -> SUBSET Tenants] /\ found' \in [Instances -> SUBSET Tenants]
  BY <1>4 DEF TypeOK, GoDown
<1>7. /\ phase' \in [Instances -> {"down", "fetch", "upsert", "mark", "migrate", "up"}]
      /\ event' \in [Instances -> 0..Len(events)] /\ migrating' \in [Instances -> BOOLEAN]
      /\ tries' \in [Instances -> 0..MaxRetries]
  BY <1>4, TenantsAssumption DEF TypeOK, GoDown
<1>8. QED
  BY <1>1, <1>2, <1>3, <1>5, <1>6, <1>7 DEF TypeOK, serviceVars, mongoVars

LEMMA NextType == TypeOK /\ [Next]_vars => TypeOK'
<1> SUFFICES ASSUME TypeOK, [Next]_vars
             PROVE  TypeOK'
  OBVIOUS
<1>1. CASE UNCHANGED vars
  BY <1>1 DEF TypeOK, vars, serviceVars, mongoVars, startVars, handlerVars, workerVars, faultVars
<1>2. CASE Next
  BY <1>2, ServiceType, TickType, GroupType, StartType, HandlerType, CleanupType, DownType
     DEF Next, Fault
<1>3. QED
  BY <1>1, <1>2

(* Every variable has the shape the code gives it.                         *)
THEOREM TypeCorrect == Spec => []TypeOK
BY InitType, NextType, PTL DEF Spec
-----------------------------------------------------------------------------
(* The tenant service and the clock go one way.                            *)

(* Of the steps of an instance and of the group, none is the service's.    *)
LEMMA ServiceStep ==
  ASSUME [Next]_vars
  PROVE  \/ UNCHANGED serviceVars
         \/ \E t \in Tenants : CreateTenant(t) \/ DeleteTenant(t)
         \/ Tick
<1>1. CASE UNCHANGED vars
  BY <1>1 DEF vars
<1>2. CASE \E t \in Tenants : CreateTenant(t) \/ DeleteTenant(t)
  BY <1>2
<1>3. CASE Tick \/ Commit \/ Rebalance
  BY <1>3 DEF Commit, Rebalance
<1>4. ASSUME NEW i \in Instances, Starting(i)
      PROVE  UNCHANGED serviceVars
  BY <1>4 DEF Starting, ReadRegistry, GetSlugs, UpsertNew, SetDeadline, MarkMissing, ListActive,
              MigrateListed, Up
<1>5. ASSUME NEW i \in Instances, HandleEvent(i)
      PROVE  UNCHANGED serviceVars
  BY <1>5 DEF HandleEvent, TakeEvent, CreateUpsert, CreateMigrate, Delete
<1>6. ASSUME NEW i \in Instances, CleanupWorker(i) \/ Fault(i)
      PROVE  UNCHANGED serviceVars
  BY <1>6 DEF CleanupWorker, FindExpired, CleanupTenant, CallCleaner, RemoveRecord, Fault,
              GetSlugsFails, AttemptFails, CleanupFails, Crash, StopInEvent
<1>7. QED
  BY <1>1, <1>2, <1>3, <1>4, <1>5, <1>6 DEF Next

(* Events stay, a tenant that was created is known for good and a deleted  *)
(* one is gone for good, when slugs are used once; and its age only grows. *)
LEMMA Onward ==
  ASSUME ~Recreate, TypeOK, [Next]_vars
  PROVE  /\ \A n \in DOMAIN events : n \in DOMAIN events' /\ events'[n] = events[n]
         /\ Known \subseteq Known' /\ Gone \subseteq Gone'
         /\ \A t \in Known : t \in api' => t \in api
         /\ \A t \in Gone : age[t] \in Nat /\ age'[t] \in Nat /\ age'[t] >= age[t]
<1>0. age \in [Tenants -> 0..DeletionDelay] /\ DeletionDelay \in Nat \ {0}
  BY TenantsAssumption DEF TypeOK
<1>1. CASE UNCHANGED serviceVars
  BY <1>0, <1>1 DEF serviceVars, Known, Gone, Existed
<1>2. ASSUME NEW t \in Tenants, CreateTenant(t) \/ DeleteTenant(t)
      PROVE  /\ \A n \in DOMAIN events : n \in DOMAIN events' /\ events'[n] = events[n]
             /\ \A u \in Known : u \in api' => u \in api
             /\ \A u \in Gone : age'[u] = age[u]
  <2>1. PICK e \in Events : events' = Append(events, e)
    BY <1>2 DEF CreateTenant, DeleteTenant, Event, Events
  <2>2. \A n \in DOMAIN events : n \in DOMAIN events' /\ events'[n] = events[n]
    BY <2>1, EventsGrow DEF TypeOK, Events
  <2>3. \A u \in Known : u \in api' => u \in api
    BY <1>2 DEF CreateTenant, DeleteTenant, Known
  <2>4. \A u \in Gone : age'[u] = age[u]
    BY <1>0, <1>2 DEF CreateTenant, DeleteTenant, Known, Gone
  <2>5. QED
    BY <2>2, <2>3, <2>4
<1>3. CASE Tick
  <2>1. UNCHANGED <<api, events>> /\ age' = [t \in Tenants |-> Older(t)]
    BY <1>3 DEF Tick
  <2>2. \A t \in Tenants : Older(t) \in Nat /\ Older(t) >= age[t]
    BY <1>0 DEF Older
  <2>3. QED
    BY <1>0, <2>1, <2>2 DEF Known, Gone, Existed
<1>4. ASSUME NEW t \in Tenants, CreateTenant(t) \/ DeleteTenant(t)
      PROVE  Known \subseteq Known' /\ Gone \subseteq Gone'
  <2>1. Known \subseteq Known'
    BY <1>2, <1>4 DEF Known, Existed
  <2>2. QED
    BY <1>2, <1>4, <2>1 DEF Gone
<1>5. ASSUME NEW t \in Tenants, CreateTenant(t) \/ DeleteTenant(t)
      PROVE  \A u \in Gone : age[u] \in Nat /\ age'[u] \in Nat /\ age'[u] >= age[u]
  <2>1. \A u \in Gone : age'[u] = age[u] /\ age[u] \in Nat
    BY <1>0, <1>2, <1>5 DEF Gone, Known
  <2>2. QED
    BY <2>1
<1>6. QED
  BY ServiceStep, <1>1, <1>2, <1>3, <1>4, <1>5
-----------------------------------------------------------------------------
(* What a step does to the registry.                                       *)

(* A created event speaks of a known tenant, a deleted event of one that   *)
(* is gone.                                                                *)
LEMMA EventTruth ==
  ASSUME IInv, NEW i \in Instances, event[i] > 0
  PROVE  /\ Handling(i, "created") => Slug(i) \in Known
         /\ Handling(i, "deleted") => Slug(i) \in Gone
<1>1. event[i] \in DOMAIN events /\ events[event[i]] \in Events /\ Slug(i) \in Tenants
  BY EventType DEF IInv
<1>2. ASSUME Handling(i, "created")
      PROVE  Slug(i) \in Known
  <2>1. events[event[i]] = Event("created", Slug(i))
    BY <1>1, <1>2 DEF Events, Event, Slug, Handling
  <2>2. QED
    BY <1>1, <2>1 DEF Known, Existed
<1>3. Handling(i, "deleted") => Slug(i) \in Gone
  BY <1>1 DEF IInv, OnlyGone, Handling, Slug
<1>4. QED
  BY <1>2, <1>3

NewlyActive(t) == t \in Known /\ registry'[t] = [status |-> "active", after |-> 0]

NewlyPending(t) ==
    /\ t \in Gone
    /\ registry'[t].status = "pending"
    /\ registry'[t].after \in Nat /\ age[t] + registry'[t].after >= DeletionDelay

NewlyRemoved(t) == t \in Gone /\ registry'[t] = NoRecord

Ticked(t) == age' = [u \in Tenants |-> Older(u)] /\ registry'[t] = [registry[t] EXCEPT !.after = Less(@)]

(* An active record is of a known tenant; a record that is marked or       *)
(* removed is of a tenant that is gone, and marked for late enough.        *)
LEMMA RegistryStep ==
  ASSUME IInv, [Next]_vars, NEW t \in Tenants
  PROVE  \/ registry'[t] = registry[t] \/ Ticked(t)
         \/ NewlyActive(t) \/ NewlyPending(t) \/ NewlyRemoved(t)
<1> USE DEF IInv
<1>1. registry \in [Tenants -> Registered] /\ age \in [Tenants -> 0..DeletionDelay]
      /\ deadline \in [Instances -> 0..DeletionDelay] /\ DeletionDelay \in Nat \ {0}
  BY TenantsAssumption DEF TypeOK, Registered, Statuses
<1>2. CASE UNCHANGED registry
  BY <1>2
<1>3. CASE Tick
  BY <1>1, <1>3 DEF Tick, Ticked
<1>4. ASSUME NEW i \in Instances, UpsertNew(i)
      PROVE  registry'[t] = registry[t] \/ NewlyActive(t)
  <2>1. PICK u \in todo[i] : Upsert(u)
    BY <1>4 DEF UpsertNew
  <2>2. u \in Known
    BY <2>1 DEF OnlyKnown
  <2>3. QED
    BY <1>1, <2>1, <2>2 DEF Upsert, NewlyActive
<1>5. ASSUME NEW i \in Instances, MarkMissing(i)
      PROVE  registry'[t] = registry[t] \/ NewlyPending(t)
  <2>1. PICK u \in doomed[i] : MarkForDeletion(u, deadline[i])
    BY <1>5 DEF MarkMissing
  <2>2. u \in Gone /\ age[u] + deadline[i] >= DeletionDelay /\ deadline[i] \in Nat
    BY <1>1, <1>5, <2>1 DEF OnlyGone, Timely, MarkMissing
  <2>3. QED
    BY <1>1, <2>1, <2>2 DEF MarkForDeletion, NewlyPending
<1>6. ASSUME NEW i \in Instances, CreateUpsert(i)
      PROVE  registry'[t] = registry[t] \/ NewlyActive(t)
  <2>1. Slug(i) \in Known /\ Upsert(Slug(i))
    BY <1>6, EventTruth DEF CreateUpsert, Handling
  <2>2. QED
    BY <1>1, <2>1 DEF Upsert, NewlyActive
<1>7. ASSUME NEW i \in Instances, Delete(i)
      PROVE  registry'[t] = registry[t] \/ NewlyPending(t)
  <2>1. Slug(i) \in Gone /\ MarkForDeletion(Slug(i), DeletionDelay)
    BY <1>7, EventTruth DEF Delete, Handling
  <2>2. QED
    BY <1>1, <2>1 DEF MarkForDeletion, NewlyPending, Gone, Known
<1>8. ASSUME NEW i \in Instances, RemoveRecord(i)
      PROVE  registry'[t] = registry[t] \/ NewlyRemoved(t)
  <2>1. cleaning[i] \in Gone /\ Remove(cleaning[i])
    BY <1>8 DEF RemoveRecord, OnlyGone, Erasing
  <2>2. QED
    BY <1>1, <2>1 DEF Remove, NewlyRemoved
<1>9. CASE \/ UNCHANGED vars \/ Commit \/ Rebalance
           \/ \E u \in Tenants : CreateTenant(u) \/ DeleteTenant(u)
  BY <1>9 DEF vars, mongoVars, Commit, Rebalance, CreateTenant, DeleteTenant
<1>10. ASSUME NEW i \in Instances, Starting(i), ~UpsertNew(i), ~MarkMissing(i)
       PROVE  UNCHANGED registry
  BY <1>10 DEF mongoVars, Starting, ReadRegistry, GetSlugs, SetDeadline, ListActive, MigrateListed, Up
<1>11. ASSUME NEW i \in Instances, HandleEvent(i), ~CreateUpsert(i), ~Delete(i)
       PROVE  UNCHANGED registry
  BY <1>11 DEF mongoVars, HandleEvent, TakeEvent, CreateMigrate
<1>12. ASSUME NEW i \in Instances, CleanupWorker(i) \/ Fault(i), ~RemoveRecord(i)
       PROVE  UNCHANGED registry
  BY <1>12 DEF mongoVars, CleanupWorker, FindExpired, CleanupTenant, CallCleaner, Fault,
               GetSlugsFails, AttemptFails, CleanupFails, Crash, StopInEvent
<1>13. QED
  BY <1>2, <1>3, <1>4, <1>5, <1>6, <1>7, <1>8, <1>9, <1>10, <1>11, <1>12 DEF Next

(* So an active tenant that is still listed stays active.                  *)
LEMMA StaysActive ==
  ASSUME ~Recreate, IInv, [Next]_vars
  PROVE  Active \cap api' \subseteq Active'
<1> SUFFICES ASSUME NEW t \in Active, t \in api'
             PROVE  t \in Active'
  OBVIOUS
<1>1. t \in Tenants /\ registry[t].status = "active" /\ registry[t] \in Registered
  BY DEF Active, IInv, TypeOK, Registered, Statuses
<1>2. t \notin Gone
  BY <1>1, Onward DEF Gone, IInv
<1>3. registry'[t] = registry[t] \/ Ticked(t) \/ NewlyActive(t)
  BY <1>1, <1>2, RegistryStep DEF NewlyPending, NewlyRemoved
<1>4. registry'[t].status = "active"
  BY <1>1, <1>3 DEF Ticked, NewlyActive, Registered
<1>5. QED
  BY <1>1, <1>4 DEF Active
-----------------------------------------------------------------------------
(* The parts of the invariant.                                             *)

(* The registry's share of OnlyKnown, OnlyGone and Timely.                 *)
LEMMA RecordsInv ==
  ASSUME ~Recreate, IInv, [Next]_vars, NEW t \in Tenants
  PROVE  /\ registry'[t].status # "none" => t \in Known'
         /\ registry'[t].status = "pending" =>
              t \in Gone' /\ age'[t] + registry'[t].after >= DeletionDelay
<1>1. registry[t] \in Registered /\ age[t] \in 0..DeletionDelay /\ DeletionDelay \in Nat
  BY TenantsAssumption DEF IInv, TypeOK, Registered, Statuses
<1>2. Known \subseteq Known' /\ Gone \subseteq Gone'
  BY Onward DEF IInv
<1>3. t \in Gone => age'[t] \in Nat /\ age'[t] >= age[t]
  BY Onward DEF IInv
<1>4. /\ registry[t].status # "none" => t \in Known
      /\ registry[t].status = "pending" => t \in Gone /\ age[t] + registry[t].after >= DeletionDelay
  BY DEF IInv, OnlyKnown, OnlyGone, Timely
<1>5. CASE registry'[t] = registry[t]
  BY <1>1, <1>2, <1>3, <1>4, <1>5 DEF Registered
<1>6. CASE Ticked(t)
  <2>1. /\ registry'[t].status = registry[t].status
        /\ registry'[t].after = Less(registry[t].after)
    BY <1>1, <1>6 DEF Ticked, Registered
  <2>2. ASSUME registry[t].status = "pending"
        PROVE  age'[t] + registry'[t].after >= DeletionDelay
    <3>1. t \in Gone /\ age[t] + registry[t].after >= DeletionDelay /\ registry[t].after \in Nat
      BY <1>1, <1>4, <2>2 DEF Registered
    <3>2. age'[t] = IF age[t] < DeletionDelay THEN age[t] + 1 ELSE age[t]
      BY <1>6, <3>1 DEF Ticked, Older, Gone, Known
    <3>3. QED
      BY <1>1, <2>1, <3>1, <3>2 DEF Less
  <2>3. QED
    BY <1>2, <1>4, <2>1, <2>2
<1>7. CASE NewlyActive(t)
  BY <1>2, <1>7 DEF NewlyActive
<1>8. CASE NewlyPending(t)
  <2>1. t \in Gone' /\ t \in Known'
    BY <1>2, <1>8 DEF NewlyPending, Gone
  <2>2. age'[t] + registry'[t].after >= DeletionDelay
    BY <1>1, <1>3, <1>8 DEF NewlyPending
  <2>3. QED
    BY <2>1, <2>2
<1>9. CASE NewlyRemoved(t)
  BY <1>9 DEF NewlyRemoved, NoRecord
<1>10. QED
  BY <1>5, <1>6, <1>7, <1>8, <1>9, RegistryStep

(* Only a start, its failure and the end of the process touch what a start *)
(* has read, and the clock the deadline of it.                             *)
LEMMA StartStep ==
  ASSUME [Next]_vars
  PROVE  \/ UNCHANGED <<local, todo, doomed, deadline, phase>>
         \/ UNCHANGED <<local, todo, doomed, phase>> /\ Tick
         \/ \E i \in Instances : Starting(i) \/ GetSlugsFails(i) \/ GoDown(i)
<1>1. CASE \/ UNCHANGED vars \/ Commit \/ Rebalance
           \/ \E u \in Tenants : CreateTenant(u) \/ DeleteTenant(u)
  BY <1>1 DEF vars, startVars, Commit, Rebalance, CreateTenant, DeleteTenant
<1>2. CASE Tick
  BY <1>2 DEF Tick
<1>3. ASSUME NEW i \in Instances, HandleEvent(i) \/ AttemptFails(i)
      PROVE  UNCHANGED <<local, todo, doomed, deadline, phase>>
  BY <1>3 DEF HandleEvent, TakeEvent, CreateUpsert, CreateMigrate, Delete, AttemptFails, startVars
<1>4. ASSUME NEW i \in Instances, CleanupWorker(i) \/ CleanupFails(i)
      PROVE  UNCHANGED <<local, todo, doomed, deadline, phase>>
  BY <1>4 DEF CleanupWorker, FindExpired, CleanupTenant, CallCleaner, RemoveRecord, CleanupFails,
              startVars
<1>5. QED
  BY <1>1, <1>2, <1>3, <1>4 DEF Next, Fault, Crash, StopInEvent

\* What the start of i has read after a step: of known tenants, and doomed ones gone.
ReadRight(i) ==
    /\ local'[i] \subseteq Known /\ todo'[i] \subseteq Known /\ doomed'[i] \subseteq Gone
    /\ phase'[i] \in {"down", "fetch"} => doomed'[i] = {}

(* What an instance has read at its start: it knows only what was created, *)
(* and dooms only what is gone.                                            *)
LEMMA StartInv ==
  ASSUME ~Recreate, IInv, [Next]_vars, NEW i \in Instances
  PROVE  /\ local'[i] \subseteq Known' /\ todo'[i] \subseteq Known' /\ doomed'[i] \subseteq Gone'
         /\ phase'[i] \in {"down", "fetch"} => doomed'[i] = {}
<1>1. /\ local \in [Instances -> SUBSET Tenants] /\ todo \in [Instances -> SUBSET Tenants]
      /\ doomed \in [Instances -> SUBSET Tenants]
      /\ phase \in [Instances -> {"down", "fetch", "upsert", "mark", "migrate", "up"}]
  BY DEF IInv, TypeOK
<1>2. Known \subseteq Known' /\ Gone \subseteq Gone'
  BY Onward DEF IInv
<1>3. \A j \in Instances :
        /\ local[j] \subseteq Known /\ todo[j] \subseteq Known /\ doomed[j] \subseteq Gone
        /\ phase[j] \in {"down", "fetch"} => doomed[j] = {}
  BY DEF IInv, OnlyKnown, OnlyGone, Timely
<1>4. Active \subseteq Known /\ api \subseteq Known
  BY DEF IInv, OnlyKnown, Active
<1>5. ASSUME UNCHANGED <<local, todo, doomed, phase>>
      PROVE  ReadRight(i)
  <2>1. local'[i] = local[i] /\ todo'[i] = todo[i] /\ doomed'[i] = doomed[i] /\ phase'[i] = phase[i]
    BY <1>5
  <2>2. QED
    BY <1>3, <2>1, Zenon DEF ReadRight
<1>6. ASSUME NEW j \in Instances, ReadRegistry(j)
      PROVE  ReadRight(i)
  BY <1>1, <1>3, <1>4, <1>6 DEF ReadRegistry, ReadRight
<1>7. ASSUME NEW j \in Instances, GetSlugs(j)
      PROVE  ReadRight(i)
  <2>1. api \ local[j] \subseteq Known /\ local[j] \ api \subseteq Gone
    BY <1>3, <1>4 DEF Gone
  <2>2. QED
    BY <1>1, <1>3, <1>7, <2>1 DEF GetSlugs, ReadRight
<1>8. ASSUME NEW j \in Instances, GetSlugsFails(j)
      PROVE  ReadRight(i)
  BY <1>1, <1>3, <1>8 DEF GetSlugsFails, ReadRight
<1>9. ASSUME NEW j \in Instances, UpsertNew(j) \/ MigrateListed(j)
      PROVE  ReadRight(i)
  BY <1>1, <1>3, <1>9 DEF UpsertNew, MigrateListed, ReadRight
<1>10. ASSUME NEW j \in Instances, SetDeadline(j) \/ Up(j)
       PROVE  ReadRight(i)
  BY <1>1, <1>3, <1>10 DEF SetDeadline, Up, startVars, ReadRight
<1>11. ASSUME NEW j \in Instances, MarkMissing(j)
       PROVE  ReadRight(i)
  BY <1>1, <1>3, <1>11 DEF MarkMissing, ReadRight
<1>12. ASSUME NEW j \in Instances, ListActive(j)
       PROVE  ReadRight(i)
  BY <1>1, <1>3, <1>4, <1>12 DEF ListActive, ReadRight
<1>13. ASSUME NEW j \in Instances, GoDown(j)
       PROVE  ReadRight(i)
  BY <1>1, <1>3, <1>13 DEF GoDown, ReadRight
<1>14. ReadRight(i)
  <2>1. \/ UNCHANGED <<local, todo, doomed, phase>>
        \/ \E j \in Instances : Starting(j) \/ GetSlugsFails(j) \/ GoDown(j)
    BY StartStep
  <2>2. QED
    BY <2>1, <1>5, <1>6, <1>7, <1>8, <1>9, <1>10, <1>11, <1>12, <1>13, Zenon DEF Starting
<1>15. QED
  BY <1>2, <1>14 DEF ReadRight

(* A deadline that was computed and is not yet written is late enough for  *)
(* every tenant it will be written for.                                    *)
LEMMA DeadlineInv ==
  ASSUME ~Recreate, IInv, [Next]_vars, NEW i \in Instances, phase'[i] = "mark", NEW t \in doomed'[i]
  PROVE  age'[t] + deadline'[i] >= DeletionDelay
<1>1. /\ doomed \in [Instances -> SUBSET Tenants] /\ deadline \in [Instances -> 0..DeletionDelay]
      /\ phase \in [Instances -> {"down", "fetch", "upsert", "mark", "migrate", "up"}]
      /\ DeletionDelay \in Nat \ {0}
  BY TenantsAssumption DEF IInv, TypeOK
<1>2. /\ \A u \in Gone : age[u] \in Nat /\ age'[u] \in Nat /\ age'[u] >= age[u]
      /\ \A j \in Instances : doomed[j] \subseteq Gone
  BY Onward DEF IInv, OnlyGone
<1>3. \A j \in Instances :
        /\ phase[j] = "fetch" => doomed[j] = {}
        /\ phase[j] = "mark" => \A u \in doomed[j] : age[u] + deadline[j] >= DeletionDelay
  BY DEF IInv, Timely
<1>4. ASSUME t \in doomed[i], phase[i] = "mark", deadline'[i] = deadline[i]
      PROVE  age'[t] + deadline'[i] >= DeletionDelay
  BY <1>1, <1>2, <1>3, <1>4
<1>5. CASE UNCHANGED <<local, todo, doomed, deadline, phase>>
  BY <1>4, <1>5
<1>6. CASE UNCHANGED <<local, todo, doomed, phase>> /\ Tick
  <2>1. t \in Gone /\ age[t] + deadline[i] >= DeletionDelay /\ deadline[i] \in 0..DeletionDelay
    BY <1>1, <1>2, <1>3, <1>6
  <2>2. /\ deadline'[i] = Less(deadline[i])
        /\ age'[t] = IF age[t] < DeletionDelay THEN age[t] + 1 ELSE age[t]
    BY <1>6, <2>1 DEF Tick, Older, Gone, Known
  <2>3. age[t] \in Nat
    BY <1>2, <2>1
  <2>4. QED
    BY <1>1, <2>1, <2>2, <2>3 DEF Less
<1>7. ASSUME NEW j \in Instances, Starting(j) \/ GetSlugsFails(j) \/ GoDown(j)
      PROVE  age'[t] + deadline'[i] >= DeletionDelay
  <2>1. CASE i # j
    <3>1. doomed'[i] = doomed[i] /\ deadline'[i] = deadline[i] /\ phase'[i] = phase[i]
      BY <1>1, <1>7, <2>1
         DEF Starting, ReadRegistry, GetSlugs, UpsertNew, SetDeadline, MarkMissing, ListActive,
             MigrateListed, Up, GetSlugsFails, GoDown, startVars
    <3>2. QED
      BY <1>4, <3>1
  <2>2. CASE i = j /\ SetDeadline(j)
    <3>1. doomed'[i] = doomed[i] /\ deadline'[i] = DeletionDelay
      BY <1>1, <2>2 DEF SetDeadline
    <3>2. QED
      BY <1>1, <1>2, <3>1
  <2>3. CASE i = j /\ GetSlugsFails(j)
    BY <1>1, <1>3, <2>3 DEF GetSlugsFails
  <2>4. CASE i = j /\ MarkMissing(j)
    <3>1. doomed'[i] \subseteq doomed[i] /\ deadline'[i] = deadline[i] /\ phase[i] = "mark"
      BY <1>1, <2>4 DEF MarkMissing
    <3>2. QED
      BY <1>4, <3>1
  <2>5. CASE i = j /\ ~SetDeadline(j) /\ ~GetSlugsFails(j) /\ ~MarkMissing(j)
    <3>1. phase'[j] # "mark"
      BY <1>1, <1>7, <2>5
         DEF Starting, ReadRegistry, GetSlugs, UpsertNew, ListActive, MigrateListed, Up, GoDown
    <3>2. QED
      BY <2>5, <3>1
  <2>6. QED
    BY <2>1, <2>2, <2>3, <2>4, <2>5
<1>8. QED
  BY StartStep, <1>5, <1>6, <1>7
(* What was published: a deleted event is of a tenant that is gone.        *)
LEMMA EventsInv ==
  ASSUME ~Recreate, IInv, [Next]_vars
  PROVE  /\ api' \subseteq Known'
         /\ \A n \in DOMAIN events' : events'[n].kind = "deleted" => events'[n].slug \in Gone'
<1>1. /\ events \in Seq(Events) /\ api \subseteq Known
      /\ \A n \in DOMAIN events : events[n].kind = "deleted" => events[n].slug \in Gone
  BY DEF IInv, TypeOK, Events, OnlyKnown, OnlyGone
<1>2. Known \subseteq Known' /\ Gone \subseteq Gone'
  BY Onward DEF IInv
<1>3. CASE UNCHANGED <<api, events>>
  BY <1>1, <1>2, <1>3
<1>4. ASSUME NEW e \in Events, events' = Append(events, e),
             api' \subseteq Known', e.kind = "deleted" => e.slug \in Gone'
      PROVE  \A n \in DOMAIN events' : events'[n].kind = "deleted" => events'[n].slug \in Gone'
  <2>1. TAKE n \in DOMAIN events'
  <2>2. CASE n \in DOMAIN events
    <3>1. events'[n] = events[n]
      BY <1>1, <1>4, <2>2, EventsGrow
    <3>2. QED
      BY <1>1, <1>2, <2>2, <3>1
  <2>3. CASE n \notin DOMAIN events
    <3>1. events'[n] = e
      BY <1>1, <1>4, <2>1, <2>3, EventsGrow
    <3>2. QED
      BY <1>4, <3>1
  <2>4. QED
    BY <2>2, <2>3
<1>5. ASSUME NEW t \in Tenants, CreateTenant(t)
      PROVE  /\ api' \subseteq Known'
             /\ \A n \in DOMAIN events' : events'[n].kind = "deleted" => events'[n].slug \in Gone'
  <2>1. /\ events' = Append(events, Event("created", t)) /\ Event("created", t) \in Events
        /\ api' = api \cup {t} /\ Event("created", t).kind # "deleted"
    BY <1>5 DEF CreateTenant, Event, Events
  <2>2. t \in Known'
    BY <1>1, <2>1, EventsGrow DEF Known, Existed
  <2>3. api' \subseteq Known'
    BY <1>1, <1>2, <2>1, <2>2
  <2>4. QED
    BY <1>4, <2>1, <2>3
<1>6. ASSUME NEW t \in Tenants, DeleteTenant(t)
      PROVE  /\ api' \subseteq Known'
             /\ \A n \in DOMAIN events' : events'[n].kind = "deleted" => events'[n].slug \in Gone'
  <2>1. /\ events' = Append(events, Event("deleted", t)) /\ Event("deleted", t) \in Events
        /\ api' = api \ {t} /\ Event("deleted", t).slug = t
    BY <1>6 DEF DeleteTenant, Event, Events
  <2>2. t \in Gone' /\ api' \subseteq Known'
    BY <1>1, <1>2, <1>6, <2>1 DEF DeleteTenant, Gone
  <2>3. QED
    BY <1>4, <2>1, <2>2
<1>7. QED
  BY ServiceStep, <1>3, <1>5, <1>6 DEF serviceVars, Tick

(* What the cleanup worker holds is from the registry, with its time over. *)
LEMMA EraseStep ==
  ASSUME TypeOK, [Next]_vars, NEW i \in Instances
  PROVE  Erasing(i)' \subseteq Erasing(i) \cup FindPendingDeletion
<1>1. found \in [Instances -> SUBSET Tenants] /\ cleaning \in [Instances -> Tenants \cup {NoTenant}]
  BY DEF TypeOK
<1>2. CASE UNCHANGED <<found, cleaning>>
  BY <1>2 DEF Erasing
<1>3. CASE \/ UNCHANGED vars \/ Tick \/ Commit \/ Rebalance
           \/ \E u \in Tenants : CreateTenant(u) \/ DeleteTenant(u)
  BY <1>2, <1>3 DEF vars, workerVars, Tick, Commit, Rebalance, CreateTenant, DeleteTenant
<1>4. ASSUME NEW j \in Instances, Starting(j)
      PROVE  UNCHANGED <<found, cleaning>>
  BY <1>4 DEF Starting, ReadRegistry, GetSlugs, UpsertNew, SetDeadline, MarkMissing, ListActive,
              MigrateListed, Up, workerVars
<1>5. ASSUME NEW j \in Instances, HandleEvent(j)
      PROVE  UNCHANGED <<found, cleaning>>
  BY <1>5 DEF HandleEvent, TakeEvent, CreateUpsert, CreateMigrate, Delete, workerVars
<1>6. ASSUME NEW j \in Instances, GetSlugsFails(j) \/ AttemptFails(j) \/ CallCleaner(j)
      PROVE  UNCHANGED <<found, cleaning>>
  BY <1>6 DEF GetSlugsFails, AttemptFails, CallCleaner, workerVars
<1>7. ASSUME NEW j \in Instances, FindExpired(j)
      PROVE  Erasing(i)' \subseteq Erasing(i) \cup FindPendingDeletion
  BY <1>1, <1>7 DEF FindExpired, Erasing
<1>8. ASSUME NEW j \in Instances, CleanupTenant(j)
      PROVE  Erasing(i)' \subseteq Erasing(i) \cup FindPendingDeletion
  BY <1>1, <1>8 DEF CleanupTenant, Erasing
<1>9. ASSUME NEW j \in Instances, RemoveRecord(j) \/ CleanupFails(j) \/ GoDown(j)
      PROVE  Erasing(i)' \subseteq Erasing(i) \cup FindPendingDeletion
  <2>1. /\ found' = found \/ found' = [found EXCEPT ![j] = {}]
        /\ cleaning' = [cleaning EXCEPT ![j] = NoTenant]
    BY <1>9 DEF RemoveRecord, CleanupFails, GoDown, CleanupDone
  <2>2. QED
    BY <1>1, <2>1 DEF Erasing
<1>10. QED
  BY <1>2, <1>3, <1>4, <1>5, <1>6, <1>7, <1>8, <1>9, Zenon
     DEF Next, CleanupWorker, Fault, Crash, StopInEvent

LEMMA EraseInv ==
  ASSUME ~Recreate, IInv, [Next]_vars, NEW i \in Instances, NEW t \in Erasing(i)'
  PROVE  t \in Gone' /\ age'[t] >= DeletionDelay
<1>1. t \in Gone /\ age[t] >= DeletionDelay
  <2>1. CASE t \in Erasing(i)
    BY <2>1 DEF IInv, OnlyGone, Timely
  <2>2. CASE t \in FindPendingDeletion
    <3>1. t \in Tenants /\ registry[t].status = "pending" /\ registry[t].after = 0
      BY <2>2 DEF FindPendingDeletion
    <3>2. t \in Gone /\ age[t] + registry[t].after >= DeletionDelay
      BY <3>1 DEF IInv, OnlyGone, Timely
    <3>3. age[t] \in 0..DeletionDelay
      BY <3>1 DEF IInv, TypeOK
    <3>4. QED
      BY <3>1, <3>2, <3>3
  <2>3. QED
    BY <2>1, <2>2, EraseStep DEF IInv
<1>2. t \in Gone' /\ age[t] \in Nat /\ age'[t] \in Nat /\ age'[t] >= age[t]
  BY <1>1, Onward DEF IInv
<1>3. QED
  BY <1>1, <1>2, TenantsAssumption
(* A database is dropped only of a tenant that is gone and has waited.     *)
LEMMA DbsStep ==
  ASSUME IInv, [Next]_vars, NEW t \in dbs, ~(t \in Gone /\ age[t] >= DeletionDelay)
  PROVE  t \in dbs'
<1>1. CASE UNCHANGED dbs
  BY <1>1
<1>2. CASE \/ UNCHANGED vars \/ Tick \/ Commit \/ Rebalance
           \/ \E u \in Tenants : CreateTenant(u) \/ DeleteTenant(u)
  BY <1>2 DEF vars, mongoVars, Tick, Commit, Rebalance, CreateTenant, DeleteTenant
<1>3. ASSUME NEW i \in Instances, Starting(i)
      PROVE  t \in dbs'
  BY <1>3 DEF Starting, ReadRegistry, GetSlugs, UpsertNew, SetDeadline, MarkMissing, ListActive,
              MigrateListed, MigrateTenant, Up, mongoVars
<1>4. ASSUME NEW i \in Instances, HandleEvent(i)
      PROVE  t \in dbs'
  BY <1>4 DEF HandleEvent, TakeEvent, CreateUpsert, CreateMigrate, MigrateTenant, Delete, mongoVars
<1>5. ASSUME NEW i \in Instances, Fault(i) \/ FindExpired(i) \/ CleanupTenant(i) \/ RemoveRecord(i)
      PROVE  UNCHANGED dbs
  BY <1>5 DEF Fault, GetSlugsFails, AttemptFails, CleanupFails, Crash, StopInEvent,
              FindExpired, CleanupTenant, RemoveRecord, mongoVars
<1>6. ASSUME NEW i \in Instances, CallCleaner(i)
      PROVE  t \in dbs'
  <2>1. CASE cleaning[i] = t
    <3>1. t \in Erasing(i)
      BY <1>6, <2>1 DEF CallCleaner, Erasing
    <3>2. QED
      BY <3>1 DEF IInv, OnlyGone, Timely
  <2>2. CASE cleaning[i] # t
    BY <1>6, <2>2 DEF CallCleaner, DropDatabase
  <2>3. QED
    BY <2>1, <2>2
<1>7. QED
  BY <1>1, <1>2, <1>3, <1>4, <1>5, <1>6, Zenon DEF Next, CleanupWorker

(* Who is newly provisioned has its database and an active record.         *)
LEMMA ProvisionStep ==
  ASSUME IInv, [Next]_vars, NEW t \in provisioned', t \notin provisioned
  PROVE  t \in api /\ t \in dbs' /\ t \in Active
<1>1. ASSUME NEW u, MigrateTenant(u), u \in api => u \in Active
      PROVE  t \in api /\ t \in dbs' /\ t \in Active
  BY <1>1 DEF MigrateTenant
<1>2. ASSUME NEW i \in Instances, MigrateListed(i)
      PROVE  t \in api /\ t \in dbs' /\ t \in Active
  <2>1. PICK u \in todo[i] : MigrateTenant(u)
    BY <1>2 DEF MigrateListed
  <2>2. u \in api => u \in Active
    BY <1>2, <2>1 DEF MigrateListed, IInv, Migrates
  <2>3. QED
    BY <1>1, <2>1, <2>2
<1>3. ASSUME NEW i \in Instances, CreateMigrate(i)
      PROVE  t \in api /\ t \in dbs' /\ t \in Active
  <2>1. MigrateTenant(Slug(i)) /\ (Slug(i) \in api => Slug(i) \in Active)
    BY <1>3 DEF CreateMigrate, IInv, Migrates
  <2>2. QED
    BY <1>1, <2>1
<1>4. ~UNCHANGED provisioned /\ ~(\E u \in Tenants : CreateTenant(u))
  BY DEF CreateTenant
<1>5. ~(\/ UNCHANGED vars \/ Tick \/ Commit \/ Rebalance \/ \E u \in Tenants : DeleteTenant(u))
  BY <1>4 DEF vars, mongoVars, Tick, Commit, Rebalance, DeleteTenant
<1>6. ASSUME NEW i \in Instances, Starting(i)
      PROVE  MigrateListed(i)
  BY <1>4, <1>6 DEF Starting, ReadRegistry, GetSlugs, UpsertNew, SetDeadline, MarkMissing,
                    ListActive, Up, mongoVars
<1>7. ASSUME NEW i \in Instances, HandleEvent(i)
      PROVE  CreateMigrate(i)
  BY <1>4, <1>7 DEF HandleEvent, TakeEvent, CreateUpsert, Delete, mongoVars
<1>8. ASSUME NEW i \in Instances
      PROVE  ~CleanupWorker(i) /\ ~Fault(i)
  BY <1>4 DEF CleanupWorker, FindExpired, CleanupTenant, CallCleaner, RemoveRecord, Fault,
              GetSlugsFails, AttemptFails, CleanupFails, Crash, StopInEvent, mongoVars
<1>9. QED
  BY <1>2, <1>3, <1>4, <1>5, <1>6, <1>7, <1>8, Zenon DEF Next

(* The tenants a start has still to migrate are active, if they are listed. *)
LEMMA ListedInv ==
  ASSUME ~Recreate, IInv, [Next]_vars, NEW i \in Instances, phase'[i] = "migrate"
  PROVE  todo'[i] \cap api' \subseteq Active'
<1>1. /\ todo \in [Instances -> SUBSET Tenants]
      /\ phase \in [Instances -> {"down", "fetch", "upsert", "mark", "migrate", "up"}]
  BY DEF IInv, TypeOK
<1>2. Active \cap api' \subseteq Active'
  BY StaysActive
<1>3. ASSUME phase[i] = "migrate", todo'[i] \subseteq todo[i]
      PROVE  todo'[i] \cap api' \subseteq Active'
  <2>1. todo[i] \subseteq Known /\ todo[i] \cap api \subseteq Active
    BY <1>3 DEF IInv, OnlyKnown, Migrates
  <2>2. \A t \in Known : t \in api' => t \in api
    BY Onward DEF IInv
  <2>3. QED
    BY <1>2, <1>3, <2>1, <2>2
<1>4. CASE UNCHANGED <<todo, phase>>
  BY <1>3, <1>4
<1>5. ASSUME NEW j \in Instances, Starting(j) \/ GetSlugsFails(j) \/ GoDown(j)
      PROVE  todo'[i] \cap api' \subseteq Active'
  <2>1. CASE i # j
    <3>1. todo'[i] = todo[i] /\ phase'[i] = phase[i]
      BY <1>1, <1>5, <2>1
         DEF Starting, ReadRegistry, GetSlugs, UpsertNew, SetDeadline, MarkMissing, ListActive,
             MigrateListed, Up, GetSlugsFails, GoDown, startVars
    <3>2. QED
      BY <1>3, <3>1
  <2>2. CASE i = j /\ ListActive(j)
    BY <1>1, <1>2, <2>2 DEF ListActive
  <2>3. CASE i = j /\ MigrateListed(j)
    BY <1>1, <1>3, <2>3 DEF MigrateListed
  <2>4. CASE i = j /\ ~ListActive(j) /\ ~MigrateListed(j)
    <3>1. phase'[j] # "migrate"
      BY <1>1, <1>5, <2>4
         DEF Starting, ReadRegistry, GetSlugs, UpsertNew, SetDeadline, MarkMissing, Up,
             GetSlugsFails, GoDown
    <3>2. QED
      BY <2>4, <3>1
  <2>5. QED
    BY <2>1, <2>2, <2>3, <2>4
<1>6. QED
  BY StartStep, <1>4, <1>5
(* Whoever is past the Upsert of a created event stays at that event.      *)
LEMMA MigratingStep ==
  ASSUME IInv, [Next]_vars, NEW i \in Instances, migrating'[i]
  PROVE  /\ event'[i] = event[i] /\ event[i] > 0
         /\ \/ migrating[i]
            \/ CreateUpsert(i)
<1>1. /\ migrating \in [Instances -> BOOLEAN] /\ event \in [Instances -> 0..Len(events)]
  BY DEF IInv, TypeOK
<1>2. migrating[i] => event[i] > 0 /\ Handling(i, "created")
  BY DEF IInv, Migrates, Handling
<1>3. CASE UNCHANGED <<event, migrating>>
  BY <1>2, <1>3
<1>4. CASE \/ UNCHANGED vars \/ Tick \/ Commit \/ Rebalance
           \/ \E u \in Tenants : CreateTenant(u) \/ DeleteTenant(u)
  BY <1>3, <1>4 DEF vars, handlerVars, Tick, Commit, Rebalance, CreateTenant, DeleteTenant
<1>5. ASSUME NEW j \in Instances, Starting(j)
      PROVE  UNCHANGED <<event, migrating>>
  BY <1>5 DEF Starting, ReadRegistry, GetSlugs, UpsertNew, SetDeadline, MarkMissing, ListActive,
              MigrateListed, Up, handlerVars
<1>6. ASSUME NEW j \in Instances, CleanupWorker(j) \/ GetSlugsFails(j) \/ CleanupFails(j)
      PROVE  UNCHANGED <<event, migrating>>
  BY <1>6 DEF CleanupWorker, FindExpired, CleanupTenant, CallCleaner, RemoveRecord, GetSlugsFails,
              CleanupFails, handlerVars
<1>7. ASSUME NEW j \in Instances, HandleEvent(j) \/ AttemptFails(j) \/ GoDown(j), i # j
      PROVE  event'[i] = event[i] /\ migrating'[i] = migrating[i]
  BY <1>1, <1>7 DEF HandleEvent, TakeEvent, CreateUpsert, CreateMigrate, Delete, EventDone,
                    AttemptFails, RetryOrGiveUp, GoDown
<1>8. ~TakeEvent(i)
  BY <1>2 DEF TakeEvent
<1>9. ~CreateMigrate(i) /\ ~AttemptFails(i) /\ ~GoDown(i)
  BY <1>1 DEF CreateMigrate, AttemptFails, GoDown
<1>10. ~Delete(i)
  BY <1>2 DEF Delete, Handling
<1>11. CreateUpsert(i) => event'[i] = event[i] /\ event[i] > 0
  BY DEF CreateUpsert, Handling
<1>12. ASSUME NEW j \in Instances, HandleEvent(j) \/ AttemptFails(j) \/ GoDown(j)
       PROVE  /\ event'[i] = event[i] /\ event[i] > 0
              /\ migrating[i] \/ CreateUpsert(i)
  <2>1. CASE i # j
    BY <1>2, <1>7, <1>12, <2>1
  <2>2. CASE i = j
    BY <1>8, <1>9, <1>10, <1>11, <1>12, <2>2 DEF HandleEvent
  <2>3. QED
    BY <2>1, <2>2
<1>13. QED
  BY <1>2, <1>3, <1>4, <1>5, <1>6, <1>12, Zenon DEF Next, Fault, Crash, StopInEvent

LEMMA MigratingInv ==
  ASSUME ~Recreate, IInv, [Next]_vars, NEW i \in Instances, migrating'[i]
  PROVE  Handling(i, "created")' /\ (Slug(i)' \in api' => Slug(i)' \in Active')
<1>1. /\ event'[i] = event[i] /\ event[i] > 0
      /\ migrating[i] \/ CreateUpsert(i)
  BY MigratingStep
<1>2. event[i] \in DOMAIN events /\ events[event[i]] \in Events /\ Slug(i) \in Tenants
  BY <1>1, EventType DEF IInv
<1>3. events'[event[i]] = events[event[i]]
  BY <1>2, Onward DEF IInv
<1>4. Slug(i)' = Slug(i)
  BY <1>1, <1>3 DEF Slug
<1>5. Handling(i, "created")
  BY <1>1 DEF IInv, Migrates, CreateUpsert
<1>6. Handling(i, "created")'
  BY <1>1, <1>3, <1>5 DEF Handling
<1>7. Slug(i) \in Known
  BY <1>1, <1>5, EventTruth
<1>8. CASE migrating[i]
  <2>1. Slug(i) \in api' => Slug(i) \in api
    BY <1>7, Onward DEF IInv
  <2>2. Slug(i) \in api => Slug(i) \in Active
    BY <1>8 DEF IInv, Migrates
  <2>3. QED
    BY <1>4, <1>6, <2>1, <2>2, StaysActive
<1>9. CASE CreateUpsert(i)
  <2>1. registry \in [Tenants -> Registered]
    BY DEF IInv, TypeOK, Registered, Statuses
  <2>2. registry'[Slug(i)].status = "active"
    BY <1>2, <1>9, <2>1 DEF CreateUpsert, Upsert
  <2>3. QED
    BY <1>2, <1>4, <1>6, <2>2 DEF Active
<1>10. QED
  BY <1>1, <1>8, <1>9

(* A live tenant keeps record and database.                                *)
LEMMA ServedInv ==
  ASSUME ~Recreate, IInv, [Next]_vars
  PROVE  LiveTenantServed'
<1> SUFFICES ASSUME NEW t \in api', t \in provisioned'
             PROVE  t \in Active' /\ t \in dbs'
  BY DEF LiveTenantServed
<1>1. t \in api /\ t \in Active /\ t \in dbs'
  <2>1. CASE t \in provisioned
    <3>1. t \in Known
      BY <2>1 DEF IInv, OnlyKnown
    <3>2. t \in api
      BY <3>1, Onward DEF IInv
    <3>3. t \in Active /\ t \in dbs
      BY <2>1, <3>2 DEF IInv, LiveTenantServed
    <3>4. QED
      BY <3>2, <3>3, DbsStep DEF Gone
  <2>2. CASE t \notin provisioned
    BY <2>2, ProvisionStep
  <2>3. QED
    BY <2>1, <2>2
<1>2. QED
  BY <1>1, StaysActive

(* A deleted one keeps its database until the delay is over.               *)
LEMMA DelayInv ==
  ASSUME ~Recreate, IInv, [Next]_vars
  PROVE  DelayRespected'
<1> SUFFICES ASSUME NEW t \in provisioned', t \notin api', age'[t] < DeletionDelay
             PROVE  t \in dbs'
  BY DEF DelayRespected
<1>1. CASE t \notin provisioned
  BY <1>1, ProvisionStep
<1>2. CASE t \in provisioned /\ t \in api
  <2>1. t \in dbs
    BY <1>2 DEF IInv, LiveTenantServed
  <2>2. QED
    BY <1>2, <2>1, DbsStep DEF Gone
<1>3. CASE t \in provisioned /\ t \notin api
  <2>1. t \in Gone
    BY <1>3 DEF IInv, OnlyKnown, Gone
  <2>2. age[t] < DeletionDelay /\ age[t] \in Nat
    BY <2>1, Onward, TenantsAssumption DEF IInv
  <2>3. t \in dbs
    BY <1>3, <2>2 DEF IInv, DelayRespected
  <2>4. ~(age[t] >= DeletionDelay)
    BY <2>2, TenantsAssumption
  <2>5. QED
    BY <2>3, <2>4, DbsStep
<1>4. QED
  BY <1>1, <1>2, <1>3

(* Nobody is provisioned who was not listed.                               *)
LEMMA ProvisionedInv ==
  ASSUME ~Recreate, IInv, [Next]_vars
  PROVE  provisioned' \subseteq Known'
<1>1. Known \subseteq Known' /\ provisioned \subseteq Known /\ api \subseteq Known
  BY Onward DEF IInv, OnlyKnown
<1>2. \A t \in provisioned' : t \in provisioned \/ t \in api
  BY ProvisionStep
<1>3. QED
  BY <1>1, <1>2
-----------------------------------------------------------------------------
LEMMA InitInv == Init => IInv
<1> SUFFICES ASSUME Init
             PROVE  IInv
  OBVIOUS
<1>1. OnlyKnown
  BY DEF Init, OnlyKnown, NoRecord
<1>2. OnlyGone /\ Timely
  BY DEF Init, OnlyGone, Timely, NoRecord, Erasing
<1>3. Migrates /\ LiveTenantServed /\ DelayRespected
  BY DEF Init, Migrates, LiveTenantServed, DelayRespected
<1>4. QED
  BY <1>1, <1>2, <1>3, InitType DEF IInv

LEMMA NextInv ==
  ASSUME ~Recreate, IInv, [Next]_vars
  PROVE  IInv'
<1>1. TypeOK'
  BY NextType DEF IInv
<1>2. OnlyKnown'
  BY EventsInv, ProvisionedInv, RecordsInv, StartInv DEF OnlyKnown
<1>3. OnlyGone'
  <2>1. \A i \in Instances : Erasing(i)' \subseteq Gone'
    BY EraseInv
  <2>2. QED
    BY <2>1, EventsInv, RecordsInv, StartInv DEF OnlyGone
<1>4. Timely'
  <2>1. \A i \in Instances : \A t \in Erasing(i)' : age'[t] >= DeletionDelay
    BY EraseInv
  <2>2. QED
    BY <2>1, RecordsInv, StartInv, DeadlineInv DEF Timely
<1>5. Migrates'
  BY ListedInv, MigratingInv DEF Migrates
<1>6. QED
  BY <1>1, <1>2, <1>3, <1>4, <1>5, ServedInv, DelayInv DEF IInv

(* The inductive invariant: what anybody has read of a tenant, however     *)
(* long ago, is still good for what it is read for.                        *)
THEOREM Invariance ==
  ASSUME ~Recreate
  PROVE  Spec => []IInv
<1>1. IInv /\ [Next]_vars => IInv'
  BY NextInv
<1>2. QED
  BY <1>1, InitInv, PTL DEF Spec

(* A listed tenant whose migration completed stays active and keeps its    *)
(* database, whatever starts, replayed events and cleanups run beside      *)
(* (sync.go, lifecycle.go, cleanup_worker.go), if slugs are used once.     *)
THEOREM LiveTenantsSafe ==
  ASSUME ~Recreate
  PROVE  Spec => []LiveTenantServed
<1>1. IInv => LiveTenantServed
  BY DEF IInv
<1>2. QED
  BY <1>1, Invariance, PTL

(* A deleted tenant keeps its database for DeletionDelay, whoever marks it *)
(* and however often (FindPendingDeletion, repository.go), if slugs are    *)
(* used once.                                                              *)
THEOREM DeletionDelayed ==
  ASSUME ~Recreate
  PROVE  Spec => []DelayRespected
<1>1. IInv => DelayRespected
  BY DEF IInv
<1>2. QED
  BY <1>1, Invariance, PTL
-----------------------------------------------------------------------------
(* The registry and the databases as a registry without instances.         *)

LEMMA InitRegistry == Init => Registry!Init
<1> SUFFICES ASSUME Init
             PROVE  Registry!Init
  OBVIOUS
<1>1. Known = {}
  BY DEF Init, Known, Existed
<1>2. Active = {}
  BY DEF Init, Active, NoRecord
<1>3. QED
  BY <1>1, <1>2 DEF Init, Registry!Init

LEMMA RegistryStutters ==
  ASSUME UNCHANGED <<serviceVars, mongoVars>>
  PROVE  [Registry!Next]_(Registry!vars)
BY DEF serviceVars, mongoVars, Registry!vars, Known, Existed, Active

(* What each call on a record does to the active tenants.                  *)
LEMMA ActiveAfter ==
  ASSUME TypeOK, NEW t \in Tenants
  PROVE  /\ Upsert(t) => Active' = Active \cup {t}
         /\ \A n : MarkForDeletion(t, n) => Active' = Active \ {t}
         /\ Remove(t) => Active' = Active \ {t}
<1>1. registry \in [Tenants -> Registered]
  BY DEF TypeOK, Registered, Statuses
<1>2. Upsert(t) => Active' = Active \cup {t}
  BY <1>1 DEF Upsert, Active
<1>3. ASSUME NEW n, MarkForDeletion(t, n)
      PROVE  Active' = Active \ {t}
  BY <1>1, <1>3 DEF MarkForDeletion, Active
<1>4. Remove(t) => Active' = Active \ {t}
  BY <1>1 DEF Remove, NoRecord, Active
<1>5. QED
  BY <1>2, <1>3, <1>4

LEMMA ActivateStep ==
  ASSUME IInv, NEW t \in Known, Upsert(t), UNCHANGED <<serviceVars, dbs, provisioned>>
  PROVE  [Registry!Next]_(Registry!vars)
<1>1. t \in Tenants /\ Known' = Known
  BY DEF Known, Existed, serviceVars
<1>2. Active' = Active \cup {t}
  BY <1>1, ActiveAfter DEF IInv
<1>3. Registry!Activate(t)
  BY <1>1, <1>2 DEF Registry!Activate, serviceVars
<1>4. QED
  BY <1>1, <1>3 DEF Registry!Next

LEMMA DeactivateStep ==
  ASSUME IInv, NEW t \in Gone, Active' = Active \ {t}, UNCHANGED <<serviceVars, dbs, provisioned>>
  PROVE  [Registry!Next]_(Registry!vars)
<1>1. t \in Tenants /\ Known' = Known
  BY DEF Gone, Known, Existed, serviceVars
<1>2. Registry!Deactivate(t)
  BY <1>1 DEF Registry!Deactivate, Registry!Gone, Gone, serviceVars
<1>3. QED
  BY <1>1, <1>2 DEF Registry!Next

LEMMA MigrateStep ==
  ASSUME IInv, NEW t \in Known, MigrateTenant(t), t \in api => t \in Active,
         UNCHANGED <<serviceVars, registry>>
  PROVE  [Registry!Next]_(Registry!vars)
<1>1. t \in Tenants /\ Known' = Known /\ Active' = Active
  BY DEF Known, Existed, Active, serviceVars
<1>2. Registry!Migrate(t)
  BY <1>1 DEF MigrateTenant, Registry!Migrate, Registry!Gone, serviceVars
<1>3. QED
  BY <1>1, <1>2 DEF Registry!Next

LEMMA ServiceRegistry ==
  ASSUME ~Recreate, IInv, NEW t \in Tenants, CreateTenant(t) \/ DeleteTenant(t)
  PROVE  [Registry!Next]_(Registry!vars)
<1>1. /\ events \in Seq(Events) /\ Active' = Active
      /\ provisioned \subseteq Known /\ api \subseteq Known
  BY DEF IInv, TypeOK, Events, OnlyKnown, CreateTenant, DeleteTenant, mongoVars, Active
<1>2. ASSUME NEW e \in Events, events' = Append(events, e)
      PROVE  Known' = Known \cup {u \in Tenants : e = Event("created", u)}
  <2>1. ASSUME NEW u \in Tenants
        PROVE  Existed(u)' <=> Existed(u) \/ e = Event("created", u)
    <3>1. /\ DOMAIN events = 1..Len(events) /\ DOMAIN events' = 1..(Len(events) + 1)
          /\ Len(events) \in Nat /\ events'[Len(events) + 1] = e
          /\ \A n \in DOMAIN events : events'[n] = events[n]
      BY <1>1, <1>2, EventsGrow
    <3>2. QED
      BY <3>1 DEF Existed, Event
  <2>2. QED
    BY <2>1 DEF Known
<1>3. CASE CreateTenant(t)
  <2>1. Event("created", t) \in Events /\ events' = Append(events, Event("created", t))
    BY <1>3 DEF CreateTenant, Event, Events
  <2>2. {u \in Tenants : Event("created", t) = Event("created", u)} = {t}
    BY DEF Event
  <2>3. Known' = Known \cup {t}
    BY <1>2, <2>1, <2>2
  <2>4. t \notin Known
    BY <1>3 DEF CreateTenant, Known
  <2>5. Registry!Create(t)
    BY <1>1, <1>3, <2>3, <2>4 DEF CreateTenant, Registry!Create
  <2>6. QED
    BY <2>5 DEF Registry!Next
<1>4. CASE DeleteTenant(t)
  <2>1. Event("deleted", t) \in Events /\ events' = Append(events, Event("deleted", t))
    BY <1>4 DEF DeleteTenant, Event, Events
  <2>2. {u \in Tenants : Event("deleted", t) = Event("created", u)} = {}
    BY DEF Event
  <2>3. Known' = Known
    BY <1>2, <2>1, <2>2
  <2>4. Registry!Delete(t)
    BY <1>1, <1>4, <2>3 DEF DeleteTenant, Registry!Delete, mongoVars
  <2>5. QED
    BY <2>4 DEF Registry!Next
<1>5. QED
  BY <1>3, <1>4

LEMMA TickRegistry ==
  ASSUME IInv, Tick
  PROVE  [Registry!Next]_(Registry!vars)
<1>1. Known' = Known
  BY DEF Tick, Known, Existed
<1>2. Active' = Active
  <2>1. \A t \in Tenants : registry'[t].status = registry[t].status
    BY DEF Tick, IInv, TypeOK
  <2>2. QED
    BY <2>1 DEF Active
<1>3. \A t \in Tenants :
          Older(t) = IF t \in Registry!Gone /\ age[t] < DeletionDelay THEN age[t] + 1 ELSE age[t]
  BY DEF Older, Registry!Gone, Known
<1>4. Registry!Tick
  BY <1>1, <1>2, <1>3 DEF Tick, Registry!Tick
<1>5. QED
  BY <1>4 DEF Registry!Next

LEMMA StartRegistry ==
  ASSUME IInv, NEW i \in Instances, Starting(i)
  PROVE  [Registry!Next]_(Registry!vars)
<1>1. CASE UpsertNew(i)
  <2>1. PICK t \in todo[i] : Upsert(t)
    BY <1>1 DEF UpsertNew
  <2>2. t \in Known
    BY <2>1 DEF IInv, OnlyKnown
  <2>3. QED
    BY <1>1, <2>1, <2>2, ActivateStep DEF UpsertNew
<1>2. CASE MarkMissing(i)
  <2>1. PICK t \in doomed[i] : MarkForDeletion(t, deadline[i])
    BY <1>2 DEF MarkMissing
  <2>2. t \in Gone /\ t \in Tenants
    BY <2>1 DEF IInv, OnlyGone, Gone, Known
  <2>3. Active' = Active \ {t}
    BY <2>1, <2>2, ActiveAfter DEF IInv
  <2>4. QED
    BY <1>2, <2>2, <2>3, DeactivateStep DEF MarkMissing
<1>3. CASE MigrateListed(i)
  <2>1. PICK t \in todo[i] : MigrateTenant(t)
    BY <1>3 DEF MigrateListed
  <2>2. t \in Known /\ (t \in api => t \in Active)
    BY <1>3, <2>1 DEF MigrateListed, IInv, OnlyKnown, Migrates
  <2>3. QED
    BY <1>3, <2>1, <2>2, MigrateStep DEF MigrateListed
<1>4. CASE ReadRegistry(i) \/ GetSlugs(i) \/ SetDeadline(i) \/ ListActive(i) \/ Up(i)
  BY <1>4, RegistryStutters DEF ReadRegistry, GetSlugs, SetDeadline, ListActive, Up
<1>5. QED
  BY <1>1, <1>2, <1>3, <1>4 DEF Starting

LEMMA HandlerRegistry ==
  ASSUME IInv, NEW i \in Instances, HandleEvent(i)
  PROVE  [Registry!Next]_(Registry!vars)
<1>1. CASE TakeEvent(i)
  BY <1>1, RegistryStutters DEF TakeEvent
<1>2. CASE CreateUpsert(i)
  <2>1. Slug(i) \in Known
    BY <1>2, EventTruth DEF CreateUpsert, Handling
  <2>2. QED
    BY <1>2, <2>1, ActivateStep DEF CreateUpsert
<1>3. CASE CreateMigrate(i)
  <2>1. Slug(i) \in Known /\ (Slug(i) \in api => Slug(i) \in Active)
    BY <1>3, EventTruth DEF CreateMigrate, Handling, IInv, Migrates
  <2>2. QED
    BY <1>3, <2>1, MigrateStep DEF CreateMigrate
<1>4. CASE Delete(i)
  <2>1. Slug(i) \in Gone
    BY <1>4, EventTruth DEF Delete, Handling
  <2>2. Active' = Active \ {Slug(i)}
    BY <1>4, <2>1, ActiveAfter DEF Delete, IInv, Gone, Known
  <2>3. QED
    BY <1>4, <2>1, <2>2, DeactivateStep DEF Delete
<1>5. QED
  BY <1>1, <1>2, <1>3, <1>4 DEF HandleEvent

LEMMA WorkerRegistry ==
  ASSUME IInv, NEW i \in Instances, CleanupWorker(i)
  PROVE  [Registry!Next]_(Registry!vars)
<1>1. CASE FindExpired(i) \/ CleanupTenant(i)
  BY <1>1, RegistryStutters DEF FindExpired, CleanupTenant
<1>2. ASSUME cleaning[i] # NoTenant
      PROVE  cleaning[i] \in Gone /\ cleaning[i] \in Tenants /\ age[cleaning[i]] >= DeletionDelay
  BY <1>2 DEF IInv, OnlyGone, Timely, Erasing, Gone, Known
<1>3. CASE CallCleaner(i)
  <2>1. CASE UNCHANGED dbs
    BY <1>3, <2>1, RegistryStutters DEF CallCleaner, mongoVars
  <2>2. CASE DropDatabase(cleaning[i])
    <3>1. Known' = Known /\ Active' = Active
      BY <1>3 DEF CallCleaner, Known, Existed, Active, serviceVars
    <3>2. Registry!Drop(cleaning[i])
      BY <1>2, <1>3, <2>2, <3>1
         DEF CallCleaner, DropDatabase, Registry!Drop, Registry!Gone, Gone, serviceVars
    <3>3. QED
      BY <1>2, <1>3, <3>2 DEF CallCleaner, Registry!Next
  <2>3. QED
    BY <1>3, <2>1, <2>2 DEF CallCleaner
<1>4. CASE RemoveRecord(i)
  <2>1. cleaning[i] \in Gone /\ cleaning[i] \in Tenants
    BY <1>2, <1>4 DEF RemoveRecord
  <2>2. Active' = Active \ {cleaning[i]}
    BY <1>4, <2>1, ActiveAfter DEF RemoveRecord, IInv
  <2>3. QED
    BY <1>4, <2>1, <2>2, DeactivateStep DEF RemoveRecord
<1>5. QED
  BY <1>1, <1>3, <1>4 DEF CleanupWorker

LEMMA StepRegistry ==
  ASSUME ~Recreate, IInv, [Next]_vars
  PROVE  [Registry!Next]_(Registry!vars)
<1>1. CASE UNCHANGED vars \/ Commit \/ Rebalance
  BY <1>1, RegistryStutters DEF vars, Commit, Rebalance
<1>2. ASSUME NEW i \in Instances, Fault(i)
      PROVE  [Registry!Next]_(Registry!vars)
  BY <1>2, RegistryStutters DEF Fault, GetSlugsFails, AttemptFails, CleanupFails, Crash, StopInEvent
<1>3. QED
  BY <1>1, <1>2, ServiceRegistry, TickRegistry, StartRegistry, HandlerRegistry, WorkerRegistry
     DEF Next

(* The instances of a service together implement the registry, however     *)
(* stale what each of them read, if slugs are used once.                   *)
THEOREM RegistryKept ==
  ASSUME ~Recreate
  PROVE  Spec => KeepsRegistry
<1>1. IInv /\ [Next]_vars => [Registry!Next]_(Registry!vars)
  BY StepRegistry
<1>2. QED
  BY <1>1, InitRegistry, Invariance, PTL DEF Spec, KeepsRegistry, Registry!Spec
=============================================================================
