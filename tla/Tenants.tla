------------------------------ MODULE Tenants ------------------------------
(***************************************************************************)
(* The tenant registry of pkg/tenant: start-up synchronisation, lifecycle  *)
(* events and deferred deletion.                                           *)
(*                                                                         *)
(* Every instance of a service, as it starts, reconciles the registry (one *)
(* shared collection) with the tenant service's list and migrates the      *)
(* database of every active tenant.  Once up, it handles the tenant        *)
(* service's created and deleted events and runs the cleanup worker, which *)
(* drops the databases of the tenants whose delete_after has passed.  No   *)
(* two of these steps share a lock or a transaction: each reads or writes  *)
(* the registry in one MongoDB call and acts on what it read later.        *)
(*                                                                         *)
(* The clock is relative: a delete_after is kept as the ticks left to it.  *)
(***************************************************************************)
EXTENDS Integers, Sequences, FiniteSets

CONSTANTS
    Tenants,        \* tenant slugs
    NoTenant,       \* the cleanup worker is between two tenants
    Instances,      \* processes of the service
    DeletionDelay,  \* deletionDelay and eventDeletionDelay, in ticks
    Cleaners,       \* number of cleaners in the tenant_cleaners group
    MongoCleaner,   \* which of them is mongoCleaner
    MaxRetries,     \* ConsumerConfig.MaxRetries of the events' consumer
    Recreate,       \* TRUE: the tenant service may reuse the slug of a deleted tenant
    MaxEvents,      \* bound: tenants created or deleted
    MaxFaults,      \* bound: failed calls
    MaxCrashes      \* bound: crashes, failed starts and rebalances

ASSUME TenantsAssumption ==
    /\ NoTenant \notin Tenants
    /\ DeletionDelay \in Nat \ {0}
    /\ Cleaners \in Nat \ {0} /\ MongoCleaner \in 1..Cleaners
    /\ MaxRetries \in Nat /\ Recreate \in BOOLEAN
    /\ MaxEvents \in Nat /\ MaxFaults \in Nat /\ MaxCrashes \in Nat

VARIABLES
    \* the tenant service
    api,         \* the slugs it lists
    events,      \* the events it published
    age,         \* age[t]: ticks since it last deleted t, up to DeletionDelay
    \* MongoDB, and the group that consumes the events
    registry,    \* registry[t]: the record of t, status "none" when there is none
    dbs,         \* tenants with a database
    provisioned, \* history: listed tenants whose migration completed
    handled,     \* events handled by the partition's owner
    committed,   \* events committed by the group
    \* starting an instance: TenantMigrationRunner.Run
    phase,       \* phase[i]: where Run is, "up" after it
    local,       \* local[i]: localSlugs
    todo,        \* todo[i]: toCreate, then the tenants to migrate
    doomed,      \* doomed[i]: toDelete
    deadline,    \* deadline[i]: ticks left to syncRegistry's deleteAfter
    \* an instance that is up: the event handler and the cleanup worker
    event,       \* event[i]: the event being handled, 0: none
    migrating,   \* migrating[i]: Create is past its Upsert
    tries,       \* tries[i]: failed attempts of the event
    abandoned,   \* history: tenants whose created event was given up
    found,       \* found[i]: expired records the worker has still to clean up
    cleaning,    \* cleaning[i]: the tenant in cleanupTenant
    cleaner,     \* cleaner[i]: the cleaner to call next
    faults,
    crashes

serviceVars == <<api, events, age>>
mongoVars == <<registry, dbs, provisioned>>
startVars == <<local, todo, doomed, deadline>>
handlerVars == <<handled, committed, event, migrating, tries, abandoned>>
workerVars == <<found, cleaning, cleaner>>
faultVars == <<faults, crashes>>
vars == <<serviceVars, mongoVars, phase, startVars, handlerVars, workerVars, faultVars>>

NoRecord == [status |-> "none", after |-> 0]
Active == {t \in Tenants : registry[t].status = "active"}
Event(kind, t) == [kind |-> kind, slug |-> t]
Existed(t) == \E n \in DOMAIN events : events[n] = Event("created", t)
Known == {t \in Tenants : Existed(t)}

Init ==
    /\ api = {} /\ events = <<>> /\ age = [t \in Tenants |-> 0]
    /\ registry = [t \in Tenants |-> NoRecord] /\ dbs = {} /\ provisioned = {}
    /\ phase = [i \in Instances |-> "down"]
    /\ local = [i \in Instances |-> {}]
    /\ todo = [i \in Instances |-> {}]
    /\ doomed = [i \in Instances |-> {}]
    /\ deadline = [i \in Instances |-> 0]
    /\ handled = 0 /\ committed = 0
    /\ event = [i \in Instances |-> 0]
    /\ migrating = [i \in Instances |-> FALSE]
    /\ tries = [i \in Instances |-> 0] /\ abandoned = {}
    /\ found = [i \in Instances |-> {}]
    /\ cleaning = [i \in Instances |-> NoTenant]
    /\ cleaner = [i \in Instances |-> 1]
    /\ faults = 0 /\ crashes = 0
-----------------------------------------------------------------------------
(* The tenant service and the clock.                                       *)

CreateTenant(t) ==
    /\ t \notin api
    /\ Recreate \/ ~Existed(t)
    /\ Len(events) < MaxEvents
    /\ api' = api \cup {t}
    /\ events' = Append(events, Event("created", t))
    /\ provisioned' = provisioned \ {t}
    /\ UNCHANGED <<age, registry, dbs, phase, startVars, handlerVars, workerVars, faultVars>>

DeleteTenant(t) ==
    /\ t \in api
    /\ Len(events) < MaxEvents
    /\ api' = api \ {t}
    /\ events' = Append(events, Event("deleted", t))
    /\ age' = [age EXCEPT ![t] = 0]
    /\ UNCHANGED <<mongoVars, phase, startVars, handlerVars, workerVars, faultVars>>

Less(ticks) == IF ticks = 0 THEN 0 ELSE ticks - 1

Older(t) ==
    IF Existed(t) /\ t \notin api /\ age[t] < DeletionDelay THEN age[t] + 1 ELSE age[t]

Tick ==
    /\ registry' = [t \in Tenants |-> [registry[t] EXCEPT !.after = Less(@)]]
    /\ deadline' = [i \in Instances |-> Less(deadline[i])]
    /\ age' = [t \in Tenants |-> Older(t)]
    /\ UNCHANGED <<api, events, dbs, provisioned, phase, local, todo, doomed, handlerVars,
                   workerVars, faultVars>>
-----------------------------------------------------------------------------
(* The registry and the databases, one MongoDB call each.                  *)

Upsert(t) == registry' = [registry EXCEPT ![t] = [status |-> "active", after |-> 0]]

MarkForDeletion(t, after) ==
    registry' = [registry EXCEPT ![t] = [status |-> "pending", after |-> after]]

FindPending == {t \in Tenants : registry[t].status = "pending"}  \* mutant: delete_after not compared

FindPendingDeletion == {t \in Tenants : registry[t].status = "pending" /\ registry[t].after = 0}

Remove(t) == registry' = [registry EXCEPT ![t] = NoRecord]

DropDatabase(t) == dbs' = dbs \ {t}

MigrateTenant(t) ==
    /\ dbs' = dbs \cup {t}
    /\ provisioned' = provisioned \cup ({t} \cap api)
-----------------------------------------------------------------------------
(* Starting: TenantMigrationRunner.Run.  Every error of it fails the start *)
(* of the process, as Crash does.                                          *)

ReadRegistry(i) ==
    /\ phase[i] = "down"
    /\ local' = [local EXCEPT ![i] = Active]
    /\ phase' = [phase EXCEPT ![i] = "fetch"]
    /\ UNCHANGED <<serviceVars, mongoVars, todo, doomed, deadline, handlerVars, workerVars, faultVars>>

\* GetSlugs answered: what syncRegistry is going to do.
GetSlugs(i) ==
    /\ phase[i] = "fetch"
    /\ todo' = [todo EXCEPT ![i] = api \ local[i]]
    /\ doomed' = [doomed EXCEPT ![i] = local[i] \ api]
    /\ local' = [local EXCEPT ![i] = {}]
    /\ phase' = [phase EXCEPT ![i] = "upsert"]
    /\ UNCHANGED <<serviceVars, mongoVars, deadline, handlerVars, workerVars, faultVars>>

GetSlugsEmpty(i) ==              \* mutant: an unreachable service has no tenants
    /\ phase[i] = "fetch"
    /\ faults < MaxFaults
    /\ faults' = faults + 1
    /\ doomed' = [doomed EXCEPT ![i] = local[i]]
    /\ local' = [local EXCEPT ![i] = {}]
    /\ phase' = [phase EXCEPT ![i] = "upsert"]
    /\ UNCHANGED <<serviceVars, mongoVars, todo, deadline, handlerVars, workerVars, crashes>>

\* GetSlugs failed: the registry is used as it is.
GetSlugsFails(i) ==
    /\ phase[i] = "fetch"
    /\ faults < MaxFaults
    /\ faults' = faults + 1
    /\ local' = [local EXCEPT ![i] = {}]
    /\ phase' = [phase EXCEPT ![i] = "mark"]
    /\ UNCHANGED <<serviceVars, mongoVars, todo, doomed, deadline, handlerVars, workerVars, crashes>>

UpsertNew(i) ==
    /\ phase[i] = "upsert"
    /\ \E t \in todo[i] :
        /\ Upsert(t)
        /\ todo' = [todo EXCEPT ![i] = @ \ {t}]
    /\ UNCHANGED <<serviceVars, dbs, provisioned, phase, local, doomed, deadline, handlerVars,
                   workerVars, faultVars>>

\* deleteAfter is read off the clock once, before the loop that uses it.
SetDeadline(i) ==
    /\ phase[i] = "upsert" /\ todo[i] = {}
    /\ deadline' = [deadline EXCEPT ![i] = DeletionDelay]
    /\ phase' = [phase EXCEPT ![i] = "mark"]
    /\ UNCHANGED <<serviceVars, mongoVars, local, todo, doomed, handlerVars, workerVars, faultVars>>

MarkMissing(i) ==
    /\ phase[i] = "mark"
    /\ \E t \in doomed[i] :
        /\ MarkForDeletion(t, deadline[i])
        /\ doomed' = [doomed EXCEPT ![i] = @ \ {t}]
    /\ UNCHANGED <<serviceVars, dbs, provisioned, phase, local, todo, deadline, handlerVars,
                   workerVars, faultVars>>

ListActive(i) ==
    /\ phase[i] = "mark" /\ doomed[i] = {}
    /\ todo' = [todo EXCEPT ![i] = Active]
    /\ deadline' = [deadline EXCEPT ![i] = 0]
    /\ phase' = [phase EXCEPT ![i] = "migrate"]
    /\ UNCHANGED <<serviceVars, mongoVars, local, doomed, handlerVars, workerVars, faultVars>>

MigrateLenient(i) ==             \* mutant: a failed migration does not fail the start
    /\ phase[i] = "migrate"
    /\ \E t \in todo[i] :
        /\ todo' = [todo EXCEPT ![i] = @ \ {t}]
        /\ \/ MigrateTenant(t) /\ UNCHANGED faults
           \/ faults < MaxFaults /\ faults' = faults + 1 /\ UNCHANGED <<dbs, provisioned>>
    /\ UNCHANGED <<serviceVars, registry, phase, local, doomed, deadline, handlerVars,
                   workerVars, crashes>>

MigrateListed(i) ==
    /\ phase[i] = "migrate"
    /\ \E t \in todo[i] :
        /\ MigrateTenant(t)
        /\ todo' = [todo EXCEPT ![i] = @ \ {t}]
    /\ UNCHANGED <<serviceVars, registry, phase, local, doomed, deadline, handlerVars,
                   workerVars, faultVars>>

Up(i) ==
    /\ phase[i] = "migrate" /\ todo[i] = {}
    /\ phase' = [phase EXCEPT ![i] = "up"]
    /\ UNCHANGED <<serviceVars, mongoVars, startVars, handlerVars, workerVars, faultVars>>
-----------------------------------------------------------------------------
(* Lifecycle events.  The group redelivers what is not committed, an       *)
(* instance that lost the partition finishes the event it has, and an      *)
(* event whose attempts have all failed is marked like any other.          *)

TakeEvent(i) ==
    /\ phase[i] = "up"
    /\ event[i] = 0
    /\ handled < Len(events)
    /\ event' = [event EXCEPT ![i] = handled + 1]
    /\ UNCHANGED <<serviceVars, mongoVars, phase, startVars, handled, committed, migrating,
                   tries, abandoned, workerVars, faultVars>>

Handling(i, kind) == event[i] > 0 /\ events[event[i]].kind = kind

Slug(i) == events[event[i]].slug

EventSkipsNext(i) ==             \* mutant: one offset too far
    /\ handled' = event[i] + 1
    /\ event' = [event EXCEPT ![i] = 0]
    /\ tries' = [tries EXCEPT ![i] = 0]

\* An instance that has lost the partition does not move its position.
EventDone(i) ==
    /\ handled' = IF event[i] = handled + 1 THEN event[i] ELSE handled
    /\ event' = [event EXCEPT ![i] = 0]
    /\ tries' = [tries EXCEPT ![i] = 0]

Commit ==
    /\ committed < handled
    /\ committed' = handled
    /\ UNCHANGED <<serviceVars, mongoVars, phase, startVars, handled, event, migrating, tries,
                   abandoned, workerVars, faultVars>>

\* The partition moves: its new owner starts at the committed offset.
Rebalance ==
    /\ crashes < MaxCrashes
    /\ crashes' = crashes + 1
    /\ handled' = committed
    /\ UNCHANGED <<serviceVars, mongoVars, phase, startVars, committed, event, migrating, tries,
                   abandoned, workerVars, faults>>

CreateUnregistered(i) ==         \* mutant: the database first, the record left to the next start
    /\ Handling(i, "created")
    /\ ~migrating[i]
    /\ migrating' = [migrating EXCEPT ![i] = TRUE]
    /\ UNCHANGED <<serviceVars, mongoVars, phase, startVars, handled, committed, event, tries,
                   abandoned, workerVars, faultVars>>

CreateUpsert(i) ==
    /\ Handling(i, "created")
    /\ ~migrating[i]
    /\ Upsert(Slug(i))
    /\ migrating' = [migrating EXCEPT ![i] = TRUE]
    /\ UNCHANGED <<serviceVars, dbs, provisioned, phase, startVars, handled, committed, event,
                   tries, abandoned, workerVars, faultVars>>

CreateMigrate(i) ==
    /\ Handling(i, "created")
    /\ migrating[i]
    /\ MigrateTenant(Slug(i))
    /\ migrating' = [migrating EXCEPT ![i] = FALSE]
    /\ EventDone(i)
    /\ UNCHANGED <<committed, abandoned, serviceVars, registry, phase, startVars, workerVars,
                   faultVars>>

Delete(i) ==
    /\ Handling(i, "deleted")
    /\ MarkForDeletion(Slug(i), DeletionDelay)
    /\ EventDone(i)
    /\ UNCHANGED <<committed, abandoned, serviceVars, dbs, provisioned, phase, startVars,
                   migrating, workerVars, faultVars>>

\* Only a mark that moves the group passes over the tenant for good.
Abandon(i) ==
    abandoned' = IF Handling(i, "created") /\ event[i] = handled + 1
                 THEN abandoned \cup {Slug(i)} ELSE abandoned

ErrorSwallowed(i) ==             \* mutant: the error is logged and not returned
    EventDone(i) /\ UNCHANGED abandoned

\* Tried again, or sent to the DLQ and marked.
RetryOrGiveUp(i) ==
    \/ /\ tries[i] < MaxRetries
       /\ tries' = [tries EXCEPT ![i] = @ + 1]
       /\ UNCHANGED <<handled, event, abandoned>>
    \/ /\ tries[i] >= MaxRetries
       /\ EventDone(i)
       /\ Abandon(i)

\* Upsert, the migration or MarkForDeletion returned an error, which is never
\* ErrPermanent.
AttemptFails(i) ==
    /\ event[i] > 0
    /\ faults < MaxFaults
    /\ faults' = faults + 1
    /\ migrating' = [migrating EXCEPT ![i] = FALSE]
    /\ RetryOrGiveUp(i)
    /\ UNCHANGED <<serviceVars, mongoVars, phase, startVars, committed, workerVars, crashes>>
-----------------------------------------------------------------------------
(* The cleanup worker.                                                     *)

FindExpired(i) ==
    /\ phase[i] = "up"
    /\ found[i] = {} /\ cleaning[i] = NoTenant
    /\ found' = [found EXCEPT ![i] = FindPendingDeletion]
    /\ UNCHANGED <<serviceVars, mongoVars, phase, startVars, handlerVars, cleaning, cleaner, faultVars>>

CleanupTenant(i) ==
    /\ cleaning[i] = NoTenant
    /\ \E t \in found[i] :
        /\ cleaning' = [cleaning EXCEPT ![i] = t]
        /\ found' = [found EXCEPT ![i] = @ \ {t}]
    /\ cleaner' = [cleaner EXCEPT ![i] = 1]
    /\ UNCHANGED <<serviceVars, mongoVars, phase, startVars, handlerVars, faultVars>>

CallCleaner(i) ==
    /\ cleaning[i] # NoTenant
    /\ cleaner[i] <= Cleaners
    /\ cleaner' = [cleaner EXCEPT ![i] = @ + 1]
    /\ \/ cleaner[i] = MongoCleaner /\ DropDatabase(cleaning[i])
       \/ cleaner[i] # MongoCleaner /\ UNCHANGED dbs
    /\ UNCHANGED <<serviceVars, registry, provisioned, phase, startVars, handlerVars, found,
                   cleaning, faultVars>>

CleanupDone(i) ==
    /\ cleaning' = [cleaning EXCEPT ![i] = NoTenant]
    /\ cleaner' = [cleaner EXCEPT ![i] = 1]

RemoveRecord(i) ==
    /\ cleaning[i] # NoTenant
    /\ cleaner[i] > Cleaners
    /\ Remove(cleaning[i])
    /\ CleanupDone(i)
    /\ UNCHANGED <<serviceVars, dbs, provisioned, phase, startVars, handlerVars, found, faultVars>>

\* A cleaner or Remove failed: the record stays for a later tick.
CleanupFails(i) ==
    /\ cleaning[i] # NoTenant
    /\ faults < MaxFaults
    /\ faults' = faults + 1
    /\ CleanupDone(i)
    /\ UNCHANGED <<serviceVars, mongoVars, phase, startVars, handlerVars, found, crashes>>

\* What an instance has in memory is gone.
GoDown(i) ==
    /\ crashes < MaxCrashes
    /\ crashes' = crashes + 1
    /\ phase' = [phase EXCEPT ![i] = "down"]
    /\ local' = [local EXCEPT ![i] = {}]
    /\ todo' = [todo EXCEPT ![i] = {}]
    /\ doomed' = [doomed EXCEPT ![i] = {}]
    /\ deadline' = [deadline EXCEPT ![i] = 0]
    /\ event' = [event EXCEPT ![i] = 0]
    /\ migrating' = [migrating EXCEPT ![i] = FALSE]
    /\ tries' = [tries EXCEPT ![i] = 0]
    /\ found' = [found EXCEPT ![i] = {}]
    /\ CleanupDone(i)

\* The process dies, or an error of Run fails its start.
Crash(i) ==
    /\ phase[i] # "down"
    /\ GoDown(i)
    /\ handled' = committed
    /\ UNCHANGED <<serviceVars, mongoVars, committed, abandoned, faults>>

\* A stop ends the context of the attempt, and with it the retries; the event is
\* marked, and committed before the client closes (else this is a Crash).  A
\* migration has no context and ends first.
StopInEvent(i) ==
    /\ event[i] = handled + 1
    /\ ~migrating[i]
    /\ GoDown(i)
    /\ handled' = event[i]
    /\ committed' = event[i]
    /\ Abandon(i)
    /\ UNCHANGED <<serviceVars, mongoVars, faults>>
-----------------------------------------------------------------------------
Starting(i) ==
    \/ ReadRegistry(i) \/ GetSlugs(i) \/ UpsertNew(i) \/ SetDeadline(i)
    \/ MarkMissing(i) \/ ListActive(i) \/ MigrateListed(i) \/ Up(i)

HandleEvent(i) == TakeEvent(i) \/ CreateUpsert(i) \/ CreateMigrate(i) \/ Delete(i)

CleanupWorker(i) == FindExpired(i) \/ CleanupTenant(i) \/ CallCleaner(i) \/ RemoveRecord(i)

Fault(i) ==
    GetSlugsFails(i) \/ AttemptFails(i) \/ CleanupFails(i) \/ Crash(i) \/ StopInEvent(i)

Next ==
    \/ \E t \in Tenants : CreateTenant(t) \/ DeleteTenant(t)
    \/ Tick \/ Commit \/ Rebalance
    \/ \E i \in Instances : Starting(i) \/ HandleEvent(i) \/ CleanupWorker(i) \/ Fault(i)

Spec == Init /\ [][Next]_vars

\* Time passes, and a process that is not crashed runs its goroutines: the
\* start, the event consumer and the cleanup worker's ticker loop.
FairSpec ==
    /\ Spec
    /\ WF_vars(Tick)
    /\ \A i \in Instances :
        WF_vars(Starting(i)) /\ WF_vars(HandleEvent(i)) /\ WF_vars(CleanupWorker(i))
-----------------------------------------------------------------------------
(* Type: every variable has the shape the code gives it.                   *)
TypeOK ==
    /\ api \subseteq Tenants
    /\ events \in Seq([kind : {"created", "deleted"}, slug : Tenants])
    /\ age \in [Tenants -> 0..DeletionDelay]
    /\ registry \in [Tenants -> [status : {"none", "active", "pending"}, after : 0..DeletionDelay]]
    /\ dbs \subseteq Tenants /\ provisioned \subseteq Tenants
    /\ phase \in [Instances -> {"down", "fetch", "upsert", "mark", "migrate", "up"}]
    /\ local \in [Instances -> SUBSET Tenants]
    /\ todo \in [Instances -> SUBSET Tenants]
    /\ doomed \in [Instances -> SUBSET Tenants]
    /\ deadline \in [Instances -> 0..DeletionDelay]
    /\ handled \in 0..Len(events) /\ committed \in 0..handled
    /\ event \in [Instances -> 0..Len(events)]
    /\ tries \in [Instances -> 0..MaxRetries] /\ abandoned \subseteq Tenants
    /\ migrating \in [Instances -> BOOLEAN]
    /\ found \in [Instances -> SUBSET Tenants]
    /\ cleaning \in [Instances -> Tenants \cup {NoTenant}]
    /\ cleaner \in [Instances -> 1..(Cleaners + 1)]
    /\ faults \in 0..MaxFaults /\ crashes \in 0..MaxCrashes

(* A tenant that the tenant service lists and whose migration completed    *)
(* stays active in the registry and keeps its database, whatever the       *)
(* instances that are starting, cleaning up or replaying old events do     *)
(* (sync.go's reconciliation, lifecycle.go, cleanup_worker.go).            *)
LiveTenantServed ==
    \A t \in api \cap provisioned : t \in Active /\ t \in dbs

(* The database of a deleted tenant survives the deletion by at least      *)
(* DeletionDelay, whoever marks it: delete_after is never earlier, and     *)
(* nobody drops a database before it (FindPendingDeletion).                *)
DelayRespected ==
    \A t \in provisioned \ api : age[t] < DeletionDelay => t \in dbs

Registry == INSTANCE TenantRegistry WITH known <- Known, listed <- api, gone <- age, active <- Active

(* The instances together keep what a registry promises: what one of them  *)
(* read of a tenant, was told by an event or holds a deadline for, however *)
(* long ago, never shows as a step that is wrong for the tenant now        *)
(* (sync.go:27-81, lifecycle.go:33-56, cleanup_worker.go:32-74).           *)
KeepsRegistry == Registry!Spec

(* A created tenant gets its database, from an event or from a start-up    *)
(* synchronisation, unless it is deleted first or its event is given up:   *)
(* that takes more failed attempts than there are retries, or a stop in    *)
(* the middle of one (Lifecycle.Create, processor.go:92-128).              *)
CreatedEventuallyServed ==
    \A t \in Tenants : t \in api ~> (t \in provisioned \/ t \notin api \/ t \in abandoned)

\* The start of i has still to migrate t: it is on the list or on record.
Due(i, t) ==
    \/ phase[i] = "upsert" /\ t \in todo[i]
    \/ phase[i] \in {"fetch", "upsert", "mark"} /\ t \in Active

(* A start makes good what events have left undone: a live tenant that is  *)
(* on the tenant service's list or in the registry has its database when   *)
(* the start ends, given up or not, unless the start itself fails          *)
(* (TenantMigrationRunner.Run, migrator.go, sync.go:27-81).                *)
StartsRepair ==
    \A t \in Tenants, i \in Instances :
        (t \in api /\ Due(i, t)) ~> (t \in provisioned \/ t \notin api \/ phase[i] = "down")

(* "StatusActive indicates a tenant is active and operational"             *)
(* (repository.go:17): a tenant that is listed, active and migrated has    *)
(* its database.                                                           *)
ActiveIsOperational ==
    \A t \in Active \cap api \cap provisioned : t \in dbs
=============================================================================
