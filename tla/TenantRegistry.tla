--------------------------- MODULE TenantRegistry ---------------------------
(***************************************************************************)
(* What a service promises the tenants of a tenant service that uses a     *)
(* slug once, without lists that instances have read, replayed events,     *)
(* deadlines, crashes or a worker: a tenant is activated only if it was    *)
(* created, deactivated only when it is gone, migrated while it is active  *)
(* and loses its database only when it has been gone for the delay.        *)
(***************************************************************************)
EXTENDS Integers

CONSTANTS Tenants, DeletionDelay

VARIABLES
    known,        \* tenants ever created
    listed,       \* those that are not deleted
    gone,         \* gone[t]: ticks since t was deleted, up to DeletionDelay
    active,       \* tenants on record as active, which a start migrates
    dbs,          \* tenants with a database
    provisioned   \* tenants that were migrated while they were listed

vars == <<known, listed, gone, active, dbs, provisioned>>

Init ==
    /\ known = {} /\ listed = {} /\ active = {} /\ dbs = {} /\ provisioned = {}
    /\ gone = [t \in Tenants |-> 0]

Gone == known \ listed

Create(t) ==
    /\ t \notin known
    /\ known' = known \cup {t}
    /\ listed' = listed \cup {t}
    /\ UNCHANGED <<gone, active, dbs, provisioned>>

Delete(t) ==
    /\ t \in listed
    /\ listed' = listed \ {t}
    /\ gone' = [gone EXCEPT ![t] = 0]
    /\ UNCHANGED <<known, active, dbs, provisioned>>

Tick ==
    /\ gone' = [t \in Tenants |->
                    IF t \in Gone /\ gone[t] < DeletionDelay THEN gone[t] + 1 ELSE gone[t]]
    /\ UNCHANGED <<known, listed, active, dbs, provisioned>>

Activate(t) ==
    /\ t \in known
    /\ active' = active \cup {t}
    /\ UNCHANGED <<known, listed, gone, dbs, provisioned>>

Deactivate(t) ==
    /\ t \in Gone
    /\ active' = active \ {t}
    /\ UNCHANGED <<known, listed, gone, dbs, provisioned>>

\* A database of a tenant that is gone may come back, by a late event.
Migrate(t) ==
    /\ t \in known
    /\ t \in active \/ t \in Gone
    /\ dbs' = dbs \cup {t}
    /\ provisioned' = provisioned \cup ({t} \cap listed)
    /\ UNCHANGED <<known, listed, gone, active>>

Drop(t) ==
    /\ t \in Gone
    /\ gone[t] >= DeletionDelay
    /\ dbs' = dbs \ {t}
    /\ UNCHANGED <<known, listed, gone, active, provisioned>>

Next ==
    \/ Tick
    \/ \E t \in Tenants :
        \/ Create(t) \/ Delete(t)
        \/ Activate(t) \/ Deactivate(t)
        \/ Migrate(t) \/ Drop(t)

Spec == Init /\ [][Next]_vars
=============================================================================
