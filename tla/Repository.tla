----------------------------- MODULE Repository -----------------------------
(***************************************************************************)
(* The generic repository of pkg/mongo and its transactions.               *)
(*                                                                         *)
(* Clients read documents, keep them and write them back: one at a time    *)
(* with Update, several in WithTransaction, or, for the projections of     *)
(* events, with UpsertIfNewer.  MongoDB runs every call on one document    *)
(* atomically, except that an upsert looks for a match and inserts in two  *)
(* steps.  A document is its version and the set of edits its content      *)
(* comes from.  Ids are made by the callers and not used twice.            *)
(***************************************************************************)
EXTENDS Integers, FiniteSets

CONSTANTS
    Clients,
    Entities,     \* ids written with Insert, Update and Delete
    Views,        \* ids written with UpsertIfNewer
    MaxVersion,   \* bound: versions of the projected events
    MaxEdits,     \* bound: calls of Insert and Update, transactions
    MaxFaults     \* bound: lost answers, aborted transactions

Ids == Entities \cup Views

ASSUME RepositoryAssumption ==
    /\ Entities \cap Views = {}
    /\ MaxVersion \in Nat /\ MaxEdits \in Nat /\ MaxFaults \in Nat

VARIABLES
    docs,      \* the collection
    used,      \* ids ever inserted
    held,      \* held[c][id]: the domain object c has read
    tx,        \* tx[c]: the edit of c's open transaction, 0: none
    snap,      \* snap[c]: the collection as that transaction sees it
    written,   \* written[c]: ids the transaction has updated
    upserting, \* upserting[c]: <<id, version>> of an upsert that found no match
    issued,    \* edits so far
    acked,     \* history: <<edit, id>> reported as written
    joint,     \* history: the edits made by transactions
    applied,   \* history: <<id, version>> that UpsertIfNewer reported as written
    faults

txVars == <<tx, snap, written>>
upsertVars == <<upserting, applied>>
historyVars == <<issued, acked, joint>>
vars == <<docs, used, held, txVars, upsertVars, historyVars, faults>>

NoDoc == [version |-> 0, edits |-> {}]
NoDocs == [id \in Ids |-> NoDoc]
Docs == [version : Nat, edits : SUBSET (1..MaxEdits)]
Upserts == {<<>>} \cup (Views \X (1..MaxVersion))
Exists(id) == docs[id].version > 0

Init ==
    /\ docs = NoDocs /\ used = {}
    /\ held = [c \in Clients |-> [id \in Entities |-> NoDoc]]
    /\ tx = [c \in Clients |-> 0]
    /\ snap = [c \in Clients |-> NoDocs]
    /\ written = [c \in Clients |-> {}]
    /\ upserting = [c \in Clients |-> <<>>]
    /\ issued = 0 /\ acked = {} /\ joint = {} /\ applied = {}
    /\ faults = 0

Idle(c) == tx[c] = 0 /\ upserting[c] = <<>>

\* A write outside a transaction waits for a transaction that wrote the document.
Locked(id) == \E c \in Clients : tx[c] > 0 /\ id \in written[c]

Edit ==
    /\ issued < MaxEdits
    /\ issued' = issued + 1

\* The write is done and the caller gets an error.
AnswerLost ==
    /\ faults < MaxFaults
    /\ faults' = faults + 1
-----------------------------------------------------------------------------
(* Single documents.                                                       *)

Insert(c, id) ==
    /\ Idle(c)
    /\ id \notin used
    /\ Edit
    /\ docs' = [docs EXCEPT ![id] = [version |-> 1, edits |-> {issued'}]]
    /\ used' = used \cup {id}
    /\ \/ acked' = acked \cup {<<issued', id>>} /\ UNCHANGED faults
       \/ AnswerLost /\ UNCHANGED acked
    /\ UNCHANGED <<held, txVars, upsertVars, joint>>

\* ErrEntityNotFound leaves the caller without a domain object.
FindByID(c, id) ==
    /\ Idle(c)
    /\ held' = [held EXCEPT ![c][id] = docs[id]]
    /\ UNCHANGED <<docs, used, txVars, upsertVars, historyVars, faults>>

\* FindOneAndReplace of what c holds: the filter and the replacement.
AnyVersion(c, id, state) == state[id].version > 0  \* mutant: matched by _id alone

Matches(c, id, state) == state[id].version > 0 /\ state[id].version = held[c][id].version

StaleVersion(c, id, edit) ==                      \* mutant: the version is not incremented
    [version |-> held[c][id].version, edits |-> held[c][id].edits \cup {edit}]

Replacement(c, id, edit) ==
    [version |-> held[c][id].version + 1, edits |-> held[c][id].edits \cup {edit}]

Holds(c, id) == held[c][id].version > 0

Update(c, id) ==
    /\ Idle(c)
    /\ Holds(c, id)
    /\ ~Locked(id)
    /\ Matches(c, id, docs)
    /\ Edit
    /\ docs' = [docs EXCEPT ![id] = Replacement(c, id, issued')]
    /\ held' = [held EXCEPT ![c][id] = docs'[id]]
    /\ acked' = acked \cup {<<issued', id>>}
    /\ UNCHANGED <<used, txVars, upsertVars, joint, faults>>

\* ErrOptimisticLocking: the caller reads again before it tries again.
UpdateConflict(c, id) ==
    /\ Idle(c)
    /\ Holds(c, id)
    /\ ~Locked(id)
    /\ ~Matches(c, id, docs)
    /\ held' = [held EXCEPT ![c][id] = NoDoc]
    /\ UNCHANGED <<docs, used, txVars, upsertVars, historyVars, faults>>

UpdateAnswerLost(c, id) ==
    /\ Idle(c)
    /\ Holds(c, id)
    /\ ~Locked(id)
    /\ Matches(c, id, docs)
    /\ AnswerLost
    /\ Edit
    /\ docs' = [docs EXCEPT ![id] = Replacement(c, id, issued')]
    /\ UNCHANGED <<used, held, txVars, upsertVars, acked, joint>>

Delete(c, id) ==
    /\ Idle(c)
    /\ Exists(id)
    /\ ~Locked(id)
    /\ docs' = [docs EXCEPT ![id] = NoDoc]
    /\ UNCHANGED <<used, held, txVars, upsertVars, historyVars, faults>>
-----------------------------------------------------------------------------
(* WithTransaction, with a function that updates every entity and returns  *)
(* the first error.                                                        *)

Begin(c) ==
    /\ Idle(c)
    /\ \A id \in Entities : Holds(c, id)
    /\ Edit
    /\ tx' = [tx EXCEPT ![c] = issued']
    /\ snap' = [snap EXCEPT ![c] = docs]
    /\ joint' = joint \cup {issued'}
    /\ UNCHANGED <<docs, used, held, written, upsertVars, acked, faults>>

\* Somebody wrote the document since the snapshot was taken.
WriteConflict(c, id) ==
    docs[id] # snap[c][id] \/ \E d \in Clients \ {c} : tx[d] > 0 /\ id \in written[d]

TxUpdate(c, id) ==
    /\ tx[c] > 0
    /\ id \notin written[c]
    /\ ~WriteConflict(c, id)
    /\ Matches(c, id, snap[c])
    /\ written' = [written EXCEPT ![c] = @ \cup {id}]
    /\ UNCHANGED <<docs, used, held, tx, snap, upsertVars, historyVars, faults>>

\* A transient error: the driver aborts and calls the function again, which
\* still holds what it read before.
TxRetry(c) ==
    /\ tx[c] > 0
    /\ \E id \in Entities \ written[c] : WriteConflict(c, id)
    /\ snap' = [snap EXCEPT ![c] = docs]
    /\ written' = [written EXCEPT ![c] = {}]
    /\ UNCHANGED <<docs, used, held, tx, upsertVars, historyVars, faults>>

SessionKept(c) ==                                 \* mutant: EndSession is not called
    /\ tx' = [tx EXCEPT ![c] = 0]
    /\ UNCHANGED <<snap, written>>

TxEnd(c) ==
    /\ tx' = [tx EXCEPT ![c] = 0]
    /\ snap' = [snap EXCEPT ![c] = NoDocs]
    /\ written' = [written EXCEPT ![c] = {}]

\* What a commit writes: the new content of the ids the transaction updated.
Committed(c) ==
    [id \in Ids |-> IF id \in written[c] THEN Replacement(c, id, tx[c]) ELSE docs[id]]

\* A lost answer that the driver's repeated commit does not recover, too.
TxCommit(c) ==
    /\ tx[c] > 0
    /\ written[c] = Entities
    /\ docs' = Committed(c)
    /\ \/ /\ acked' = acked \cup {<<tx[c], id>> : id \in Entities}
          /\ held' = [held EXCEPT ![c] = [id \in Entities |-> docs'[id]]]
          /\ UNCHANGED faults
       \/ AnswerLost /\ UNCHANGED <<acked, held>>
    /\ TxEnd(c)
    /\ UNCHANGED <<used, upsertVars, issued, joint>>

\* ErrOptimisticLocking from the function: the transaction is aborted.
CommitAnyway(c) ==                                \* mutant: the error is not returned
    /\ tx[c] > 0
    /\ \E id \in Entities \ written[c] : ~WriteConflict(c, id) /\ ~Matches(c, id, snap[c])
    /\ docs' = Committed(c)
    /\ held' = [held EXCEPT ![c] = [id \in Entities |-> NoDoc]]
    /\ TxEnd(c)
    /\ UNCHANGED <<used, upsertVars, historyVars, faults>>

TxAbort(c) ==
    /\ tx[c] > 0
    /\ \E id \in Entities \ written[c] : ~WriteConflict(c, id) /\ ~Matches(c, id, snap[c])
    /\ held' = [held EXCEPT ![c] = [id \in Entities |-> NoDoc]]
    /\ TxEnd(c)
    /\ UNCHANGED <<docs, used, upsertVars, historyVars, faults>>

\* The client dies or its context ends before the commit.
TxDies(c) ==
    /\ tx[c] > 0
    /\ faults < MaxFaults
    /\ faults' = faults + 1
    /\ TxEnd(c)
    /\ UNCHANGED <<docs, used, held, upsertVars, historyVars>>
-----------------------------------------------------------------------------
(* UpsertIfNewer.  Events arrive in any order and more than once.          *)

Newer(id, v) == Exists(id) /\ docs[id].version < v

Replaceable(id, v) == Exists(id)                  \* mutant: version not in the filter

UpsertMatch(id, v) == Newer(id, v)

Apply(id, v) ==
    /\ docs' = [docs EXCEPT ![id].version = v]
    /\ \/ applied' = applied \cup {<<id, v>>} /\ UNCHANGED faults
       \/ AnswerLost /\ UNCHANGED applied

UpsertReplace(c, id, v) ==
    /\ Idle(c)
    /\ UpsertMatch(id, v)
    /\ Apply(id, v)
    /\ UNCHANGED <<used, held, txVars, upserting, historyVars>>

UpsertNoMatch(c, id, v) ==
    /\ Idle(c)
    /\ ~UpsertMatch(id, v)
    /\ upserting' = [upserting EXCEPT ![c] = <<id, v>>]
    /\ UNCHANGED <<docs, used, held, txVars, applied, historyVars, faults>>

\* The _id is taken by an equal or newer version, or by a concurrent upsert:
\* a duplicate key error.
UpsertInsert(c) ==
    /\ upserting[c] # <<>>
    /\ LET id == upserting[c][1]
           v == upserting[c][2]
       IN \/ /\ Exists(id)
             /\ UNCHANGED <<docs, applied, faults>>
          \/ ~Exists(id) /\ Apply(id, v)
    /\ upserting' = [upserting EXCEPT ![c] = <<>>]
    /\ UNCHANGED <<used, held, txVars, historyVars>>
-----------------------------------------------------------------------------
Single(c, id) ==
    \/ Insert(c, id) \/ FindByID(c, id) \/ Update(c, id) \/ UpdateConflict(c, id)
    \/ UpdateAnswerLost(c, id) \/ Delete(c, id)

Transaction(c) ==
    \/ Begin(c) \/ TxRetry(c) \/ TxCommit(c) \/ TxAbort(c) \/ TxDies(c)
    \/ \E id \in Entities : TxUpdate(c, id)

Upsert(c) ==
    \/ UpsertInsert(c)
    \/ \E id \in Views, v \in 1..MaxVersion : UpsertReplace(c, id, v) \/ UpsertNoMatch(c, id, v)

Next ==
    \E c \in Clients : (\E id \in Entities : Single(c, id)) \/ Transaction(c) \/ Upsert(c)

Spec == Init /\ [][Next]_vars
-----------------------------------------------------------------------------
(* Type: every variable has the shape the code gives it, and only an open  *)
(* transaction has a snapshot and writes.                                  *)
TypeOK ==
    /\ docs \in [Ids -> Docs] /\ used \subseteq Entities
    /\ held \in [Clients -> [Entities -> Docs]]
    /\ tx \in [Clients -> 0..issued]
    /\ snap \in [Clients -> [Ids -> Docs]]
    /\ written \in [Clients -> SUBSET Entities]
    /\ \A c \in Clients : tx[c] = 0 => snap[c] = NoDocs /\ written[c] = {}
    /\ upserting \in [Clients -> Upserts]
    /\ issued \in 0..MaxEdits
    /\ acked \subseteq (1..issued) \X Entities /\ joint \subseteq 1..issued
    /\ applied \subseteq Views \X (1..MaxVersion)
    /\ faults \in 0..MaxFaults

(* Optimistic locking: an edit that Update, Insert or a committed          *)
(* transaction reported as written is in the document for as long as the   *)
(* document exists; no other writer replaces it with content that was read *)
(* before (generic_repository.go:251-287).                                 *)
NoLostUpdate ==
    \A a \in acked : Exists(a[2]) => a[1] \in docs[a[2]].edits

(* All or nothing: of the documents that exist, a transaction's edit is in *)
(* every one or in none, whatever fails between (txmanager.go:43-61).      *)
AllOrNothing ==
    \A e \in joint, a, b \in Entities :
        Exists(a) /\ Exists(b) /\ e \in docs[a].edits => e \in docs[b].edits

(* A projection never goes back behind an event that was reported as       *)
(* applied, in whatever order and however often the events arrive          *)
(* (UpsertIfNewer, generic_repository.go:316-336).                         *)
NewestKept ==
    \A a \in applied : docs[a[1]].version >= a[2]

Store == INSTANCE VersionedStore WITH Edits <- 1..MaxEdits, Versions <- 1..MaxVersion

(* The repository behaves as a store whose every write is one atomic step  *)
(* on the content it replaces, a transaction on all of its documents: an   *)
(* object held since long ago, a retried function, a lost answer or an     *)
(* aborted session never shows (generic_repository.go:251-336,             *)
(* txmanager.go:43-61).                                                    *)
ActsAtomically == Store!Spec
=============================================================================
