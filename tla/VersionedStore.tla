--------------------------- MODULE VersionedStore ---------------------------
(***************************************************************************)
(* What the repository promises its callers, without objects they hold,    *)
(* version filters, snapshots, sessions or retries: every write is one     *)
(* atomic step that builds on the content it replaces, a transaction is    *)
(* such a step on all of its documents at once, an edit takes effect at    *)
(* most once, and nobody is told of a write that did not happen.           *)
(***************************************************************************)
EXTENDS Integers

CONSTANTS Entities, Views, Edits, Versions

VARIABLES
    docs,     \* docs[id]: its version, 0 if there is none, and its edits
    used,     \* entities ever created
    acked,    \* <<edit, id>> that a caller was told of
    applied   \* <<id, version>> of a view that a caller was told of

vars == <<docs, used, acked, applied>>

NoDoc == [version |-> 0, edits |-> {}]
Exists(id) == docs[id].version > 0

Init ==
    /\ docs = [id \in Entities \cup Views |-> NoDoc]
    /\ used = {}
    /\ acked = {}
    /\ applied = {}

New(e) == \A id \in Entities : e \notin docs[id].edits

Edited(id, e) == [version |-> docs[id].version + 1, edits |-> docs[id].edits \cup {e}]

\* The answer of each write may be lost.
Create(id, e) ==
    /\ id \notin used
    /\ New(e)
    /\ docs' = [docs EXCEPT ![id] = [version |-> 1, edits |-> {e}]]
    /\ used' = used \cup {id}
    /\ acked' \in {acked, acked \cup {<<e, id>>}}
    /\ UNCHANGED applied

Update(id, e) ==
    /\ Exists(id)
    /\ New(e)
    /\ docs' = [docs EXCEPT ![id] = Edited(id, e)]
    /\ acked' \in {acked, acked \cup {<<e, id>>}}
    /\ UNCHANGED <<used, applied>>

UpdateAll(e) ==
    /\ \A id \in Entities : Exists(id)
    /\ New(e)
    /\ docs' = [id \in Entities \cup Views |-> IF id \in Entities THEN Edited(id, e) ELSE docs[id]]
    /\ acked' \in {acked, acked \cup {<<e, id>> : id \in Entities}}
    /\ UNCHANGED <<used, applied>>

Remove(id) ==
    /\ Exists(id)
    /\ docs' = [docs EXCEPT ![id] = NoDoc]
    /\ UNCHANGED <<used, acked, applied>>

Advance(id, v) ==
    /\ docs[id].version < v
    /\ docs' = [docs EXCEPT ![id].version = v]
    /\ applied' \in {applied, applied \cup {<<id, v>>}}
    /\ UNCHANGED <<used, acked>>

Next ==
    \/ \E id \in Entities, e \in Edits : Create(id, e) \/ Update(id, e)
    \/ \E e \in Edits : UpdateAll(e)
    \/ \E id \in Entities : Remove(id)
    \/ \E id \in Views, v \in Versions : Advance(id, v)

Spec == Init /\ [][Next]_vars
=============================================================================
