-------------------------- MODULE RepositoryProofs --------------------------
(***************************************************************************)
(* Theorems about the repository, for any number of clients, documents,    *)
(* versions, edits and faults.                                             *)
(***************************************************************************)
EXTENDS Repository, TLAPS

(* The type invariant.                                                     *)

LEMMA InitType == Init => TypeOK
BY RepositoryAssumption DEF Init, TypeOK, Upserts, NoDocs, NoDoc, Docs, Ids

(* What Update writes is a document.                                       *)
LEMMA ReplacementType ==
  ASSUME TypeOK, NEW c \in Clients, NEW id \in Entities, NEW e \in 1..MaxEdits
  PROVE  Replacement(c, id, e) \in Docs
BY DEF TypeOK, Replacement, Docs

LEMMA NoDocType == NoDoc \in Docs
BY DEF NoDoc, Docs

(* One object of one client changes, or all of one client.                 *)
LEMMA HeldType ==
  ASSUME TypeOK, NEW c \in Clients, NEW id \in Entities, NEW d \in Docs
  PROVE  [held EXCEPT ![c][id] = d] \in [Clients -> [Entities -> Docs]]
<1>1. [held[c] EXCEPT ![id] = d] \in [Entities -> Docs]
  BY DEF TypeOK
<1>2. [held EXCEPT ![c][id] = d] = [held EXCEPT ![c] = [held[c] EXCEPT ![id] = d]]
  BY DEF TypeOK
<1>3. QED
  BY <1>1, <1>2 DEF TypeOK

LEMMA FaultType ==
  ASSUME TypeOK, AnswerLost \/ UNCHANGED faults
  PROVE  faults' \in 0..MaxFaults
BY RepositoryAssumption DEF TypeOK, AnswerLost

LEMMA SingleType ==
  ASSUME TypeOK, NEW c \in Clients, NEW id \in Entities, Single(c, id)
  PROVE  TypeOK'
<1>1. id \in Ids /\ docs[id] \in Docs
  BY DEF TypeOK, Ids
<1>2. Edit => issued' \in 1..MaxEdits /\ issued' = issued + 1
  BY RepositoryAssumption DEF TypeOK, Edit
<1>3. CASE Insert(c, id)
  <2>1. [version |-> 1, edits |-> {issued'}] \in Docs
    BY <1>2, <1>3 DEF Insert, Docs
  <2>2. faults' \in 0..MaxFaults /\ acked' \subseteq acked \cup {<<issued', id>>}
    BY <1>3, FaultType DEF Insert
  <2>3. QED
    BY <1>1, <1>2, <1>3, <2>1, <2>2 DEF TypeOK, Insert, txVars, upsertVars
<1>4. CASE FindByID(c, id)
  BY <1>1, <1>4, HeldType DEF TypeOK, FindByID, txVars, upsertVars, historyVars
<1>5. ASSUME Edit PROVE Replacement(c, id, issued') \in Docs
  BY <1>2, <1>5, ReplacementType
<1>6. CASE Update(c, id)
  <2>1. /\ docs' \in [Ids -> Docs] /\ docs'[id] \in Docs
    BY <1>1, <1>5, <1>6 DEF TypeOK, Update
  <2>2. held' \in [Clients -> [Entities -> Docs]]
    BY <1>6, <2>1, HeldType DEF Update
  <2>3. QED
    BY <1>2, <1>6, <2>1, <2>2 DEF TypeOK, Update, txVars, upsertVars
<1>7. CASE UpdateConflict(c, id)
  BY <1>7, NoDocType, HeldType DEF TypeOK, UpdateConflict, txVars, upsertVars, historyVars
<1>8. CASE UpdateAnswerLost(c, id)
  <2>1. faults' \in 0..MaxFaults
    BY <1>8, FaultType DEF UpdateAnswerLost
  <2>2. QED
    BY <1>1, <1>2, <1>5, <1>8, <2>1 DEF TypeOK, UpdateAnswerLost, txVars, upsertVars
<1>9. CASE Delete(c, id)
  BY <1>1, <1>9, NoDocType DEF TypeOK, Delete, txVars, upsertVars, historyVars
<1>10. QED
  BY <1>3, <1>4, <1>6, <1>7, <1>8, <1>9 DEF Single

(* The end of a transaction leaves the client without one.                 *)
LEMMA TxEndType ==
  ASSUME TypeOK, NEW c \in Clients, TxEnd(c), issued' = issued
  PROVE  /\ tx' \in [Clients -> 0..issued']
         /\ snap' \in [Clients -> [Ids -> Docs]]
         /\ written' \in [Clients -> SUBSET Entities]
         /\ \A d \in Clients : tx'[d] = 0 => snap'[d] = NoDocs /\ written'[d] = {}
<1>1. NoDocs \in [Ids -> Docs]
  BY NoDocType DEF NoDocs
<1>2. QED
  BY <1>1 DEF TypeOK, TxEnd

LEMMA CommittedType ==
  ASSUME TypeOK, NEW c \in Clients, tx[c] > 0
  PROVE  Committed(c) \in [Ids -> Docs]
<1>1. tx[c] \in 1..MaxEdits
  BY RepositoryAssumption DEF TypeOK
<1>2. \A id \in written[c] : Replacement(c, id, tx[c]) \in Docs
  BY <1>1, ReplacementType DEF TypeOK
<1>3. QED
  BY <1>2 DEF TypeOK, Committed

LEMMA TransactionType ==
  ASSUME TypeOK, NEW c \in Clients, Transaction(c)
  PROVE  TypeOK'
<1>1. [id \in Entities |-> NoDoc] \in [Entities -> Docs]
  BY NoDocType
<1>2. CASE Begin(c)
  <2>1. issued' \in 1..MaxEdits /\ issued' = issued + 1
    BY <1>2, RepositoryAssumption DEF TypeOK, Begin, Edit
  <2>2. QED
    BY <1>2, <2>1 DEF TypeOK, Begin, upsertVars
<1>3. CASE TxRetry(c)
  BY <1>3 DEF TypeOK, TxRetry, upsertVars, historyVars
<1>4. CASE TxCommit(c)
  <2>1. docs' \in [Ids -> Docs]
    BY <1>4, CommittedType DEF TxCommit
  <2>2. held' \in [Clients -> [Entities -> Docs]]
    <3>1. \A id \in Entities : docs'[id] \in Docs
      BY <2>1 DEF Ids
    <3>2. \/ held' = held
          \/ held' = [held EXCEPT ![c] = [id \in Entities |-> docs'[id]]]
      BY <1>4 DEF TxCommit
    <3>3. [id \in Entities |-> docs'[id]] \in [Entities -> Docs]
      BY <3>1
    <3>4. held \in [Clients -> [Entities -> Docs]]
      BY DEF TypeOK
    <3>5. QED
      BY <3>2, <3>3, <3>4
  <2>3. acked' \subseteq (1..issued) \X Entities
    BY <1>4 DEF TypeOK, TxCommit
  <2>4. faults' \in 0..MaxFaults
    BY <1>4, FaultType DEF TxCommit
  <2>5. QED
    BY <1>4, <2>1, <2>2, <2>3, <2>4, TxEndType DEF TypeOK, TxCommit, upsertVars
<1>5. CASE TxAbort(c)
  <2>1. held' \in [Clients -> [Entities -> Docs]]
    BY <1>1, <1>5 DEF TypeOK, TxAbort
  <2>2. QED
    BY <1>5, <2>1, TxEndType DEF TypeOK, TxAbort, upsertVars, historyVars
<1>6. CASE TxDies(c)
  BY <1>6, TxEndType, RepositoryAssumption DEF TypeOK, TxDies, upsertVars, historyVars
<1>7. ASSUME NEW id \in Entities, TxUpdate(c, id) PROVE TypeOK'
  BY <1>7 DEF TypeOK, TxUpdate, upsertVars, historyVars
<1>8. QED
  BY <1>2, <1>3, <1>4, <1>5, <1>6, <1>7 DEF Transaction

(* The document of a view gets another version.                            *)
LEMMA VersionType ==
  ASSUME TypeOK, NEW id \in Ids, NEW v \in 1..MaxVersion
  PROVE  [docs EXCEPT ![id].version = v] \in [Ids -> Docs]
<1>1. docs[id] \in Docs
  BY DEF TypeOK
<1>2. [docs[id] EXCEPT !.version = v] \in Docs
  BY <1>1 DEF Docs
<1>3. [docs EXCEPT ![id].version = v] = [docs EXCEPT ![id] = [docs[id] EXCEPT !.version = v]]
  BY DEF TypeOK
<1>4. QED
  BY <1>2, <1>3 DEF TypeOK

LEMMA UpsertType ==
  ASSUME TypeOK, NEW c \in Clients, Upsert(c)
  PROVE  TypeOK'
<1>1. ASSUME NEW id \in Views, NEW v \in 1..MaxVersion, UpsertReplace(c, id, v)
      PROVE  TypeOK'
  <2>1. docs' \in [Ids -> Docs]
    BY <1>1, VersionType DEF UpsertReplace, Apply, Ids
  <2>2. faults' \in 0..MaxFaults /\ applied' \subseteq Views \X (1..MaxVersion)
    BY <1>1, FaultType DEF UpsertReplace, Apply, TypeOK
  <2>3. QED
    BY <1>1, <2>1, <2>2 DEF TypeOK, UpsertReplace, txVars, historyVars
<1>2. ASSUME NEW id \in Views, NEW v \in 1..MaxVersion, UpsertNoMatch(c, id, v)
      PROVE  TypeOK'
  <2>1. <<id, v>> \in Upserts
    BY DEF Upserts
  <2>2. QED
    BY <1>2, <2>1 DEF TypeOK, UpsertNoMatch, txVars, historyVars
<1>3. CASE UpsertInsert(c)
  <2>1. PICK id \in Views, v \in 1..MaxVersion : upserting[c] = <<id, v>>
    BY <1>3 DEF TypeOK, UpsertInsert, Upserts
  <2>2. <<>> \in Upserts
    BY DEF Upserts
  <2>3. upserting[c][1] = id /\ upserting[c][2] = v
    BY <2>1
  <2>4. /\ docs' \in [Ids -> Docs] /\ applied' \subseteq Views \X (1..MaxVersion)
        /\ faults' \in 0..MaxFaults
    <3>1. id \in Ids /\ [docs EXCEPT ![id].version = v] \in [Ids -> Docs]
      BY VersionType DEF Ids
    <3>2. /\ docs' = docs \/ docs' = [docs EXCEPT ![id].version = v]
          /\ applied' = applied \/ applied' = applied \cup {<<id, v>>}
          /\ AnswerLost \/ UNCHANGED faults
      BY <1>3, <2>3 DEF UpsertInsert, Apply
    <3>3. docs' \in [Ids -> Docs]
      BY <3>1, <3>2 DEF TypeOK
    <3>4. applied' \subseteq Views \X (1..MaxVersion)
      BY <3>2 DEF TypeOK
    <3>5. QED
      BY <3>2, <3>3, <3>4, FaultType
  <2>5. QED
    BY <1>3, <2>2, <2>4 DEF TypeOK, UpsertInsert, txVars, historyVars
<1>4. QED
  BY <1>1, <1>2, <1>3 DEF Upsert

LEMMA StepType == TypeOK /\ [Next]_vars => TypeOK'
<1>1. SUFFICES ASSUME TypeOK, [Next]_vars PROVE TypeOK'
  OBVIOUS
<1>2. CASE UNCHANGED vars
  BY <1>1, <1>2 DEF TypeOK, vars, txVars, upsertVars, historyVars
<1>3. QED
  BY <1>1, <1>2, SingleType, TransactionType, UpsertType DEF Next

(* Every variable keeps its type, for every value of the constants.        *)
THEOREM TypeCorrect == Spec => []TypeOK
BY InitType, StepType, PTL DEF Spec
-----------------------------------------------------------------------------
(* The inductive invariant.  What a client holds is the document or older, *)
(* ids of documents and of what refers to them are in use, an open         *)
(* transaction keeps what it has written to itself, and edits are numbered *)
(* in the order of their issue.                                            *)

HeldCurrent ==
    \A c \in Clients, id \in Entities : Exists(id) =>
        /\ held[c][id].version <= docs[id].version
        /\ held[c][id].version = docs[id].version => held[c][id].edits = docs[id].edits

InUse ==
    /\ \A id \in Entities : Exists(id) => id \in used
    /\ \A c \in Clients, id \in Entities : Holds(c, id) => id \in used
    /\ \A a \in acked : a[2] \in used
    /\ joint # {} => Entities \subseteq used

Reserved ==
    /\ \A c \in Clients : \A id \in written[c] : Matches(c, id, docs)
    /\ \A c, d \in Clients : c # d => written[c] \cap written[d] = {}

EditsIssued ==
    /\ \A id \in Entities : docs[id].edits \subseteq 1..issued
    /\ \A c \in Clients, id \in Entities : held[c][id].edits \subseteq 1..issued

Support == HeldCurrent /\ InUse /\ Reserved /\ EditsIssued

Promises == NoLostUpdate /\ AllOrNothing /\ NewestKept

IInv == TypeOK /\ Support /\ Promises

LEMMA InitInv == Init => IInv
<1>1. SUFFICES ASSUME Init PROVE Support /\ Promises
  BY InitType DEF IInv
<1>2. /\ \A id \in Ids : docs[id] = NoDoc
      /\ \A c \in Clients, id \in Entities : held[c][id] = NoDoc
      /\ \A c \in Clients : written[c] = {}
  BY <1>1 DEF Init, NoDocs
<1>3. QED
  BY <1>1, <1>2
     DEF Init, NoDoc, Ids, Exists, Holds, Support, Promises, HeldCurrent, InUse, Reserved,
         EditsIssued, NoLostUpdate, AllOrNothing, NewestKept

(* What the type invariant says of single documents.                       *)
LEMMA DocFacts ==
  ASSUME TypeOK
  PROVE  /\ \A id \in Entities : id \in Ids
         /\ \A id \in Views : id \in Ids /\ id \notin Entities
         /\ \A id \in Ids : docs[id] \in Docs /\ docs[id].version \in Nat
         /\ \A c \in Clients, id \in Entities :
                held[c][id] \in Docs /\ held[c][id].version \in Nat
         /\ \A a \in acked : a[1] \in 1..issued /\ a[2] \in Entities
         /\ \A a \in applied : a[1] \in Views /\ a[2] \in 1..MaxVersion
BY RepositoryAssumption DEF TypeOK, Ids, Docs

(* What a client holds after it has read, written or given up a document.  *)
LEMMA HeldAfter ==
  ASSUME TypeOK, NEW c \in Clients, NEW id \in Entities, NEW d,
         held' = [held EXCEPT ![c][id] = d]
  PROVE  \A b \in Clients, i \in Entities :
             held'[b][i] = IF b = c /\ i = id THEN d ELSE held[b][i]
<1>1. held' = [held EXCEPT ![c] = [held[c] EXCEPT ![id] = d]]
  BY DEF TypeOK
<1>2. QED
  BY <1>1 DEF TypeOK

LEMMA InsertInv ==
  ASSUME IInv, NEW c \in Clients, NEW id \in Entities, Insert(c, id)
  PROVE  (Support /\ Promises)'
<1>1. /\ TypeOK /\ id \in Ids /\ issued' = issued + 1 /\ issued \in Nat
      /\ docs'[id] = [version |-> 1, edits |-> {issued'}]
      /\ \A i \in Ids : i # id => docs'[i] = docs[i]
      /\ id \notin used /\ used' = used \cup {id}
      /\ acked' \subseteq acked \cup {<<issued', id>>}
      /\ UNCHANGED <<held, tx, written, joint, applied>>
  BY RepositoryAssumption DEF IInv, TypeOK, Insert, Edit, Ids, txVars, upsertVars
<1>2. /\ ~Exists(id) /\ \A b \in Clients : held[b][id].version = 0
  BY <1>1, DocFacts DEF IInv, Support, InUse, Exists, Holds
<1>3. HeldCurrent'
  BY <1>1, <1>2, DocFacts DEF IInv, Support, HeldCurrent, Exists
<1>4. InUse'
  BY <1>1, <1>2, DocFacts DEF IInv, Support, InUse, Exists, Holds
<1>5. Reserved'
  <2>1. \A b \in Clients : id \notin written[b]
    BY <1>1, <1>2 DEF IInv, Support, Reserved, Matches, Exists
  <2>2. \A b \in Clients : written[b] \subseteq Entities
    BY DEF IInv, TypeOK
  <2>3. QED
    BY <1>1, <2>1, <2>2, DocFacts DEF IInv, Support, Reserved, Matches
<1>6. EditsIssued'
  <2>1. 1..issued \subseteq 1..issued' /\ issued' \in 1..issued'
    BY <1>1
  <2>2. QED
    BY <1>1, <2>1, DocFacts DEF IInv, Support, EditsIssued
<1>7. NoLostUpdate'
  BY <1>1, DocFacts DEF IInv, Support, Promises, InUse, NoLostUpdate, Exists
<1>8. AllOrNothing'
  <2>1. joint = {}
    BY <1>1 DEF IInv, Support, InUse
  <2>2. QED
    BY <1>1, <2>1 DEF AllOrNothing
<1>9. NewestKept'
  BY <1>1, DocFacts DEF IInv, Promises, NewestKept
<1>10. QED
  BY <1>3, <1>4, <1>5, <1>6, <1>7, <1>8, <1>9 DEF Support, Promises

(* A document that no transaction has written gets one more edit, and at   *)
(* most the client that made it comes to hold the result.                  *)
LEMMA ReplacedInv ==
  ASSUME IInv, NEW c \in Clients, NEW id \in Entities,
         Matches(c, id, docs), ~Locked(id), Edit,
         docs' = [docs EXCEPT ![id] = Replacement(c, id, issued')],
         held' = held \/ held' = [held EXCEPT ![c][id] = docs'[id]],
         acked' \subseteq acked \cup {<<issued', id>>},
         UNCHANGED <<used, tx, written, joint, applied>>
  PROVE  (Support /\ Promises)'
<1>1. /\ TypeOK /\ id \in Ids /\ issued' = issued + 1 /\ issued \in Nat
      /\ docs[id].version > 0 /\ held[c][id].version = docs[id].version
      /\ held[c][id].edits = docs[id].edits
  BY RepositoryAssumption
     DEF IInv, Support, HeldCurrent, TypeOK, Edit, Ids, Matches, Exists
<1>2. /\ docs'[id] = [version |-> docs[id].version + 1, edits |-> docs[id].edits \cup {issued'}]
      /\ \A i \in Ids : i # id => docs'[i] = docs[i]
  BY <1>1 DEF TypeOK, Replacement
<1>3. \A b \in Clients, i \in Entities :
          held'[b][i] = held[b][i] \/ (b = c /\ i = id /\ held'[b][i] = docs'[id])
  <2>1. CASE held' = held
    BY <2>1
  <2>2. CASE held' = [held EXCEPT ![c][id] = docs'[id]]
    <3>1. held' = [held EXCEPT ![c] = [held[c] EXCEPT ![id] = docs'[id]]]
      BY <2>2 DEF IInv, TypeOK
    <3>2. QED
      BY <3>1 DEF IInv, TypeOK
  <2>3. QED
    BY <2>1, <2>2
<1>4. /\ docs'[id].version = docs[id].version + 1
      /\ docs'[id].edits = docs[id].edits \cup {issued'}
  BY <1>2
<1>5. HeldCurrent'
  BY <1>1, <1>2, <1>3, <1>4, DocFacts DEF IInv, Support, HeldCurrent, Exists
<1>6. InUse'
  BY <1>1, <1>2, <1>3, <1>4, DocFacts DEF IInv, Support, InUse, Exists, Holds
<1>7. Reserved'
  <2>1. \A b \in Clients : id \notin written[b] /\ written[b] \subseteq Entities
    BY <1>1 DEF TypeOK, Locked
  <2>2. QED
    BY <1>1, <1>2, <1>3, <2>1, DocFacts DEF IInv, Support, Reserved, Matches
<1>8. EditsIssued'
  <2>1. 1..issued \subseteq 1..issued' /\ issued' \in 1..issued'
    BY <1>1
  <2>2. QED
    BY <1>1, <1>2, <1>3, <1>4, <2>1, DocFacts DEF IInv, Support, EditsIssued
<1>9. NoLostUpdate'
  BY <1>1, <1>2, <1>4, DocFacts DEF IInv, Promises, NoLostUpdate, Exists
<1>10. AllOrNothing'
  <2>1. \A e \in joint : e # issued'
    BY <1>1 DEF TypeOK
  <2>2. QED
    BY <1>1, <1>2, <1>4, <2>1, DocFacts DEF IInv, Promises, AllOrNothing, Exists
<1>11. NewestKept'
  BY <1>1, <1>2, DocFacts DEF IInv, Promises, NewestKept
<1>12. QED
  BY <1>5, <1>6, <1>7, <1>8, <1>9, <1>10, <1>11 DEF Support, Promises

(* Reading, giving up and deleting.                                        *)
LEMMA HeldOnlyInv ==
  ASSUME IInv, NEW c \in Clients, NEW id \in Entities, Idle(c),
         held' = [held EXCEPT ![c][id] = docs[id]] \/ held' = [held EXCEPT ![c][id] = NoDoc],
         UNCHANGED <<docs, used, tx, written, issued, acked, joint, applied>>
  PROVE  (Support /\ Promises)'
<1>1. /\ TypeOK /\ written[c] = {} /\ id \in Ids
      /\ NoDoc.version = 0 /\ NoDoc.edits = {}
  BY DEF IInv, TypeOK, Idle, Ids, NoDoc
<1>2. \A b \in Clients, i \in Entities :
          \/ held'[b][i] = held[b][i]
          \/ b = c /\ i = id /\ (held'[b][i] = docs[id] \/ held'[b][i] = NoDoc)
  BY <1>1, HeldAfter
<1>3. HeldCurrent'
  BY <1>1, <1>2, DocFacts DEF IInv, Support, HeldCurrent, Exists
<1>4. InUse'
  BY <1>1, <1>2, DocFacts DEF IInv, Support, InUse, Exists, Holds
<1>5. Reserved'
  <2>1. \A b \in Clients : written[b] \subseteq Entities
    BY <1>1 DEF TypeOK
  <2>2. QED
    BY <1>1, <1>2, <2>1 DEF IInv, Support, Reserved, Matches
<1>6. EditsIssued'
  BY <1>1, <1>2 DEF IInv, Support, EditsIssued
<1>7. Promises'
  BY DEF IInv, Promises, NoLostUpdate, AllOrNothing, NewestKept, Exists
<1>8. QED
  BY <1>3, <1>4, <1>5, <1>6, <1>7 DEF Support

LEMMA DeleteInv ==
  ASSUME IInv, NEW c \in Clients, NEW id \in Entities, Delete(c, id)
  PROVE  (Support /\ Promises)'
<1>1. /\ TypeOK /\ id \in Ids
      /\ docs'[id] = NoDoc /\ NoDoc.version = 0 /\ NoDoc.edits = {}
      /\ \A i \in Ids : i # id => docs'[i] = docs[i]
      /\ UNCHANGED <<used, held, tx, written, issued, acked, joint, applied>>
  BY DEF IInv, TypeOK, Delete, NoDoc, Ids, txVars, upsertVars, historyVars
<1>2. HeldCurrent'
  BY <1>1, DocFacts DEF IInv, Support, HeldCurrent, Exists
<1>3. InUse'
  BY <1>1, DocFacts DEF IInv, Support, InUse, Exists, Holds
<1>4. Reserved'
  <2>1. \A b \in Clients : id \notin written[b] /\ written[b] \subseteq Entities
    BY <1>1 DEF TypeOK, Locked, Delete
  <2>2. QED
    BY <1>1, <2>1, DocFacts DEF IInv, Support, Reserved, Matches
<1>5. EditsIssued'
  BY <1>1, DocFacts DEF IInv, Support, EditsIssued
<1>6. Promises'
  BY <1>1, DocFacts DEF IInv, Promises, NoLostUpdate, AllOrNothing, NewestKept, Exists
<1>7. QED
  BY <1>2, <1>3, <1>4, <1>5, <1>6 DEF Support

LEMMA SingleInv ==
  ASSUME IInv, NEW c \in Clients, NEW id \in Entities, Single(c, id)
  PROVE  (Support /\ Promises)'
<1>1. CASE Insert(c, id)
  BY <1>1, InsertInv
<1>2. CASE FindByID(c, id)
  BY <1>2, HeldOnlyInv DEF FindByID, txVars, upsertVars, historyVars
<1>3. CASE Update(c, id)
  BY <1>3, ReplacedInv DEF Update, txVars, upsertVars
<1>4. CASE UpdateConflict(c, id)
  BY <1>4, HeldOnlyInv DEF UpdateConflict, txVars, upsertVars, historyVars
<1>5. CASE UpdateAnswerLost(c, id)
  BY <1>5, ReplacedInv DEF UpdateAnswerLost, txVars, upsertVars
<1>6. CASE Delete(c, id)
  BY <1>6, DeleteInv
<1>7. QED
  BY <1>1, <1>2, <1>3, <1>4, <1>5, <1>6 DEF Single

LEMMA BeginInv ==
  ASSUME IInv, NEW c \in Clients, Begin(c)
  PROVE  (Support /\ Promises)'
<1>1. /\ TypeOK /\ issued' = issued + 1 /\ issued \in Nat
      /\ joint' = joint \cup {issued'}
      /\ UNCHANGED <<docs, used, held, written, acked, applied>>
  BY RepositoryAssumption DEF IInv, TypeOK, Begin, Edit, upsertVars
<1>2. Entities \subseteq used
  BY DEF IInv, Support, InUse, Begin
<1>3. EditsIssued'
  <2>1. 1..issued \subseteq 1..issued'
    BY <1>1
  <2>2. QED
    BY <1>1, <2>1 DEF IInv, Support, EditsIssued
<1>4. HeldCurrent' /\ InUse' /\ Reserved'
  BY <1>1, <1>2
     DEF IInv, Support, HeldCurrent, InUse, Reserved, Matches, Exists, Holds
<1>5. NoLostUpdate' /\ NewestKept'
  BY <1>1 DEF IInv, Promises, NoLostUpdate, NewestKept, Exists
<1>6. AllOrNothing'
  <2>1. \A id \in Entities : issued' \notin docs[id].edits
    BY <1>1 DEF IInv, Support, EditsIssued
  <2>2. QED
    BY <1>1, <2>1 DEF IInv, Promises, AllOrNothing, Exists
<1>7. QED
  BY <1>3, <1>4, <1>5, <1>6 DEF Support, Promises

(* Inside a transaction only what it has written changes; at its end other *)
(* than by a commit, what the client holds is kept or given up.            *)
LEMMA WrittenOnlyInv ==
  ASSUME IInv, NEW c \in Clients,
         written' = [written EXCEPT ![c] = {}],
         held' = held \/ held' = [held EXCEPT ![c] = [id \in Entities |-> NoDoc]],
         UNCHANGED <<docs, used, issued, acked, joint, applied>>
  PROVE  (Support /\ Promises)'
<1>1. /\ TypeOK /\ NoDoc.version = 0 /\ NoDoc.edits = {}
      /\ \A b \in Clients : written'[b] = IF b = c THEN {} ELSE written[b]
      /\ \A b \in Clients : written[b] \subseteq Entities
      /\ \A b \in Clients, i \in Entities :
             held'[b][i] = held[b][i] \/ (b = c /\ held'[b][i] = NoDoc)
  <2>1. TypeOK /\ NoDoc.version = 0 /\ NoDoc.edits = {}
    BY DEF IInv, NoDoc
  <2>2. /\ \A b \in Clients : written'[b] = IF b = c THEN {} ELSE written[b]
        /\ \A b \in Clients : written[b] \subseteq Entities
    BY DEF IInv, TypeOK
  <2>3. ASSUME NEW b \in Clients, NEW i \in Entities
        PROVE  held'[b][i] = held[b][i] \/ (b = c /\ held'[b][i] = NoDoc)
    BY DEF IInv, TypeOK
  <2>4. QED
    BY <2>1, <2>2, <2>3
<1>2. HeldCurrent'
  BY <1>1, DocFacts DEF IInv, Support, HeldCurrent, Exists
<1>3. InUse'
  BY <1>1 DEF IInv, Support, InUse, Exists, Holds
<1>4. Reserved'
  BY <1>1 DEF IInv, Support, Reserved, Matches
<1>5. EditsIssued'
  BY <1>1 DEF IInv, Support, EditsIssued
<1>6. Promises'
  BY DEF IInv, Promises, NoLostUpdate, AllOrNothing, NewestKept, Exists
<1>7. QED
  BY <1>2, <1>3, <1>4, <1>5, <1>6 DEF Support

LEMMA TxUpdateInv ==
  ASSUME IInv, NEW c \in Clients, NEW id \in Entities, TxUpdate(c, id)
  PROVE  (Support /\ Promises)'
<1>1. /\ TypeOK
      /\ \A b \in Clients : written'[b] = IF b = c THEN written[b] \cup {id} ELSE written[b]
      /\ UNCHANGED <<docs, used, held, issued, acked, joint, applied>>
  BY DEF IInv, TypeOK, TxUpdate, upsertVars, historyVars
<1>2. /\ Matches(c, id, docs)
      /\ \A d \in Clients : d # c => id \notin written[d]
  <2>1. docs[id] = snap[c][id]
    BY DEF TxUpdate, WriteConflict
  <2>2. \A d \in Clients \ {c} : ~(tx[d] > 0 /\ id \in written[d])
    BY DEF TxUpdate, WriteConflict
  <2>3. QED
    BY <1>1, <2>1, <2>2 DEF TypeOK, TxUpdate, Matches
<1>3. Reserved'
  BY <1>1, <1>2 DEF IInv, Support, Reserved, Matches
<1>4. (HeldCurrent /\ InUse /\ EditsIssued)'
  BY <1>1 DEF IInv, Support, HeldCurrent, InUse, EditsIssued, Exists, Holds
<1>5. Promises'
  BY <1>1 DEF IInv, Promises, NoLostUpdate, AllOrNothing, NewestKept, Exists
<1>6. QED
  BY <1>3, <1>4, <1>5 DEF Support

LEMMA TxCommitInv ==
  ASSUME IInv, NEW c \in Clients, TxCommit(c)
  PROVE  (Support /\ Promises)'
<1>1. /\ TypeOK /\ tx[c] \in 1..issued /\ written[c] = Entities
      /\ \A b \in Clients : written'[b] = IF b = c THEN {} ELSE written[b]
      /\ acked' \subseteq acked \cup {<<tx[c], id>> : id \in Entities}
      /\ UNCHANGED <<used, issued, joint, applied>>
  BY DEF IInv, TypeOK, TxCommit, TxEnd, upsertVars
<1>2. \A id \in Entities :
          /\ docs[id].version > 0 /\ held[c][id].version = docs[id].version
          /\ held[c][id].edits = docs[id].edits
  BY <1>1 DEF IInv, Support, HeldCurrent, Reserved, Matches, Exists
<1>3. /\ \A id \in Entities : docs'[id] = Replacement(c, id, tx[c])
      /\ \A id \in Views : docs'[id] = docs[id]
  BY <1>1, DocFacts DEF TxCommit, Committed
<1>4. \A id \in Entities :
          /\ docs'[id].version = docs[id].version + 1
          /\ docs'[id].edits = docs[id].edits \cup {tx[c]}
  <2>1. ASSUME NEW id \in Entities
        PROVE  /\ docs'[id].version = docs[id].version + 1
               /\ docs'[id].edits = docs[id].edits \cup {tx[c]}
    <3>1. docs'[id] = [version |-> docs[id].version + 1, edits |-> docs[id].edits \cup {tx[c]}]
      BY <1>2, <1>3 DEF Replacement
    <3>2. QED
      BY <3>1
  <2>2. QED
    BY <2>1
<1>5. \A b \in Clients, id \in Entities :
          held'[b][id] = held[b][id] \/ (b = c /\ held'[b][id] = docs'[id])
  BY <1>1 DEF TxCommit, TypeOK
<1>6. HeldCurrent'
  BY <1>1, <1>2, <1>4, <1>5, DocFacts DEF IInv, Support, HeldCurrent, Exists
<1>7. InUse'
  BY <1>1, <1>2, <1>4, <1>5, DocFacts DEF IInv, Support, InUse, Exists, Holds
<1>8. Reserved'
  <2>1. \A b \in Clients : written'[b] = {}
    BY <1>1 DEF IInv, Support, Reserved, TypeOK
  <2>2. QED
    BY <2>1 DEF Reserved
<1>9. EditsIssued'
  BY <1>1, <1>4, <1>5 DEF IInv, Support, EditsIssued
<1>10. NoLostUpdate'
  BY <1>1, <1>2, <1>4, DocFacts DEF IInv, Promises, NoLostUpdate, Exists
<1>11. AllOrNothing'
  BY <1>1, <1>2, <1>4 DEF IInv, Promises, AllOrNothing, Exists
<1>12. NewestKept'
  BY <1>1, <1>3, DocFacts DEF IInv, Promises, NewestKept
<1>13. QED
  BY <1>6, <1>7, <1>8, <1>9, <1>10, <1>11, <1>12 DEF Support, Promises

LEMMA TransactionInv ==
  ASSUME IInv, NEW c \in Clients, Transaction(c)
  PROVE  (Support /\ Promises)'
<1>1. CASE Begin(c)
  BY <1>1, BeginInv
<1>2. CASE TxRetry(c)
  BY <1>2, WrittenOnlyInv DEF TxRetry, upsertVars, historyVars
<1>3. CASE TxCommit(c)
  BY <1>3, TxCommitInv
<1>4. CASE TxAbort(c)
  BY <1>4, WrittenOnlyInv DEF TxAbort, TxEnd, upsertVars, historyVars
<1>5. CASE TxDies(c)
  BY <1>5, WrittenOnlyInv DEF TxDies, TxEnd, upsertVars, historyVars
<1>6. CASE \E id \in Entities : TxUpdate(c, id)
  BY <1>6, TxUpdateInv
<1>7. QED
  BY <1>1, <1>2, <1>3, <1>4, <1>5, <1>6 DEF Transaction

(* A view gets a newer version, or nothing changes; no entity is touched.  *)
LEMMA ViewInv ==
  ASSUME IInv, NEW id \in Views, NEW v \in 1..MaxVersion,
         \/ docs' = docs /\ applied' = applied
         \/ /\ docs[id].version < v
            /\ docs' = [docs EXCEPT ![id].version = v]
            /\ applied' \in {applied, applied \cup {<<id, v>>}},
         UNCHANGED <<used, held, written, issued, acked, joint>>
  PROVE  (Support /\ Promises)'
<1>1. TypeOK /\ id \in Ids /\ id \notin Entities
  BY DocFacts DEF IInv
<1>2. \A i \in Entities : docs'[i] = docs[i]
  BY <1>1, DocFacts DEF TypeOK
<1>3. Support'
  <2>1. HeldCurrent' /\ EditsIssued'
    BY <1>2 DEF IInv, Support, HeldCurrent, EditsIssued, Exists
  <2>2. InUse'
    BY <1>2 DEF IInv, Support, InUse, Exists, Holds
  <2>3. Reserved'
    BY <1>1, <1>2 DEF IInv, Support, Reserved, Matches, TypeOK
  <2>4. QED
    BY <2>1, <2>2, <2>3 DEF Support
<1>4. NoLostUpdate' /\ AllOrNothing'
  BY <1>1, <1>2, DocFacts DEF IInv, Promises, NoLostUpdate, AllOrNothing, Exists
<1>5. NewestKept'
  <2>1. CASE docs' = docs /\ applied' = applied
    BY <2>1 DEF IInv, Promises, NewestKept
  <2>2. CASE /\ docs[id].version < v
             /\ docs' = [docs EXCEPT ![id].version = v]
             /\ applied' \in {applied, applied \cup {<<id, v>>}}
    <3>1. \A i \in Ids : docs'[i].version = IF i = id THEN v ELSE docs[i].version
      BY <1>1, <2>2, DocFacts DEF TypeOK, Docs
    <3>2. \A a \in applied : docs'[a[1]].version >= a[2]
      BY <1>1, <2>2, <3>1, DocFacts DEF IInv, Promises, NewestKept
    <3>3. QED
      BY <1>1, <2>2, <3>1, <3>2 DEF NewestKept
  <2>3. QED
    BY <2>1, <2>2
<1>6. QED
  BY <1>3, <1>4, <1>5 DEF Promises

LEMMA UpsertInv ==
  ASSUME IInv, NEW c \in Clients, Upsert(c)
  PROVE  (Support /\ Promises)'
<1>1. ASSUME NEW id \in Views, NEW v \in 1..MaxVersion,
             UpsertReplace(c, id, v) \/ UpsertNoMatch(c, id, v)
      PROVE  (Support /\ Promises)'
  BY <1>1, ViewInv
     DEF UpsertReplace, UpsertNoMatch, UpsertMatch, Newer, Apply, txVars, historyVars
<1>2. CASE UpsertInsert(c)
  <2>1. TypeOK
    BY DEF IInv
  <2>2. PICK id \in Views, v \in 1..MaxVersion : upserting[c] = <<id, v>>
    BY <1>2, <2>1 DEF TypeOK, UpsertInsert, Upserts
  <2>3. upserting[c][1] = id /\ upserting[c][2] = v
    BY <2>2
  <2>4. ~Exists(id) => docs[id].version < v
    BY <2>1, DocFacts DEF Exists
  <2>5. \/ docs' = docs /\ applied' = applied
        \/ /\ docs[id].version < v
           /\ docs' = [docs EXCEPT ![id].version = v]
           /\ applied' \in {applied, applied \cup {<<id, v>>}}
    BY <1>2, <2>3, <2>4 DEF UpsertInsert, Apply
  <2>6. UNCHANGED <<used, held, written, issued, acked, joint>>
    BY <1>2 DEF UpsertInsert, txVars, historyVars
  <2>7. QED
    BY <2>5, <2>6, ViewInv
<1>3. QED
  BY <1>1, <1>2 DEF Upsert

LEMMA StepInv == IInv /\ [Next]_vars => IInv'
<1>1. SUFFICES ASSUME IInv, [Next]_vars PROVE IInv'
  OBVIOUS
<1>2. TypeOK'
  BY <1>1, StepType DEF IInv
<1>3. CASE UNCHANGED vars
  BY <1>1, <1>2, <1>3
     DEF vars, txVars, upsertVars, historyVars, IInv, Support, Promises, HeldCurrent, InUse,
         Reserved, EditsIssued, NoLostUpdate, AllOrNothing, NewestKept, Exists, Holds, Matches
<1>4. CASE Next
  BY <1>1, <1>2, <1>4, SingleInv, TransactionInv, UpsertInv DEF Next, IInv
<1>5. QED
  BY <1>1, <1>3, <1>4

LEMMA Invariance == Spec => []IInv
BY InitInv, StepInv, PTL DEF Spec

(* No edit that was reported as written is ever lost to another writer,    *)
(* however many clients, documents and failed attempts there are.          *)
THEOREM NoUpdateLost == Spec => []NoLostUpdate
<1>1. IInv => NoLostUpdate
  BY DEF IInv, Promises
<1>2. QED
  BY <1>1, Invariance, PTL

(* A transaction's edit is in every document it was made for or in none.   *)
THEOREM TransactionsAtomic == Spec => []AllOrNothing
<1>1. IInv => AllOrNothing
  BY DEF IInv, Promises
<1>2. QED
  BY <1>1, Invariance, PTL

(* A projection never goes back behind an event reported as applied.       *)
THEOREM ProjectionsAdvance == Spec => []NewestKept
<1>1. IInv => NewestKept
  BY DEF IInv, Promises
<1>2. QED
  BY <1>1, Invariance, PTL
-----------------------------------------------------------------------------
(* The repository as a store of atomic writes.                             *)

(* The edit of an open transaction is nowhere yet, also not in what other  *)
(* clients hold, and it is the transaction's own.                          *)
OpenEditsNew ==
    \A c \in Clients : tx[c] > 0 =>
        /\ \A id \in Entities : tx[c] \notin docs[id].edits
        /\ \A d \in Clients, id \in Entities : tx[c] \notin held[d][id].edits
        /\ \A d \in Clients \ {c} : tx[d] # tx[c]

LEMMA StoreStutters ==
  ASSUME UNCHANGED <<docs, used, acked, applied>>
  PROVE  [Store!Next]_(Store!vars)
BY DEF Store!vars

(* A replacement whose version matches builds on the document's content.   *)
LEMMA BuildsOnContent ==
  ASSUME IInv, NEW c \in Clients, NEW id \in Entities, NEW e, Matches(c, id, docs)
  PROVE  Store!Exists(id) /\ Replacement(c, id, e) = Store!Edited(id, e)
<1>1. /\ docs[id].version > 0 /\ held[c][id].version = docs[id].version
      /\ held[c][id].edits = docs[id].edits
  BY DEF IInv, Support, HeldCurrent, Exists, Matches
<1>2. QED
  BY <1>1 DEF Replacement, Store!Edited, Store!Exists

(* An edit that is issued now is in no document.                           *)
LEMMA NewEdit ==
  ASSUME IInv, Edit
  PROVE  Store!New(issued') /\ issued' \in 1..MaxEdits
<1>1. issued \in Nat /\ issued' = issued + 1 /\ issued' \in 1..MaxEdits
  BY RepositoryAssumption DEF IInv, TypeOK, Edit
<1>2. issued' \notin 1..issued
  BY <1>1
<1>3. QED
  BY <1>1, <1>2 DEF IInv, Support, EditsIssued, Store!New

(* Where an edit of an entity's content is found.                          *)
Known(id, e) ==
    e \in docs[id].edits \/ \E d \in Clients : e \in held[d][id].edits

(* A step that writes and hands out known edits and one other, of which no *)
(* transaction is open, and opens none.                                    *)
LEMMA OpenKept ==
  ASSUME OpenEditsNew, NEW n,
         \A c \in Clients : tx'[c] = tx[c] \/ tx'[c] = 0,
         \A c \in Clients : tx'[c] > 0 => tx'[c] # n,
         \A id \in Entities : \A e \in docs'[id].edits : e = n \/ Known(id, e),
         \A d \in Clients, id \in Entities :
             \A e \in held'[d][id].edits : e = n \/ Known(id, e)
  PROVE  OpenEditsNew'
<1>1. SUFFICES ASSUME NEW c \in Clients, tx'[c] > 0
               PROVE  /\ \A id \in Entities : tx'[c] \notin docs'[id].edits
                      /\ \A d \in Clients, id \in Entities : tx'[c] \notin held'[d][id].edits
                      /\ \A d \in Clients \ {c} : tx'[d] # tx'[c]
  BY DEF OpenEditsNew
<1>2. tx'[c] = tx[c] /\ tx'[c] # n /\ tx[c] > 0
  BY <1>1
<1>3. \A id \in Entities : ~Known(id, tx[c])
  BY <1>2 DEF OpenEditsNew, Known
<1>4. \A d \in Clients \ {c} : tx'[d] # tx'[c]
  BY <1>1, <1>2 DEF OpenEditsNew
<1>5. QED
  BY <1>2, <1>3, <1>4

LEMMA InitOpen == Init => OpenEditsNew
BY DEF Init, OpenEditsNew

LEMMA SingleOpen ==
  ASSUME IInv, OpenEditsNew, NEW c \in Clients, NEW id \in Entities, Single(c, id)
  PROVE  OpenEditsNew'
<1>1. /\ TypeOK /\ id \in Ids /\ tx' = tx
      /\ NoDoc.edits = {}
      /\ \A b \in Clients : tx[b] \in 0..issued
      /\ issued \in Nat
  BY RepositoryAssumption
     DEF IInv, TypeOK, Ids, NoDoc, Single, Insert, FindByID, Update, UpdateConflict,
         UpdateAnswerLost, Delete, txVars
<1>2. \A i \in Entities : i \in Ids
  BY DEF Ids
<1>3. ASSUME Edit PROVE \A b \in Clients : tx'[b] > 0 => tx'[b] # issued'
  BY <1>1, <1>3 DEF Edit
<1>4. CASE Insert(c, id)
  <2>1. \A i \in Entities : docs'[i].edits = IF i = id THEN {issued'} ELSE docs[i].edits
    BY <1>1, <1>2, <1>4 DEF TypeOK, Insert
  <2>2. held' = held /\ Edit
    BY <1>4 DEF Insert
  <2>3. QED
    BY <1>1, <1>3, <2>1, <2>2, OpenKept DEF Known
<1>5. CASE FindByID(c, id)
  <2>1. docs' = docs /\ held' = [held EXCEPT ![c][id] = docs[id]]
    BY <1>5 DEF FindByID
  <2>2. \A b \in Clients, i \in Entities :
            held'[b][i] = held[b][i] \/ (i = id /\ held'[b][i] = docs[id])
    BY <2>1, HeldAfter DEF IInv
  <2>3. \A b \in Clients : tx'[b] > 0 => tx'[b] # 0
    OBVIOUS
  <2>4. \A i \in Entities : \A e \in docs'[i].edits : e = 0 \/ Known(i, e)
    BY <2>1 DEF Known
  <2>5. \A b \in Clients, i \in Entities : \A e \in held'[b][i].edits : e = 0 \/ Known(i, e)
    BY <1>1, <2>2 DEF Known
  <2>6. QED
    BY <1>1, <2>3, <2>4, <2>5, OpenKept
<1>6. ASSUME Edit, docs' = [docs EXCEPT ![id] = Replacement(c, id, issued')],
             held' = held \/ held' = [held EXCEPT ![c][id] = docs'[id]]
      PROVE  OpenEditsNew'
  <2>1. docs'[id].edits = held[c][id].edits \cup {issued'}
    BY <1>1, <1>6 DEF TypeOK, Replacement
  <2>2. \A i \in Entities : i # id => docs'[i] = docs[i]
    BY <1>1, <1>2, <1>6 DEF TypeOK
  <2>3. \A i \in Entities : \A e \in docs'[i].edits : e = issued' \/ Known(i, e)
    BY <2>1, <2>2 DEF Known
  <2>4. \A b \in Clients, i \in Entities :
            held'[b][i] = held[b][i] \/ (i = id /\ held'[b][i] = docs'[id])
    BY <1>1, <1>6, HeldAfter
  <2>5. \A b \in Clients, i \in Entities :
            \A e \in held'[b][i].edits : e = issued' \/ Known(i, e)
    BY <2>3, <2>4 DEF Known
  <2>6. QED
    BY <1>1, <1>3, <1>6, <2>3, <2>5, OpenKept
<1>7. CASE Update(c, id)
  BY <1>6, <1>7 DEF Update
<1>8. CASE UpdateAnswerLost(c, id)
  BY <1>6, <1>8 DEF UpdateAnswerLost
<1>9. CASE UpdateConflict(c, id)
  <2>1. docs' = docs /\ held' = [held EXCEPT ![c][id] = NoDoc]
    BY <1>9 DEF UpdateConflict
  <2>2. \A b \in Clients, i \in Entities :
            held'[b][i] = held[b][i] \/ (i = id /\ held'[b][i] = NoDoc)
    BY <2>1, HeldAfter DEF IInv
  <2>3. \A b \in Clients : tx'[b] > 0 => tx'[b] # 0
    OBVIOUS
  <2>4. \A i \in Entities : \A e \in docs'[i].edits : e = 0 \/ Known(i, e)
    BY <2>1 DEF Known
  <2>5. \A b \in Clients, i \in Entities : \A e \in held'[b][i].edits : e = 0 \/ Known(i, e)
    BY <1>1, <2>2 DEF Known
  <2>6. QED
    BY <1>1, <2>3, <2>4, <2>5, OpenKept
<1>10. CASE Delete(c, id)
  <2>1. held' = held /\ \A i \in Entities : docs'[i] = IF i = id THEN NoDoc ELSE docs[i]
    BY <1>1, <1>2, <1>10 DEF TypeOK, Delete
  <2>2. \A b \in Clients : tx'[b] > 0 => tx'[b] # 0
    OBVIOUS
  <2>3. QED
    BY <1>1, <2>1, <2>2, OpenKept DEF Known
<1>11. QED
  BY <1>4, <1>5, <1>7, <1>8, <1>9, <1>10 DEF Single

(* The edit of a transaction that opens is issued now.                     *)
LEMMA BeginOpen ==
  ASSUME IInv, OpenEditsNew, NEW c \in Clients, Begin(c)
  PROVE  OpenEditsNew'
<1>1. /\ issued' = issued + 1 /\ issued \in Nat /\ docs' = docs /\ held' = held
      /\ \A d \in Clients : tx[d] \in 0..issued /\ tx'[d] = IF d = c THEN issued' ELSE tx[d]
  BY RepositoryAssumption DEF IInv, TypeOK, Begin, Edit
<1>2. issued' \notin 1..issued
  BY <1>1
<1>3. /\ \A id \in Entities : issued' \notin docs[id].edits
      /\ \A d \in Clients, id \in Entities : issued' \notin held[d][id].edits
  BY <1>2 DEF IInv, Support, EditsIssued
<1>4. \A d \in Clients : tx[d] # issued'
  BY <1>1
<1>5. QED
  BY <1>1, <1>3, <1>4 DEF OpenEditsNew

LEMMA TransactionOpen ==
  ASSUME IInv, OpenEditsNew, NEW c \in Clients, Transaction(c)
  PROVE  OpenEditsNew'
<1>1. TypeOK /\ NoDoc.edits = {} /\ \A b \in Clients : tx'[b] > 0 => tx'[b] # 0
  BY DEF IInv, NoDoc
<1>2. CASE Begin(c)
  BY <1>2, BeginOpen
<1>3. ASSUME UNCHANGED docs, held' = held \/ held' = [held EXCEPT ![c] = [id \in Entities |-> NoDoc]],
             tx' = tx \/ TxEnd(c)
      PROVE  OpenEditsNew'
  <2>1. \A b \in Clients : tx'[b] = tx[b] \/ tx'[b] = 0
    BY <1>1, <1>3 DEF TypeOK, TxEnd
  <2>2. \A b \in Clients, i \in Entities : held'[b][i] = held[b][i] \/ held'[b][i] = NoDoc
    BY <1>1, <1>3 DEF TypeOK
  <2>3. \A i \in Entities : \A e \in docs'[i].edits : e = 0 \/ Known(i, e)
    BY <1>3 DEF Known
  <2>4. \A b \in Clients, i \in Entities : \A e \in held'[b][i].edits : e = 0 \/ Known(i, e)
    BY <1>1, <2>2 DEF Known
  <2>5. QED
    BY <1>1, <2>1, <2>3, <2>4, OpenKept
<1>4. CASE TxRetry(c)
  BY <1>3, <1>4 DEF TxRetry
<1>5. CASE TxAbort(c)
  BY <1>3, <1>5 DEF TxAbort
<1>6. CASE TxDies(c)
  BY <1>3, <1>6 DEF TxDies
<1>7. CASE \E id \in Entities : TxUpdate(c, id)
  BY <1>3, <1>7 DEF TxUpdate
<1>8. CASE TxCommit(c)
  <2>1. /\ tx[c] > 0 /\ written[c] = Entities
        /\ \A b \in Clients : tx'[b] = IF b = c THEN 0 ELSE tx[b]
    BY <1>1, <1>8 DEF TypeOK, TxCommit, TxEnd
  <2>2. \A b \in Clients : tx'[b] > 0 => tx'[b] # tx[c]
    BY <2>1 DEF OpenEditsNew
  <2>3. \A i \in Entities : docs'[i].edits = held[c][i].edits \cup {tx[c]}
    BY <1>8, <2>1 DEF TxCommit, Committed, Replacement, Ids
  <2>4. \A i \in Entities : \A e \in docs'[i].edits : e = tx[c] \/ Known(i, e)
    BY <2>3 DEF Known
  <2>5. \A b \in Clients, i \in Entities :
            held'[b][i] = held[b][i] \/ (b = c /\ held'[b][i] = docs'[i])
    BY <1>1, <1>8 DEF TypeOK, TxCommit
  <2>6. \A b \in Clients, i \in Entities :
            \A e \in held'[b][i].edits : e = tx[c] \/ Known(i, e)
    BY <2>4, <2>5 DEF Known
  <2>7. QED
    BY <2>1, <2>2, <2>4, <2>6, OpenKept
<1>9. QED
  BY <1>2, <1>4, <1>5, <1>6, <1>7, <1>8 DEF Transaction

LEMMA UpsertOpen ==
  ASSUME IInv, OpenEditsNew, NEW c \in Clients, Upsert(c)
  PROVE  OpenEditsNew'
<1>1. UNCHANGED <<tx, held>> /\ TypeOK
  BY DEF IInv, Upsert, UpsertInsert, UpsertReplace, UpsertNoMatch, txVars
<1>2. ASSUME NEW id \in Views, NEW v, docs' = [docs EXCEPT ![id].version = v]
      PROVE  \A i \in Entities : docs'[i] = docs[i]
  BY <1>1, <1>2, DocFacts DEF TypeOK
<1>3. \A i \in Entities : docs'[i] = docs[i]
  <2>1. CASE UpsertInsert(c)
    <3>0. upserting[c] \in Upserts /\ upserting[c] # <<>>
      BY <1>1, <2>1 DEF TypeOK, UpsertInsert
    <3>1. PICK id \in Views, v \in 1..MaxVersion : upserting[c] = <<id, v>>
      BY <3>0 DEF Upserts
    <3>2. upserting[c][1] = id /\ upserting[c][2] = v
      BY <3>1
    <3>3. docs' = docs \/ docs' = [docs EXCEPT ![id].version = v]
      BY <2>1, <3>2 DEF UpsertInsert, Apply
    <3>4. QED
      BY <1>2, <3>3
  <2>2. CASE \E id \in Views, v \in 1..MaxVersion : UpsertReplace(c, id, v)
    BY <1>2, <2>2 DEF UpsertReplace, Apply
  <2>3. CASE \E id \in Views, v \in 1..MaxVersion : UpsertNoMatch(c, id, v)
    BY <2>3 DEF UpsertNoMatch
  <2>4. QED
    BY <2>1, <2>2, <2>3 DEF Upsert
<1>4. QED
  BY <1>1, <1>3 DEF OpenEditsNew

LEMMA StepOpen == IInv /\ OpenEditsNew /\ [Next]_vars => OpenEditsNew'
<1>1. SUFFICES ASSUME IInv, OpenEditsNew, [Next]_vars PROVE OpenEditsNew'
  OBVIOUS
<1>2. CASE UNCHANGED vars
  BY <1>1, <1>2 DEF vars, txVars, OpenEditsNew
<1>3. CASE Next
  BY <1>1, <1>3, SingleOpen, TransactionOpen, UpsertOpen DEF Next
<1>4. QED
  BY <1>1, <1>2, <1>3

LEMMA OpenInvariance == Spec => []OpenEditsNew
BY InitOpen, StepOpen, Invariance, PTL DEF Spec

(* Every step is an atomic write of the store or changes nothing there.    *)

LEMMA InitStore == Init => Store!Init
BY DEF Init, Store!Init, NoDocs, NoDoc, Store!NoDoc, Ids

LEMMA SingleStore ==
  ASSUME IInv, NEW c \in Clients, NEW id \in Entities, Single(c, id)
  PROVE  [Store!Next]_(Store!vars)
<1>1. CASE Insert(c, id)
  <2>1. Store!New(issued') /\ issued' \in 1..MaxEdits
    BY <1>1, NewEdit DEF Insert
  <2>2. Store!Create(id, issued')
    BY <1>1, <2>1 DEF Insert, Store!Create, upsertVars
  <2>3. QED
    BY <2>1, <2>2 DEF Store!Next
<1>2. ASSUME Matches(c, id, docs), Edit,
             docs' = [docs EXCEPT ![id] = Replacement(c, id, issued')],
             acked' \in {acked, acked \cup {<<issued', id>>}},
             UNCHANGED <<used, applied>>
      PROVE  [Store!Next]_(Store!vars)
  <2>1. Store!New(issued') /\ issued' \in 1..MaxEdits
    BY <1>2, NewEdit
  <2>2. Store!Exists(id) /\ Replacement(c, id, issued') = Store!Edited(id, issued')
    BY <1>2, BuildsOnContent
  <2>3. Store!Update(id, issued')
    BY <1>2, <2>1, <2>2 DEF Store!Update
  <2>4. QED
    BY <2>1, <2>3 DEF Store!Next
<1>3. CASE Update(c, id)
  BY <1>2, <1>3 DEF Update, upsertVars
<1>4. CASE UpdateAnswerLost(c, id)
  BY <1>2, <1>4 DEF UpdateAnswerLost, upsertVars
<1>5. CASE Delete(c, id)
  <2>1. Store!Remove(id)
    BY <1>5 DEF Delete, Store!Remove, Exists, Store!Exists, NoDoc, Store!NoDoc,
                upsertVars, historyVars
  <2>2. QED
    BY <2>1 DEF Store!Next
<1>6. CASE FindByID(c, id) \/ UpdateConflict(c, id)
  BY <1>6, StoreStutters DEF FindByID, UpdateConflict, upsertVars, historyVars
<1>7. QED
  BY <1>1, <1>3, <1>4, <1>5, <1>6 DEF Single

(* A commit writes all of the transaction's documents at once, each on the *)
(* content it has now.                                                     *)
LEMMA CommitStore ==
  ASSUME IInv, OpenEditsNew, NEW c \in Clients, TxCommit(c)
  PROVE  [Store!Next]_(Store!vars)
<1>1. tx[c] > 0 /\ written[c] = Entities /\ tx[c] \in 1..MaxEdits
  BY RepositoryAssumption DEF IInv, TypeOK, TxCommit
<1>2. \A id \in Entities : Matches(c, id, docs)
  BY <1>1 DEF IInv, Support, Reserved
<1>3. \A id \in Entities :
          Store!Exists(id) /\ Replacement(c, id, tx[c]) = Store!Edited(id, tx[c])
  BY <1>2, BuildsOnContent
<1>4. Store!New(tx[c])
  BY <1>1 DEF OpenEditsNew, Store!New
<1>5. docs' = [id \in Entities \cup Views |->
                   IF id \in Entities THEN Store!Edited(id, tx[c]) ELSE docs[id]]
  <2>1. docs' = [id \in Entities \cup Views |->
                     IF id \in Entities THEN Replacement(c, id, tx[c]) ELSE docs[id]]
    BY <1>1 DEF TxCommit, Committed, Ids
  <2>2. QED
    BY <1>3, <2>1
<1>6. Store!UpdateAll(tx[c])
  BY <1>3, <1>4, <1>5 DEF TxCommit, Store!UpdateAll, upsertVars
<1>7. QED
  BY <1>1, <1>6 DEF Store!Next

LEMMA UpsertStore ==
  ASSUME IInv, NEW c \in Clients, Upsert(c)
  PROVE  [Store!Next]_(Store!vars)
<1>1. ASSUME NEW id \in Views, NEW v \in 1..MaxVersion, docs[id].version < v,
             docs' = [docs EXCEPT ![id].version = v],
             applied' \in {applied, applied \cup {<<id, v>>}}, UNCHANGED <<used, acked>>
      PROVE  [Store!Next]_(Store!vars)
  <2>1. Store!Advance(id, v)
    BY <1>1 DEF Store!Advance
  <2>2. QED
    BY <2>1 DEF Store!Next
<1>2. CASE \E id \in Views, v \in 1..MaxVersion : UpsertReplace(c, id, v)
  BY <1>1, <1>2 DEF UpsertReplace, UpsertMatch, Newer, Apply, historyVars
<1>3. CASE \E id \in Views, v \in 1..MaxVersion : UpsertNoMatch(c, id, v)
  BY <1>3, StoreStutters DEF UpsertNoMatch, historyVars
<1>4. CASE UpsertInsert(c)
  <2>1. PICK id \in Views, v \in 1..MaxVersion : upserting[c] = <<id, v>>
    BY <1>4 DEF IInv, TypeOK, UpsertInsert, Upserts
  <2>2. upserting[c][1] = id /\ upserting[c][2] = v /\ v > 0
    BY <2>1
  <2>3. UNCHANGED <<used, acked>>
    BY <1>4 DEF UpsertInsert, historyVars
  <2>4. ~Exists(id) => docs[id].version < v
    BY <2>2, DocFacts DEF IInv, Exists
  <2>5. \/ UNCHANGED <<docs, applied>>
        \/ /\ docs[id].version < v
           /\ docs' = [docs EXCEPT ![id].version = v]
           /\ applied' \in {applied, applied \cup {<<id, v>>}}
    BY <1>4, <2>2, <2>4 DEF UpsertInsert, Apply
  <2>6. QED
    BY <1>1, <2>3, <2>5, StoreStutters
<1>5. QED
  BY <1>2, <1>3, <1>4 DEF Upsert

LEMMA StepStore == IInv /\ OpenEditsNew /\ [Next]_vars => [Store!Next]_(Store!vars)
<1>1. SUFFICES ASSUME IInv, OpenEditsNew, [Next]_vars PROVE [Store!Next]_(Store!vars)
  OBVIOUS
<1>2. CASE UNCHANGED vars
  BY <1>2, StoreStutters DEF vars, upsertVars, historyVars
<1>3. ASSUME NEW c \in Clients, Transaction(c) PROVE [Store!Next]_(Store!vars)
  <2>1. CASE TxCommit(c)
    BY <1>1, <2>1, CommitStore
  <2>2. CASE Begin(c) \/ TxRetry(c) \/ TxAbort(c) \/ TxDies(c) \/ \E id \in Entities : TxUpdate(c, id)
    <3>1. UNCHANGED <<docs, used, acked, applied>>
      BY <2>2 DEF Begin, TxRetry, TxAbort, TxDies, TxUpdate, upsertVars, historyVars
    <3>2. QED
      BY <3>1, StoreStutters
  <2>3. QED
    BY <1>3, <2>1, <2>2 DEF Transaction
<1>4. CASE Next
  BY <1>1, <1>3, <1>4, SingleStore, UpsertStore DEF Next
<1>5. QED
  BY <1>1, <1>2, <1>4

(* The repository implements a store of atomic writes: no object held for  *)
(* long, no conflict, retry, abort or lost answer shows to its callers.    *)
THEOREM Atomic == Spec => ActsAtomically
BY InitStore, StepStore, Invariance, OpenInvariance, PTL
   DEF Spec, ActsAtomically, Store!Spec
=============================================================================
