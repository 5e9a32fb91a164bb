-------------------------- MODULE OutboxLeaseProofs --------------------------
(***************************************************************************)
(* The leases of the outbox keep the copies of a message apart: a second   *)
(* record needs a lease that ran out or a fault.  For any number of        *)
(* messages and replicas, any capacities, deadlines and bounds.            *)
(***************************************************************************)
EXTENDS OutboxProofs

-----------------------------------------------------------------------------
(* The inductive invariant, about a message that is not late.              *)

\* Where a copy of a message can be in a process, in the order it gets there.
Places == {"txn", "sendFunc", "fetched", "entities", "producing",
           "promises", "confirms", "results", "confirming"}

Unwritten == {"txn", "sendFunc", "fetched", "entities", "producing"}

Ids(rs) == {r.id : r \in Range(rs)}

At(p, k, m) ==
    \/ k = "txn" /\ m \in txn[p]
    \/ k = "sendFunc" /\ m \in sendFunc[p]
    \/ k = "fetched" /\ m = fetched[p]
    \/ k = "entities" /\ m \in Range(entities[p])
    \/ k = "producing" /\ m \in Range(producing[p])
    \/ k = "promises" /\ m \in Ids(promises[p])
    \/ k = "confirms" /\ m \in Ids(confirms[p])
    \/ k = "results" /\ m \in Ids(results[p])
    \/ k = "confirming" /\ \E ids \in SUBSET Messages : m \in ids /\ confirming[p][ids] > 0

Held(m) == \E p \in Instances, k \in Places : At(p, k, m)

(* No two processes have a copy, and no process has two.                   *)
OneHolder(m) ==
    \A p, q \in Instances : \A k, l \in Places : At(p, k, m) /\ At(q, l, m) => p = q /\ k = l

SeqOnce(s, m) == \A i, j \in DOMAIN s : s[i] = m /\ s[j] = m => i = j

IdOnce(rs, m) == \A i, j \in DOMAIN rs : rs[i].id = m /\ rs[j].id = m => i = j

BatchOnce(p, m) ==
    \A ids, jds \in SUBSET Messages :
        m \in ids \cap jds /\ confirming[p][ids] > 0 /\ confirming[p][jds] > 0 =>
            ids = jds /\ confirming[p][ids] = 1

Once(m) ==
    \A p \in Instances :
        /\ SeqOnce(entities[p], m) /\ SeqOnce(producing[p], m)
        /\ IdOnce(promises[p], m) /\ IdOnce(confirms[p], m) /\ IdOnce(results[p], m)
        /\ BatchOnce(p, m)

(* A copy is on its way only under a lease.                                *)
UnderLease(m) == Held(m) => lockLeft[m] > 0 /\ status[m] # "None"

AllOk(rs, m) == \A r \in Range(rs) : r.id = m => r.ok

(* Once a message is written, its copy is on the way back, without an Err, *)
(* until its document is SENT: no copy is to be written, and no new one    *)
(* can be fetched.                                                         *)
OnTheWayBack(m) ==
    m \in Range(topic) =>
        /\ \A p \in Instances, k \in Unwritten : ~At(p, k, m)
        /\ \A p \in Instances : AllOk(promises[p], m) /\ AllOk(confirms[p], m) /\ AllOk(results[p], m)
        /\ status[m] = "PROCESSING" => Held(m)

LeasesHold ==
    \A m \in Messages \ late : OneHolder(m) /\ Once(m) /\ UnderLease(m) /\ OnTheWayBack(m)

LeaseInv == IInv /\ LeasesHold /\ DuplicateHasCause
-----------------------------------------------------------------------------
(* Sequences that hold a message once.                                     *)

LEMMA SeqOnceAppend ==
  ASSUME NEW S, NEW s \in Seq(S), NEW x \in S, NEW m, SeqOnce(s, m), x = m => m \notin Range(s)
  PROVE  SeqOnce(Append(s, x), m)
<1>1. /\ \A i \in 1..Len(s) : Append(s, x)[i] = s[i]
      /\ Append(s, x)[Len(s) + 1] = x
      /\ DOMAIN Append(s, x) = 1..(Len(s) + 1)
      /\ DOMAIN s = 1..Len(s) /\ Len(s) \in Nat
  BY AppendProperties, LenProperties
<1>2. x = m => \A i \in 1..Len(s) : s[i] # m
  BY <1>1 DEF Range
<1>3. QED
  BY <1>1, <1>2 DEF SeqOnce

LEMMA SeqOnceTail ==
  ASSUME NEW S, NEW s \in Seq(S), s # <<>>, NEW m, SeqOnce(s, m)
  PROVE  SeqOnce(Tail(s), m) /\ (Head(s) = m => m \notin Range(Tail(s)))
<1>1. /\ Head(s) = s[1]
      /\ Len(Tail(s)) = Len(s) - 1
      /\ \A i \in 1..Len(Tail(s)) : Tail(s)[i] = s[i + 1]
      /\ Len(s) \in Nat \ {0} /\ DOMAIN s = 1..Len(s) /\ DOMAIN Tail(s) = 1..(Len(s) - 1)
  BY HeadTailProperties, LenProperties, EmptySeq
<1>2. SeqOnce(Tail(s), m)
  BY <1>1 DEF SeqOnce
<1>3. ASSUME Head(s) = m, NEW i \in DOMAIN Tail(s), Tail(s)[i] = m
      PROVE  FALSE
  <2>1. i + 1 \in DOMAIN s /\ 1 \in DOMAIN s /\ s[i + 1] = m /\ s[1] = m /\ i + 1 # 1
    BY <1>1, <1>3
  <2>2. QED
    BY <2>1 DEF SeqOnce
<1>4. QED
  BY <1>2, <1>3 DEF Range

LEMMA IdOnceAppend ==
  ASSUME NEW rs \in Seq(ConfirmResult), NEW r \in ConfirmResult, NEW m, IdOnce(rs, m),
         r.id = m => m \notin Ids(rs)
  PROVE  IdOnce(Append(rs, r), m)
<1>1. /\ \A i \in 1..Len(rs) : Append(rs, r)[i] = rs[i]
      /\ Append(rs, r)[Len(rs) + 1] = r
      /\ DOMAIN Append(rs, r) = 1..(Len(rs) + 1)
      /\ DOMAIN rs = 1..Len(rs) /\ Len(rs) \in Nat
  BY AppendProperties, LenProperties
<1>2. r.id = m => \A i \in 1..Len(rs) : rs[i].id # m
  BY <1>1 DEF Range, Ids
<1>3. QED
  BY <1>1, <1>2 DEF IdOnce

LEMMA IdOnceTail ==
  ASSUME NEW rs \in Seq(ConfirmResult), rs # <<>>, NEW m, IdOnce(rs, m)
  PROVE  IdOnce(Tail(rs), m) /\ (Head(rs).id = m => m \notin Ids(Tail(rs)))
<1>1. /\ Head(rs) = rs[1]
      /\ Len(Tail(rs)) = Len(rs) - 1
      /\ \A i \in 1..Len(Tail(rs)) : Tail(rs)[i] = rs[i + 1]
      /\ Len(rs) \in Nat \ {0} /\ DOMAIN rs = 1..Len(rs) /\ DOMAIN Tail(rs) = 1..(Len(rs) - 1)
  BY HeadTailProperties, LenProperties, EmptySeq
<1>2. IdOnce(Tail(rs), m)
  BY <1>1 DEF IdOnce
<1>3. ASSUME Head(rs).id = m, NEW i \in DOMAIN Tail(rs), Tail(rs)[i].id = m
      PROVE  FALSE
  <2>1. i + 1 \in DOMAIN rs /\ 1 \in DOMAIN rs /\ rs[i + 1].id = m /\ rs[1].id = m /\ i + 1 # 1
    BY <1>1, <1>3
  <2>2. QED
    BY <2>1 DEF IdOnce
<1>4. QED
  BY <1>2, <1>3 DEF Range, Ids

(* What is in a sequence is its head or in its tail.                       *)
LEMMA RangeSplit ==
  ASSUME NEW S, NEW s \in Seq(S), s # <<>>, NEW y \in Range(s), y # Head(s)
  PROVE  y \in Range(Tail(s))
<1>1. /\ Head(s) = s[1]
      /\ \A i \in 1..Len(Tail(s)) : Tail(s)[i] = s[i + 1]
      /\ Len(Tail(s)) = Len(s) - 1
      /\ Len(s) \in Nat \ {0} /\ DOMAIN s = 1..Len(s) /\ DOMAIN Tail(s) = 1..(Len(s) - 1)
  BY HeadTailProperties, LenProperties, EmptySeq
<1>2. PICK i \in 1..Len(s) : s[i] = y
  BY <1>1 DEF Range
<1>3. i # 1 /\ i - 1 \in 1..(Len(s) - 1) /\ (i - 1) + 1 = i
  BY <1>1, <1>2
<1>4. Tail(s)[i - 1] = y
  BY <1>1, <1>2, <1>3
<1>5. QED
  BY <1>1, <1>3, <1>4 DEF Range

(* The ids and the Errs of a sequence after Append and Tail.               *)
LEMMA IdsAppend ==
  ASSUME NEW rs \in Seq(ConfirmResult), NEW r \in ConfirmResult, NEW m
  PROVE  /\ Ids(Append(rs, r)) = Ids(rs) \cup {r.id}
         /\ AllOk(rs, m) /\ (r.id = m => r.ok) => AllOk(Append(rs, r), m)
<1>1. Range(Append(rs, r)) = Range(rs) \cup {r}
  BY RangeAppend
<1>2. QED
  BY <1>1 DEF Ids, AllOk

LEMMA IdsTail ==
  ASSUME NEW rs \in Seq(ConfirmResult), rs # <<>>, NEW m
  PROVE  /\ Head(rs) \in ConfirmResult /\ Head(rs).id \in Ids(rs)
         /\ Ids(Tail(rs)) \subseteq Ids(rs)
         /\ AllOk(rs, m) => AllOk(Tail(rs), m) /\ (Head(rs).id = m => Head(rs).ok)
<1>1. Head(rs) \in ConfirmResult /\ Head(rs) \in Range(rs) /\ Range(Tail(rs)) \subseteq Range(rs)
  BY RangeTail
<1>2. QED
  BY <1>1 DEF Ids, AllOk

LEMMA EmptyOnce ==
  ASSUME NEW m
  PROVE  /\ SeqOnce(<<>>, m) /\ IdOnce(<<>>, m) /\ AllOk(<<>>, m)
         /\ Range(<<>>) = {} /\ Ids(<<>>) = {}
BY RangeEmpty DEF SeqOnce, IdOnce, AllOk, Ids
-----------------------------------------------------------------------------
(* What a step may do to the copies of a message.                          *)

Good(m) == OneHolder(m) /\ Once(m) /\ UnderLease(m) /\ OnTheWayBack(m)

Same(m) == \A q \in Instances, k \in Places : At(q, k, m)' <=> At(q, k, m)

Stays(m) == \A q \in Instances, k \in Places : At(q, k, m)' => At(q, k, m)

Moves(p, src, dst, m) ==
    /\ At(p, src, m) /\ ~At(p, src, m)'
    /\ \A q \in Instances, k \in Places : At(q, k, m)' => At(q, k, m) \/ (q = p /\ k = dst)

Appears(p, dst, m) ==
    /\ ~Held(m)
    /\ \A q \in Instances, k \in Places : At(q, k, m)' => q = p /\ k = dst

BackOk(m) == \A q \in Instances : AllOk(promises[q], m) /\ AllOk(confirms[q], m) /\ AllOk(results[q], m)

LEMMA SameFrame ==
  ASSUME NEW m \in Messages, UNCHANGED <<txn, sendFunc, fetched, confirming>>,
         \A q \in Instances : m \in Range(entities'[q]) <=> m \in Range(entities[q]),
         \A q \in Instances : m \in Range(producing'[q]) <=> m \in Range(producing[q]),
         \A q \in Instances : m \in Ids(promises'[q]) <=> m \in Ids(promises[q]),
         \A q \in Instances : m \in Ids(confirms'[q]) <=> m \in Ids(confirms[q]),
         \A q \in Instances : m \in Ids(results'[q]) <=> m \in Ids(results[q])
  PROVE  Same(m)
<1> SUFFICES ASSUME NEW q \in Instances, NEW k \in Places
             PROVE  At(q, k, m)' <=> At(q, k, m)
  BY DEF Same
<1>1. QED
  BY DEF At

(* A copy that stays, moves or appears where there was none is still one,  *)
(* and a lease that is not touched still covers it.                        *)
LEMMA HolderStays ==
  ASSUME NEW m \in Messages, OneHolder(m), Stays(m)
  PROVE  OneHolder(m)' /\ (Held(m)' => Held(m))
BY DEF OneHolder, Stays, Held

LEMMA HolderMoves ==
  ASSUME NEW m \in Messages, NEW p \in Instances, NEW src \in Places, NEW dst \in Places,
         OneHolder(m), Moves(p, src, dst, m)
  PROVE  OneHolder(m)' /\ Held(m) /\ \A q \in Instances, k \in Places : At(q, k, m)' => q = p /\ k = dst
<1>1. Held(m)
  BY DEF Moves, Held
<1>2. ASSUME NEW q \in Instances, NEW k \in Places, At(q, k, m)'
      PROVE  q = p /\ k = dst
  BY <1>2 DEF OneHolder, Moves
<1>3. QED
  BY <1>1, <1>2 DEF OneHolder

LEMMA HolderAppears ==
  ASSUME NEW m \in Messages, NEW p \in Instances, NEW dst \in Places, Appears(p, dst, m)
  PROVE  OneHolder(m)'
BY DEF OneHolder, Appears

(* A copy that is still to be written is of a message that is not.         *)
LEMMA UnwrittenYet ==
  ASSUME NEW m \in Messages, OnTheWayBack(m), NEW p \in Instances, NEW k \in Unwritten, At(p, k, m)
  PROVE  m \notin Range(topic)
BY DEF OnTheWayBack

LEMMA SameGood ==
  ASSUME NEW m \in Messages, Good(m), Same(m), Once(m)', BackOk(m) => BackOk(m)',
         lockLeft'[m] = lockLeft[m], status'[m] = status[m], m \in Range(topic') => m \in Range(topic)
  PROVE  Good(m)'
<1>1. Stays(m) /\ (Held(m) <=> Held(m)')
  BY DEF Same, Stays, Held
<1>2. UnderLease(m)'
  BY <1>1 DEF Good, UnderLease
<1>3. Unwritten \subseteq Places
  BY DEF Unwritten, Places
<1>4. OnTheWayBack(m)'
  <2>1. SUFFICES ASSUME m \in Range(topic')
                 PROVE  /\ \A q \in Instances, k \in Unwritten : ~At(q, k, m)'
                        /\ BackOk(m)'
                        /\ status'[m] = "PROCESSING" => Held(m)'
    BY DEF OnTheWayBack, BackOk
  <2>2. /\ \A q \in Instances, k \in Unwritten : ~At(q, k, m)
        /\ BackOk(m) /\ (status[m] = "PROCESSING" => Held(m))
    BY <2>1 DEF Good, OnTheWayBack, BackOk
  <2>3. QED
    BY <1>1, <1>3, <2>2 DEF Same
<1>5. QED
  BY <1>1, <1>2, <1>4, HolderStays DEF Good

(* Before it is written a copy may go, as long as it does not come twice.  *)
LEMMA UnwrittenMoves ==
  ASSUME NEW m \in Messages, Good(m), NEW p \in Instances, NEW src \in Unwritten, NEW dst \in Places,
         Moves(p, src, dst, m), Once(m)', lockLeft'[m] = lockLeft[m],
         status'[m] # "None", m \in Range(topic') => m \in Range(topic)
  PROVE  Good(m)'
<1>1. src \in Places
  BY DEF Unwritten, Places
<1>2. m \notin Range(topic')
  BY UnwrittenYet DEF Good, Moves
<1>3. OneHolder(m)' /\ Held(m)
  BY <1>1, HolderMoves DEF Good
<1>4. QED
  BY <1>2, <1>3 DEF Good, UnderLease, OnTheWayBack

LEMMA UnwrittenGoes ==
  ASSUME NEW m \in Messages, Good(m), NEW p \in Instances, NEW src \in Unwritten,
         At(p, src, m), Stays(m), Once(m)', lockLeft'[m] = lockLeft[m],
         status'[m] # "None", m \in Range(topic') => m \in Range(topic)
  PROVE  Good(m)'
<1>1. m \notin Range(topic')
  BY UnwrittenYet DEF Good
<1>2. OneHolder(m)' /\ (Held(m)' => Held(m))
  BY HolderStays DEF Good
<1>3. QED
  BY <1>1, <1>2 DEF Good, UnderLease, OnTheWayBack
(* What is written, or is about to be, goes on to places of the way back.  *)
LEMMA MovesBack ==
  ASSUME NEW m \in Messages, Good(m), NEW p \in Instances, NEW src \in Places,
         NEW dst \in Places \ Unwritten, Moves(p, src, dst, m), At(p, dst, m)', Once(m)',
         lockLeft'[m] = lockLeft[m], status'[m] = status[m], m \in Range(topic') => BackOk(m)'
  PROVE  Good(m)'
<1>1. OneHolder(m)' /\ Held(m) /\ \A q \in Instances, k \in Places : At(q, k, m)' => q = p /\ k = dst
  BY HolderMoves DEF Good
<1>2. Held(m)' /\ Unwritten \subseteq Places
  BY DEF Held, Unwritten, Places
<1>3. UnderLease(m)'
  BY <1>1 DEF Good, UnderLease
<1>4. OnTheWayBack(m)'
  BY <1>1, <1>2 DEF OnTheWayBack, BackOk
<1>5. QED
  BY <1>1, <1>3, <1>4 DEF Good

LEMMA AllOkWithout ==
  ASSUME NEW rs, NEW m, m \notin Ids(rs)
  PROVE  AllOk(rs, m)
BY DEF Ids, AllOk

(* A copy is of a message that was created, and has a lease.              *)
LEMMA Created ==
  ASSUME NEW m \in Messages, Good(m), NEW p \in Instances, NEW k \in Places, At(p, k, m)
  PROVE  status[m] # "None" /\ lockLeft[m] > 0 /\ Held(m)
BY DEF Good, UnderLease, Held

-----------------------------------------------------------------------------
(* The caller.                                                             *)

LEMMA CreateLease ==
  ASSUME IInv, NEW m \in Messages, Good(m), NEW p \in Instances, NEW x \in Messages, Create(p, x)
  PROVE  Good(m)'
<1>1. /\ UNCHANGED <<sendFunc, pipeVars, topic>> /\ txn' = [txn EXCEPT ![p] = @ \cup {x}]
      /\ txn \in [Instances -> SUBSET Messages]
      /\ status \in [Messages -> Statuses] /\ lockLeft \in [Messages -> Nat]
      /\ status' = [status EXCEPT ![x] = "Uncommitted"]
      /\ lockLeft' = [lockLeft EXCEPT ![x] = CreateDelay] /\ status[x] = "None"
  BY DEF IInv, TypeOK, Create, InsertEntity, topicVars
<1>2. Once(m)' /\ (BackOk(m) => BackOk(m)')
  BY <1>1 DEF Good, Once, BatchOnce, BackOk, pipeVars
<1>3. CASE x # m
  <2>1. Same(m)
    BY <1>1, <1>3 DEF Same, At, pipeVars
  <2>2. QED
    BY <1>1, <1>2, <1>3, <2>1, SameGood
<1>4. CASE x = m
  <2>1. ~Held(m)
    BY <1>1, <1>4 DEF Good, UnderLease
  <2>2. \A q \in Instances, k \in Places : At(q, k, m)' => At(q, k, m) \/ (q = p /\ k = "txn")
    BY <1>1, <1>4 DEF At, pipeVars
  <2>3. Appears(p, "txn", m) /\ "txn" \in Places
    BY <2>1, <2>2 DEF Appears, Held, Places
  <2>4. m \notin Range(topic')
    BY <1>1, <1>4 DEF IInv, StoreMatchesTopic, Committed
  <2>5. lockLeft'[m] > 0 /\ status'[m] # "None"
    BY <1>1, <1>4, OutboxAssumption
  <2>6. QED
    BY <1>2, <2>3, <2>4, <2>5, HolderAppears DEF Good, UnderLease, OnTheWayBack
<1>5. QED
  BY <1>3, <1>4

LEMMA CommitLease ==
  ASSUME IInv, NEW m \in Messages, Good(m), NEW p \in Instances, NEW x \in Messages, Commit(p, x)
  PROVE  Good(m)'
<1>1. /\ UNCHANGED <<pipeVars, topic, lockLeft>> /\ x \in txn[p]
      /\ txn' = [txn EXCEPT ![p] = @ \ {x}] /\ sendFunc' = [sendFunc EXCEPT ![p] = @ \cup {x}]
      /\ txn \in [Instances -> SUBSET Messages] /\ sendFunc \in [Instances -> SUBSET Messages]
      /\ status \in [Messages -> Statuses] /\ status' = [status EXCEPT ![x] = "PROCESSING"]
  BY DEF IInv, TypeOK, Commit, topicVars
<1>2. Once(m)' /\ (BackOk(m) => BackOk(m)')
  BY <1>1 DEF Good, Once, BatchOnce, BackOk, pipeVars
<1>3. CASE x # m
  <2>1. Same(m)
    BY <1>1, <1>3 DEF Same, At, pipeVars
  <2>2. QED
    BY <1>1, <1>2, <1>3, <2>1, SameGood
<1>4. CASE x = m
  <2>1. Moves(p, "txn", "sendFunc", m)
    BY <1>1, <1>4 DEF Moves, At, pipeVars
  <2>2. status'[m] # "None" /\ "txn" \in Unwritten /\ "sendFunc" \in Places
    BY <1>1, <1>4 DEF Unwritten, Places
  <2>3. QED
    BY <1>1, <1>2, <2>1, <2>2, UnwrittenMoves
<1>5. QED
  BY <1>3, <1>4

LEMMA AbortLease ==
  ASSUME IInv, NEW m \in Messages, Good(m), NEW p \in Instances, NEW x \in Messages, Abort(p, x)
  PROVE  Good(m)'
<1>1. /\ UNCHANGED <<pipeVars, topic, lockLeft, sendFunc>> /\ x \in txn[p]
      /\ txn' = [txn EXCEPT ![p] = @ \ {x}] /\ txn \in [Instances -> SUBSET Messages]
      /\ status \in [Messages -> Statuses] /\ status' = [status EXCEPT ![x] = "Aborted"]
  BY DEF IInv, TypeOK, Abort, topicVars
<1>2. Once(m)' /\ (BackOk(m) => BackOk(m)')
  BY <1>1 DEF Good, Once, BatchOnce, BackOk, pipeVars
<1>3. CASE x # m
  <2>1. Same(m)
    BY <1>1, <1>3 DEF Same, At, pipeVars
  <2>2. QED
    BY <1>1, <1>2, <1>3, <2>1, SameGood
<1>4. CASE x = m
  <2>1. Stays(m) /\ At(p, "txn", m)
    BY <1>1, <1>4 DEF Stays, At, pipeVars
  <2>2. status'[m] # "None" /\ "txn" \in Unwritten
    BY <1>1, <1>4 DEF Unwritten
  <2>3. QED
    BY <1>1, <1>2, <2>1, <2>2, UnwrittenGoes
<1>5. QED
  BY <1>3, <1>4

LEMMA EnqueueLease ==
  ASSUME IInv, NEW m \in Messages, Good(m), NEW p \in Instances, NEW x \in Messages,
         SendFuncEnqueue(p, x)
  PROVE  Good(m)'
<1>1. /\ UNCHANGED <<docVars, topic, txn, fetched, producing, promises, confirms, results, confirming>>
      /\ x \in sendFunc[p] /\ entities' = [entities EXCEPT ![p] = Append(@, x)]
      /\ sendFunc' = [sendFunc EXCEPT ![p] = @ \ {x}]
      /\ entities \in [Instances -> Seq(Messages)] /\ sendFunc \in [Instances -> SUBSET Messages]
  BY DEF IInv, TypeOK, SendFuncEnqueue, topicVars
<1>2. /\ Range(entities'[p]) = Range(entities[p]) \cup {x}
      /\ \A q \in Instances \ {p} : entities'[q] = entities[q]
  BY <1>1, RangeAppend
<1>3. At(p, "sendFunc", x) /\ "sendFunc" \in Unwritten /\ "sendFunc" \in Places /\ "entities" \in Places
  BY <1>1 DEF At, Unwritten, Places
<1>4. x = m => m \notin Range(entities[p])
  BY <1>3 DEF Good, OneHolder, At
<1>5. SeqOnce(entities'[p], m)
  BY <1>1, <1>4, SeqOnceAppend DEF Good, Once
<1>6. Once(m)' /\ (BackOk(m) => BackOk(m)')
  BY <1>1, <1>2, <1>5 DEF Good, Once, BatchOnce, BackOk
<1>7. CASE x # m
  <2>1. Same(m)
    BY <1>1, <1>2, <1>7 DEF Same, At
  <2>2. QED
    BY <1>1, <1>6, <2>1, SameGood DEF docVars
<1>8. CASE x = m
  <2>1. Moves(p, "sendFunc", "entities", m)
    BY <1>1, <1>2, <1>8 DEF Moves, At
  <2>2. status[m] # "None"
    BY <1>3, <1>8, Created
  <2>3. QED
    BY <1>1, <1>3, <1>6, <2>1, <2>2, UnwrittenMoves DEF docVars
<1>9. QED
  BY <1>7, <1>8

LEMMA DropLease ==
  ASSUME IInv, NEW m \in Messages, Good(m), NEW p \in Instances, NEW x \in Messages,
         SendFuncDrop(p, x)
  PROVE  Good(m)'
<1>1. /\ UNCHANGED <<docVars, topic, txn, pipeVars>>
      /\ x \in sendFunc[p] /\ sendFunc' = [sendFunc EXCEPT ![p] = @ \ {x}]
      /\ sendFunc \in [Instances -> SUBSET Messages]
  BY DEF IInv, TypeOK, SendFuncDrop, topicVars
<1>2. Once(m)' /\ (BackOk(m) => BackOk(m)')
  BY <1>1 DEF Good, Once, BatchOnce, BackOk, pipeVars
<1>3. CASE x # m
  <2>1. Same(m)
    BY <1>1, <1>3 DEF Same, At, pipeVars
  <2>2. QED
    BY <1>1, <1>2, <2>1, SameGood DEF docVars
<1>4. CASE x = m
  <2>1. Stays(m) /\ At(p, "sendFunc", m) /\ "sendFunc" \in Unwritten /\ "sendFunc" \in Places
    BY <1>1, <1>4 DEF Stays, At, pipeVars, Unwritten, Places
  <2>2. status[m] # "None"
    BY <2>1, Created
  <2>3. QED
    BY <1>1, <1>2, <2>1, <2>2, UnwrittenGoes DEF docVars
<1>5. QED
  BY <1>3, <1>4
-----------------------------------------------------------------------------
(* The Fetcher and the Sender.                                             *)

(* A lease can be taken only when no copy is left, and of what is written  *)
(* a copy is left until it is SENT.                                        *)
LEMMA FetchLease ==
  ASSUME IInv, NEW m \in Messages, Good(m), NEW p \in Instances, NEW x \in Messages,
         FetchAndLock(p, x)
  PROVE  Good(m)'
<1>1. /\ UNCHANGED <<status, topic, callVars, entities, producing, promises, confirms, results, confirming>>
      /\ status[x] = "PROCESSING" /\ lockLeft[x] = 0
      /\ lockLeft' = [lockLeft EXCEPT ![x] = LockLease] /\ lockLeft \in [Messages -> Nat]
      /\ fetched[p] = NoMessage /\ fetched \in [Instances -> Messages \cup {NoMessage}]
  BY DEF IInv, TypeOK, FetchAndLock, Lockable, Due, topicVars
<1>2. PICK answer \in {x, NoMessage} : fetched' = [fetched EXCEPT ![p] = answer]
  BY DEF FetchAndLock
<1>3. Once(m)' /\ (BackOk(m) => BackOk(m)')
  BY <1>1 DEF Good, Once, BatchOnce, BackOk
<1>4. m # NoMessage
  BY OutboxAssumption
<1>5. CASE x # m
  <2>1. Same(m)
    BY <1>1, <1>2, <1>4, <1>5 DEF Same, At, callVars
  <2>2. QED
    BY <1>1, <1>3, <1>5, <2>1, SameGood
<1>6. CASE x = m
  <2>1. ~Held(m)
    BY <1>1, <1>6 DEF Good, UnderLease
  <2>2. \A q \in Instances, k \in Places : At(q, k, m)' => At(q, k, m) \/ (q = p /\ k = "fetched")
    BY <1>1, <1>2, <1>4, <1>6 DEF At, callVars
  <2>3. Appears(p, "fetched", m) /\ "fetched" \in Places
    BY <2>1, <2>2 DEF Appears, Held, Places
  <2>4. m \notin Range(topic')
    BY <1>1, <1>6, <2>1 DEF Good, OnTheWayBack
  <2>5. lockLeft'[m] > 0 /\ status'[m] # "None"
    BY <1>1, <1>6, OutboxAssumption
  <2>6. QED
    BY <1>3, <2>3, <2>4, <2>5, HolderAppears DEF Good, UnderLease, OnTheWayBack
<1>7. QED
  BY <1>5, <1>6

LEMMA HandOverLease ==
  ASSUME IInv, NEW m \in Messages, Good(m), NEW p \in Instances, FetcherHandOver(p)
  PROVE  Good(m)'
<1>1. /\ UNCHANGED <<docVars, topic, callVars, producing, promises, confirms, results, confirming>>
      /\ fetched[p] \in Messages /\ entities' = [entities EXCEPT ![p] = Append(@, fetched[p])]
      /\ fetched' = [fetched EXCEPT ![p] = NoMessage]
      /\ entities \in [Instances -> Seq(Messages)]
      /\ fetched \in [Instances -> Messages \cup {NoMessage}]
  BY DEF IInv, TypeOK, FetcherHandOver, topicVars
<1>2. /\ Range(entities'[p]) = Range(entities[p]) \cup {fetched[p]}
      /\ \A q \in Instances \ {p} : entities'[q] = entities[q]
  BY <1>1, RangeAppend
<1>3. m # NoMessage
  BY OutboxAssumption
<1>4. "fetched" \in Unwritten /\ "fetched" \in Places /\ "entities" \in Places
  BY DEF Unwritten, Places
<1>5. fetched[p] = m => At(p, "fetched", m) /\ m \notin Range(entities[p])
  BY <1>4 DEF Good, OneHolder, At
<1>6. SeqOnce(entities'[p], m)
  BY <1>1, <1>5, SeqOnceAppend DEF Good, Once
<1>7. Once(m)' /\ (BackOk(m) => BackOk(m)')
  BY <1>1, <1>2, <1>6 DEF Good, Once, BatchOnce, BackOk
<1>8. CASE fetched[p] # m
  <2>1. Same(m)
    BY <1>1, <1>2, <1>3, <1>8 DEF Same, At, callVars
  <2>2. QED
    BY <1>1, <1>7, <2>1, SameGood DEF docVars
<1>9. CASE fetched[p] = m
  <2>1. Moves(p, "fetched", "entities", m)
    BY <1>1, <1>2, <1>3, <1>9 DEF Moves, At, callVars
  <2>2. status[m] # "None"
    BY <1>4, <1>5, <1>9, Created
  <2>3. QED
    BY <1>1, <1>4, <1>7, <2>1, <2>2, UnwrittenMoves DEF docVars
<1>10. QED
  BY <1>8, <1>9

LEMMA SenderLease ==
  ASSUME IInv, NEW m \in Messages, Good(m), NEW p \in Instances, SenderSend(p)
  PROVE  Good(m)'
<1> DEFINE x == Head(entities[p])
<1>1. /\ UNCHANGED <<docVars, topic, callVars, fetched, promises, confirms, results, confirming>>
      /\ entities[p] # <<>> /\ producing' = [producing EXCEPT ![p] = Append(@, x)]
      /\ entities' = [entities EXCEPT ![p] = Tail(@)]
      /\ entities \in [Instances -> Seq(Messages)] /\ producing \in [Instances -> Seq(Messages)]
  BY DEF IInv, TypeOK, SenderSend, topicVars
<1>2. /\ x \in Messages /\ x \in Range(entities[p])
      /\ Range(entities'[p]) \subseteq Range(entities[p])
      /\ \A q \in Instances \ {p} : entities'[q] = entities[q] /\ producing'[q] = producing[q]
  BY <1>1, RangeTail
<1>3. Range(producing'[p]) = Range(producing[p]) \cup {x}
  BY <1>1, <1>2, RangeAppend
<1>4. "entities" \in Unwritten /\ "entities" \in Places /\ "producing" \in Places
  BY DEF Unwritten, Places
<1>5. x = m => At(p, "entities", m) /\ m \notin Range(producing[p])
  BY <1>2, <1>4 DEF Good, OneHolder, At
<1>6. SeqOnce(entities'[p], m) /\ (x = m => m \notin Range(entities'[p]))
  BY <1>1, SeqOnceTail DEF Good, Once
<1> HIDE DEF x
<1>7. SeqOnce(producing'[p], m)
  BY <1>1, <1>2, <1>5, SeqOnceAppend DEF Good, Once
<1>8. Once(m)' /\ (BackOk(m) => BackOk(m)')
  <2>1. \A q \in Instances : SeqOnce(entities'[q], m) /\ SeqOnce(producing'[q], m)
    BY <1>2, <1>6, <1>7 DEF Good, Once
  <2>2. UNCHANGED <<promises, confirms, results, confirming>>
    BY <1>1
  <2>3. QED
    BY <2>1, <2>2 DEF Good, Once, BatchOnce, BackOk
<1>9. CASE x # m
  <2>1. m \in Range(entities[p]) => m \in Range(entities'[p])
    BY <1>1, <1>9, RangeSplit DEF x
  <2>2. Same(m)
    BY <1>1, <1>2, <1>3, <1>9, <2>1 DEF Same, At, callVars
  <2>3. QED
    BY <1>1, <1>8, <2>2, SameGood DEF docVars
<1>10. CASE x = m
  <2>1. Moves(p, "entities", "producing", m)
    BY <1>1, <1>2, <1>3, <1>6, <1>10 DEF Moves, At, callVars
  <2>2. status[m] # "None"
    BY <1>4, <1>5, <1>10, Created
  <2>3. QED
    BY <1>1, <1>4, <1>8, <2>1, <2>2, UnwrittenMoves DEF docVars
<1>11. QED
  BY <1>9, <1>10
-----------------------------------------------------------------------------
(* The Kafka client.                                                       *)

(* The record of x leaves the buffer, written when there is no Err.        *)
LEMMA FinishLease ==
  ASSUME TypeOK, NEW m \in Messages, Good(m), NEW p \in Instances, NEW ok \in BOOLEAN,
         producing[p] # <<>>, Finish(p, ok),
         UNCHANGED <<docVars, callVars, fetched, entities, confirms, results, confirming>>,
         m \in Range(topic') => m \in Range(topic) \/ (Head(producing[p]) = m /\ ok)
  PROVE  Good(m)'
<1> DEFINE x == Head(producing[p])
           r == [id |-> x, ok |-> ok]
<1>1. /\ producing \in [Instances -> Seq(Messages)] /\ promises \in [Instances -> Seq(ConfirmResult)]
      /\ producing' = [producing EXCEPT ![p] = Tail(@)]
      /\ promises' = [promises EXCEPT ![p] = Append(@, r)]
  BY DEF TypeOK, Finish
<1>2. /\ x \in Messages /\ x \in Range(producing[p]) /\ Range(Tail(producing[p])) \subseteq Range(producing[p])
      /\ \A q \in Instances \ {p} : producing'[q] = producing[q] /\ promises'[q] = promises[q]
      /\ producing'[p] = Tail(producing[p]) /\ promises'[p] = Append(promises[p], r)
  BY <1>1, RangeTail
<1>3. r \in ConfirmResult /\ r.id = x /\ r.ok = ok
  BY <1>2 DEF ConfirmResult
<1> HIDE DEF x, r
<1>4. Ids(promises'[p]) = Ids(promises[p]) \cup {x}
  BY <1>1, <1>2, <1>3, IdsAppend
<1>5. /\ "producing" \in Unwritten /\ "producing" \in Places
      /\ "promises" \in Places \ Unwritten
  BY DEF Unwritten, Places
<1>6. x = m => At(p, "producing", m) /\ \A q \in Instances : /\ m \notin Ids(promises[q])
                                                            /\ m \notin Ids(confirms[q])
                                                            /\ m \notin Ids(results[q])
  <2>1. x = m => At(p, "producing", m)
    BY <1>2 DEF At
  <2>2. \A q \in Instances : /\ m \in Ids(promises[q]) => At(q, "promises", m)
                             /\ m \in Ids(confirms[q]) => At(q, "confirms", m)
                             /\ m \in Ids(results[q]) => At(q, "results", m)
    BY DEF At
  <2>3. "confirms" \in Places /\ "results" \in Places
    BY DEF Places
  <2>4. QED
    BY <1>5, <2>1, <2>2, <2>3 DEF Good, OneHolder
<1>7. SeqOnce(Tail(producing[p]), m) /\ (x = m => m \notin Range(Tail(producing[p])))
  <2>1. SeqOnce(producing[p], m) /\ producing[p] \in Seq(Messages)
    BY <1>1 DEF Good, Once
  <2>2. QED
    BY <2>1, SeqOnceTail DEF x
<1>8. IdOnce(promises'[p], m)
  <2>1. IdOnce(promises[p], m) /\ promises[p] \in Seq(ConfirmResult)
    BY <1>1 DEF Good, Once
  <2>2. QED
    BY <1>2, <1>3, <1>6, <2>1, IdOnceAppend
<1>9. Once(m)'
  <2>1. \A q \in Instances : SeqOnce(producing'[q], m) /\ IdOnce(promises'[q], m)
    BY <1>2, <1>7, <1>8 DEF Good, Once
  <2>2. UNCHANGED <<entities, confirms, results, confirming>>
    OBVIOUS
  <2>3. QED
    BY <2>1, <2>2 DEF Good, Once, BatchOnce
<1>10. CASE x # m
  <2>1. m \in Range(producing[p]) => m \in Range(Tail(producing[p]))
    <3>1. producing[p] \in Seq(Messages) /\ m # Head(producing[p])
      BY <1>1, <1>10 DEF x
    <3>2. QED
      BY <3>1, RangeSplit
  <2>2. Same(m)
    <3>1. \A q \in Instances : m \in Range(producing'[q]) <=> m \in Range(producing[q])
      BY <1>2, <2>1
    <3>2. \A q \in Instances : m \in Ids(promises'[q]) <=> m \in Ids(promises[q])
      BY <1>2, <1>4, <1>10
    <3>3. UNCHANGED <<txn, sendFunc, fetched, confirming>>
      BY DEF callVars
    <3>4. \A q \in Instances : m \in Range(entities'[q]) <=> m \in Range(entities[q])
      OBVIOUS
    <3>5. \A q \in Instances : m \in Ids(confirms'[q]) <=> m \in Ids(confirms[q])
      OBVIOUS
    <3>6. \A q \in Instances : m \in Ids(results'[q]) <=> m \in Ids(results[q])
      OBVIOUS
    <3>7. QED
      BY <3>1, <3>2, <3>3, <3>4, <3>5, <3>6, SameFrame
  <2>3. \A q \in Instances : AllOk(promises[q], m) => AllOk(promises'[q], m)
    <3>1. AllOk(promises[p], m) => AllOk(promises'[p], m)
      BY <1>1, <1>2, <1>3, <1>10, IdsAppend
    <3>2. QED
      BY <1>2, <3>1
  <2>4. BackOk(m) => BackOk(m)'
    BY <2>3 DEF BackOk
  <2>5. m \in Range(topic') => m \in Range(topic)
    BY <1>10 DEF x
  <2>6. QED
    BY <1>9, <2>2, <2>4, <2>5, SameGood DEF docVars
<1>11. CASE x = m
  <2>1. Moves(p, "producing", "promises", m)
    BY <1>2, <1>4, <1>6, <1>7, <1>11 DEF Moves, At, callVars
  <2>2. At(p, "promises", m)'
    BY <1>4, <1>11 DEF At
  <2>3. CASE ok
    <3>1. AllOk(promises'[p], m)
      BY <1>1, <1>2, <1>3, <1>6, <1>11, <2>3, AllOkWithout, IdsAppend
    <3>2. BackOk(m)'
      BY <1>2, <1>6, <1>11, <3>1, AllOkWithout DEF BackOk
    <3>3. QED
      BY <1>5, <1>9, <2>1, <2>2, <3>2, MovesBack DEF docVars
  <2>4. CASE ~ok
    <3>1. status[m] # "None"
      BY <1>5, <1>6, <1>11, Created
    <3>2. QED
      BY <1>5, <1>9, <2>1, <2>4, <3>1, UnwrittenMoves DEF docVars
  <2>5. QED
    BY <2>3, <2>4
<1>12. QED
  BY <1>10, <1>11

LEMMA BrokerLease ==
  ASSUME IInv, NEW m \in Messages \ late', Good(m), NEW p \in Instances, Broker(p)
  PROVE  Good(m)'
<1>1. TypeOK
  BY DEF IInv
<1>2. CASE KafkaFail(p)
  BY <1>1, <1>2, FinishLease DEF KafkaFail, topicVars
<1>3. ASSUME producing[p] # <<>>, AppendRecord(Head(producing[p]))
      PROVE  m \in Range(topic') => m \in Range(topic) \/ Head(producing[p]) = m
  <2>1. producing[p] \in Seq(Messages) /\ topic \in Seq(Messages)
    BY <1>1 DEF TypeOK
  <2>2. Head(producing[p]) \in Messages
    BY <1>3, <2>1, RangeTail
  <2>3. Range(Append(topic, Head(producing[p]))) = Range(topic) \cup {Head(producing[p])}
    BY <2>1, <2>2, RangeAppend
  <2>4. topic' = topic \/ topic' = Append(topic, Head(producing[p]))
    BY <1>3 DEF AppendRecord
  <2>5. QED
    BY <2>3, <2>4
<1>4. CASE KafkaWrite(p)
  BY <1>1, <1>3, <1>4, FinishLease DEF KafkaWrite
<1>5. CASE KafkaAckLost(p)
  BY <1>1, <1>3, <1>5, FinishLease DEF KafkaAckLost
<1>6. QED
  BY <1>2, <1>4, <1>5 DEF Broker

LEMMA PromiseLease ==
  ASSUME IInv, NEW m \in Messages, Good(m), NEW p \in Instances, Promise(p)
  PROVE  Good(m)'
<1> DEFINE r == Head(promises[p])
<1>1. /\ UNCHANGED <<docVars, topic, callVars, fetched, entities, producing, results, confirming>>
      /\ promises[p] # <<>> /\ confirms' = [confirms EXCEPT ![p] = Append(@, r)]
      /\ promises' = [promises EXCEPT ![p] = Tail(@)]
      /\ promises \in [Instances -> Seq(ConfirmResult)]
      /\ confirms \in [Instances -> Seq(ConfirmResult)]
  BY DEF IInv, TypeOK, Promise, topicVars
<1>2. /\ \A q \in Instances \ {p} : promises'[q] = promises[q] /\ confirms'[q] = confirms[q]
      /\ promises'[p] = Tail(promises[p]) /\ confirms'[p] = Append(confirms[p], r)
      /\ promises[p] \in Seq(ConfirmResult) /\ confirms[p] \in Seq(ConfirmResult)
  BY <1>1
<1>3. /\ r \in ConfirmResult /\ r.id \in Ids(promises[p]) /\ Ids(promises'[p]) \subseteq Ids(promises[p])
      /\ AllOk(promises[p], m) => AllOk(promises'[p], m) /\ (r.id = m => r.ok)
  BY <1>1, <1>2, IdsTail
<1>4. IdOnce(promises'[p], m) /\ (r.id = m => m \notin Ids(promises'[p]))
  <2>1. IdOnce(promises[p], m)
    BY DEF Good, Once
  <2>2. QED
    BY <1>1, <1>2, <2>1, IdOnceTail
<1>5. m \in Ids(promises[p]) /\ m # r.id => m \in Ids(promises'[p])
  <2>1. \A y \in Range(promises[p]) : y # r => y \in Range(Tail(promises[p]))
    BY <1>1, <1>2, RangeSplit
  <2>2. QED
    BY <1>2, <2>1 DEF Ids
<1> HIDE DEF r
<1>6. /\ Ids(confirms'[p]) = Ids(confirms[p]) \cup {r.id}
      /\ AllOk(confirms[p], m) /\ (r.id = m => r.ok) => AllOk(confirms'[p], m)
  BY <1>2, <1>3, IdsAppend
<1>7. /\ "promises" \in Places /\ "confirms" \in Places \ Unwritten
      /\ r.id = m => At(p, "promises", m)
  BY <1>3 DEF Unwritten, Places, At
<1>8. r.id = m => m \notin Ids(confirms[p])
  BY <1>7 DEF Good, OneHolder, At
<1>9. IdOnce(confirms'[p], m)
  <2>1. IdOnce(confirms[p], m)
    BY DEF Good, Once
  <2>2. QED
    BY <1>2, <1>3, <1>8, <2>1, IdOnceAppend
<1>10. Once(m)'
  <2>1. \A q \in Instances : IdOnce(promises'[q], m) /\ IdOnce(confirms'[q], m)
    BY <1>2, <1>4, <1>9 DEF Good, Once
  <2>2. UNCHANGED <<entities, producing, results, confirming>>
    BY <1>1
  <2>3. QED
    BY <2>1, <2>2 DEF Good, Once, BatchOnce
<1>11. BackOk(m) => BackOk(m)'
  BY <1>1, <1>2, <1>3, <1>6 DEF BackOk
<1>12. CASE r.id # m
  <2>1. Same(m)
    BY <1>1, <1>2, <1>3, <1>5, <1>6, <1>12 DEF Same, At, callVars
  <2>2. QED
    BY <1>1, <1>10, <1>11, <2>1, SameGood DEF docVars
<1>13. CASE r.id = m
  <2>1. Moves(p, "promises", "confirms", m)
    BY <1>1, <1>2, <1>4, <1>6, <1>7, <1>13 DEF Moves, At, callVars
  <2>2. At(p, "confirms", m)'
    BY <1>6, <1>13 DEF At
  <2>3. m \in Range(topic') => BackOk(m)'
    BY <1>1, <1>11 DEF Good, OnTheWayBack, BackOk
  <2>4. QED
    BY <1>1, <1>7, <1>10, <2>1, <2>2, <2>3, MovesBack DEF docVars
<1>14. QED
  BY <1>12, <1>13
-----------------------------------------------------------------------------
(* The Confirmer.                                                          *)

(* A copy of what is not written may go anywhere, at any time.             *)
LEMMA NotWrittenGoes ==
  ASSUME NEW m \in Messages, Good(m), Stays(m), Once(m)', m \notin Range(topic'),
         lockLeft'[m] = lockLeft[m], status'[m] = status[m]
  PROVE  Good(m)'
<1>1. OneHolder(m)' /\ (Held(m)' => Held(m))
  BY HolderStays DEF Good
<1>2. QED
  BY <1>1 DEF Good, UnderLease, OnTheWayBack

LEMMA CountSet ==
  ASSUME NEW D, NEW f \in [D -> Nat], NEW B \in D, NEW n, NEW g, g = [f EXCEPT ![B] = n]
  PROVE  g[B] = n /\ \A ids \in D \ {B} : g[ids] = f[ids]
OBVIOUS

(* A batch of B starts when no batch has m already, if m is of B.          *)
LEMMA BatchStarts ==
  ASSUME TypeOK, NEW m \in Messages, NEW p \in Instances, NEW B \in SUBSET Messages,
         confirming' = [confirming EXCEPT ![p][B] = @ + 1], BatchOnce(p, m),
         m \in B => ~At(p, "confirming", m)
  PROVE  /\ BatchOnce(p, m)'
         /\ m \in B => At(p, "confirming", m)'
         /\ m \notin B => (At(p, "confirming", m)' <=> At(p, "confirming", m))
         /\ \A q \in Instances \ {p} : confirming'[q] = confirming[q]
<1>1. /\ \A ids \in SUBSET Messages : confirming[p][ids] \in Nat
      /\ confirming'[p][B] = confirming[p][B] + 1
      /\ \A ids \in (SUBSET Messages) \ {B} : confirming'[p][ids] = confirming[p][ids]
      /\ \A q \in Instances \ {p} : confirming'[q] = confirming[q]
  <2>1. confirming \in [Instances -> [SUBSET Messages -> Nat]] /\ confirming[p][B] \in Nat
    BY CountType DEF TypeOK
  <2>2. confirming[p][B] + 1 \in Nat
    BY <2>1
  <2>3. \A q \in Instances \ {p} : confirming'[q] = confirming[q]
    BY <2>1
  <2>4. confirming'[p] = [confirming[p] EXCEPT ![B] = confirming[p][B] + 1]
    BY <2>1
  <2>5. confirming[p] \in [SUBSET Messages -> Nat]
    BY <2>1
  <2>6. \A ids \in SUBSET Messages : confirming[p][ids] \in Nat
    BY <2>5
  <2>7. /\ confirming'[p][B] = confirming[p][B] + 1
        /\ \A ids \in (SUBSET Messages) \ {B} : confirming'[p][ids] = confirming[p][ids]
    BY <2>4, <2>5, CountSet
  <2>9. QED
    BY <2>3, <2>6, <2>7
<1>2. CASE m \in B
  <2>1. \A ids \in SUBSET Messages : m \in ids => confirming[p][ids] = 0
    BY <1>1, <1>2 DEF At
  <2>2. \A ids \in SUBSET Messages : m \in ids /\ confirming'[p][ids] > 0 => ids = B /\ confirming'[p][ids] = 1
    BY <1>1, <2>1
  <2>3. confirming'[p][B] > 0
    BY <1>1
  <2>4. At(p, "confirming", m)'
    BY <1>2, <2>3 DEF At
  <2>5. QED
    BY <1>1, <1>2, <2>2, <2>4 DEF BatchOnce
<1>3. CASE m \notin B
  <2>1. \A ids \in SUBSET Messages : m \in ids => confirming'[p][ids] = confirming[p][ids]
    BY <1>1, <1>3
  <2>2. QED
    BY <1>1, <1>3, <2>1 DEF BatchOnce, At
<1>4. QED
  BY <1>2, <1>3

(* flush(): the copies of rs, received or just read from confirmChan, go to *)
(* a batch if they have no Err.  src is where m's copy is, if it is in rs. *)
LEMMA FlushLease ==
  ASSUME TypeOK, NEW m \in Messages, Good(m), NEW p \in Instances,
         NEW rs \in Seq(ConfirmResult), NEW src \in {"confirms", "results"},
         UNCHANGED <<docVars, topic, callVars, fetched, entities, producing, promises>>,
         m \in Ids(rs) => At(p, src, m) /\ m \notin Ids(confirms'[p]),
         m \in Ids(results[p]) => m \in Ids(rs),
         m \in Ids(confirms[p]) => m \in Ids(confirms'[p]) \cup Ids(rs),
         m \in Ids(confirms'[p]) => m \in Ids(confirms[p]),
         IdOnce(confirms'[p], m), AllOk(confirms[p], m) => AllOk(confirms'[p], m),
         AllOk(confirms[p], m) /\ AllOk(results[p], m) => AllOk(rs, m),
         \A q \in Instances \ {p} : confirms'[q] = confirms[q],
         Flush(p, rs)
  PROVE  Good(m)'
<1>1. /\ results'[p] = <<>> /\ \A q \in Instances \ {p} : results'[q] = results[q]
  BY DEF TypeOK, Flush
<1>2. OkIds(rs) \in SUBSET Messages /\ OkIds(rs) \subseteq Ids(rs)
  BY OkIdsType DEF OkIds, Ids
<1>3. src \in Places /\ {"confirms", "results", "confirming"} \subseteq Places \ Unwritten
      /\ src # "confirming"
  BY DEF Places, Unwritten
<1>4. m \in Ids(rs) => \A q \in Instances, k \in Places : At(q, k, m) => q = p /\ k = src
  BY <1>3 DEF Good, OneHolder
<1>5. BatchOnce(p, m)
  BY DEF Good, Once
<1>6. /\ BatchOnce(p, m)'
      /\ m \in OkIds(rs) => At(p, "confirming", m)'
      /\ m \notin OkIds(rs) => (At(p, "confirming", m)' <=> At(p, "confirming", m))
      /\ \A q \in Instances \ {p} : confirming'[q] = confirming[q]
  <2>1. m \in OkIds(rs) => ~At(p, "confirming", m)
    BY <1>2, <1>3, <1>4
  <2>2. CASE OkIds(rs) = {}
    BY <1>5, <2>2 DEF Flush, BatchOnce, At
  <2>3. CASE OkIds(rs) # {}
    <3>1. confirming' = [confirming EXCEPT ![p][OkIds(rs)] = @ + 1]
      BY <2>3 DEF Flush
    <3>2. QED
      BY <1>2, <1>5, <2>1, <3>1, BatchStarts
  <2>4. QED
    BY <2>2, <2>3
<1>7. Once(m)'
  <2>1. \A q \in Instances : /\ IdOnce(confirms'[q], m) /\ IdOnce(results'[q], m)
                             /\ BatchOnce(q, m)'
    <3>1. IdOnce(results'[p], m)
      BY <1>1, EmptyOnce
    <3>2. \A q \in Instances \ {p} : BatchOnce(q, m)'
      BY <1>6 DEF Good, Once, BatchOnce
    <3>3. QED
      BY <1>1, <1>6, <3>1, <3>2 DEF Good, Once
  <2>2. UNCHANGED <<entities, producing, promises>>
    OBVIOUS
  <2>3. QED
    BY <2>1, <2>2 DEF Good, Once
<1>8. BackOk(m) => BackOk(m)' /\ AllOk(rs, m)
  <2>1. AllOk(results'[p], m)
    BY <1>1, EmptyOnce
  <2>2. QED
    BY <1>1, <2>1 DEF BackOk
<1>9. \A q \in Instances \ {p}, k \in Places : At(q, k, m)' <=> At(q, k, m)
  BY <1>1, <1>6 DEF At, callVars
<1>10. m \notin Ids(results'[p])
  BY <1>1, EmptyOnce
<1>11. \A k \in Places \ {"confirms", "results", "confirming"} : At(p, k, m)' <=> At(p, k, m)
  BY DEF At, callVars
<1>12. CASE m \notin Ids(rs)
  <2>1. Same(m)
    BY <1>2, <1>6, <1>9, <1>10, <1>11, <1>12 DEF Same, At
  <2>2. QED
    BY <1>7, <1>8, <2>1, SameGood DEF docVars
<1>13. CASE m \in OkIds(rs)
  <2>1. m \in Ids(rs)
    BY <1>2, <1>13
  <2>2. ~At(p, src, m)'
    BY <1>10, <2>1 DEF At
  <2>3. \A k \in Places : At(p, k, m)' => At(p, k, m) \/ k = "confirming"
    BY <1>10, <1>11 DEF At
  <2>4. Moves(p, src, "confirming", m)
    BY <1>9, <2>1, <2>2, <2>3 DEF Moves
  <2>5. m \in Range(topic') => BackOk(m)'
    BY <1>8 DEF Good, OnTheWayBack, BackOk
  <2>6. QED
    BY <1>3, <1>6, <1>7, <1>13, <2>4, <2>5, MovesBack DEF docVars
<1>14. CASE m \in Ids(rs) \ OkIds(rs)
  <2>1. ~AllOk(rs, m)
    BY <1>14 DEF Ids, OkIds, AllOk
  <2>2. m \notin Range(topic')
    BY <1>8, <2>1 DEF Good, OnTheWayBack, BackOk
  <2>3. Stays(m)
    BY <1>6, <1>9, <1>10, <1>11, <1>14 DEF Stays, At
  <2>4. QED
    BY <1>7, <2>2, <2>3, NotWrittenGoes DEF docVars
<1>15. QED
  BY <1>12, <1>13, <1>14

(* What is received leaves confirmChan, and nothing else does.             *)
LEMMA Received ==
  ASSUME NEW cs \in Seq(ConfirmResult), cs # <<>>, NEW m, IdOnce(cs, m)
  PROVE  /\ Head(cs) \in ConfirmResult /\ Head(cs).id \in Ids(cs)
         /\ Ids(Tail(cs)) \subseteq Ids(cs)
         /\ AllOk(cs, m) => AllOk(Tail(cs), m) /\ (Head(cs).id = m => Head(cs).ok)
         /\ IdOnce(Tail(cs), m) /\ (Head(cs).id = m => m \notin Ids(Tail(cs)))
         /\ m \in Ids(cs) /\ m # Head(cs).id => m \in Ids(Tail(cs))
<1>1. \A y \in Range(cs) : y # Head(cs) => y \in Range(Tail(cs))
  BY RangeSplit
<1>2. m \in Ids(cs) /\ m # Head(cs).id => m \in Ids(Tail(cs))
  BY <1>1 DEF Ids
<1>3. QED
  BY <1>2, IdsTail, IdOnceTail

LEMMA ReceiveLease ==
  ASSUME IInv, NEW m \in Messages, Good(m), NEW p \in Instances, ConfirmerReceive(p)
  PROVE  Good(m)'
<1> DEFINE c == Head(confirms[p])
           rs == Append(results[p], c)
<1>1. /\ UNCHANGED <<docVars, topic, callVars, fetched, entities, producing, promises>>
      /\ confirms[p] # <<>> /\ confirms' = [confirms EXCEPT ![p] = Tail(@)]
      /\ \/ Flush(p, rs)
         \/ results' = [results EXCEPT ![p] = rs] /\ UNCHANGED confirming
      /\ confirms \in [Instances -> Seq(ConfirmResult)]
      /\ results \in [Instances -> Seq(ConfirmResult)] /\ TypeOK
  BY DEF IInv, TypeOK, ConfirmerReceive, Receives, topicVars
<1>2. /\ \A q \in Instances \ {p} : confirms'[q] = confirms[q]
      /\ confirms'[p] = Tail(confirms[p])
      /\ confirms[p] \in Seq(ConfirmResult) /\ results[p] \in Seq(ConfirmResult)
      /\ IdOnce(confirms[p], m) /\ IdOnce(results[p], m)
  BY <1>1 DEF Good, Once
<1>3. /\ c \in ConfirmResult /\ c.id \in Ids(confirms[p]) /\ Ids(confirms'[p]) \subseteq Ids(confirms[p])
      /\ AllOk(confirms[p], m) => AllOk(confirms'[p], m) /\ (c.id = m => c.ok)
      /\ IdOnce(confirms'[p], m) /\ (c.id = m => m \notin Ids(confirms'[p]))
      /\ m \in Ids(confirms[p]) /\ m # c.id => m \in Ids(confirms'[p])
  BY <1>1, <1>2, Received
<1> HIDE DEF c
<1>4. /\ rs \in Seq(ConfirmResult) /\ Ids(rs) = Ids(results[p]) \cup {c.id}
      /\ AllOk(results[p], m) /\ (c.id = m => c.ok) => AllOk(rs, m)
  BY <1>2, <1>3, IdsAppend, RangeAppend
<1>5. /\ "confirms" \in Places /\ "results" \in Places \ Unwritten
      /\ c.id = m => At(p, "confirms", m)
      /\ m \in Ids(results[p]) => At(p, "results", m)
      /\ m \in Ids(confirms[p]) => At(p, "confirms", m)
  BY <1>3 DEF Unwritten, Places, At
<1>6. ~(m \in Ids(results[p]) /\ m \in Ids(confirms[p]))
  BY <1>5 DEF Good, OneHolder
<1>7. IdOnce(rs, m)
  BY <1>2, <1>3, <1>6, IdOnceAppend
<1> HIDE DEF rs
<1>8. CASE Flush(p, rs)
  <2>1. m \in Ids(rs) => /\ \E src \in {"confirms", "results"} : At(p, src, m)
                         /\ m \notin Ids(confirms'[p])
    BY <1>3, <1>4, <1>5, <1>6
  <2>2. PICK src \in {"confirms", "results"} : m \in Ids(rs) => At(p, src, m)
    BY <2>1
  <2>3. /\ m \in Ids(results[p]) => m \in Ids(rs)
        /\ m \in Ids(confirms[p]) => m \in Ids(confirms'[p]) \cup Ids(rs)
        /\ m \in Ids(confirms'[p]) => m \in Ids(confirms[p])
        /\ AllOk(confirms[p], m) /\ AllOk(results[p], m) => AllOk(rs, m)
    BY <1>3, <1>4
  <2>4. QED
    BY <1>1, <1>2, <1>3, <1>4, <1>8, <2>1, <2>2, <2>3, FlushLease
<1>9. CASE results' = [results EXCEPT ![p] = rs] /\ UNCHANGED confirming
  <2>1. results'[p] = rs /\ \A q \in Instances \ {p} : results'[q] = results[q]
    BY <1>1, <1>9
  <2>2. Once(m)'
    <3>1. \A q \in Instances : IdOnce(confirms'[q], m) /\ IdOnce(results'[q], m)
      BY <1>2, <1>3, <1>7, <2>1 DEF Good, Once
    <3>2. UNCHANGED <<entities, producing, promises, confirming>>
      BY <1>1, <1>9
    <3>3. QED
      BY <3>1, <3>2 DEF Good, Once, BatchOnce
  <2>3. BackOk(m) => BackOk(m)'
    BY <1>1, <1>2, <1>3, <1>4, <2>1 DEF BackOk
  <2>4. CASE c.id # m
    <3>1. Same(m)
      BY <1>1, <1>2, <1>3, <1>4, <1>9, <2>1, <2>4 DEF Same, At, callVars
    <3>2. QED
      BY <1>1, <2>2, <2>3, <3>1, SameGood DEF docVars
  <2>5. CASE c.id = m
    <3>1. At(p, "results", m)'
      BY <1>4, <2>1, <2>5 DEF At
    <3>2. Moves(p, "confirms", "results", m)
      BY <1>1, <1>2, <1>3, <1>4, <1>5, <1>9, <2>1, <2>5 DEF Moves, At, callVars
    <3>3. m \in Range(topic') => BackOk(m)'
      BY <1>1, <2>3 DEF Good, OnTheWayBack, BackOk
    <3>4. QED
      BY <1>1, <1>5, <2>2, <3>1, <3>2, <3>3, MovesBack DEF docVars
  <2>6. QED
    BY <2>4, <2>5
<1>10. QED
  BY <1>1, <1>8, <1>9

LEMMA TickerLease ==
  ASSUME IInv, NEW m \in Messages, Good(m), NEW p \in Instances, ConfirmerTick(p)
  PROVE  Good(m)'
<1>1. /\ UNCHANGED <<docVars, topic, callVars, fetched, entities, producing, promises, confirms>>
      /\ Flush(p, results[p]) /\ TypeOK /\ results[p] \in Seq(ConfirmResult)
  BY DEF IInv, TypeOK, ConfirmerTick, topicVars
<1>2. m \in Ids(results[p]) => At(p, "results", m) /\ m \notin Ids(confirms[p])
  <2>1. "results" \in Places /\ "confirms" \in Places
    BY DEF Places
  <2>2. QED
    BY <2>1 DEF Good, OneHolder, At
<1>3. IdOnce(confirms[p], m)
  BY DEF Good, Once
<1>4. QED
  BY <1>1, <1>2, <1>3, FlushLease
-----------------------------------------------------------------------------
(* The batches.                                                            *)

LEMMA BatchEnds ==
  ASSUME TypeOK, NEW m \in Messages, NEW p \in Instances, NEW ids \in SUBSET Messages,
         confirming[p][ids] > 0, BatchDone(p, ids)
  PROVE  /\ \A q \in Instances \ {p} : confirming'[q] = confirming[q]
         /\ \A jds \in (SUBSET Messages) \ {ids} : confirming'[p][jds] = confirming[p][jds]
         /\ confirming'[p][ids] = confirming[p][ids] - 1
         /\ \A jds \in SUBSET Messages : confirming[p][jds] \in Nat
<1>1. /\ confirming \in [Instances -> [SUBSET Messages -> Nat]]
      /\ confirming' = [confirming EXCEPT ![p][ids] = @ - 1]
  BY DEF TypeOK, BatchDone
<1>2. \A q \in Instances \ {p} : confirming'[q] = confirming[q]
  BY <1>1
<1>3. confirming'[p] = [confirming[p] EXCEPT ![ids] = confirming[p][ids] - 1]
  BY <1>1
<1>4. confirming[p] \in [SUBSET Messages -> Nat]
  BY <1>1
<1>5. QED
  BY <1>2, <1>3, <1>4, CountSet

(* A batch without m leaves m's copies alone.                              *)
LEMMA OtherBatch ==
  ASSUME TypeOK, NEW m \in Messages, Good(m), NEW p \in Instances, NEW ids \in SUBSET Messages,
         m \notin ids, confirming[p][ids] > 0, BatchDone(p, ids),
         UNCHANGED <<topic, callVars, fetched, entities, producing, promises, confirms, results>>,
         lockLeft'[m] = lockLeft[m], status'[m] = status[m]
  PROVE  Good(m)'
<1>1. /\ \A q \in Instances \ {p} : confirming'[q] = confirming[q]
      /\ \A jds \in (SUBSET Messages) \ {ids} : confirming'[p][jds] = confirming[p][jds]
  BY BatchEnds
<1>2. \A q \in Instances, jds \in SUBSET Messages : m \in jds => confirming'[q][jds] = confirming[q][jds]
  BY <1>1
<1>3. Once(m)'
  BY <1>2 DEF Good, Once, BatchOnce
<1>4. \A q \in Instances : At(q, "confirming", m)' <=> At(q, "confirming", m)
  BY <1>2 DEF At
<1>5. Same(m)
  <2>1. \A q \in Instances, k \in Places \ {"confirming"} : At(q, k, m)' <=> At(q, k, m)
    BY DEF At, callVars
  <2>2. QED
    BY <1>4, <2>1 DEF Same
<1>6. BackOk(m) => BackOk(m)'
  BY DEF BackOk
<1>7. QED
  BY <1>3, <1>5, <1>6, SameGood

(* The last copy of m goes with its batch, and its document is SENT.       *)
LEMMA UpdateLease ==
  ASSUME IInv, NEW m \in Messages, Good(m), NEW p \in Instances, NEW ids \in SUBSET Messages,
         UpdateAsSentByIDs(p, ids)
  PROVE  Good(m)'
<1>1. /\ UNCHANGED <<topic, callVars, fetched, entities, producing, promises, confirms, results>>
      /\ confirming[p][ids] > 0 /\ BatchDone(p, ids) /\ TypeOK
      /\ status' = [n \in Messages |-> IF n \in Matched(ids) THEN "SENT" ELSE status[n]]
      /\ lockLeft' = [n \in Messages |-> IF n \in Matched(ids) THEN 0 ELSE lockLeft[n]]
  BY DEF IInv, UpdateAsSentByIDs, topicVars
<1>2. CASE m \notin ids
  <2>1. lockLeft'[m] = lockLeft[m] /\ status'[m] = status[m]
    BY <1>1, <1>2 DEF Matched
  <2>2. QED
    BY <1>1, <1>2, <2>1, OtherBatch
<1>3. CASE m \in ids
  <2>1. /\ \A q \in Instances \ {p} : confirming'[q] = confirming[q]
        /\ \A jds \in (SUBSET Messages) \ {ids} : confirming'[p][jds] = confirming[p][jds]
        /\ confirming'[p][ids] = confirming[p][ids] - 1
        /\ \A jds \in SUBSET Messages : confirming[p][jds] \in Nat
    BY <1>1, BatchEnds
  <2>2. \A jds \in SUBSET Messages :
           m \in jds /\ confirming[p][jds] > 0 => jds = ids /\ confirming[p][jds] = 1
    BY <1>1, <1>3 DEF Good, Once, BatchOnce
  <2>3. \A jds \in SUBSET Messages : m \in jds => ~(confirming'[p][jds] > 0)
    BY <1>1, <2>1, <2>2
  <2>4. At(p, "confirming", m) /\ "confirming" \in Places
    BY <1>1, <1>3 DEF At, Places
  <2>5. \A q \in Instances, k \in Places : At(q, k, m) => q = p /\ k = "confirming"
    BY <2>4 DEF Good, OneHolder
  <2>6. \A q \in Instances, k \in Places : ~At(q, k, m)'
    <3>1. \A q \in Instances, k \in Places \ {"confirming"} : At(q, k, m)' <=> At(q, k, m)
      BY <1>1 DEF At, callVars
    <3>2. ~At(p, "confirming", m)'
      BY <2>3 DEF At
    <3>3. \A q \in Instances \ {p} : At(q, "confirming", m)' <=> At(q, "confirming", m)
      BY <2>1 DEF At
    <3>4. QED
      BY <2>4, <2>5, <3>1, <3>2, <3>3
  <2>7. Once(m)'
    <3>1. BatchOnce(p, m)'
      BY <2>3 DEF BatchOnce
    <3>2. \A q \in Instances \ {p} : BatchOnce(q, m)'
      BY <2>1 DEF Good, Once, BatchOnce
    <3>3. QED
      BY <1>1, <3>1, <3>2 DEF Good, Once
  <2>8. status'[m] # "PROCESSING"
    BY <1>1, <1>3 DEF Matched
  <2>9. BackOk(m)'
    <3>1. {"promises", "confirms", "results"} \subseteq Places
      BY DEF Places
    <3>2. \A q \in Instances : /\ m \notin Ids(promises'[q]) /\ m \notin Ids(confirms'[q])
                               /\ m \notin Ids(results'[q])
      BY <2>6, <3>1 DEF At
    <3>3. QED
      BY <3>2, AllOkWithout DEF BackOk
  <2>10. Unwritten \subseteq Places
    BY DEF Unwritten, Places
  <2>11. QED
    BY <2>6, <2>7, <2>8, <2>9, <2>10
       DEF Good, OneHolder, UnderLease, Held, OnTheWayBack, BackOk
<1>4. QED
  BY <1>2, <1>3

LEMMA FailedLease ==
  ASSUME IInv, NEW m \in Messages \ late', Good(m), NEW p \in Instances,
         NEW ids \in SUBSET Messages, UpdateFails(p, ids)
  PROVE  Good(m)'
<1>1. /\ UNCHANGED <<docVars, topic, callVars, fetched, entities, producing, promises, confirms, results>>
      /\ confirming[p][ids] > 0 /\ BatchDone(p, ids) /\ TypeOK /\ m \notin ids
  BY DEF IInv, UpdateFails, topicVars
<1>2. QED
  BY <1>1, OtherBatch DEF docVars
-----------------------------------------------------------------------------
(* Shutdown, crash and time.                                               *)

LEMMA IdleLease ==
  ASSUME NEW m \in Messages, Good(m), UNCHANGED <<callVars, pipeVars, topic>>,
         lockLeft'[m] = lockLeft[m], status'[m] = status[m]
  PROVE  Good(m)'
<1>1. Same(m)
  BY DEF Same, At, callVars, pipeVars
<1>2. Once(m)' /\ (BackOk(m) => BackOk(m)')
  BY DEF Good, Once, BatchOnce, BackOk, pipeVars
<1>3. QED
  BY <1>1, <1>2, SameGood

LEMMA ConfirmerExitLease ==
  ASSUME IInv, NEW m \in Messages \ late', Good(m), NEW p \in Instances, ConfirmerExit(p)
  PROVE  Good(m)'
<1>1. /\ UNCHANGED <<docVars, topic, callVars, fetched, entities, producing, promises, confirms, confirming>>
      /\ results' = [results EXCEPT ![p] = <<>>] /\ results \in [Instances -> Seq(ConfirmResult)]
      /\ m \notin OkIds(results[p])
  BY DEF IInv, TypeOK, ConfirmerExit, topicVars
<1>2. /\ results'[p] = <<>> /\ \A q \in Instances \ {p} : results'[q] = results[q]
      /\ IdOnce(results'[p], m) /\ AllOk(results'[p], m) /\ Ids(results'[p]) = {}
  BY <1>1, EmptyOnce
<1>3. Once(m)' /\ (BackOk(m) => BackOk(m)')
  BY <1>1, <1>2 DEF Good, Once, BatchOnce, BackOk
<1>4. Stays(m)
  BY <1>1, <1>2 DEF Stays, At, callVars
<1>5. CASE m \in Ids(results[p])
  <2>1. ~AllOk(results[p], m)
    BY <1>1, <1>5 DEF Ids, OkIds, AllOk
  <2>2. m \notin Range(topic')
    BY <1>1, <2>1 DEF Good, OnTheWayBack
  <2>3. QED
    BY <1>1, <1>3, <1>4, <2>2, NotWrittenGoes DEF docVars
<1>6. CASE m \notin Ids(results[p])
  <2>1. Same(m)
    BY <1>1, <1>2, <1>6 DEF Same, At, callVars
  <2>2. QED
    BY <1>1, <1>3, <2>1, SameGood DEF docVars
<1>7. QED
  BY <1>5, <1>6

LEMMA FetcherExitLease ==
  ASSUME IInv, NEW m \in Messages, Good(m), NEW p \in Instances, FetcherExit(p)
  PROVE  Good(m)'
<1>1. /\ UNCHANGED <<docVars, topic, callVars, entities, producing, promises, confirms, results, confirming>>
      /\ fetched' = [fetched EXCEPT ![p] = NoMessage]
      /\ fetched \in [Instances -> Messages \cup {NoMessage}] /\ m # NoMessage
  BY OutboxAssumption DEF IInv, TypeOK, FetcherExit, topicVars
<1>2. Once(m)' /\ (BackOk(m) => BackOk(m)')
  BY <1>1 DEF Good, Once, BatchOnce, BackOk
<1>3. Stays(m)
  BY <1>1 DEF Stays, At, callVars
<1>4. CASE fetched[p] = m
  <2>1. At(p, "fetched", m) /\ "fetched" \in Unwritten
    BY <1>4 DEF At, Unwritten
  <2>2. m \notin Range(topic')
    BY <1>1, <2>1, UnwrittenYet DEF Good
  <2>3. QED
    BY <1>1, <1>2, <1>3, <2>2, NotWrittenGoes DEF docVars
<1>5. CASE fetched[p] # m
  <2>1. Same(m)
    BY <1>1, <1>5 DEF Same, At, callVars
  <2>2. QED
    BY <1>1, <1>2, <2>1, SameGood DEF docVars
<1>6. QED
  BY <1>4, <1>5

(* What is in one of the channels is in Pipe.                              *)
LEMMA RangeConcat ==
  ASSUME NEW S, NEW s \in Seq(S), NEW t \in Seq(S)
  PROVE  s \o t \in Seq(S) /\ Range(s) \cup Range(t) \subseteq Range(s \o t)
<1>1. /\ s \o t \in Seq(S) /\ Len(s \o t) = Len(s) + Len(t)
      /\ \A i \in 1..Len(s) : (s \o t)[i] = s[i]
      /\ \A i \in 1..Len(t) : (s \o t)[Len(s) + i] = t[i]
      /\ Len(s) \in Nat /\ Len(t) \in Nat
      /\ DOMAIN s = 1..Len(s) /\ DOMAIN t = 1..Len(t) /\ DOMAIN (s \o t) = 1..Len(s \o t)
  BY ConcatProperties, LenProperties
<1>2. ASSUME NEW i \in 1..Len(t) PROVE Len(s) + i \in DOMAIN (s \o t)
  BY <1>1
<1>3. \A i \in 1..Len(s) : i \in DOMAIN (s \o t)
  BY <1>1
<1>4. QED
  BY <1>1, <1>2, <1>3 DEF Range

LEMMA PipeHas ==
  ASSUME NEW es \in Seq(Messages), NEW ps \in Seq(Messages), NEW rs \in Seq(ConfirmResult)
  PROVE  LET ids == [i \in DOMAIN rs |-> rs[i].id]
         IN  Range(es) \cup Range(ps) \cup Ids(rs) \subseteq Range(es \o ps \o ids)
<1> DEFINE ids == [i \in DOMAIN rs |-> rs[i].id]
<1>1. ids \in Seq(Messages)
  <2>1. Len(rs) \in Nat /\ DOMAIN rs = 1..Len(rs) /\ \A i \in 1..Len(rs) : rs[i] \in ConfirmResult
    BY LenProperties
  <2>2. \A i \in 1..Len(rs) : rs[i].id \in Messages
    BY <2>1 DEF ConfirmResult
  <2>3. QED
    BY <2>1, <2>2
<1>2. Ids(rs) \subseteq Range(ids)
  BY DEF Ids, Range
<1> HIDE DEF ids
<1>3. es \o ps \in Seq(Messages) /\ Range(es) \cup Range(ps) \subseteq Range(es \o ps)
  BY RangeConcat
<1>4. Range(es \o ps) \cup Range(ids) \subseteq Range(es \o ps \o ids)
  BY <1>1, <1>3, RangeConcat
<1>5. Range(es) \cup Range(ps) \cup Ids(rs) \subseteq Range(es \o ps \o ids)
  BY <1>2, <1>3, <1>4
<1>6. QED
  BY <1>5 DEF ids

LEMMA AtHolds ==
  ASSUME TypeOK, NEW p \in Instances, NEW k \in Places, NEW m \in Messages, At(p, k, m)
  PROVE  Holds(p, m)
<1> DEFINE rs == promises[p] \o confirms[p] \o results[p]
<1>1. /\ entities[p] \in Seq(Messages) /\ producing[p] \in Seq(Messages)
      /\ promises[p] \in Seq(ConfirmResult) /\ confirms[p] \in Seq(ConfirmResult)
      /\ results[p] \in Seq(ConfirmResult)
  BY DEF TypeOK
<1>2. /\ promises[p] \o confirms[p] \in Seq(ConfirmResult)
      /\ Range(promises[p]) \cup Range(confirms[p]) \subseteq Range(promises[p] \o confirms[p])
  BY <1>1, RangeConcat
<1>3. rs \in Seq(ConfirmResult) /\ Range(promises[p] \o confirms[p]) \cup Range(results[p]) \subseteq Range(rs)
  BY <1>1, <1>2, RangeConcat
<1>4. Ids(promises[p]) \cup Ids(confirms[p]) \cup Ids(results[p]) \subseteq Ids(rs)
  BY <1>2, <1>3 DEF Ids
<1>5. Pipe(p) = entities[p] \o producing[p] \o [i \in DOMAIN rs |-> rs[i].id]
  BY DEF Pipe
<1> HIDE DEF rs
<1>6. Range(entities[p]) \cup Range(producing[p]) \cup Ids(rs) \subseteq Range(Pipe(p))
  BY <1>1, <1>3, <1>5, PipeHas
<1>7. QED
  BY <1>4, <1>6 DEF At, Holds, Places

(* A process that dies has no copy of what is not late.                    *)
LEMMA DieLease ==
  ASSUME IInv, NEW m \in Messages \ late', Good(m), NEW p \in Instances, Die(p)
  PROVE  Good(m)'
<1>1. ~Holds(p, m) /\ TypeOK
  BY DEF IInv, Die
<1>2. \A k \in Places : ~At(p, k, m)
  BY <1>1, AtHolds
<1>3. /\ UNCHANGED <<topic, lockLeft>> /\ m \in Messages /\ m # NoMessage
      /\ m \notin txn[p]
      /\ status' = [n \in Messages |-> IF n \in txn[p] THEN "Aborted" ELSE status[n]]
  BY <1>1, OutboxAssumption DEF Die, topicVars, Holds
<1>4. status'[m] = status[m]
  BY <1>3
<1>5. /\ txn'[p] = {} /\ sendFunc'[p] = {} /\ fetched'[p] = NoMessage
      /\ entities'[p] = <<>> /\ producing'[p] = <<>> /\ promises'[p] = <<>>
      /\ confirms'[p] = <<>> /\ results'[p] = <<>> /\ confirming'[p] = NoBatches
  BY <1>1 DEF Die, TypeOK
<1>6. ASSUME NEW q \in Instances \ {p}
      PROVE  /\ txn'[q] = txn[q] /\ sendFunc'[q] = sendFunc[q] /\ fetched'[q] = fetched[q]
             /\ entities'[q] = entities[q] /\ producing'[q] = producing[q]
             /\ promises'[q] = promises[q] /\ confirms'[q] = confirms[q]
             /\ results'[q] = results[q] /\ confirming'[q] = confirming[q]
  BY <1>1 DEF Die, TypeOK
<1>7. \A ids \in SUBSET Messages : ~(NoBatches[ids] > 0)
  BY DEF NoBatches
<1>8. /\ \A k \in Places : ~At(p, k, m)'
      /\ SeqOnce(<<>>, m) /\ IdOnce(<<>>, m) /\ AllOk(<<>>, m) /\ BatchOnce(p, m)'
  BY <1>3, <1>5, <1>7, EmptyOnce DEF At, Places, BatchOnce
<1>9. \A q \in Instances \ {p}, k \in Places : At(q, k, m)' <=> At(q, k, m)
  BY <1>6 DEF At
<1>10. Same(m)
  BY <1>2, <1>8, <1>9 DEF Same
<1>11. Once(m)'
  <2>1. \A q \in Instances \ {p} : BatchOnce(q, m)'
    BY <1>6 DEF Good, Once, BatchOnce
  <2>2. QED
    BY <1>5, <1>6, <1>8, <2>1 DEF Good, Once
<1>12. BackOk(m) => BackOk(m)'
  BY <1>5, <1>6, <1>8 DEF BackOk
<1>13. QED
  BY <1>3, <1>4, <1>10, <1>11, <1>12, SameGood

(* A lease that runs out under a copy makes the message late.              *)
LEMMA TickLease ==
  ASSUME IInv, NEW m \in Messages \ late', Good(m), Tick
  PROVE  Good(m)'
<1>1. /\ UNCHANGED <<status, topic, callVars, pipeVars>> /\ TypeOK
      /\ lockLeft' = Countdown(lockLeft) /\ ~(lockLeft[m] = 1 /\ InPipeline(m))
      /\ lockLeft[m] \in Nat
  BY DEF IInv, TypeOK, Tick, topicVars
<1>2. Held(m) => InPipeline(m)
  BY <1>1, AtHolds DEF Held, InPipeline
<1>3. lockLeft'[m] = IF lockLeft[m] > 0 THEN lockLeft[m] - 1 ELSE 0
  BY <1>1 DEF Countdown
<1>4. Held(m) => lockLeft'[m] > 0 /\ status'[m] # "None"
  BY <1>1, <1>2, <1>3 DEF Good, UnderLease
<1>5. Same(m)
  BY <1>1 DEF Same, At, callVars, pipeVars
<1>6. Once(m)' /\ (BackOk(m) => BackOk(m)')
  BY <1>1 DEF Good, Once, BatchOnce, BackOk, pipeVars
<1>7. Stays(m) /\ (Held(m)' <=> Held(m))
  BY <1>5 DEF Same, Stays, Held
<1>8. UnderLease(m)'
  BY <1>4, <1>7 DEF UnderLease
<1>9. OnTheWayBack(m)'
  <2>1. \A q \in Instances, k \in Unwritten : At(q, k, m)' <=> At(q, k, m)
    BY <1>5 DEF Same, Unwritten, Places
  <2>2. QED
    BY <1>1, <1>6, <1>7, <2>1 DEF Good, OnTheWayBack, BackOk
<1>10. QED
  BY <1>6, <1>7, <1>8, <1>9, HolderStays DEF Good

LEMMA ExpireLease ==
  ASSUME IInv, NEW m \in Messages, Good(m), NEW x \in Messages, Expire(x)
  PROVE  Good(m)'
<1>1. /\ UNCHANGED <<lockLeft, topic, callVars, pipeVars>>
      /\ status' = [status EXCEPT ![x] = "Expired"] /\ status \in [Messages -> Statuses]
  BY DEF IInv, TypeOK, Expire, topicVars
<1>2. status'[m] = status[m] \/ status'[m] = "Expired"
  BY <1>1
<1>3. Same(m)
  BY <1>1 DEF Same, At, callVars, pipeVars
<1>4. Once(m)' /\ (BackOk(m) => BackOk(m)')
  BY <1>1 DEF Good, Once, BatchOnce, BackOk, pipeVars
<1>5. Stays(m) /\ (Held(m)' <=> Held(m))
  BY <1>3 DEF Same, Stays, Held
<1>6. UnderLease(m)'
  BY <1>1, <1>2, <1>5 DEF Good, UnderLease
<1>7. OnTheWayBack(m)'
  <2>1. \A q \in Instances, k \in Unwritten : At(q, k, m)' <=> At(q, k, m)
    BY <1>3 DEF Same, Unwritten, Places
  <2>2. QED
    BY <1>1, <1>2, <1>4, <1>5, <2>1 DEF Good, OnTheWayBack, BackOk
<1>8. QED
  BY <1>4, <1>5, <1>6, <1>7, HolderStays DEF Good
-----------------------------------------------------------------------------
(* The steps together.                                                     *)

LEMMA CallerLease ==
  ASSUME IInv, NEW m \in Messages, Good(m), NEW p \in Instances, Caller(p)
  PROVE  Good(m)'
BY CreateLease, CommitLease, AbortLease, EnqueueLease, DropLease DEF Caller

LEMMA StopLease ==
  ASSUME IInv, NEW m \in Messages \ late', Good(m), NEW p \in Instances,
         Stop(p) \/ Crash(p) \/ Restart(p)
  PROVE  Good(m)'
<1>1. CASE BeginStop(p) \/ SenderExit(p) \/ Restart(p)
  <2>1. UNCHANGED <<callVars, pipeVars, topic, docVars>>
    BY <1>1 DEF BeginStop, SenderExit, Restart, topicVars
  <2>2. QED
    BY <2>1, IdleLease DEF docVars
<1>2. CASE ClientClose(p) \/ Crash(p)
  BY <1>2, DieLease DEF ClientClose, Crash
<1>3. QED
  BY <1>1, <1>2, ConfirmerExitLease, FetcherExitLease DEF Stop

LEMMA StepLease ==
  ASSUME IInv, NEW m \in Messages \ late', Good(m), [Next]_vars
  PROVE  Good(m)'
<1>1. ASSUME NEW p \in Instances, Fetcher(p) PROVE Good(m)'
  BY <1>1, FetchLease, HandOverLease DEF Fetcher
<1>2. ASSUME NEW p \in Instances, Confirmer(p) PROVE Good(m)'
  BY <1>2, ReceiveLease, TickerLease DEF Confirmer
<1>3. ASSUME NEW p \in Instances, Batch(p) PROVE Good(m)'
  BY <1>3, UpdateLease, FailedLease DEF Batch
<1>4. ASSUME UNCHANGED vars PROVE Good(m)'
  BY <1>4, IdleLease DEF vars, docVars, topicVars
<1>5. ASSUME NEW p \in Instances,
             \/ Caller(p) \/ Fetcher(p) \/ SenderSend(p) \/ Broker(p) \/ Promise(p)
             \/ Confirmer(p) \/ Batch(p) \/ Stop(p) \/ Crash(p) \/ Restart(p)
      PROVE  Good(m)'
  BY <1>1, <1>2, <1>3, <1>5, CallerLease, SenderLease, BrokerLease, PromiseLease, StopLease
<1>6. QED
  BY <1>4, <1>5, TickLease, ExpireLease DEF Next

(* What is late stays so, and no record of another message comes twice.    *)
LEMMA LateGrows ==
  ASSUME [Next]_vars
  PROVE  /\ late \subseteq late'
         /\ \/ duplicates' = duplicates
            \/ \E p \in Instances :
                   /\ producing[p] # <<>> /\ Head(producing[p]) \in Range(topic)
                   /\ duplicates' = duplicates \cup {Head(producing[p])}
<1>1. ASSUME NEW p \in Instances, Broker(p)
      PROVE  /\ late \subseteq late'
             /\ \/ duplicates' = duplicates
                \/ /\ producing[p] # <<>> /\ Head(producing[p]) \in Range(topic)
                   /\ duplicates' = duplicates \cup {Head(producing[p])}
  BY <1>1 DEF Broker, KafkaWrite, KafkaFail, KafkaAckLost, AppendRecord, topicVars
<1>2. ASSUME NEW p \in Instances, Caller(p) \/ Fetcher(p) \/ SenderSend(p) \/ Promise(p)
      PROVE  duplicates' = duplicates /\ late' = late
  BY <1>2 DEF Caller, Create, Commit, Abort, SendFuncEnqueue, SendFuncDrop, Fetcher, FetchAndLock,
       FetcherHandOver, SenderSend, Promise, topicVars
<1>3. ASSUME NEW p \in Instances, Confirmer(p) \/ Batch(p)
      PROVE  duplicates' = duplicates /\ late \subseteq late'
  BY <1>3 DEF Confirmer, ConfirmerReceive, ConfirmerTick, Batch, UpdateAsSentByIDs, UpdateFails, topicVars
<1>4. ASSUME NEW p \in Instances, Stop(p) \/ Crash(p) \/ Restart(p)
      PROVE  duplicates' = duplicates /\ late \subseteq late'
  BY <1>4 DEF Stop, BeginStop, ConfirmerExit, SenderExit, FetcherExit, ClientClose, Crash, Die, Restart, topicVars
<1>5. ASSUME Tick \/ (\E m \in Messages : Expire(m)) \/ UNCHANGED vars
      PROVE  duplicates' = duplicates /\ late \subseteq late'
  BY <1>5 DEF Tick, Expire, vars, topicVars
<1>6. QED
  BY <1>1, <1>2, <1>3, <1>4, <1>5 DEF Next

LEMMA StepDuplicate ==
  ASSUME LeaseInv, [Next]_vars
  PROVE  DuplicateHasCause'
<1>1. ASSUME NEW p \in Instances, producing[p] # <<>>, Head(producing[p]) \in Range(topic)
      PROVE  Head(producing[p]) \in late
  <2> DEFINE m == Head(producing[p])
  <2>1. m \in Messages /\ m \in Range(producing[p])
    BY <1>1, RangeTail DEF LeaseInv, IInv, TypeOK
  <2>2. At(p, "producing", m) /\ "producing" \in Unwritten
    BY <2>1 DEF At, Unwritten
  <2>3. m \notin late => OnTheWayBack(m)
    BY <2>1 DEF LeaseInv, LeasesHold
  <2> HIDE DEF m
  <2>4. m \in late
    BY <1>1, <2>1, <2>2, <2>3, UnwrittenYet DEF m
  <2>5. QED
    BY <2>4 DEF m
<1>2. QED
  BY <1>1, LateGrows DEF LeaseInv, DuplicateHasCause

LEMMA InitLease == Init => LeaseInv
<1>1. SUFFICES ASSUME Init PROVE LeaseInv
  OBVIOUS
<1>2. ASSUME NEW m \in Messages PROVE Good(m)
  <2>1. m # NoMessage /\ SeqOnce(<<>>, m) /\ IdOnce(<<>>, m) /\ Range(<<>>) = {} /\ Ids(<<>>) = {}
    BY OutboxAssumption, EmptyOnce
  <2>2. \A p \in Instances, k \in Places : ~At(p, k, m)
    BY <1>1, <2>1 DEF Init, At, Places, NoBatches
  <2>3. Once(m)
    BY <1>1, <2>1 DEF Init, Once, BatchOnce, NoBatches
  <2>4. m \notin Range(topic)
    BY <1>1, <2>1 DEF Init
  <2>5. QED
    BY <2>2, <2>3, <2>4 DEF Good, OneHolder, UnderLease, Held, OnTheWayBack
<1>3. DuplicateHasCause
  BY <1>1 DEF Init, DuplicateHasCause
<1>4. QED
  BY <1>1, <1>2, <1>3, InitInv DEF LeaseInv, LeasesHold, Good

LEMMA StepLeaseInv == LeaseInv /\ IInv' /\ [Next]_vars => LeaseInv'
<1>1. SUFFICES ASSUME LeaseInv, IInv', [Next]_vars PROVE LeaseInv'
  OBVIOUS
<1>2. ASSUME NEW m \in Messages \ late' PROVE Good(m)'
  <2>1. m \in Messages \ late
    BY <1>1, LateGrows
  <2>2. Good(m) /\ IInv
    BY <1>1, <2>1 DEF LeaseInv, LeasesHold, Good
  <2>3. QED
    BY <1>1, <2>2, StepLease
<1>3. LeasesHold'
  BY <1>2 DEF LeasesHold, Good
<1>4. QED
  BY <1>1, <1>3, StepDuplicate DEF LeaseInv

(* A message has a second record only when a lease ran out under a copy    *)
(* still on its way, or a fault lost what was known of a copy: the locks   *)
(* of Create and FetchAndLock keep any two copies apart, between the       *)
(* Fetcher and a SendFunc and between any number of replicas.              *)
THEOREM DuplicatesHaveCause == Spec => []DuplicateHasCause
<1>1. LeaseInv => DuplicateHasCause
  BY DEF LeaseInv
<1>2. QED
  BY <1>1, InitLease, StepLeaseInv, InvHolds, PTL DEF Spec
=============================================================================
