--------------------------- MODULE ConsumerProofs ---------------------------
(***************************************************************************)
(* Theorems about the consumer, for any members, capacities, retries,      *)
(* reset policies, records, rebalances, stops and crashes.                 *)
(***************************************************************************)
EXTENDS Consumer, SequenceTheorems, TLAPS

-----------------------------------------------------------------------------
(* The inductive invariant.                                                *)

(* In front of each record of pipe every earlier offset is settled or      *)
(* before it in the pipe.                                                  *)
GapFree(pipe, set) ==
    \A i \in DOMAIN pipe : \A o \in 1..(pipe[i].off - 1) :
        o \in set \/ \E j \in 1..(i - 1) : pipe[j].off = o

(* Every offset before the position is settled or in the pipe.             *)
Covered(pipe, set, pos) ==
    \A o \in 1..(pos - 1) : o \in set \/ \E j \in DOMAIN pipe : pipe[j].off = o

(* The records of one assignment are in the order of their offsets.        *)
Ascending(pipe) ==
    \A i, j \in DOMAIN pipe :
        (i < j /\ pipe[i].gen = pipe[j].gen) => pipe[i].off < pipe[j].off

(* The records of one assignment are before the position.                  *)
Below(pipe, g, pos) == \A i \in DOMAIN pipe : pipe[i].gen = g => pipe[i].off < pos

(* No committed offset passes a record that nothing was decided about.     *)
NothingSkipped == \A o \in 1..(committed - 1) : o \in Settled

(* The pipe of a member leads to the handler in order and without a gap;   *)
(* a stop breaks it only after the Processor has gone.                     *)
PipeInv(p) ==
    /\ ProcessorOn(p) => GapFree(Pipe(p), Settled) /\ Covered(Pipe(p), Settled, position[p])
    /\ Ascending(Pipe(p))
    /\ position[p] > 0 => owner = p /\ Below(Pipe(p), assigns, position[p])

(* What has passed the deserializer can be decoded.                        *)
Decoded(p) ==
    /\ \A i \in DOMAIN envelopes[p] : log[envelopes[p][i].off]
    /\ stage[p] # "idle" => log[Current(p)]

(* A Processor is not gone while a record is in work.                      *)
Attended(p) == stage[p] # "idle" => ProcessorOn(p)

(* What is marked, or about to be, is decided about, and so is all before. *)
MarksSettled(p) ==
    /\ stage[p] = "mark" => Current(p) \in Settled
    /\ \A o \in 1..(head[p] - 1) : o \in Settled

Empty(p) ==
    /\ position[p] = 0 /\ stage[p] = "idle"
    /\ envelopes[p] = <<>> /\ decoding[p] = <<>> /\ messages[p] = <<>> /\ batch[p] = <<>>

MemberInv(p) ==
    /\ PipeInv(p)
    /\ Decoded(p)
    /\ Attended(p)
    /\ MarksSettled(p)
    /\ phase[p] = "down" => Empty(p)

IInv == TypeOK /\ NothingSkipped /\ \A p \in Members : MemberInv(p)
-----------------------------------------------------------------------------
(* Sequences of records.                                                   *)

AnyRecord == [off : Nat, gen : Nat]

LEMMA Associative ==
  ASSUME NEW s \in Seq(AnyRecord), NEW t \in Seq(AnyRecord), NEW u \in Seq(AnyRecord)
  PROVE  (s \o t) \o u = s \o (t \o u)
BY ConcatAssociative

LEMMA AddedAtTheEnd ==
  ASSUME NEW s \in Seq(AnyRecord), NEW t \in Seq(AnyRecord), Len(t) = 1
  PROVE  /\ DOMAIN s = 1..Len(s) /\ DOMAIN (s \o t) = 1..(Len(s) + 1) /\ Len(s) \in Nat
         /\ \A i \in DOMAIN s : (s \o t)[i] = s[i]
         /\ (s \o t)[Len(s) + 1] = t[1]
<1>1. Len(s) \in Nat /\ DOMAIN s = 1..Len(s)
  BY LenProperties
<1>2. /\ s \o t \in Seq(AnyRecord) /\ Len(s \o t) = Len(s) + Len(t)
      /\ \A i \in 1..(Len(s) + Len(t)) : (s \o t)[i] = IF i <= Len(s) THEN s[i] ELSE t[i - Len(s)]
  BY ConcatProperties
<1>3. DOMAIN (s \o t) = 1..(Len(s) + 1)
  BY <1>2, LenProperties
<1>4. QED
  BY <1>1, <1>2, <1>3

(* What the pipe is made of moves without a change of the whole.           *)
LEMMA MoveHead ==
  ASSUME NEW a \in Seq(AnyRecord), NEW m \in Seq(AnyRecord), NEW b \in Seq(AnyRecord), b # <<>>
  PROVE  (a \o Append(m, Head(b))) \o Tail(b) = (a \o m) \o b
<1>1. Head(b) \in AnyRecord /\ Tail(b) \in Seq(AnyRecord) /\ <<Head(b)>> \in Seq(AnyRecord)
  BY HeadTailProperties
<1>2. Append(m, Head(b)) = m \o <<Head(b)>>
  BY <1>1, AppendIsConcat
<1>3. <<Head(b)>> \o Tail(b) = b
  <2>1. <<Head(b)>> \o Tail(b) \in Seq(AnyRecord) /\ Len(<<Head(b)>> \o Tail(b)) = Len(b)
    BY <1>1, ConcatProperties, HeadTailProperties, LenProperties, EmptySeq
  <2>2. \A i \in 1..Len(b) : (<<Head(b)>> \o Tail(b))[i] = b[i]
    BY <1>1, ConcatProperties, HeadTailProperties, LenProperties, EmptySeq
  <2>3. QED
    BY <2>1, <2>2, SeqEqual
<1>4. a \o (m \o <<Head(b)>>) = (a \o m) \o <<Head(b)>>
  BY <1>1, ConcatAssociative
<1>5. ((a \o m) \o <<Head(b)>>) \o Tail(b) = (a \o m) \o (<<Head(b)>> \o Tail(b))
  BY <1>1, ConcatProperties, ConcatAssociative
<1>6. QED
  BY <1>2, <1>3, <1>4, <1>5

LEMMA AppendToEmpty ==
  ASSUME NEW x
  PROVE  Append(<<>>, x) = <<x>>
OBVIOUS

(* Without one of its elements.                                            *)
LEMMA WithoutOne ==
  ASSUME NEW a \in Seq(AnyRecord), NEW r \in AnyRecord, NEW b \in Seq(AnyRecord)
  PROVE  LET P == (a \o <<r>>) \o b
             Q == a \o b
         IN /\ DOMAIN P = 1..(Len(a) + Len(b) + 1) /\ DOMAIN Q = 1..(Len(a) + Len(b))
            /\ \A k \in DOMAIN Q : Q[k] = IF k <= Len(a) THEN P[k] ELSE P[k + 1]
            /\ P[Len(a) + 1] = r
            /\ \A k \in DOMAIN P : P[k] \in AnyRecord
            /\ Len(a) \in Nat /\ Len(b) \in Nat
<1>1. <<r>> \in Seq(AnyRecord) /\ Len(<<r>>) = 1 /\ <<r>>[1] = r
  OBVIOUS
<1>2. Len(a) \in Nat /\ Len(b) \in Nat
  BY LenProperties
<1>3. /\ a \o <<r>> \in Seq(AnyRecord)
      /\ Len(a \o <<r>>) = Len(a) + 1
      /\ \A i \in 1..(Len(a) + 1) : (a \o <<r>>)[i] = IF i <= Len(a) THEN a[i] ELSE r
  BY <1>1, <1>2, ConcatProperties
<1>4. /\ (a \o <<r>>) \o b \in Seq(AnyRecord)
      /\ Len((a \o <<r>>) \o b) = Len(a) + 1 + Len(b)
      /\ \A i \in 1..(Len(a) + 1 + Len(b)) :
            ((a \o <<r>>) \o b)[i] = IF i <= Len(a) + 1 THEN (a \o <<r>>)[i] ELSE b[i - (Len(a) + 1)]
  BY <1>3, ConcatProperties
<1>5. /\ a \o b \in Seq(AnyRecord)
      /\ Len(a \o b) = Len(a) + Len(b)
      /\ \A i \in 1..(Len(a) + Len(b)) : (a \o b)[i] = IF i <= Len(a) THEN a[i] ELSE b[i - Len(a)]
  BY ConcatProperties
<1>6. \A k \in 1..(Len(a) + Len(b)) :
         (a \o b)[k] = IF k <= Len(a) THEN ((a \o <<r>>) \o b)[k] ELSE ((a \o <<r>>) \o b)[k + 1]
  BY <1>2, <1>3, <1>4, <1>5
<1>7. \A k \in 1..(Len(a) + Len(b) + 1) : ((a \o <<r>>) \o b)[k] \in AnyRecord
  BY <1>2, <1>4, ElementOfSeq
<1>8. /\ DOMAIN ((a \o <<r>>) \o b) = 1..(Len(a) + Len(b) + 1)
      /\ DOMAIN (a \o b) = 1..(Len(a) + Len(b))
  BY <1>2, <1>4, <1>5, LenProperties
<1>9. ((a \o <<r>>) \o b)[Len(a) + 1] = r
  BY <1>2, <1>3, <1>4
<1>10. QED
  BY <1>2, <1>6, <1>7, <1>8, <1>9

(* Something is decided about a record, and it leaves the pipe.            *)
LEMMA Removed ==
  ASSUME NEW a \in Seq(AnyRecord), NEW r \in AnyRecord, NEW b \in Seq(AnyRecord),
         NEW S, NEW T, S \subseteq T, NEW g, NEW pos \in Nat
  PROVE  LET P == (a \o <<r>>) \o b
             Q == a \o b
         IN /\ GapFree(P, S) /\ r.off \in T => GapFree(Q, T)
            /\ Covered(P, S, pos) /\ r.off \in T => Covered(Q, T, pos)
            /\ Ascending(P) => Ascending(Q)
            /\ Below(P, g, pos) => Below(Q, g, pos)
<1> DEFINE P == (a \o <<r>>) \o b
           Q == a \o b
           n == Len(a)
           m == Len(b)
           at(k) == IF k <= n THEN k ELSE k + 1
<1>1. /\ DOMAIN P = 1..(n + m + 1) /\ DOMAIN Q = 1..(n + m)
      /\ \A k \in DOMAIN Q : Q[k] = IF k <= n THEN P[k] ELSE P[k + 1]
      /\ P[n + 1] = r
      /\ \A k \in DOMAIN P : P[k] \in AnyRecord
      /\ n \in Nat /\ m \in Nat
  BY WithoutOne, Zenon
<1> HIDE DEF P, Q, n, m
<1>2. \A k \in DOMAIN Q : at(k) \in DOMAIN P /\ Q[k] = P[at(k)] /\ at(k) \in Nat
  BY <1>1
<1>3. \A k \in DOMAIN P : k = n + 1 \/ \E l \in DOMAIN Q : k = at(l)
  <2>1. ASSUME NEW k \in DOMAIN P, k # n + 1
        PROVE  \E l \in DOMAIN Q : k = at(l)
    <3>1. CASE k <= n
      BY <1>1, <3>1
    <3>2. CASE k > n
      <4>1. k - 1 \in DOMAIN Q /\ at(k - 1) = k
        BY <1>1, <2>1, <3>2
      <4>2. QED
        BY <4>1
    <3>3. QED
      BY <1>1, <2>1, <3>1, <3>2
  <2>2. QED
    BY <2>1
<1>4. \A i, j \in DOMAIN Q : at(j) < at(i) <=> j < i
  BY <1>1
<1>5. ASSUME GapFree(P, S), r.off \in T
      PROVE  GapFree(Q, T)
  <2> SUFFICES ASSUME NEW i \in DOMAIN Q, NEW o \in 1..(Q[i].off - 1), o \notin T
               PROVE  \E j \in 1..(i - 1) : Q[j].off = o
    BY DEF GapFree
  <2>1. PICK k \in 1..(at(i) - 1) : P[k].off = o
    BY <1>2, <1>5 DEF GapFree
  <2>2. k \in DOMAIN P /\ k # n + 1
    BY <1>1, <1>5, <2>1
  <2>3. PICK l \in DOMAIN Q : k = at(l)
    BY <1>3, <2>2
  <2>4. l < i
    BY <1>1, <1>4, <2>1, <2>3
  <2>5. QED
    BY <1>1, <1>2, <2>1, <2>3, <2>4
<1>6. ASSUME Covered(P, S, pos), r.off \in T
      PROVE  Covered(Q, T, pos)
  <2> SUFFICES ASSUME NEW o \in 1..(pos - 1), o \notin T
               PROVE  \E j \in DOMAIN Q : Q[j].off = o
    BY DEF Covered
  <2>1. PICK k \in DOMAIN P : P[k].off = o
    BY <1>6 DEF Covered
  <2>2. k # n + 1
    BY <1>1, <1>6, <2>1
  <2>3. QED
    BY <1>2, <1>3, <2>1, <2>2
<1>7. ASSUME Ascending(P)
      PROVE  Ascending(Q)
  BY <1>2, <1>4, <1>7 DEF Ascending
<1>8. ASSUME Below(P, g, pos)
      PROVE  Below(Q, g, pos)
  BY <1>2, <1>8 DEF Below
<1>9. QED
  BY <1>5, <1>6, <1>7, <1>8 DEF P, Q

(* Records with the next offsets, of one assignment, come in at the end.   *)
LEMMA Extended ==
  ASSUME NEW P \in Seq(AnyRecord), NEW F \in Seq(AnyRecord), NEW S, NEW pos \in Nat, NEW g \in Nat,
         \A i \in DOMAIN F : F[i] = [off |-> pos + i - 1, gen |-> g]
  PROVE  LET Q == P \o F
         IN /\ GapFree(P, S) /\ Covered(P, S, pos) =>
                   GapFree(Q, S) /\ Covered(Q, S, pos + Len(F))
            /\ Ascending(P) /\ Below(P, g, pos) =>
                   Ascending(Q) /\ Below(Q, g, pos + Len(F))
<1> DEFINE Q == P \o F
           n == Len(P)
           m == Len(F)
<1>1. /\ n \in Nat /\ m \in Nat
      /\ DOMAIN P = 1..n /\ DOMAIN F = 1..m /\ DOMAIN Q = 1..(n + m)
      /\ \A k \in DOMAIN P : Q[k] = P[k] /\ P[k] \in AnyRecord
      /\ \A k \in DOMAIN F : Q[n + k] = F[k]
  <2>1. n \in Nat /\ m \in Nat /\ DOMAIN P = 1..n /\ DOMAIN F = 1..m
    BY LenProperties
  <2>2. /\ Q \in Seq(AnyRecord) /\ Len(Q) = n + m
        /\ \A k \in 1..(n + m) : Q[k] = IF k <= n THEN P[k] ELSE F[k - n]
    BY ConcatProperties
  <2>3. DOMAIN Q = 1..(n + m)
    BY <2>2, LenProperties
  <2>4. \A k \in 1..n : P[k] \in AnyRecord
    BY <2>1, ElementOfSeq
  <2> HIDE DEF n, m, Q
  <2>5. \A k \in 1..m : Q[n + k] = F[k]
    BY <2>1, <2>2
  <2>6. QED
    BY <2>1, <2>2, <2>3, <2>4, <2>5
<1> HIDE DEF Q, n, m
<1>2. \A k \in 1..m : /\ n + k \in DOMAIN Q
                      /\ Q[n + k].off = pos + k - 1 /\ Q[n + k].gen = g
  <2> SUFFICES ASSUME NEW k \in 1..m
               PROVE  /\ n + k \in DOMAIN Q
                      /\ Q[n + k].off = pos + k - 1 /\ Q[n + k].gen = g
    OBVIOUS
  <2>1. F[k] = [off |-> pos + k - 1, gen |-> g] /\ Q[n + k] = F[k]
    BY <1>1
  <2>2. n + k \in DOMAIN Q
    BY <1>1
  <2>3. QED
    BY <2>1, <2>2
<1>3. \A k \in DOMAIN P : k \in DOMAIN Q /\ k \in Nat /\ P[k].off \in Nat /\ P[k].gen \in Nat
  BY <1>1 DEF AnyRecord
<1>4. \A k \in DOMAIN Q : k \in DOMAIN P \/ \E l \in 1..m : k = n + l
  <2>1. ASSUME NEW k \in DOMAIN Q, k \notin DOMAIN P
        PROVE  k - n \in 1..m /\ k = n + (k - n)
    BY <1>1, <2>1
  <2>2. QED
    BY <2>1
<1>5. ASSUME GapFree(P, S), Covered(P, S, pos)
      PROVE  GapFree(Q, S)
  <2> SUFFICES ASSUME NEW i \in DOMAIN Q, NEW o \in 1..(Q[i].off - 1), o \notin S
               PROVE  \E j \in 1..(i - 1) : Q[j].off = o
    BY DEF GapFree
  <2>1. CASE i \in DOMAIN P
    <3>1. PICK j \in 1..(i - 1) : P[j].off = o
      BY <1>1, <1>5, <2>1 DEF GapFree
    <3>2. j \in DOMAIN P
      BY <1>1, <2>1, <3>1
    <3>3. QED
      BY <1>1, <3>1, <3>2
  <2>2. ASSUME NEW l \in 1..m, i = n + l
        PROVE  \E j \in 1..(i - 1) : Q[j].off = o
    <3>1. o < pos + l - 1 /\ o \in Nat /\ o >= 1
      BY <1>2, <2>2
    <3>2. CASE o < pos
      <4>1. PICK j \in DOMAIN P : P[j].off = o
        BY <1>5, <3>1, <3>2 DEF Covered
      <4>2. QED
        BY <1>1, <2>2, <4>1
    <3>3. CASE o >= pos
      <4>1. o - pos + 1 \in 1..m /\ o - pos + 1 < l
        BY <1>1, <3>1, <3>3
      <4>2. Q[n + (o - pos + 1)].off = o
        BY <1>2, <3>1, <4>1
      <4>3. n + (o - pos + 1) \in 1..(i - 1)
        BY <1>1, <2>2, <4>1
      <4>4. QED
        BY <4>2, <4>3
    <3>4. QED
      BY <3>1, <3>2, <3>3
  <2>3. QED
    BY <1>4, <2>1, <2>2
<1>6. ASSUME Covered(P, S, pos)
      PROVE  Covered(Q, S, pos + m)
  <2> SUFFICES ASSUME NEW o \in 1..(pos + m - 1), o \notin S
               PROVE  \E j \in DOMAIN Q : Q[j].off = o
    BY <1>1 DEF Covered
  <2>1. CASE o < pos
    <3>1. PICK j \in DOMAIN P : P[j].off = o
      BY <1>6, <2>1 DEF Covered
    <3>2. QED
      BY <1>1, <1>3, <3>1
  <2>2. CASE o >= pos
    <3>1. o - pos + 1 \in 1..m
      BY <1>1, <2>2
    <3>2. Q[n + (o - pos + 1)].off = o
      BY <1>2, <3>1
    <3>3. QED
      BY <1>2, <3>1, <3>2
  <2>3. QED
    BY <2>1, <2>2
<1>7. ASSUME Ascending(P), Below(P, g, pos)
      PROVE  Ascending(Q)
  <2> SUFFICES ASSUME NEW i \in DOMAIN Q, NEW j \in DOMAIN Q, i < j, Q[i].gen = Q[j].gen
               PROVE  Q[i].off < Q[j].off
    BY DEF Ascending
  <2>1. CASE j \in DOMAIN P
    <3>1. i \in DOMAIN P
      BY <1>1, <2>1
    <3>2. QED
      BY <1>1, <1>7, <2>1, <3>1 DEF Ascending
  <2>2. ASSUME NEW l \in 1..m, j = n + l, i \in DOMAIN P
        PROVE  Q[i].off < Q[j].off
    <3>1. P[i].off < pos
      BY <1>1, <1>2, <1>7, <2>2 DEF Below
    <3>2. Q[j].off = pos + l - 1 /\ Q[i].off = P[i].off /\ P[i].off \in Nat
      BY <1>1, <1>2, <1>3, <2>2
    <3>3. l \in Nat /\ l >= 1
      BY <1>1
    <3>4. QED
      BY <3>1, <3>2, <3>3
  <2>3. ASSUME NEW l \in 1..m, j = n + l, NEW k \in 1..m, i = n + k
        PROVE  Q[i].off < Q[j].off
    <3>1. Q[i].off = pos + k - 1 /\ Q[j].off = pos + l - 1
      BY <1>2, <2>3
    <3>2. k \in Nat /\ l \in Nat /\ k < l
      BY <1>1, <2>3
    <3>3. QED
      BY <3>1, <3>2
  <2>4. QED
    BY <1>4, <2>1, <2>2, <2>3
<1>8. ASSUME Below(P, g, pos)
      PROVE  Below(Q, g, pos + m)
  <2> SUFFICES ASSUME NEW i \in DOMAIN Q, Q[i].gen = g
               PROVE  Q[i].off < pos + m
    BY DEF Below
  <2>1. CASE i \in DOMAIN P
    <3>1. P[i].off < pos
      BY <1>1, <1>8, <2>1 DEF Below
    <3>2. QED
      BY <1>1, <1>3, <2>1, <3>1
  <2>2. ASSUME NEW l \in 1..m, i = n + l
        PROVE  Q[i].off < pos + m
    <3>1. Q[i].off = pos + l - 1
      BY <1>2, <2>2
    <3>2. QED
      BY <1>1, <3>1
  <2>3. QED
    BY <1>4, <2>1, <2>2
<1>9. QED
  BY <1>5, <1>6, <1>7, <1>8 DEF Q, m

(* What the Reader had not handed over is dropped.                         *)
LEMMA Cut ==
  ASSUME NEW P \in Seq(AnyRecord), NEW b \in Seq(AnyRecord), NEW g, NEW pos
  PROVE  /\ Ascending(P \o b) => Ascending(P)
         /\ Below(P \o b, g, pos) => Below(P, g, pos)
<1>1. /\ DOMAIN P = 1..Len(P) /\ DOMAIN (P \o b) = 1..(Len(P) + Len(b))
      /\ Len(P) \in Nat /\ Len(b) \in Nat
  BY ConcatProperties, LenProperties
<1>2. \A k \in DOMAIN P : k \in DOMAIN (P \o b) /\ (P \o b)[k] = P[k]
  BY <1>1, ConcatProperties
<1>3. QED
  BY <1>2 DEF Ascending, Below

(* Deciding about more leaves it gap-free.                                 *)
LEMMA MoreSettled ==
  ASSUME NEW P, NEW S, NEW T, S \subseteq T, NEW pos
  PROVE  /\ GapFree(P, S) => GapFree(P, T)
         /\ Covered(P, S, pos) => Covered(P, T, pos)
BY DEF GapFree, Covered

LEMMA NothingInEmpty ==
  ASSUME NEW S, NEW g, NEW pos
  PROVE  GapFree(<<>>, S) /\ Ascending(<<>>) /\ Below(<<>>, g, pos)
BY DEF GapFree, Ascending, Below
-----------------------------------------------------------------------------
(* The type invariant.                                                     *)

LEMMA InitType == Init => TypeOK
<1> SUFFICES ASSUME Init
             PROVE  TypeOK
  OBVIOUS
<1>1. log \in Seq(BOOLEAN) /\ Len(log) = 0
  BY DEF Init
<1>2. \A S : <<>> \in Seq(S) /\ Len(<<>>) = 0
  BY EmptySeq
<1>3. QED
  BY <1>1, <1>2, ConsumerAssumption DEF Init, TypeOK, Phases, Stages

(* What has been fetched stays in the log.                                 *)
LEMMA RecordsGrow ==
  ASSUME TypeOK, NEW n \in Nat, n >= Len(log), Len(log') = n,
         NEW k \in Nat, k >= assigns, assigns' = k
  PROVE  /\ Offsets \subseteq Offsets' /\ Records \subseteq Records'
         /\ \A q \in Seq(Records) : q \in Seq(Records')
<1>1. Len(log) \in Nat /\ assigns \in Nat
  BY LenProperties DEF TypeOK
<1>2. Offsets \subseteq Offsets' /\ 0..assigns \subseteq 0..assigns'
  BY <1>1 DEF Offsets
<1>3. Records \subseteq Records'
  BY <1>2 DEF Records
<1>4. QED
  BY <1>2, <1>3, SeqMonotonic

LEMMA ProduceType ==
  ASSUME TypeOK, NEW ok \in BOOLEAN, Produce(ok)
  PROVE  TypeOK'
<1>1. log' \in Seq(BOOLEAN) /\ Len(log') = Len(log) + 1 /\ Len(log) \in Nat
  BY AppendProperties, LenProperties DEF TypeOK, Produce
<1>2. assigns' = assigns /\ assigns \in Nat
  BY DEF TypeOK, Produce, kafkaVars
<1>3. /\ Offsets \subseteq Offsets'
      /\ \A q \in Seq(Records) : q \in Seq(Records')
  BY <1>1, <1>2, RecordsGrow
<1>4. 0..(Len(log) + 1) \subseteq 0..(Len(log') + 1)
  BY <1>1
<1>5. QED
  BY <1>1, <1>2, <1>3, <1>4
     DEF TypeOK, Produce, clientVars, pipeVars, procVars, historyVars

LEMMA AssignType ==
  ASSUME TypeOK, NEW p \in Members, Assign(p)
  PROVE  TypeOK'
<1>1. log' = log /\ assigns' = assigns + 1 /\ assigns \in Nat /\ Len(log) \in Nat
  BY LenProperties DEF TypeOK, Assign, StartAt
<1>2. /\ Offsets' = Offsets
      /\ \A q \in Seq(Records) : q \in Seq(Records')
  BY <1>1, RecordsGrow DEF Offsets
<1>3. ASSUME NEW o \in 0..(Len(log) + 1), StartAt(p, o)
      PROVE  /\ owner' = p
             /\ position' \in [Members -> 0..(Len(log) + 1)]
             /\ head' \in [Members -> 0..(Len(log) + 1)]
             /\ acked' \in [Members -> 0..(Len(log) + 1)]
  BY <1>3 DEF TypeOK, StartAt
<1>4. \A policy : ResetOffset(policy) \in 0..(Len(log) + 1)
  BY <1>1 DEF ResetOffset
<1>5. /\ owner' = p
      /\ position' \in [Members -> 0..(Len(log) + 1)]
      /\ head' \in [Members -> 0..(Len(log) + 1)]
      /\ acked' \in [Members -> 0..(Len(log) + 1)]
  BY <1>3, <1>4 DEF TypeOK, Assign
<1>6. jumped' \subseteq Offsets
  <2>1. CASE jumped' = jumped
    BY <2>1 DEF TypeOK
  <2>2. ASSUME NEW policy, jumped' = jumped \cup 1..(ResetOffset(policy) - 1)
        PROVE  jumped' \subseteq Offsets
    <3>1. 1..(ResetOffset(policy) - 1) \subseteq Offsets
      BY <1>1, <1>4 DEF Offsets
    <3>2. QED
      BY <2>2, <3>1 DEF TypeOK
  <2>3. QED
    BY <2>1, <2>2 DEF Assign
<1>7. UNCHANGED <<log, committed, dlq, phase, batch, messages, decoding, envelopes, handling,
                  stage, tries, stops, handled, dropped>>
  BY DEF Assign, pipeVars, procVars
<1>8. /\ batch' \in [Members -> Seq(Records')] /\ messages' \in [Members -> Seq(Records')]
      /\ decoding' \in [Members -> Seq(Records')] /\ envelopes' \in [Members -> Seq(Records')]
      /\ handling' \in [Members -> Seq(Records')]
  BY <1>2, <1>7 DEF TypeOK
<1>9. /\ committed' \in 0..(Len(log') + 1) /\ owner' \in Members \cup {NoMember}
      /\ assigns' \in Nat /\ stops' \in 0..MaxStops
  BY <1>1, <1>5, <1>7 DEF TypeOK
<1>10. /\ dlq' \subseteq Offsets' /\ handled' \subseteq Offsets'
       /\ dropped' \subseteq Offsets' /\ jumped' \subseteq Offsets'
  BY <1>2, <1>6, <1>7 DEF TypeOK
<1>11. /\ position' \in [Members -> 0..(Len(log') + 1)]
       /\ head' \in [Members -> 0..(Len(log') + 1)]
       /\ acked' \in [Members -> 0..(Len(log') + 1)]
  BY <1>1, <1>5
<1>12. /\ log' \in Seq(BOOLEAN) /\ phase' \in [Members -> Phases]
       /\ stage' \in [Members -> Stages] /\ tries' \in [Members -> 0..MaxRetries]
       /\ \A m \in Members : /\ Len(handling'[m]) = IF stage'[m] = "idle" THEN 0 ELSE 1
                             /\ Len(decoding'[m]) <= 1
  <2>1. /\ log' = log /\ phase' = phase /\ stage' = stage /\ tries' = tries
        /\ handling' = handling /\ decoding' = decoding
    BY <1>1, <1>7
  <2>2. QED
    BY <2>1, Zenon DEF TypeOK
<1>13. QED
  BY <1>8, <1>9, <1>10, <1>11, <1>12, Zenon DEF TypeOK

(* Without a new record or assignment the records are the same.            *)
LEMMA RecordsStay ==
  ASSUME UNCHANGED <<log, assigns>>
  PROVE  Offsets' = Offsets /\ Records' = Records
BY DEF Offsets, Records

LEMMA GroupType ==
  ASSUME TypeOK, NEW p \in Members, Revoke(p) \/ AutoCommit(p)
  PROVE  TypeOK'
<1>1. UNCHANGED <<log, assigns>> /\ Len(log) \in Nat
  BY LenProperties DEF TypeOK, Revoke, AutoCommit
<1>2. 0 \in 0..(Len(log) + 1)
  BY <1>1
<1>3. CASE Revoke(p)
  BY <1>1, <1>2, <1>3, RecordsStay DEF TypeOK, Revoke, Forget, pipeVars, procVars, historyVars
<1>4. CASE AutoCommit(p)
  BY <1>1, <1>4, RecordsStay DEF TypeOK, AutoCommit, pipeVars, procVars, historyVars
<1>5. QED
  BY <1>3, <1>4

(* What is polled has the next offsets of the log.                         *)
LEMMA FetchedType ==
  ASSUME TypeOK, NEW p \in Members, position[p] > 0, NEW n \in Nat, position[p] + n - 1 <= Len(log)
  PROVE  /\ Fetched(p, n) \in Seq(Records) /\ Len(Fetched(p, n)) = n
         /\ \A i \in DOMAIN Fetched(p, n) :
               Fetched(p, n)[i] = [off |-> position[p] + i - 1, gen |-> assigns]
<1>1. Len(log) \in Nat /\ position[p] \in Nat /\ assigns \in Nat
  BY LenProperties DEF TypeOK
<1>2. \A i \in 1..n : [off |-> position[p] + i - 1, gen |-> assigns] \in Records
  BY <1>1 DEF Records, Offsets
<1>3. Fetched(p, n) \in [1..n -> Records]
  BY <1>2 DEF Fetched
<1>4. QED
  BY <1>3 DEF Fetched

LEMMA ReaderType ==
  ASSUME TypeOK, NEW p \in Members, Reader(p)
  PROVE  TypeOK'
<1>1. UNCHANGED <<log, committed, owner, assigns, dlq, head, acked, phase, decoding, envelopes,
                  handling, stage, tries, stops, handled, dropped, jumped>>
  BY DEF Reader, Poll, ReaderHandOver, kafkaVars, clientVars, procVars, historyVars
<1>2. ASSUME /\ position' \in [Members -> 0..(Len(log) + 1)]
             /\ batch' \in [Members -> Seq(Records)]
             /\ messages' \in [Members -> Seq(Records)]
      PROVE  TypeOK'
  BY <1>1, <1>2, RecordsStay DEF TypeOK
<1>3. CASE Poll(p)
  <2>1. PICK n \in 1..MaxPollRecords : /\ position[p] + n - 1 <= Len(log)
                                       /\ batch' = [batch EXCEPT ![p] = Fetched(p, n)]
                                       /\ position' = [position EXCEPT ![p] = @ + n]
    BY <1>3 DEF Poll
  <2>2. Fetched(p, n) \in Seq(Records)
    BY <1>3, <2>1, ConsumerAssumption, FetchedType DEF Poll
  <2>3. position[p] + n \in 0..(Len(log) + 1)
    <3>1. position[p] \in 0..(Len(log) + 1) /\ Len(log) \in Nat /\ n \in Nat
      BY <2>1, ConsumerAssumption, LenProperties DEF TypeOK
    <3>2. QED
      BY <2>1, <3>1
  <2>4. QED
    BY <1>2, <1>3, <2>1, <2>2, <2>3 DEF TypeOK, Poll
<1>4. CASE ReaderHandOver(p)
  <2>1. batch[p] \in Seq(Records) /\ messages[p] \in Seq(Records) /\ batch[p] # <<>>
    BY <1>4 DEF TypeOK, ReaderHandOver
  <2>2. Tail(batch[p]) \in Seq(Records) /\ Append(messages[p], Head(batch[p])) \in Seq(Records)
    BY <2>1, HeadTailProperties, AppendProperties
  <2>3. QED
    BY <1>2, <1>4, <2>2 DEF TypeOK, ReaderHandOver, clientVars
<1>5. QED
  BY <1>3, <1>4 DEF Reader

LEMMA SendToDLQType ==
  ASSUME TypeOK, NEW o \in Offsets, SendToDLQ(o)
  PROVE  dlq' \subseteq Offsets /\ dropped' \subseteq Offsets
BY DEF TypeOK, SendToDLQ

(* A sequence of at most one record.                                       *)
LEMMA AtMostOne ==
  ASSUME NEW q \in Seq(Records), Len(q) <= 1
  PROVE  /\ Len(q) \in {0, 1}
         /\ q # <<>> <=> Len(q) = 1
         /\ Len(q) = 1 => q[1] \in Records /\ q[1].off \in Offsets /\ q = <<q[1]>>
<1>1. Len(q) \in Nat /\ (q # <<>> => Len(q) # 0) /\ (q = <<>> => Len(q) = 0)
  BY LenProperties, EmptySeq
<1>2. ASSUME Len(q) = 1
      PROVE  q[1] \in Records /\ q = <<q[1]>>
  <2>1. q[1] \in Records
    <3>1. 1 \in 1..Len(q)
      BY <1>2
    <3>2. QED
      BY <3>1, ElementOfSeq
  <2>2. <<q[1]>> \in Seq(Records) /\ Len(<<q[1]>>) = 1 /\ <<q[1]>>[1] = q[1]
    BY <2>1
  <2>3. QED
    BY <1>2, <2>1, <2>2, SeqEqual
<1>3. q[1] \in Records => q[1].off \in Offsets
  BY DEF Records
<1>4. Len(q) \in {0, 1}
  BY <1>1
<1>5. q # <<>> <=> Len(q) = 1
  BY <1>1, <1>4
<1>6. QED
  BY <1>2, <1>3, <1>4, <1>5

(* The record in work is one of the log.                                   *)
LEMMA InWork ==
  ASSUME TypeOK, NEW p \in Members
  PROVE  /\ decoding[p] # <<>> => /\ decoding[p][1] \in Records /\ decoding[p][1].off \in Offsets
                                  /\ decoding[p] = <<decoding[p][1]>>
         /\ stage[p] # "idle" => /\ handling[p][1] \in Records /\ Current(p) \in Offsets
                                 /\ handling[p] = <<handling[p][1]>>
         /\ stage[p] = "idle" => handling[p] = <<>>
<1>1. decoding[p] \in Seq(Records) /\ Len(decoding[p]) <= 1
  BY DEF TypeOK
<1>2. handling[p] \in Seq(Records) /\ Len(handling[p]) = IF stage[p] = "idle" THEN 0 ELSE 1
  BY DEF TypeOK
<1>3. decoding[p] # <<>> => /\ decoding[p][1] \in Records /\ decoding[p][1].off \in Offsets
                            /\ decoding[p] = <<decoding[p][1]>>
  BY <1>1, AtMostOne
<1>4. stage[p] # "idle" => /\ handling[p][1] \in Records /\ handling[p][1].off \in Offsets
                           /\ handling[p] = <<handling[p][1]>>
  <2>1. (stage[p] # "idle" => Len(handling[p]) = 1) /\ Len(handling[p]) <= 1
    BY <1>2
  <2>2. QED
    BY <1>2, <2>1, AtMostOne
<1>5. stage[p] = "idle" => handling[p] = <<>>
  BY <1>2, AtMostOne
<1>6. QED
  BY <1>3, <1>4, <1>5 DEF Current

LEMMA DeserializerType ==
  ASSUME TypeOK, NEW p \in Members, MessageDeserializer(p)
  PROVE  TypeOK'
<1>1. UNCHANGED <<log, committed, owner, assigns, position, head, acked, phase, batch,
                  handling, stage, tries, stops, handled, jumped>>
  BY DEF MessageDeserializer, DeserializerTake, DeserializeFails, DeserializerSend, kafkaVars,
         clientVars, procVars, historyVars
<1>2. ASSUME /\ messages' \in [Members -> Seq(Records)]
             /\ decoding' \in [Members -> Seq(Records)] /\ Len(decoding'[p]) <= 1
             /\ \A q \in Members \ {p} : decoding'[q] = decoding[q]
             /\ envelopes' \in [Members -> Seq(Records)]
             /\ dlq' \subseteq Offsets /\ dropped' \subseteq Offsets
      PROVE  TypeOK'
  BY <1>1, <1>2, RecordsStay DEF TypeOK
<1>3. <<>> \in Seq(Records) /\ Len(<<>>) = 0
  BY EmptySeq
<1>4. CASE DeserializerTake(p)
  <2>1. messages[p] \in Seq(Records) /\ messages[p] # <<>>
    BY <1>4 DEF TypeOK, DeserializerTake
  <2>2. Tail(messages[p]) \in Seq(Records) /\ Head(messages[p]) \in Records
    BY <2>1, HeadTailProperties
  <2>3. <<Head(messages[p])>> \in Seq(Records) /\ Len(<<Head(messages[p])>>) = 1
    BY <2>2
  <2>4. /\ messages' \in [Members -> Seq(Records)]
        /\ decoding' \in [Members -> Seq(Records)] /\ Len(decoding'[p]) <= 1
        /\ \A q \in Members \ {p} : decoding'[q] = decoding[q]
        /\ envelopes' \in [Members -> Seq(Records)]
    <3>1. /\ messages' = [messages EXCEPT ![p] = Tail(@)]
          /\ decoding' = [decoding EXCEPT ![p] = <<Head(messages[p])>>]
          /\ envelopes' = envelopes
      BY <1>4 DEF DeserializerTake
    <3>2. /\ messages \in [Members -> Seq(Records)] /\ decoding \in [Members -> Seq(Records)]
          /\ envelopes \in [Members -> Seq(Records)]
      BY DEF TypeOK
    <3>3. QED
      BY <2>2, <2>3, <3>1, <3>2
  <2>5. dlq' \subseteq Offsets /\ dropped' \subseteq Offsets
    BY <1>4 DEF TypeOK, DeserializerTake, historyVars
  <2>6. QED
    BY <1>2, <2>4, <2>5
<1>5. CASE DeserializeFails(p)
  <2>1. dlq' \subseteq Offsets /\ dropped' \subseteq Offsets
    BY <1>5, InWork, SendToDLQType DEF DeserializeFails
  <2>2. /\ messages' \in [Members -> Seq(Records)]
        /\ decoding' \in [Members -> Seq(Records)] /\ Len(decoding'[p]) <= 1
        /\ \A q \in Members \ {p} : decoding'[q] = decoding[q]
        /\ envelopes' \in [Members -> Seq(Records)]
    BY <1>3, <1>5 DEF TypeOK, DeserializeFails
  <2>3. QED
    BY <1>2, <2>1, <2>2
<1>6. CASE DeserializerSend(p)
  <2>1. envelopes[p] \o decoding[p] \in Seq(Records)
    BY ConcatProperties DEF TypeOK
  <2>2. /\ messages' \in [Members -> Seq(Records)]
        /\ decoding' \in [Members -> Seq(Records)] /\ Len(decoding'[p]) <= 1
        /\ \A q \in Members \ {p} : decoding'[q] = decoding[q]
        /\ envelopes' \in [Members -> Seq(Records)]
    BY <1>3, <1>6, <2>1 DEF TypeOK, DeserializerSend
  <2>3. dlq' \subseteq Offsets /\ dropped' \subseteq Offsets
    BY <1>6 DEF TypeOK, DeserializerSend, historyVars
  <2>4. QED
    BY <1>2, <2>2, <2>3
<1>7. QED
  BY <1>4, <1>5, <1>6 DEF MessageDeserializer

LEMMA ProcessorType ==
  ASSUME TypeOK, NEW p \in Members, Processor(p)
  PROVE  TypeOK'
<1>1. UNCHANGED <<log, committed, owner, assigns, position, acked, phase, batch, messages,
                  decoding, stops, jumped>>
  BY DEF Processor, ProcessorTake, Attempt, AttemptEnds, AttemptRetried, AttemptFails, HandleError,
         HandleReturns, kafkaVars, clientVars, pipeVars, historyVars
<1>2. ASSUME /\ head' \in [Members -> 0..(Len(log) + 1)]
             /\ envelopes' \in [Members -> Seq(Records)]
             /\ handling' \in [Members -> Seq(Records)]
             /\ stage' \in [Members -> Stages]
             /\ Len(handling'[p]) = IF stage'[p] = "idle" THEN 0 ELSE 1
             /\ \A q \in Members \ {p} : handling'[q] = handling[q] /\ stage'[q] = stage[q]
             /\ tries' \in [Members -> 0..MaxRetries]
             /\ dlq' \subseteq Offsets /\ dropped' \subseteq Offsets /\ handled' \subseteq Offsets
      PROVE  TypeOK'
  BY <1>1, <1>2, RecordsStay DEF TypeOK
<1>3. CASE ProcessorTake(p)
  <2>1. envelopes[p] \in Seq(Records) /\ envelopes[p] # <<>>
    BY <1>3 DEF TypeOK, ProcessorTake
  <2>2. Tail(envelopes[p]) \in Seq(Records) /\ Head(envelopes[p]) \in Records
    BY <2>1, HeadTailProperties
  <2>3. <<Head(envelopes[p])>> \in Seq(Records) /\ Len(<<Head(envelopes[p])>>) = 1
    BY <2>2
  <2>4. /\ head' \in [Members -> 0..(Len(log) + 1)]
        /\ envelopes' \in [Members -> Seq(Records)]
        /\ handling' \in [Members -> Seq(Records)]
        /\ stage' \in [Members -> Stages]
        /\ Len(handling'[p]) = IF stage'[p] = "idle" THEN 0 ELSE 1
        /\ \A q \in Members \ {p} : handling'[q] = handling[q] /\ stage'[q] = stage[q]
        /\ tries' \in [Members -> 0..MaxRetries]
    <3>1. /\ handling' = [handling EXCEPT ![p] = <<Head(envelopes[p])>>]
          /\ envelopes' = [envelopes EXCEPT ![p] = Tail(@)]
          /\ stage' = [stage EXCEPT ![p] = "trying"] /\ tries' = [tries EXCEPT ![p] = 0]
          /\ head' = head
      BY <1>3 DEF ProcessorTake, clientVars
    <3>2. /\ head \in [Members -> 0..(Len(log) + 1)]
          /\ envelopes \in [Members -> Seq(Records)] /\ handling \in [Members -> Seq(Records)]
          /\ stage \in [Members -> Stages] /\ tries \in [Members -> 0..MaxRetries]
      BY DEF TypeOK
    <3>3. "trying" \in Stages /\ 0 \in 0..MaxRetries
      BY ConsumerAssumption DEF Stages
    <3>4. stage'[p] = "trying" /\ handling'[p] = <<Head(envelopes[p])>>
      BY <3>1, <3>2
    <3>5. QED
      BY <2>2, <2>3, <3>1, <3>2, <3>3, <3>4
  <2>5. /\ dlq' \subseteq Offsets /\ dropped' \subseteq Offsets /\ handled' \subseteq Offsets
    BY <1>3 DEF TypeOK, ProcessorTake, historyVars
  <2>6. QED
    BY <1>2, <2>4, <2>5
<1>4. CASE AttemptEnds(p)
  <2>1. Current(p) \in Offsets
    BY <1>4, InWork DEF AttemptEnds
  <2>2. QED
    BY <1>2, <1>4, <2>1 DEF TypeOK, AttemptEnds, clientVars, pipeVars, Stages
<1>5. CASE AttemptRetried(p)
  <2>1. tries[p] + 1 \in 0..MaxRetries
    <3>1. tries[p] \in 0..MaxRetries
      BY DEF TypeOK
    <3>2. QED
      BY <1>5, <3>1, ConsumerAssumption DEF AttemptRetried
  <2>2. /\ head' \in [Members -> 0..(Len(log) + 1)]
        /\ envelopes' \in [Members -> Seq(Records)]
        /\ handling' \in [Members -> Seq(Records)]
        /\ stage' \in [Members -> Stages]
        /\ Len(handling'[p]) = IF stage'[p] = "idle" THEN 0 ELSE 1
        /\ \A q \in Members \ {p} : handling'[q] = handling[q] /\ stage'[q] = stage[q]
        /\ tries' \in [Members -> 0..MaxRetries]
    BY <1>5, <2>1 DEF TypeOK, AttemptRetried, clientVars, pipeVars
  <2>3. /\ dlq' \subseteq Offsets /\ dropped' \subseteq Offsets /\ handled' \subseteq Offsets
    BY <1>5 DEF TypeOK, AttemptRetried, historyVars
  <2>4. QED
    BY <1>2, <2>2, <2>3
<1>6. CASE AttemptFails(p)
  BY <1>2, <1>6 DEF TypeOK, AttemptFails, clientVars, pipeVars, historyVars, Stages
<1>7. CASE HandleError(p)
  <2>1. dlq' \subseteq Offsets /\ dropped' \subseteq Offsets
    BY <1>7, InWork, SendToDLQType DEF HandleError
  <2>2. QED
    BY <1>2, <1>7, <2>1 DEF TypeOK, HandleError, clientVars, pipeVars, Stages
<1>8. CASE HandleReturns(p)
  <2>1. <<>> \in Seq(Records) /\ Len(<<>>) = 0
    BY EmptySeq
  <2>2. Current(p) \in 1..Len(log) /\ head[p] \in 0..(Len(log) + 1) /\ Len(log) \in Nat
    BY <1>8, InWork, LenProperties DEF TypeOK, HandleReturns, Offsets
  <2>3. Bigger(head[p], Current(p) + 1) \in 0..(Len(log) + 1)
    BY <2>2 DEF Bigger
  <2>4. head' \in [Members -> 0..(Len(log) + 1)]
    BY <1>8, <2>3 DEF TypeOK, HandleReturns, Mark
  <2>5. /\ head' \in [Members -> 0..(Len(log) + 1)]
        /\ envelopes' \in [Members -> Seq(Records)]
        /\ handling' \in [Members -> Seq(Records)]
        /\ stage' \in [Members -> Stages]
        /\ Len(handling'[p]) = IF stage'[p] = "idle" THEN 0 ELSE 1
        /\ \A q \in Members \ {p} : handling'[q] = handling[q] /\ stage'[q] = stage[q]
        /\ tries' \in [Members -> 0..MaxRetries]
    <3>1. handling' = [handling EXCEPT ![p] = <<>>] /\ stage' = [stage EXCEPT ![p] = "idle"]
      BY <1>8 DEF HandleReturns
    <3>2. handling' \in [Members -> Seq(Records)] /\ stage' \in [Members -> Stages]
      BY <2>1, <3>1 DEF TypeOK, Stages
    <3>3. handling'[p] = <<>> /\ stage'[p] = "idle"
          /\ \A q \in Members \ {p} : handling'[q] = handling[q] /\ stage'[q] = stage[q]
      BY <3>1 DEF TypeOK
    <3>4. envelopes' = envelopes /\ tries' = tries
      BY <1>8 DEF HandleReturns, pipeVars
    <3>5. envelopes' \in [Members -> Seq(Records)] /\ tries' \in [Members -> 0..MaxRetries]
      BY <3>4 DEF TypeOK
    <3>6. QED
      BY <2>1, <2>4, <3>2, <3>3, <3>5
  <2>6. /\ dlq' \subseteq Offsets /\ dropped' \subseteq Offsets /\ handled' \subseteq Offsets
    BY <1>8 DEF TypeOK, HandleReturns, historyVars
  <2>7. QED
    BY <1>2, <2>5, <2>6
<1>9. QED
  BY <1>3, <1>4, <1>5, <1>6, <1>7, <1>8 DEF Processor, Attempt

LEMMA DieType ==
  ASSUME TypeOK, NEW p \in Members, Die(p), stops' \in 0..MaxStops
  PROVE  TypeOK'
<1>1. <<>> \in Seq(Records) /\ Len(<<>>) = 0 /\ 0 \in 0..(Len(log) + 1)
  BY EmptySeq, LenProperties DEF TypeOK
<1>2. Offsets' = Offsets /\ Records' = Records
  BY RecordsStay DEF Die
<1>3. /\ log' \in Seq(BOOLEAN) /\ committed' \in 0..(Len(log') + 1) /\ assigns' \in Nat
      /\ owner' \in Members \cup {NoMember}
      /\ dlq' \subseteq Offsets' /\ handled' \subseteq Offsets'
      /\ dropped' \subseteq Offsets' /\ jumped' \subseteq Offsets'
  BY <1>2 DEF TypeOK, Die, Forget, historyVars
<1>4. /\ position' \in [Members -> 0..(Len(log') + 1)]
      /\ head' \in [Members -> 0..(Len(log') + 1)]
      /\ acked' \in [Members -> 0..(Len(log') + 1)]
  BY <1>1 DEF TypeOK, Die, Forget
<1>5. /\ batch' \in [Members -> Seq(Records)]
      /\ messages' \in [Members -> Seq(Records)]
      /\ decoding' \in [Members -> Seq(Records)]
      /\ envelopes' \in [Members -> Seq(Records)]
      /\ handling' \in [Members -> Seq(Records)]
  BY <1>1 DEF TypeOK, Die
<1>6. /\ phase' \in [Members -> Phases]
      /\ stage' \in [Members -> Stages]
      /\ tries' \in [Members -> 0..MaxRetries]
  <2>1. "down" \in Phases /\ "idle" \in Stages /\ 0 \in 0..MaxRetries
    BY ConsumerAssumption DEF Phases, Stages
  <2>2. QED
    BY <2>1 DEF TypeOK, Die
<1>7. \A q \in Members :
        /\ Len(handling'[q]) = IF stage'[q] = "idle" THEN 0 ELSE 1
        /\ Len(decoding'[q]) <= 1
  <2>1. handling'[p] = <<>> /\ stage'[p] = "idle" /\ decoding'[p] = <<>>
    BY DEF TypeOK, Die
  <2>2. \A q \in Members \ {p} :
           handling'[q] = handling[q] /\ stage'[q] = stage[q] /\ decoding'[q] = decoding[q]
    BY DEF TypeOK, Die
  <2>3. \A q \in Members :
           /\ Len(handling[q]) = IF stage[q] = "idle" THEN 0 ELSE 1
           /\ Len(decoding[q]) <= 1
    BY DEF TypeOK
  <2>4. QED
    BY <1>1, <2>1, <2>2, <2>3
<1>8. QED
  BY <1>2, <1>3, <1>4, <1>5, <1>6, <1>7 DEF TypeOK

LEMMA StopsBound ==
  ASSUME TypeOK
  PROVE  stops \in 0..MaxStops /\ (stops < MaxStops => stops + 1 \in 0..MaxStops)
<1>1. stops \in 0..MaxStops
  BY DEF TypeOK
<1>2. QED
  BY <1>1, ConsumerAssumption

LEMMA PhaseType ==
  ASSUME TypeOK, NEW p \in Members,
         BeginStop(p) \/ ProcessorExit(p) \/ DeserializerExit(p) \/ ReaderExit(p) \/ Restart(p)
  PROVE  TypeOK'
<1>1. UNCHANGED <<log, committed, owner, assigns, dlq, position, head, acked, messages, envelopes,
                  handling, stage, tries, handled, dropped, jumped>>
  BY DEF BeginStop, ProcessorExit, DeserializerExit, ReaderExit, Restart, kafkaVars, clientVars,
         pipeVars, procVars, historyVars
<1>2. <<>> \in Seq(Records) /\ Len(<<>>) = 0
  BY EmptySeq
<1>3. phase' \in [Members -> Phases]
  BY DEF TypeOK, BeginStop, ProcessorExit, DeserializerExit, ReaderExit, Restart, Phases
<1>4. batch' = batch \/ batch' = [batch EXCEPT ![p] = <<>>]
  BY DEF BeginStop, ProcessorExit, DeserializerExit, ReaderExit, Restart, pipeVars
<1>5. decoding' = decoding \/ decoding' = [decoding EXCEPT ![p] = <<>>]
  BY DEF BeginStop, ProcessorExit, DeserializerExit, ReaderExit, Restart, pipeVars
<1>6. /\ batch' \in [Members -> Seq(Records)]
      /\ decoding' \in [Members -> Seq(Records)]
      /\ \A q \in Members : Len(decoding'[q]) <= 1
  <2>1. batch' \in [Members -> Seq(Records)] /\ decoding' \in [Members -> Seq(Records)]
    <3>1. batch \in [Members -> Seq(Records)] /\ decoding \in [Members -> Seq(Records)]
      BY DEF TypeOK
    <3>2. QED
      BY <1>2, <1>4, <1>5, <3>1
  <2>2. \A q \in Members : decoding'[q] = decoding[q] \/ decoding'[q] = <<>>
    BY <1>5 DEF TypeOK
  <2>3. \A q \in Members : Len(decoding[q]) <= 1
    BY DEF TypeOK
  <2>4. \A q \in Members : Len(decoding'[q]) <= 1
    <3>1. ASSUME NEW q \in Members
          PROVE  Len(decoding'[q]) <= 1
      <4>1. CASE decoding'[q] = decoding[q]
        BY <2>3, <4>1
      <4>2. CASE decoding'[q] = <<>>
        BY <1>2, <4>2
      <4>3. QED
        BY <2>2, <4>1, <4>2
    <3>2. QED
      BY <3>1
  <2>5. QED
    BY <2>1, <2>4
<1>7. stops' \in 0..MaxStops
  BY StopsBound DEF BeginStop, ProcessorExit, DeserializerExit, ReaderExit, Restart
<1>8. QED
  BY <1>1, <1>3, <1>6, <1>7, RecordsStay DEF TypeOK

LEMMA DownType ==
  ASSUME TypeOK, NEW p \in Members, ClientClose(p) \/ Crash(p)
  PROVE  TypeOK'
<1>1. stops' \in 0..MaxStops
  BY StopsBound DEF ClientClose, Crash
<1>2. QED
  BY <1>1, DieType DEF ClientClose, Crash

LEMMA StepType == TypeOK /\ [Next]_vars => TypeOK'
<1> SUFFICES ASSUME TypeOK, [Next]_vars
             PROVE  TypeOK'
  OBVIOUS
<1>1. CASE UNCHANGED vars
  BY <1>1, RecordsStay DEF TypeOK, vars, kafkaVars, clientVars, pipeVars, procVars, historyVars
<1>2. ASSUME NEW ok \in BOOLEAN, Produce(ok)
      PROVE  TypeOK'
  BY <1>2, ProduceType
<1>3. ASSUME NEW p \in Members,
             \/ Assign(p) \/ Revoke(p) \/ AutoCommit(p)
             \/ Reader(p) \/ MessageDeserializer(p) \/ Processor(p)
             \/ BeginStop(p) \/ Stop(p) \/ Crash(p) \/ Restart(p)
      PROVE  TypeOK'
  BY <1>3, AssignType, GroupType, ReaderType, DeserializerType, ProcessorType, PhaseType, DownType
     DEF Stop
<1>4. QED
  BY <1>1, <1>2, <1>3 DEF Next

(* Every variable has the shape the code gives it; no channel, mark or     *)
(* commit holds an offset the partition does not have.                     *)
THEOREM TypeCorrect == Spec => []TypeOK
BY InitType, StepType, PTL DEF Spec
-----------------------------------------------------------------------------
(* The pipe.                                                               *)

LEMMA PartTypes ==
  ASSUME TypeOK, NEW p \in Members
  PROVE  /\ handling[p] \in Seq(AnyRecord) /\ envelopes[p] \in Seq(AnyRecord)
         /\ decoding[p] \in Seq(AnyRecord) /\ messages[p] \in Seq(AnyRecord)
         /\ batch[p] \in Seq(AnyRecord)
<1>1. Records \subseteq AnyRecord
  BY DEF TypeOK, Records, AnyRecord, Offsets
<1>2. \A q \in Seq(Records) : q \in Seq(AnyRecord)
  BY <1>1, SeqMonotonic
<1>3. QED
  BY <1>2 DEF TypeOK

LEMMA PipeType ==
  ASSUME TypeOK, NEW p \in Members
  PROVE  /\ Pipe(p) \in Seq(AnyRecord)
         /\ handling[p] \o envelopes[p] \in Seq(AnyRecord)
         /\ (handling[p] \o envelopes[p]) \o decoding[p] \in Seq(AnyRecord)
         /\ ((handling[p] \o envelopes[p]) \o decoding[p]) \o messages[p] \in Seq(AnyRecord)
         /\ Pipe(p) = (((handling[p] \o envelopes[p]) \o decoding[p]) \o messages[p]) \o batch[p]
<1>1. handling[p] \o envelopes[p] \in Seq(AnyRecord)
  BY PartTypes, ConcatProperties
<1>2. (handling[p] \o envelopes[p]) \o decoding[p] \in Seq(AnyRecord)
  BY <1>1, PartTypes, ConcatProperties
<1>3. ((handling[p] \o envelopes[p]) \o decoding[p]) \o messages[p] \in Seq(AnyRecord)
  BY <1>2, PartTypes, ConcatProperties
<1>4. (((handling[p] \o envelopes[p]) \o decoding[p]) \o messages[p]) \o batch[p] \in Seq(AnyRecord)
  BY <1>3, PartTypes, ConcatProperties
<1>5. QED
  BY <1>1, <1>2, <1>3, <1>4 DEF Pipe

(* The steps from one worker to the next keep the records in their order.  *)
LEMMA HandOverKeepsPipe ==
  ASSUME TypeOK, NEW p \in Members, ReaderHandOver(p)
  PROVE  Pipe(p)' = Pipe(p)
<1> DEFINE a == (handling[p] \o envelopes[p]) \o decoding[p]
<1>1. /\ batch[p] # <<>>
      /\ messages'[p] = Append(messages[p], Head(batch[p])) /\ batch'[p] = Tail(batch[p])
      /\ handling' = handling /\ envelopes' = envelopes /\ decoding' = decoding
  BY DEF TypeOK, ReaderHandOver, procVars
<1>2. Pipe(p)' = (a \o messages'[p]) \o batch'[p]
  BY <1>1 DEF Pipe
<1>3. (a \o Append(messages[p], Head(batch[p]))) \o Tail(batch[p]) = (a \o messages[p]) \o batch[p]
  <2>1. a \in Seq(AnyRecord) /\ messages[p] \in Seq(AnyRecord) /\ batch[p] \in Seq(AnyRecord)
    BY PartTypes, PipeType
  <2> HIDE DEF a
  <2>2. QED
    BY <1>1, <2>1, MoveHead
<1>4. QED
  BY <1>1, <1>2, <1>3 DEF Pipe

LEMMA DeserializerTakeKeepsPipe ==
  ASSUME TypeOK, NEW p \in Members, DeserializerTake(p)
  PROVE  Pipe(p)' = Pipe(p)
<1> DEFINE a == handling[p] \o envelopes[p]
<1>1. /\ messages[p] # <<>> /\ decoding[p] = <<>>
      /\ decoding'[p] = Append(<<>>, Head(messages[p])) /\ messages'[p] = Tail(messages[p])
      /\ handling' = handling /\ envelopes' = envelopes /\ batch' = batch
  BY AppendToEmpty DEF TypeOK, DeserializerTake, procVars
<1>2. Pipe(p)' = ((a \o decoding'[p]) \o messages'[p]) \o batch[p]
  BY <1>1 DEF Pipe
<1>3. (a \o Append(<<>>, Head(messages[p]))) \o Tail(messages[p]) = (a \o decoding[p]) \o messages[p]
  <2>1. a \in Seq(AnyRecord) /\ decoding[p] \in Seq(AnyRecord) /\ messages[p] \in Seq(AnyRecord)
    BY PartTypes, PipeType
  <2> HIDE DEF a
  <2>2. (a \o Append(decoding[p], Head(messages[p]))) \o Tail(messages[p])
          = (a \o decoding[p]) \o messages[p]
    BY <1>1, <2>1, MoveHead
  <2>3. QED
    BY <1>1, <2>2
<1>4. QED
  BY <1>1, <1>2, <1>3 DEF Pipe

LEMMA DeserializerSendKeepsPipe ==
  ASSUME TypeOK, NEW p \in Members, DeserializerSend(p)
  PROVE  Pipe(p)' = Pipe(p)
<1>1. /\ envelopes'[p] = envelopes[p] \o decoding[p] /\ decoding'[p] = <<>>
      /\ handling' = handling /\ messages' = messages /\ batch' = batch
  BY DEF TypeOK, DeserializerSend, procVars
<1>2. Pipe(p)' = ((handling[p] \o (envelopes[p] \o decoding[p])) \o <<>>) \o messages[p] \o batch[p]
  BY <1>1 DEF Pipe
<1>3. handling[p] \o (envelopes[p] \o decoding[p]) = (handling[p] \o envelopes[p]) \o decoding[p]
  <2>1. /\ handling[p] \in Seq(AnyRecord) /\ envelopes[p] \in Seq(AnyRecord)
        /\ decoding[p] \in Seq(AnyRecord)
    BY PartTypes
  <2>2. QED
    BY <2>1, Associative
<1>4. ((handling[p] \o envelopes[p]) \o decoding[p]) \o <<>>
        = (handling[p] \o envelopes[p]) \o decoding[p]
  BY PipeType, ConcatEmptySeq
<1>5. QED
  BY <1>2, <1>3, <1>4 DEF Pipe

LEMMA ProcessorTakeKeepsPipe ==
  ASSUME TypeOK, NEW p \in Members, ProcessorTake(p)
  PROVE  Pipe(p)' = Pipe(p)
<1>1. /\ envelopes[p] # <<>> /\ handling[p] = <<>>
      /\ handling'[p] = Append(<<>>, Head(envelopes[p])) /\ envelopes'[p] = Tail(envelopes[p])
      /\ decoding' = decoding /\ messages' = messages /\ batch' = batch
  BY AppendToEmpty, InWork DEF TypeOK, ProcessorTake
<1>2. (<<>> \o Append(<<>>, Head(envelopes[p]))) \o Tail(envelopes[p])
        = (<<>> \o handling[p]) \o envelopes[p]
  BY <1>1, PartTypes, MoveHead
<1>3. /\ <<>> \o handling[p] = handling[p]
      /\ <<>> \o Append(<<>>, Head(envelopes[p])) = Append(<<>>, Head(envelopes[p]))
  <2>1. <<>> \in Seq(AnyRecord) /\ Head(envelopes[p]) \in AnyRecord
    BY <1>1, PartTypes, HeadTailProperties
  <2>2. Append(<<>>, Head(envelopes[p])) \in Seq(AnyRecord)
    BY <2>1, AppendProperties
  <2>3. QED
    BY <2>2, PartTypes, ConcatEmptySeq
<1>4. handling'[p] \o envelopes'[p] = handling[p] \o envelopes[p]
  BY <1>1, <1>2, <1>3
<1>5. QED
  BY <1>1, <1>4 DEF Pipe
-----------------------------------------------------------------------------
(* What a step of one member leaves alone.                                 *)

SameMember(q) ==
    /\ phase'[q] = phase[q] /\ stage'[q] = stage[q]
    /\ position'[q] = position[q] /\ head'[q] = head[q]
    /\ handling'[q] = handling[q] /\ envelopes'[q] = envelopes[q] /\ decoding'[q] = decoding[q]
    /\ messages'[q] = messages[q] /\ batch'[q] = batch[q]

LogKept == \A o \in Offsets : log'[o] = log[o]

LEMMA PipeAfter ==
  ASSUME NEW p \in Members,
         ProcessorOn(p)' => /\ GapFree(Pipe(p)', Settled')
                            /\ Covered(Pipe(p)', Settled', position'[p]),
         Ascending(Pipe(p)'),
         position'[p] > 0 => owner' = p /\ Below(Pipe(p)', assigns', position'[p])
  PROVE  PipeInv(p)'
<1>1. PipeInv(p)' = /\ ProcessorOn(p)' => /\ GapFree(Pipe(p)', Settled')
                                          /\ Covered(Pipe(p)', Settled', position'[p])
                    /\ Ascending(Pipe(p)')
                    /\ position'[p] > 0 => owner' = p /\ Below(Pipe(p)', assigns', position'[p])
  BY DEF PipeInv, GapFree, Covered, Ascending, Below
<1>2. QED
  BY <1>1

LEMMA PipeKept ==
  ASSUME NEW p \in Members, PipeInv(p), Pipe(p)' = Pipe(p), position'[p] = position[p],
         ProcessorOn(p)' => ProcessorOn(p), Settled \subseteq Settled',
         position[p] > 0 => owner' = owner /\ assigns' = assigns
  PROVE  PipeInv(p)'
<1>1. /\ GapFree(Pipe(p), Settled) => GapFree(Pipe(p), Settled')
      /\ Covered(Pipe(p), Settled, position[p]) => Covered(Pipe(p), Settled', position[p])
  BY DEF GapFree, Covered
<1>2. ProcessorOn(p)' => GapFree(Pipe(p)', Settled') /\ Covered(Pipe(p)', Settled', position'[p])
  BY <1>1 DEF PipeInv
<1>3. Ascending(Pipe(p)')
  BY DEF PipeInv
<1>4. position'[p] > 0 => owner' = p /\ Below(Pipe(p)', assigns', position'[p])
  BY DEF PipeInv
<1>5. QED
  BY <1>2, <1>3, <1>4, PipeAfter

LEMMA DecodedKept ==
  ASSUME TypeOK, NEW p \in Members, Decoded(p), LogKept,
         envelopes'[p] = envelopes[p],
         stage'[p] # "idle" => stage[p] # "idle" /\ handling'[p] = handling[p]
  PROVE  Decoded(p)'
<1>1. \A i \in DOMAIN envelopes[p] : envelopes[p][i].off \in Offsets
  <2>1. envelopes[p] \in Seq(Records)
    BY DEF TypeOK
  <2>2. \A i \in DOMAIN envelopes[p] : envelopes[p][i] \in Records
    BY <2>1
  <2>3. QED
    BY <2>2 DEF Records
<1>2. stage[p] # "idle" => Current(p) \in Offsets
  BY InWork
<1>3. QED
  BY <1>1, <1>2 DEF Decoded, LogKept, Current

LEMMA Untouched ==
  ASSUME TypeOK, NEW p \in Members, MemberInv(p), SameMember(p),
         Settled \subseteq Settled', LogKept,
         position[p] > 0 => owner' = owner /\ assigns' = assigns
  PROVE  MemberInv(p)'
<1>1. Pipe(p)' = Pipe(p)
  BY DEF Pipe, SameMember
<1>2. PipeInv(p)'
  BY <1>1, PipeKept DEF MemberInv, SameMember, ProcessorOn
<1>3. Decoded(p)'
  BY DecodedKept DEF MemberInv, SameMember
<1>4. MarksSettled(p)' /\ Attended(p)'
  BY DEF MemberInv, SameMember, MarksSettled, Current, Attended, ProcessorOn
<1>5. phase'[p] = "down" => Empty(p)'
  BY DEF MemberInv, SameMember, Empty
<1>6. QED
  BY <1>2, <1>3, <1>4, <1>5 DEF MemberInv

LEMMA SettledStay ==
  ASSUME UNCHANGED <<dlq, handled, dropped, jumped>>
  PROVE  Settled' = Settled
BY DEF Settled

LEMMA MemberStep ==
  ASSUME IInv, TypeOK', NEW p \in Members, MemberInv(p)', LogKept, Settled \subseteq Settled',
         UNCHANGED committed,
         \A q \in Members \ {p} : SameMember(q),
         \A q \in Members \ {p} : position[q] > 0 => owner' = owner /\ assigns' = assigns
  PROVE  IInv'
<1>1. \A q \in Members \ {p} : MemberInv(q)'
  BY Untouched DEF IInv
<1>2. NothingSkipped'
  BY DEF IInv, NothingSkipped
<1>3. QED
  BY <1>1, <1>2 DEF IInv

(* The partition belongs to one member at a time.                          *)
LEMMA OneOwner ==
  ASSUME IInv, NEW p \in Members, NEW q \in Members \ {p}, position[q] > 0
  PROVE  owner = q /\ owner # p /\ owner # NoMember
BY ConsumerAssumption DEF IInv, MemberInv, PipeInv

LEMMA OthersFetchNothing ==
  ASSUME IInv, NEW p \in Members, owner \in {p, NoMember}
  PROVE  \A q \in Members \ {p} : position[q] = 0
<1> SUFFICES ASSUME NEW q \in Members \ {p}, position[q] # 0
             PROVE  FALSE
  OBVIOUS
<1>1. position[q] \in 0..(Len(log) + 1) /\ Len(log) \in Nat
  BY LenProperties DEF IInv, TypeOK
<1>2. position[q] > 0
  BY <1>1
<1>3. QED
  BY <1>2, OneOwner
-----------------------------------------------------------------------------
(* Kafka.                                                                  *)

LEMMA InitInv == Init => IInv
<1> SUFFICES ASSUME Init
             PROVE  IInv
  OBVIOUS
<1>1. NothingSkipped
  BY DEF Init, NothingSkipped
<1>2. ASSUME NEW p \in Members
      PROVE  MemberInv(p)
  <2>1. Pipe(p) = <<>>
    BY DEF Init, Pipe
  <2>2. PipeInv(p)
    BY <2>1 DEF Init, PipeInv, GapFree, Covered, Ascending, Below
  <2>3. Decoded(p) /\ Attended(p) /\ MarksSettled(p)
    BY DEF Init, Decoded, Attended, MarksSettled
  <2>4. QED
    BY <2>2, <2>3 DEF Init, MemberInv
<1>3. QED
  BY <1>1, <1>2, InitType DEF IInv

LEMMA ProduceStep ==
  ASSUME IInv, TypeOK', NEW ok \in BOOLEAN, Produce(ok)
  PROVE  IInv'
<1>1. LogKept
  BY AppendProperties DEF IInv, TypeOK, Produce, LogKept, Offsets
<1>2. Settled' = Settled
  BY SettledStay DEF Produce, historyVars
<1>3. \A p \in Members : SameMember(p)
  BY DEF Produce, SameMember, clientVars, pipeVars, procVars
<1>4. \A p \in Members : MemberInv(p)'
  BY <1>1, <1>2, <1>3, Untouched DEF IInv, Produce
<1>5. NothingSkipped'
  BY <1>2 DEF IInv, NothingSkipped, Produce
<1>6. QED
  BY <1>4, <1>5 DEF IInv

LEMMA AutoCommitStep ==
  ASSUME IInv, TypeOK', NEW p \in Members, AutoCommit(p)
  PROVE  IInv'
<1>1. LogKept /\ Settled' = Settled
  BY SettledStay DEF AutoCommit, LogKept, historyVars
<1>2. \A q \in Members : SameMember(q)
  BY DEF AutoCommit, SameMember, pipeVars, procVars
<1>3. \A q \in Members : MemberInv(q)'
  BY <1>1, <1>2, Untouched DEF IInv, AutoCommit
<1>4. NothingSkipped'
  BY <1>1 DEF IInv, NothingSkipped, AutoCommit, MemberInv, MarksSettled
<1>5. QED
  BY <1>3, <1>4 DEF IInv

(* What is in the channels of a member stays there when the partition is   *)
(* taken away.                                                             *)
LEMMA RevokeStep ==
  ASSUME IInv, TypeOK', NEW p \in Members, Revoke(p)
  PROVE  IInv'
<1>1. /\ position' = [position EXCEPT ![p] = 0] /\ head' = [head EXCEPT ![p] = 0]
      /\ UNCHANGED <<log, committed, assigns, dlq, phase, batch, messages, decoding, envelopes,
                     handling, stage, handled, dropped, jumped>>
  BY DEF Revoke, Forget, pipeVars, procVars, historyVars
<1>2. LogKept /\ Settled' = Settled
  BY <1>1, SettledStay DEF LogKept
<1>3. \A q \in Members \ {p} : SameMember(q)
  BY <1>1 DEF SameMember, IInv, TypeOK
<1>4. \A q \in Members \ {p} : position[q] = 0
  BY OthersFetchNothing DEF Revoke
<1>5. MemberInv(p)'
  <2>1. position'[p] = 0 /\ head'[p] = 0
    BY <1>1 DEF IInv, TypeOK
  <2>2. Pipe(p)' = Pipe(p)
    BY <1>1 DEF Pipe
  <2>3. /\ PipeInv(p) /\ Decoded(p) /\ Attended(p) /\ MarksSettled(p)
        /\ phase[p] = "down" => Empty(p)
    BY DEF IInv, MemberInv
  <2>4. PipeInv(p)'
    BY <1>1, <1>2, <2>1, <2>2, <2>3 DEF PipeInv, ProcessorOn, GapFree, Covered, Ascending
  <2>5. Decoded(p)' /\ Attended(p)' /\ MarksSettled(p)'
    BY <1>1, <1>2, <2>1, <2>3 DEF Decoded, Attended, ProcessorOn, MarksSettled, Current
  <2>6. phase'[p] = "down" => Empty(p)'
    BY <1>1, <2>1, <2>3 DEF Empty
  <2>7. QED
    BY <2>4, <2>5, <2>6 DEF MemberInv
<1>6. QED
  BY <1>1, <1>2, <1>3, <1>4, <1>5, MemberStep

(* The records of a member are of the assignments so far.                  *)
LEMMA PipeGens ==
  ASSUME TypeOK, NEW p \in Members
  PROVE  Pipe(p) \in Seq(Records) /\ \A i \in DOMAIN Pipe(p) : Pipe(p)[i].gen <= assigns
<1>1. /\ handling[p] \in Seq(Records) /\ envelopes[p] \in Seq(Records) /\ decoding[p] \in Seq(Records)
      /\ messages[p] \in Seq(Records) /\ batch[p] \in Seq(Records)
  BY DEF TypeOK
<1>2. handling[p] \o envelopes[p] \in Seq(Records)
  BY <1>1, ConcatProperties
<1>3. (handling[p] \o envelopes[p]) \o decoding[p] \in Seq(Records)
  BY <1>1, <1>2, ConcatProperties
<1>4. ((handling[p] \o envelopes[p]) \o decoding[p]) \o messages[p] \in Seq(Records)
  BY <1>1, <1>3, ConcatProperties
<1>5. Pipe(p) \in Seq(Records)
  BY <1>1, <1>4, ConcatProperties DEF Pipe
<1>6. \A i \in DOMAIN Pipe(p) : Pipe(p)[i] \in Records
  BY <1>5
<1>7. QED
  BY <1>5, <1>6 DEF Records, TypeOK

(* A member starts where the group has committed, with nothing undecided   *)
(* before it, and what it still has is of older assignments.               *)
LEMMA AssignStep ==
  ASSUME IInv, TypeOK', NEW p \in Members, Assign(p)
  PROVE  IInv'
<1>1. /\ owner = NoMember /\ owner' = p /\ assigns' = assigns + 1
      /\ UNCHANGED <<log, committed, dlq, phase, batch, messages, decoding, envelopes,
                     handling, stage, handled, dropped>>
  BY DEF Assign, StartAt, pipeVars, procVars
<1>2. phase[p] # "down"
  BY DEF Assign, Joined
<1>3. LogKept /\ Settled \subseteq Settled'
  BY <1>1 DEF LogKept, Assign, Settled
<1>4. \A q \in Members \ {p} : SameMember(q)
  BY <1>1 DEF SameMember, IInv, TypeOK, Assign, StartAt
<1>5. \A q \in Members \ {p} : position[q] = 0
  BY <1>1, OthersFetchNothing
<1>6. head'[p] = committed
  BY DEF Assign, StartAt, IInv, TypeOK
<1>7. \A o \in 1..(committed - 1) : o \in Settled'
  BY <1>3 DEF IInv, NothingSkipped
<1>8. \A o \in 1..(position'[p] - 1) : o \in Settled'
  <2>1. CASE position' = [position EXCEPT ![p] = committed]
    BY <1>7, <2>1 DEF IInv, TypeOK
  <2>2. ASSUME NEW policy, position' = [position EXCEPT ![p] = ResetOffset(policy)],
               jumped' = jumped \cup 1..(ResetOffset(policy) - 1)
        PROVE  \A o \in 1..(position'[p] - 1) : o \in Settled'
    BY <2>2 DEF IInv, TypeOK, Settled
  <2>3. QED
    BY <2>1, <2>2 DEF Assign, StartAt
<1>9. MemberInv(p)'
  <2>1. PipeInv(p) /\ Decoded(p) /\ Attended(p) /\ MarksSettled(p)
    BY DEF IInv, MemberInv
  <2>2. Pipe(p)' = Pipe(p)
    BY <1>1 DEF Pipe
  <2>3. ProcessorOn(p)' => GapFree(Pipe(p), Settled') /\ Covered(Pipe(p), Settled', position'[p])
    BY <1>1, <1>3, <1>8, <2>1 DEF PipeInv, ProcessorOn, GapFree, Covered
  <2>4. Below(Pipe(p), assigns', position'[p])
    <3>1. \A i \in DOMAIN Pipe(p) : Pipe(p)[i].gen \in Nat /\ Pipe(p)[i].gen <= assigns
      <4>1. Pipe(p) \in Seq(Records) /\ \A i \in DOMAIN Pipe(p) : Pipe(p)[i].gen <= assigns
        BY PipeGens DEF IInv
      <4>2. \A i \in DOMAIN Pipe(p) : Pipe(p)[i] \in Records
        BY <4>1
      <4>3. QED
        BY <4>1, <4>2 DEF Records, IInv, TypeOK
    <3>2. assigns \in Nat
      BY DEF IInv, TypeOK
    <3>3. QED
      BY <1>1, <3>1, <3>2 DEF Below
  <2>5. PipeInv(p)'
    BY <1>1, <2>1, <2>2, <2>3, <2>4 DEF PipeInv, GapFree, Covered, Ascending, Below
  <2>6. Decoded(p)' /\ Attended(p)' /\ MarksSettled(p)'
    BY <1>1, <1>3, <1>6, <1>7, <2>1 DEF Decoded, Attended, ProcessorOn, MarksSettled, Current
  <2>7. QED
    BY <1>1, <1>2, <2>5, <2>6 DEF MemberInv
<1>10. QED
  BY <1>1, <1>3, <1>4, <1>5, <1>9, MemberStep
-----------------------------------------------------------------------------
(* The workers.                                                            *)

(* A record goes from one worker to the next, or is tried once more.       *)
LEMMA MoveStep ==
  ASSUME IInv, TypeOK', NEW p \in Members, Pipe(p)' = Pipe(p), Decoded(p)', Attended(p)',
         stage'[p] = "mark" => handling'[p] = handling[p] /\ Current(p) \in Settled',
         phase[p] # "down", Settled \subseteq Settled',
         UNCHANGED <<log, committed, owner, assigns, position, head, phase>>,
         \A q \in Members \ {p} : SameMember(q)
  PROVE  IInv'
<1>1. LogKept
  BY DEF LogKept
<1>2. PipeInv(p) /\ MarksSettled(p)
  BY DEF IInv, MemberInv
<1>3. PipeInv(p)'
  BY <1>2, PipeKept DEF ProcessorOn
<1>4. MarksSettled(p)'
  BY <1>2 DEF MarksSettled, Current
<1>5. MemberInv(p)'
  BY <1>3, <1>4 DEF MemberInv
<1>6. QED
  BY <1>1, <1>5, MemberStep

LEMMA PollStep ==
  ASSUME IInv, TypeOK', NEW p \in Members, Poll(p)
  PROVE  IInv'
<1>1. PICK n \in 1..MaxPollRecords :
         /\ position[p] + n - 1 <= Len(log)
         /\ batch' = [batch EXCEPT ![p] = Fetched(p, n)]
         /\ position' = [position EXCEPT ![p] = @ + n]
  BY DEF Poll
<1>2. /\ batch[p] = <<>> /\ position[p] > 0 /\ ReaderOn(p)
      /\ UNCHANGED <<log, committed, owner, assigns, dlq, head, phase, messages, decoding,
                     envelopes, handling, stage, handled, dropped, jumped>>
  BY DEF Poll, kafkaVars, procVars, historyVars
<1>3. LogKept /\ Settled' = Settled
  BY <1>2, SettledStay DEF LogKept
<1>4. \A q \in Members \ {p} : SameMember(q)
  BY <1>1, <1>2 DEF SameMember, IInv, TypeOK
<1> DEFINE P == ((handling[p] \o envelopes[p]) \o decoding[p]) \o messages[p]
           F == Fetched(p, n)
<1>5. n \in Nat /\ position[p] \in Nat /\ assigns \in Nat
  BY ConsumerAssumption, LenProperties DEF IInv, TypeOK
<1>6. /\ F \in Seq(Records) /\ Len(F) = n
      /\ \A i \in DOMAIN F : F[i] = [off |-> position[p] + i - 1, gen |-> assigns]
  BY <1>1, <1>2, <1>5, FetchedType DEF IInv
<1>7. P \in Seq(AnyRecord) /\ F \in Seq(AnyRecord)
  <2>1. F \in Seq(AnyRecord)
    <3>1. Records \subseteq AnyRecord
      BY DEF IInv, TypeOK, Records, AnyRecord, Offsets
    <3>2. \A q \in Seq(Records) : q \in Seq(AnyRecord)
      BY <3>1, SeqMonotonic
    <3>3. QED
      BY <1>6, <3>2
  <2>2. QED
    BY <2>1, PipeType DEF IInv
<1>8. Pipe(p) = P /\ Pipe(p)' = P \o F
  <2>1. P \o <<>> = P
    BY <1>7, ConcatEmptySeq
  <2>2. batch'[p] = F
    BY <1>1 DEF IInv, TypeOK
  <2>3. QED
    BY <1>2, <2>1, <2>2 DEF Pipe
<1>9. position'[p] = position[p] + n
  BY <1>1 DEF IInv, TypeOK
<1>10. PipeInv(p) /\ Decoded(p) /\ Attended(p) /\ MarksSettled(p)
  BY DEF IInv, MemberInv
<1> HIDE DEF P, F
<1>11. /\ GapFree(P, Settled) /\ Covered(P, Settled, position[p]) =>
             GapFree(P \o F, Settled) /\ Covered(P \o F, Settled, position[p] + n)
       /\ Ascending(P) /\ Below(P, assigns, position[p]) =>
             Ascending(P \o F) /\ Below(P \o F, assigns, position[p] + n)
  BY <1>5, <1>6, <1>7, Extended
<1>12. PipeInv(p)'
  <2>1. /\ ProcessorOn(p) => GapFree(P \o F, Settled) /\ Covered(P \o F, Settled, position[p] + n)
        /\ Ascending(P \o F) /\ owner = p /\ Below(P \o F, assigns, position[p] + n)
    BY <1>2, <1>8, <1>10, <1>11 DEF PipeInv
  <2>2. QED
    BY <1>2, <1>3, <1>8, <1>9, <2>1, PipeAfter DEF ProcessorOn
<1>13. Decoded(p)' /\ Attended(p)' /\ MarksSettled(p)'
  BY <1>2, <1>3, <1>10 DEF Decoded, Attended, ProcessorOn, MarksSettled, Current
<1>14. MemberInv(p)'
  BY <1>2, <1>12, <1>13 DEF MemberInv, ReaderOn
<1>15. QED
  BY <1>2, <1>3, <1>4, <1>14, MemberStep

LEMMA HandOverStep ==
  ASSUME IInv, TypeOK', NEW p \in Members, ReaderHandOver(p)
  PROVE  IInv'
<1>1. UNCHANGED <<log, committed, owner, assigns, dlq, position, head, phase, decoding, envelopes,
                  handling, stage, handled, dropped, jumped>>
  BY DEF ReaderHandOver, kafkaVars, clientVars, procVars, historyVars
<1>2. \A q \in Members \ {p} : SameMember(q)
  BY <1>1 DEF SameMember, IInv, TypeOK, ReaderHandOver
<1>3. Pipe(p)' = Pipe(p)
  BY HandOverKeepsPipe DEF IInv
<1>4. Decoded(p)' /\ Attended(p)'
  BY <1>1 DEF IInv, MemberInv, Decoded, Attended, ProcessorOn, Current
<1>5. Settled' = Settled
  BY <1>1, SettledStay
<1>6. stage'[p] = "mark" => handling'[p] = handling[p] /\ Current(p) \in Settled'
  BY <1>1, <1>5 DEF IInv, MemberInv, MarksSettled
<1>7. QED
  BY <1>1, <1>2, <1>3, <1>4, <1>5, <1>6, MoveStep DEF ReaderHandOver, ReaderOn

LEMMA DeserializerTakeStep ==
  ASSUME IInv, TypeOK', NEW p \in Members, DeserializerTake(p)
  PROVE  IInv'
<1>1. UNCHANGED <<log, committed, owner, assigns, dlq, position, head, phase, batch, envelopes,
                  handling, stage, handled, dropped, jumped>>
  BY DEF DeserializerTake, kafkaVars, clientVars, procVars, historyVars
<1>2. \A q \in Members \ {p} : SameMember(q)
  BY <1>1 DEF SameMember, IInv, TypeOK, DeserializerTake
<1>3. Pipe(p)' = Pipe(p)
  BY DeserializerTakeKeepsPipe DEF IInv
<1>4. Decoded(p)' /\ Attended(p)'
  BY <1>1 DEF IInv, MemberInv, Decoded, Attended, ProcessorOn, Current
<1>5. Settled' = Settled
  BY <1>1, SettledStay
<1>6. stage'[p] = "mark" => handling'[p] = handling[p] /\ Current(p) \in Settled'
  BY <1>1, <1>5 DEF IInv, MemberInv, MarksSettled
<1>7. QED
  BY <1>1, <1>2, <1>3, <1>4, <1>5, <1>6, MoveStep DEF DeserializerTake, DeserializerOn

LEMMA DeserializerSendStep ==
  ASSUME IInv, TypeOK', NEW p \in Members, DeserializerSend(p)
  PROVE  IInv'
<1>1. UNCHANGED <<log, committed, owner, assigns, dlq, position, head, phase, batch, messages,
                  handling, stage, handled, dropped, jumped>>
  BY DEF DeserializerSend, kafkaVars, clientVars, procVars, historyVars
<1>2. \A q \in Members \ {p} : SameMember(q)
  BY <1>1 DEF SameMember, IInv, TypeOK, DeserializerSend
<1>3. Pipe(p)' = Pipe(p)
  BY DeserializerSendKeepsPipe DEF IInv
<1>4. /\ envelopes'[p] = envelopes[p] \o decoding[p]
      /\ decoding[p] # <<>> /\ log[decoding[p][1].off]
  BY DEF IInv, TypeOK, DeserializerSend
<1>5. \A i \in DOMAIN envelopes'[p] : log[envelopes'[p][i].off]
  <2>1. /\ envelopes[p] \in Seq(AnyRecord) /\ decoding[p] \in Seq(AnyRecord)
        /\ Len(decoding[p]) <= 1
    BY PartTypes DEF IInv, TypeOK
  <2>2. Len(decoding[p]) = 1
    BY <1>4, AtMostOne DEF IInv, TypeOK
  <2>3. /\ DOMAIN envelopes[p] = 1..Len(envelopes[p]) /\ Len(envelopes[p]) \in Nat
        /\ DOMAIN envelopes'[p] = 1..(Len(envelopes[p]) + 1)
        /\ \A i \in DOMAIN envelopes[p] : envelopes'[p][i] = envelopes[p][i]
        /\ envelopes'[p][Len(envelopes[p]) + 1] = decoding[p][1]
    <3> DEFINE s == envelopes[p]
               t == decoding[p]
    <3>1. s \in Seq(AnyRecord) /\ t \in Seq(AnyRecord) /\ Len(t) = 1
      BY <2>1, <2>2
    <3> HIDE DEF s, t
    <3>2. /\ DOMAIN s = 1..Len(s) /\ DOMAIN (s \o t) = 1..(Len(s) + 1) /\ Len(s) \in Nat
          /\ \A i \in DOMAIN s : (s \o t)[i] = s[i]
          /\ (s \o t)[Len(s) + 1] = t[1]
      BY <3>1, AddedAtTheEnd
    <3>3. QED
      BY <1>4, <3>2 DEF s, t
  <2>4. \A i \in DOMAIN envelopes[p] : log[envelopes[p][i].off]
    BY DEF IInv, MemberInv, Decoded
  <2>5. \A i \in DOMAIN envelopes'[p] : i \in DOMAIN envelopes[p] \/ i = Len(envelopes[p]) + 1
    BY <2>3
  <2>6. QED
    BY <1>4, <2>3, <2>4, <2>5
<1>6. Decoded(p)' /\ Attended(p)'
  BY <1>1, <1>5 DEF IInv, MemberInv, Decoded, Attended, ProcessorOn, Current
<1>7. Settled' = Settled
  BY <1>1, SettledStay
<1>8. stage'[p] = "mark" => handling'[p] = handling[p] /\ Current(p) \in Settled'
  BY <1>1, <1>7 DEF IInv, MemberInv, MarksSettled
<1>9. phase[p] # "down"
  BY <1>4 DEF IInv, MemberInv, Empty
<1>10. QED
  BY <1>1, <1>2, <1>3, <1>6, <1>7, <1>8, <1>9, MoveStep

LEMMA ProcessorTakeStep ==
  ASSUME IInv, TypeOK', NEW p \in Members, ProcessorTake(p)
  PROVE  IInv'
<1>1. UNCHANGED <<log, committed, owner, assigns, dlq, position, head, phase, batch, messages,
                  decoding, handled, dropped, jumped>>
  BY DEF ProcessorTake, kafkaVars, clientVars, historyVars
<1>2. \A q \in Members \ {p} : SameMember(q)
  BY <1>1 DEF SameMember, IInv, TypeOK, ProcessorTake
<1>3. Pipe(p)' = Pipe(p)
  BY ProcessorTakeKeepsPipe DEF IInv
<1>4. /\ ProcessorOn(p) /\ envelopes[p] # <<>> /\ stage'[p] = "trying"
      /\ handling'[p] = <<Head(envelopes[p])>> /\ envelopes'[p] = Tail(envelopes[p])
  BY DEF IInv, TypeOK, ProcessorTake
<1>5. \A i \in DOMAIN envelopes[p] : log[envelopes[p][i].off]
  BY DEF IInv, MemberInv, Decoded
<1>6. /\ envelopes[p] \in Seq(AnyRecord) /\ Len(envelopes[p]) \in Nat
      /\ DOMAIN envelopes[p] = 1..Len(envelopes[p])
      /\ Head(envelopes[p]) = envelopes[p][1] /\ 1 \in DOMAIN envelopes[p]
      /\ DOMAIN Tail(envelopes[p]) = 1..(Len(envelopes[p]) - 1)
      /\ \A i \in 1..(Len(envelopes[p]) - 1) : Tail(envelopes[p])[i] = envelopes[p][i + 1]
  <2>1. envelopes[p] \in Seq(AnyRecord)
    BY PartTypes DEF IInv
  <2>2. Len(envelopes[p]) \in Nat /\ DOMAIN envelopes[p] = 1..Len(envelopes[p])
    BY <2>1, LenProperties
  <2>3. Len(envelopes[p]) # 0
    BY <1>4, <2>1, EmptySeq
  <2>4. QED
    BY <1>4, <2>1, <2>2, <2>3, HeadTailProperties, LenProperties
<1>7. \A i \in DOMAIN envelopes'[p] : log[envelopes'[p][i].off]
  <2>1. \A i \in 1..(Len(envelopes[p]) - 1) : i + 1 \in DOMAIN envelopes[p]
    BY <1>6
  <2>2. QED
    BY <1>4, <1>5, <1>6, <2>1
<1>8. Current(p)' = Head(envelopes[p]).off
  BY <1>4 DEF Current
<1>9. Decoded(p)' /\ Attended(p)'
  BY <1>1, <1>4, <1>5, <1>6, <1>7, <1>8 DEF Decoded, Attended, ProcessorOn
<1>10. Settled' = Settled
  BY <1>1, SettledStay
<1>11. QED
  BY <1>1, <1>2, <1>3, <1>4, <1>9, <1>10, MoveStep DEF ProcessorOn

(* An attempt ends, or the error of the last one is dealt with.            *)
LEMMA AttemptStep ==
  ASSUME IInv, TypeOK', NEW p \in Members, Attempt(p) \/ HandleError(p)
  PROVE  IInv'
<1>1. UNCHANGED <<log, committed, owner, assigns, position, head, phase, batch, messages,
                  decoding, envelopes, handling, jumped>>
  BY DEF Attempt, AttemptEnds, AttemptRetried, AttemptFails, HandleError, kafkaVars, clientVars,
         pipeVars, historyVars
<1>2. stage[p] # "idle" /\ (stage' = stage \/ \E x : stage' = [stage EXCEPT ![p] = x])
  BY DEF Attempt, AttemptEnds, AttemptRetried, AttemptFails, HandleError
<1>3. \A q \in Members \ {p} : SameMember(q)
  BY <1>1, <1>2 DEF SameMember, IInv, TypeOK
<1>4. Pipe(p)' = Pipe(p)
  BY <1>1 DEF Pipe
<1>5. Decoded(p)' /\ Attended(p)'
  BY <1>1, <1>2 DEF IInv, MemberInv, Decoded, Attended, ProcessorOn, Current
<1>6. Settled \subseteq Settled' /\ (stage'[p] = "mark" => Current(p) \in Settled')
  <2>1. CASE AttemptEnds(p)
    BY <2>1 DEF AttemptEnds, Settled
  <2>2. CASE AttemptRetried(p) \/ AttemptFails(p)
    <3>1. Settled' = Settled /\ stage'[p] # "mark"
      BY <2>2, SettledStay DEF AttemptRetried, AttemptFails, historyVars, IInv, TypeOK
    <3>2. QED
      BY <3>1
  <2>3. CASE HandleError(p)
    BY <2>3 DEF HandleError, SendToDLQ, Settled
  <2>4. QED
    BY <2>1, <2>2, <2>3 DEF Attempt
<1>7. phase[p] # "down"
  BY <1>2 DEF IInv, MemberInv, Empty
<1>8. QED
  BY <1>1, <1>3, <1>4, <1>5, <1>6, <1>7, MoveStep

(* A record leaves the pipe.                                               *)
LEMMA RemovedFromPipe ==
  ASSUME IInv, NEW p \in Members,
         NEW a \in Seq(AnyRecord), NEW r \in AnyRecord, NEW b \in Seq(AnyRecord),
         Pipe(p) = (a \o <<r>>) \o b, Pipe(p)' = a \o b,
         ProcessorOn(p)' => ProcessorOn(p) /\ r.off \in Settled',
         Settled \subseteq Settled', UNCHANGED <<owner, assigns, position>>
  PROVE  PipeInv(p)'
<1>1. position[p] \in Nat
  BY LenProperties DEF IInv, TypeOK
<1>2. PipeInv(p)
  BY DEF IInv, MemberInv
<1> DEFINE P == (a \o <<r>>) \o b
           Q == a \o b
<1>3. /\ GapFree(P, Settled) /\ r.off \in Settled' => GapFree(Q, Settled')
      /\ Covered(P, Settled, position[p]) /\ r.off \in Settled' => Covered(Q, Settled', position[p])
      /\ Ascending(P) => Ascending(Q)
      /\ Below(P, assigns, position[p]) => Below(Q, assigns, position[p])
  <2>1. ASSUME NEW S, NEW T, S \subseteq T, NEW g, NEW pos \in Nat
        PROVE  /\ GapFree(P, S) /\ r.off \in T => GapFree(Q, T)
               /\ Covered(P, S, pos) /\ r.off \in T => Covered(Q, T, pos)
               /\ Ascending(P) => Ascending(Q)
               /\ Below(P, g, pos) => Below(Q, g, pos)
    BY <2>1, Removed, Zenon
  <2> HIDE DEF P, Q
  <2>2. QED
    BY <1>1, <2>1
<1> HIDE DEF P, Q
<1>4. Pipe(p) = P /\ Pipe(p)' = Q
  BY DEF P, Q
<1>5. ProcessorOn(p)' => GapFree(Q, Settled') /\ Covered(Q, Settled', position'[p])
  BY <1>2, <1>3, <1>4 DEF PipeInv
<1>6. Ascending(Q) /\ (position'[p] > 0 => owner' = p /\ Below(Q, assigns', position'[p]))
  BY <1>2, <1>3, <1>4 DEF PipeInv
<1>7. QED
  BY <1>4, <1>5, <1>6, PipeAfter

(* The record in the deserializer is dropped.                              *)
LEMMA DecodingDropped ==
  ASSUME IInv, NEW p \in Members, decoding[p] # <<>>, decoding'[p] = <<>>,
         UNCHANGED <<handling, envelopes, messages, batch, owner, assigns, position>>,
         ProcessorOn(p)' => ProcessorOn(p) /\ decoding[p][1].off \in Settled',
         Settled \subseteq Settled'
  PROVE  PipeInv(p)'
<1> DEFINE a == handling[p] \o envelopes[p]
           b == messages[p] \o batch[p]
           r == decoding[p][1]
<1>1. TypeOK
  BY DEF IInv
<1>2. /\ a \in Seq(AnyRecord) /\ messages[p] \in Seq(AnyRecord) /\ batch[p] \in Seq(AnyRecord)
      /\ b \in Seq(AnyRecord)
  BY <1>1, PipeType, PartTypes, ConcatProperties
<1>3. decoding[p] = <<r>> /\ r \in AnyRecord
  <2>1. decoding[p] = <<decoding[p][1]>> /\ decoding[p][1] \in Records
    BY <1>1, InWork
  <2>2. Records \subseteq AnyRecord
    BY <1>1 DEF TypeOK, Records, AnyRecord, Offsets
  <2>3. QED
    BY <2>1, <2>2
<1>4. Pipe(p) = ((a \o decoding[p]) \o messages[p]) \o batch[p]
  BY DEF Pipe
<1>5. Pipe(p)' = ((a \o <<>>) \o messages[p]) \o batch[p]
  BY DEF Pipe
<1> HIDE DEF a, r
<1>6. <<r>> \in Seq(AnyRecord) /\ a \o <<r>> \in Seq(AnyRecord)
  BY <1>2, <1>3, ConcatProperties
<1>7. \A s \in Seq(AnyRecord) : (s \o messages[p]) \o batch[p] = s \o b
  <2> DEFINE m == messages[p]
             t == batch[p]
  <2>1. m \in Seq(AnyRecord) /\ t \in Seq(AnyRecord) /\ b = m \o t
    BY <1>2
  <2> HIDE DEF m, t, b
  <2>2. \A s \in Seq(AnyRecord) : (s \o m) \o t = s \o (m \o t)
    BY <2>1, Associative
  <2>3. QED
    BY <2>1, <2>2 DEF m, t
<1>8. /\ ((a \o <<r>>) \o messages[p]) \o batch[p] = (a \o <<r>>) \o b
      /\ (a \o messages[p]) \o batch[p] = a \o b
  BY <1>2, <1>6, <1>7
<1>9. a \o <<>> = a
  BY <1>2, ConcatEmptySeq
<1>10. Pipe(p) = (a \o <<r>>) \o b /\ Pipe(p)' = a \o b
  BY <1>3, <1>4, <1>5, <1>8, <1>9
<1>11. ProcessorOn(p)' => ProcessorOn(p) /\ r.off \in Settled'
  BY DEF r
<1> HIDE DEF b
<1>12. QED
  BY <1>2, <1>3, <1>10, <1>11, RemovedFromPipe

LEMMA DeserializeFailsStep ==
  ASSUME IInv, TypeOK', NEW p \in Members, DeserializeFails(p)
  PROVE  IInv'
<1>1. UNCHANGED <<log, committed, owner, assigns, position, head, phase, batch, messages, envelopes,
                  handling, stage, handled, jumped>>
  BY DEF DeserializeFails, kafkaVars, clientVars, procVars
<1>2. \A q \in Members \ {p} : SameMember(q)
  BY <1>1 DEF SameMember, IInv, TypeOK, DeserializeFails
<1>3. Settled \subseteq Settled' /\ decoding[p][1].off \in Settled'
  BY DEF DeserializeFails, SendToDLQ, Settled
<1>4. decoding[p] # <<>> /\ decoding'[p] = <<>>
  BY DEF DeserializeFails, IInv, TypeOK
<1>5. PipeInv(p)'
  BY <1>1, <1>3, <1>4, DecodingDropped DEF ProcessorOn
<1>6. Decoded(p)' /\ Attended(p)' /\ MarksSettled(p)' /\ phase'[p] # "down"
  BY <1>1, <1>3, <1>4
     DEF IInv, MemberInv, Empty, Decoded, Attended, ProcessorOn, MarksSettled, Current
<1>7. MemberInv(p)'
  BY <1>5, <1>6 DEF MemberInv
<1>8. LogKept
  BY <1>1 DEF LogKept
<1>9. QED
  BY <1>1, <1>2, <1>3, <1>7, <1>8, MemberStep

(* In front of the record in work everything is decided about.             *)
LEMMA SettledBeforeCurrent ==
  ASSUME IInv, NEW p \in Members, ProcessorOn(p), NEW r \in AnyRecord, NEW b \in Seq(AnyRecord),
         Pipe(p) = <<r>> \o b
  PROVE  \A o \in 1..(r.off - 1) : o \in Settled
<1>1. GapFree(Pipe(p), Settled)
  BY DEF IInv, MemberInv, PipeInv
<1>2. 1 \in DOMAIN Pipe(p) /\ Pipe(p)[1] = r
  <2>1. <<r>> \in Seq(AnyRecord) /\ Len(<<r>>) = 1 /\ <<r>>[1] = r
    OBVIOUS
  <2>2. /\ <<r>> \o b \in Seq(AnyRecord)
        /\ Len(<<r>> \o b) = Len(<<r>>) + Len(b) /\ Len(b) \in Nat
        /\ \A i \in 1..(Len(<<r>>) + Len(b)) :
              (<<r>> \o b)[i] = IF i <= Len(<<r>>) THEN <<r>>[i] ELSE b[i - Len(<<r>>)]
    BY <2>1, ConcatProperties, LenProperties
  <2>3. DOMAIN (<<r>> \o b) = 1..(1 + Len(b))
    BY <2>1, <2>2, LenProperties
  <2>4. QED
    BY <2>1, <2>2, <2>3
<1>3. QED
  BY <1>1, <1>2 DEF GapFree

(* The record in work is the first of the pipe.                            *)
LEMMA WorkFirst ==
  ASSUME TypeOK, NEW p \in Members, NEW b,
         b = ((envelopes[p] \o decoding[p]) \o messages[p]) \o batch[p],
         stage[p] # "idle"
  PROVE  /\ b \in Seq(AnyRecord) /\ handling[p][1] \in AnyRecord
         /\ Pipe(p) = <<handling[p][1]>> \o b
<1> DEFINE r == handling[p][1]
           e == envelopes[p]
           d == decoding[p]
           m == messages[p]
           t == batch[p]
<1>1. handling[p] = <<r>> /\ r \in AnyRecord
  <2>1. handling[p] = <<r>> /\ r \in Records
    BY InWork
  <2>2. Records \subseteq AnyRecord
    BY DEF TypeOK, Records, AnyRecord, Offsets
  <2>3. QED
    BY <2>1, <2>2
<1>2. /\ e \in Seq(AnyRecord) /\ d \in Seq(AnyRecord) /\ m \in Seq(AnyRecord)
      /\ t \in Seq(AnyRecord) /\ <<r>> \in Seq(AnyRecord)
  BY <1>1, PartTypes
<1>3. Pipe(p) = (((<<r>> \o e) \o d) \o m) \o t
  BY <1>1 DEF Pipe
<1> HIDE DEF r, e, d, m, t
<1> DEFINE f == e \o d
           k == f \o m
<1>4. f \in Seq(AnyRecord) /\ k \in Seq(AnyRecord)
  <2>1. f \in Seq(AnyRecord)
    BY <1>2, ConcatProperties
  <2> HIDE DEF f
  <2>2. QED
    BY <1>2, <2>1, ConcatProperties
<1>5. (<<r>> \o e) \o d = <<r>> \o f
  BY <1>2, Associative
<1> HIDE DEF f
<1>6. (<<r>> \o f) \o m = <<r>> \o k
  BY <1>2, <1>4, Associative
<1> HIDE DEF k
<1>7. (<<r>> \o k) \o t = <<r>> \o (k \o t) /\ k \o t \in Seq(AnyRecord)
  BY <1>2, <1>4, Associative, ConcatProperties
<1>8. Pipe(p) = <<r>> \o (k \o t)
  BY <1>3, <1>5, <1>6, <1>7
<1>9. b = k \o t
  BY DEF e, d, m, t, f, k
<1>10. QED
  BY <1>1, <1>7, <1>8, <1>9 DEF r

(* A record is marked only when all before it is decided about.            *)
LEMMA HandleReturnsStep ==
  ASSUME IInv, TypeOK', NEW p \in Members, HandleReturns(p)
  PROVE  IInv'
<1> DEFINE b == ((envelopes[p] \o decoding[p]) \o messages[p]) \o batch[p]
           r == handling[p][1]
<1>1. /\ stage[p] = "mark" /\ stage'[p] = "idle" /\ handling'[p] = <<>>
      /\ UNCHANGED <<log, committed, owner, assigns, dlq, position, phase, batch, messages,
                     decoding, envelopes, handled, dropped, jumped>>
  BY DEF HandleReturns, kafkaVars, pipeVars, historyVars, IInv, TypeOK
<1>2. \A q \in Members \ {p} : SameMember(q)
  BY <1>1 DEF SameMember, IInv, TypeOK, HandleReturns, Mark
<1>3. Settled' = Settled /\ LogKept
  BY <1>1, SettledStay DEF LogKept
<1>4. b \in Seq(AnyRecord) /\ r \in AnyRecord /\ Pipe(p) = <<r>> \o b
  BY <1>1, WorkFirst DEF IInv
<1>5. Pipe(p)' = b
  <2>1. envelopes[p] \in Seq(AnyRecord)
    BY PartTypes DEF IInv
  <2>2. <<>> \o envelopes[p] = envelopes[p]
    BY <2>1, ConcatEmptySeq
  <2>3. QED
    BY <1>1, <2>2 DEF Pipe
<1>6. ProcessorOn(p) /\ r.off \in Settled
  BY <1>1 DEF IInv, MemberInv, Attended, MarksSettled, Current
<1> HIDE DEF b, r
<1>7. PipeInv(p)'
  <2>1. /\ <<>> \in Seq(AnyRecord) /\ <<r>> \in Seq(AnyRecord)
        /\ <<>> \o <<r>> = <<r>> /\ <<>> \o b = b
    BY <1>4, EmptySeq, ConcatEmptySeq
  <2>2. Pipe(p) = (<<>> \o <<r>>) \o b /\ Pipe(p)' = <<>> \o b
    BY <1>4, <1>5, <2>1
  <2>3. QED
    BY <1>1, <1>3, <1>4, <1>6, <2>1, <2>2, RemovedFromPipe DEF ProcessorOn
<1>8. \A o \in 1..(head'[p] - 1) : o \in Settled'
  <2>1. \A o \in 1..(r.off - 1) : o \in Settled
    BY <1>4, <1>6, SettledBeforeCurrent
  <2>2. \A o \in 1..(head[p] - 1) : o \in Settled
    BY DEF IInv, MemberInv, MarksSettled
  <2>3. head'[p] = Bigger(head[p], r.off + 1)
    BY DEF HandleReturns, Mark, Current, r, IInv, TypeOK
  <2>4. r.off \in Nat
    BY <1>4 DEF AnyRecord
  <2>5. \A o \in 1..r.off : o \in Settled
    <3>1. \A o \in 1..r.off : o = r.off \/ o \in 1..(r.off - 1)
      BY <2>4
    <3>2. QED
      BY <1>6, <2>1, <3>1
  <2>6. QED
    BY <1>3, <2>2, <2>3, <2>4, <2>5 DEF Bigger
<1>9. Decoded(p)' /\ Attended(p)' /\ MarksSettled(p)' /\ phase'[p] # "down"
  BY <1>1, <1>6, <1>8 DEF IInv, MemberInv, Decoded, Attended, ProcessorOn, MarksSettled
<1>10. MemberInv(p)'
  BY <1>7, <1>9 DEF MemberInv
<1>11. QED
  BY <1>1, <1>2, <1>3, <1>10, MemberStep
-----------------------------------------------------------------------------
(* Shutdown, crash and restart.                                            *)

LEMMA StopStep ==
  ASSUME IInv, TypeOK', NEW p \in Members, BeginStop(p) \/ ProcessorExit(p)
  PROVE  IInv'
<1>1. UNCHANGED <<log, committed, owner, assigns, dlq, position, head, batch, messages, decoding,
                  envelopes, handling, stage, handled, dropped, jumped>>
  BY DEF BeginStop, ProcessorExit, kafkaVars, clientVars, pipeVars, procVars, historyVars
<1>2. \A q \in Members \ {p} : SameMember(q)
  BY <1>1 DEF SameMember, IInv, TypeOK, BeginStop, ProcessorExit
<1>3. LogKept /\ Settled' = Settled
  BY <1>1, SettledStay DEF LogKept
<1>4. /\ ProcessorOn(p)' => ProcessorOn(p)
      /\ stage[p] # "idle" /\ ProcessorOn(p) => ProcessorOn(p)'
      /\ phase'[p] # "down"
  BY DEF IInv, TypeOK, BeginStop, ProcessorExit, ProcessorOn
<1>5. Pipe(p)' = Pipe(p)
  BY <1>1 DEF Pipe
<1>6. PipeInv(p)'
  BY <1>1, <1>3, <1>4, <1>5, PipeKept DEF IInv, MemberInv
<1>7. Decoded(p)' /\ Attended(p)' /\ MarksSettled(p)'
  BY <1>1, <1>3, <1>4 DEF IInv, MemberInv, Decoded, Attended, MarksSettled, Current
<1>8. MemberInv(p)'
  BY <1>4, <1>6, <1>7 DEF MemberInv
<1>9. QED
  BY <1>1, <1>2, <1>3, <1>8, MemberStep

LEMMA DeserializerExitStep ==
  ASSUME IInv, TypeOK', NEW p \in Members, DeserializerExit(p)
  PROVE  IInv'
<1>1. UNCHANGED <<log, committed, owner, assigns, dlq, position, head, batch, messages,
                  envelopes, handling, stage, handled, dropped, jumped>>
  BY DEF DeserializerExit, kafkaVars, clientVars, procVars, historyVars
<1>2. \A q \in Members \ {p} : SameMember(q)
  BY <1>1 DEF SameMember, IInv, TypeOK, DeserializerExit
<1>3. LogKept /\ Settled' = Settled
  BY <1>1, SettledStay DEF LogKept
<1>4. /\ decoding'[p] = <<>> /\ ~ProcessorOn(p) /\ ~ProcessorOn(p)' /\ phase'[p] # "down"
  BY DEF IInv, TypeOK, DeserializerExit, ProcessorOn
<1>5. PipeInv(p)'
  <2>1. CASE decoding[p] = <<>>
    <3>1. Pipe(p)' = Pipe(p)
      BY <1>1, <1>4, <2>1 DEF Pipe
    <3>2. QED
      BY <1>1, <1>3, <1>4, <3>1, PipeKept DEF IInv, MemberInv
  <2>2. CASE decoding[p] # <<>>
    BY <1>1, <1>3, <1>4, <2>2, DecodingDropped
  <2>3. QED
    BY <2>1, <2>2
<1>6. Decoded(p)' /\ Attended(p)' /\ MarksSettled(p)'
  BY <1>1, <1>3, <1>4 DEF IInv, MemberInv, Decoded, Attended, MarksSettled, Current
<1>7. MemberInv(p)'
  BY <1>4, <1>5, <1>6 DEF MemberInv
<1>8. QED
  BY <1>1, <1>2, <1>3, <1>7, MemberStep

LEMMA ReaderExitStep ==
  ASSUME IInv, TypeOK', NEW p \in Members, ReaderExit(p)
  PROVE  IInv'
<1>1. UNCHANGED <<log, committed, owner, assigns, dlq, position, head, messages, decoding,
                  envelopes, handling, stage, handled, dropped, jumped>>
  BY DEF ReaderExit, kafkaVars, clientVars, procVars, historyVars
<1>2. \A q \in Members \ {p} : SameMember(q)
  BY <1>1 DEF SameMember, IInv, TypeOK, ReaderExit
<1>3. LogKept /\ Settled' = Settled
  BY <1>1, SettledStay DEF LogKept
<1>4. batch'[p] = <<>> /\ ~ProcessorOn(p) /\ ~ProcessorOn(p)' /\ phase'[p] # "down"
  BY DEF IInv, TypeOK, ReaderExit, ProcessorOn
<1>5. PipeInv(p)'
  <2> DEFINE P == ((handling[p] \o envelopes[p]) \o decoding[p]) \o messages[p]
             b == batch[p]
             g == assigns
             pos == position[p]
  <2>1. P \in Seq(AnyRecord) /\ b \in Seq(AnyRecord) /\ Pipe(p) = P \o b
    BY PartTypes, PipeType DEF IInv
  <2>2. Pipe(p)' = P \o <<>>
    BY <1>1, <1>4 DEF Pipe
  <2>3. PipeInv(p)
    BY DEF IInv, MemberInv
  <2> HIDE DEF P, b, g, pos
  <2>4. P \o <<>> = P
    BY <2>1, ConcatEmptySeq
  <2>5. /\ Ascending(P \o b) => Ascending(P)
        /\ Below(P \o b, g, pos) => Below(P, g, pos)
    BY <2>1, Cut
  <2>6. Ascending(P) /\ (pos > 0 => owner = p /\ Below(P, g, pos))
    BY <2>1, <2>3, <2>5 DEF PipeInv, g, pos
  <2>7. Pipe(p)' = P
    BY <2>2, <2>4
  <2>8. Ascending(Pipe(p)')
    BY <2>6, <2>7
  <2>9. position'[p] > 0 => owner' = p /\ Below(Pipe(p)', assigns', position'[p])
    BY <1>1, <2>6, <2>7 DEF g, pos
  <2>10. QED
    BY <1>4, <2>8, <2>9, PipeAfter
<1>6. Decoded(p)' /\ Attended(p)' /\ MarksSettled(p)'
  BY <1>1, <1>3, <1>4 DEF IInv, MemberInv, Decoded, Attended, MarksSettled, Current
<1>7. MemberInv(p)'
  BY <1>4, <1>5, <1>6 DEF MemberInv
<1>8. QED
  BY <1>1, <1>2, <1>3, <1>7, MemberStep

(* A member that holds nothing starts with an empty pipe.                  *)
LEMMA EmptyPipe ==
  ASSUME NEW p \in Members, Pipe(p)' = <<>>, position'[p] = 0
  PROVE  PipeInv(p)'
<1>1. GapFree(<<>>, Settled') /\ Ascending(<<>>)
  BY NothingInEmpty
<1>2. Covered(<<>>, Settled', 0)
  BY DEF Covered
<1>3. QED
  BY <1>1, <1>2, PipeAfter

LEMMA RestartStep ==
  ASSUME IInv, TypeOK', NEW p \in Members, Restart(p)
  PROVE  IInv'
<1>1. UNCHANGED <<log, committed, owner, assigns, dlq, position, head, batch, messages, decoding,
                  envelopes, handling, stage, handled, dropped, jumped>>
  BY DEF Restart, kafkaVars, clientVars, pipeVars, procVars, historyVars
<1>2. \A q \in Members \ {p} : SameMember(q)
  BY <1>1 DEF SameMember, IInv, TypeOK, Restart
<1>3. LogKept /\ Settled' = Settled
  BY <1>1, SettledStay DEF LogKept
<1>4. Empty(p) /\ phase'[p] = "running"
  BY DEF IInv, TypeOK, MemberInv, Restart
<1>5. handling[p] = <<>>
  BY <1>4, InWork DEF IInv, Empty
<1>6. Pipe(p)' = <<>> /\ position'[p] = 0
  BY <1>1, <1>4, <1>5 DEF Pipe, Empty
<1>7. PipeInv(p)'
  BY <1>6, EmptyPipe
<1>8. Decoded(p)' /\ Attended(p)' /\ MarksSettled(p)'
  BY <1>1, <1>3, <1>4 DEF IInv, MemberInv, Decoded, Attended, MarksSettled, Current, Empty
<1>9. MemberInv(p)'
  BY <1>4, <1>7, <1>8 DEF MemberInv
<1>10. QED
  BY <1>1, <1>2, <1>3, <1>9, MemberStep

(* A process that is gone leaves nothing behind but the settled records.   *)
LEMMA DieStep ==
  ASSUME IInv, TypeOK', NEW p \in Members, Die(p)
  PROVE  IInv'
<1>1. UNCHANGED <<log, committed, assigns, dlq, handled, dropped, jumped>>
  BY DEF Die, historyVars
<1>2. /\ owner' = (IF owner = p THEN NoMember ELSE owner)
      /\ position'[p] = 0 /\ head'[p] = 0 /\ phase'[p] = "down" /\ stage'[p] = "idle"
      /\ batch'[p] = <<>> /\ messages'[p] = <<>> /\ decoding'[p] = <<>>
      /\ envelopes'[p] = <<>> /\ handling'[p] = <<>>
  BY DEF Die, Forget, IInv, TypeOK
<1>3. \A q \in Members \ {p} : SameMember(q)
  BY DEF SameMember, IInv, TypeOK, Die, Forget
<1>4. LogKept /\ Settled' = Settled
  BY <1>1, SettledStay DEF LogKept
<1>5. \A q \in Members \ {p} : position[q] > 0 => owner' = owner /\ assigns' = assigns
  BY <1>1, <1>2, OneOwner
<1>6. Pipe(p)' = <<>>
  BY <1>2 DEF Pipe
<1>7. PipeInv(p)'
  BY <1>2, <1>6, EmptyPipe
<1>8. Decoded(p)' /\ Attended(p)' /\ MarksSettled(p)' /\ Empty(p)'
  BY <1>2 DEF Decoded, Attended, MarksSettled, Empty
<1>9. MemberInv(p)'
  BY <1>7, <1>8 DEF MemberInv
<1>10. QED
  BY <1>1, <1>3, <1>4, <1>5, <1>9, MemberStep
-----------------------------------------------------------------------------
(* The safety of the specification.                                        *)

LEMMA NextInv == IInv /\ [Next]_vars => IInv'
<1> SUFFICES ASSUME IInv, [Next]_vars
             PROVE  IInv'
  OBVIOUS
<1>1. TypeOK'
  BY StepType DEF IInv
<1>2. CASE UNCHANGED vars
  <2>1. UNCHANGED <<log, committed, owner, assigns, dlq, position, head, phase, batch, messages,
                    decoding, envelopes, handling, stage, handled, dropped, jumped>>
    BY <1>2 DEF vars, kafkaVars, clientVars, pipeVars, procVars, historyVars
  <2>2. Settled' = Settled /\ LogKept /\ \A p \in Members : SameMember(p)
    BY <2>1, SettledStay DEF LogKept, SameMember
  <2>3. \A p \in Members : MemberInv(p)'
    BY <2>1, <2>2, Untouched DEF IInv
  <2>4. NothingSkipped'
    BY <2>1, <2>2 DEF IInv, NothingSkipped
  <2>5. QED
    BY <1>1, <2>3, <2>4 DEF IInv
<1>3. ASSUME NEW ok \in BOOLEAN, Produce(ok)
      PROVE  IInv'
  BY <1>1, <1>3, ProduceStep
<1>4. ASSUME NEW p \in Members, Assign(p) \/ Revoke(p) \/ AutoCommit(p)
      PROVE  IInv'
  BY <1>1, <1>4, AssignStep, RevokeStep, AutoCommitStep
<1>5. ASSUME NEW p \in Members, Reader(p) \/ MessageDeserializer(p)
      PROVE  IInv'
  BY <1>1, <1>5, PollStep, HandOverStep, DeserializerTakeStep, DeserializeFailsStep,
     DeserializerSendStep DEF Reader, MessageDeserializer
<1>6. ASSUME NEW p \in Members, Processor(p)
      PROVE  IInv'
  BY <1>1, <1>6, ProcessorTakeStep, AttemptStep, HandleReturnsStep DEF Processor
<1>7. ASSUME NEW p \in Members, BeginStop(p) \/ Stop(p) \/ Crash(p) \/ Restart(p)
      PROVE  IInv'
  BY <1>1, <1>7, StopStep, DeserializerExitStep, ReaderExitStep, RestartStep, DieStep
     DEF Stop, ClientClose, Crash
<1>8. QED
  BY <1>2, <1>3, <1>4, <1>5, <1>6, <1>7 DEF Next

(* The inductive invariant: the pipe of each member, from the handler back *)
(* to the position it fetches at, holds every record that nothing was      *)
(* decided about, in order, and no mark or commit is ahead of a decision.  *)
THEOREM Invariance == Spec => []IInv
BY InitInv, NextInv, PTL DEF Spec

(* No committed offset passes a record that was neither handled nor sent   *)
(* to the DLQ nor given up, whatever the rebalances, stops and crashes.    *)
THEOREM NoRecordSkipped == Spec => []NothingSkipped
<1>1. IInv => NothingSkipped
  BY DEF IInv
<1>2. QED
  BY <1>1, Invariance, PTL

(* The records of one assignment reach the handler in their order.         *)
THEOREM InOrder == Spec => []HandledInOrder
<1>1. IInv => HandledInOrder
  BY DEF IInv, MemberInv, PipeInv, Ascending, HandledInOrder
<1>2. QED
  BY <1>1, Invariance, PTL
-----------------------------------------------------------------------------
(* The promise to the handler (Delivery).                                  *)

(* What the handlers see of a step that none of them takes part in.        *)
LEMMA HandledKept ==
  ASSUME \A q \in Members : stage'[q] = "idle" <=> stage[q] = "idle",
         \A q \in Members : stage[q] # "idle" => handling'[q] = handling[q]
  PROVE  Handled' = Handled
BY DEF Handled, Current

LEMMA PromiseStutters ==
  ASSUME UNCHANGED <<log, committed>>, Handled' = Handled, Settled' = Settled
  PROVE  [Promise!Next]_(Promise!vars)
BY DEF Promise!vars

(* What they see of a step of p.                                           *)
LEMMA HandledStep ==
  ASSUME TypeOK, NEW p \in Members, NEW x,
         \A q \in Members \ {p} : stage'[q] = stage[q] /\ handling'[q] = handling[q],
         x = IF stage'[p] = "idle" THEN 0 ELSE Current(p)'
  PROVE  /\ Handled' = [Handled EXCEPT ![p] = x]
         /\ Handled[p] = IF stage[p] = "idle" THEN 0 ELSE Current(p)
BY DEF Handled, Current

LEMMA ProducePromised ==
  ASSUME IInv, NEW ok \in BOOLEAN, Produce(ok)
  PROVE  [Promise!Next]_(Promise!vars)
<1>1. Handled' = Handled
  BY HandledKept DEF Produce, procVars
<1>2. Settled' = Settled
  BY SettledStay DEF Produce, historyVars
<1>3. Promise!Produce(ok)
  BY <1>1, <1>2 DEF Produce, Promise!Produce
<1>4. QED
  BY <1>3 DEF Promise!Next

LEMMA AssignPromised ==
  ASSUME IInv, NEW p \in Members, Assign(p)
  PROVE  [Promise!Next]_(Promise!vars)
<1>1. UNCHANGED <<log, committed, handled, dlq, dropped>> /\ Handled' = Handled
  BY HandledKept DEF Assign, procVars
<1>2. CASE jumped' = jumped
  BY <1>1, <1>2, SettledStay, PromiseStutters
<1>3. ASSUME NEW policy, committed = 0, jumped' = jumped \cup 1..(ResetOffset(policy) - 1)
      PROVE  [Promise!Next]_(Promise!vars)
  <2>1. Len(log) \in Nat /\ DOMAIN log = 1..Len(log)
    BY LenProperties DEF IInv, TypeOK
  <2>2. CASE policy = "earliest"
    <3>1. jumped' = jumped
      BY <1>3, <2>2 DEF ResetOffset
    <3>2. QED
      BY <1>1, <3>1, SettledStay, PromiseStutters
  <2>3. CASE policy # "earliest"
    <3>1. jumped' = jumped \cup DOMAIN log
      BY <1>3, <2>1, <2>3 DEF ResetOffset
    <3>2. Promise!Jump
      BY <1>1, <1>3, <3>1 DEF Promise!Jump, Settled
    <3>3. QED
      BY <3>2 DEF Promise!Next
  <2>4. QED
    BY <2>2, <2>3
<1>4. QED
  BY <1>2, <1>3 DEF Assign

LEMMA AutoCommitPromised ==
  ASSUME IInv, NEW p \in Members, AutoCommit(p)
  PROVE  [Promise!Next]_(Promise!vars)
<1>1. Handled' = Handled
  BY HandledKept DEF AutoCommit, procVars
<1>2. Settled' = Settled
  BY SettledStay DEF AutoCommit, historyVars
<1>3. head[p] \in 1..(Len(log) + 1)
  <2>1. head[p] \in 0..(Len(log) + 1) /\ acked[p] \in 0..(Len(log) + 1) /\ Len(log) \in Nat
    BY LenProperties DEF IInv, TypeOK
  <2>2. QED
    BY <2>1 DEF AutoCommit
<1>4. 1..(head[p] - 1) \subseteq Settled
  BY DEF IInv, MemberInv, MarksSettled
<1>5. Promise!Commit(head[p])
  BY <1>1, <1>2, <1>4 DEF AutoCommit, Promise!Commit, Promise!SettledBefore
<1>6. QED
  BY <1>3, <1>5 DEF Promise!Next

(* The records in the channels are not the handler's business.             *)
LEMMA OthersPromised ==
  ASSUME IInv, NEW p \in Members,
         \/ Revoke(p) \/ Reader(p) \/ DeserializerTake(p) \/ DeserializerSend(p)
         \/ AttemptRetried(p) \/ AttemptFails(p)
         \/ BeginStop(p) \/ ProcessorExit(p) \/ DeserializerExit(p) \/ ReaderExit(p) \/ Restart(p)
  PROVE  [Promise!Next]_(Promise!vars)
<1>1. UNCHANGED <<log, committed, dlq, handled, dropped, jumped>>
  BY DEF Revoke, Reader, Poll, ReaderHandOver, DeserializerTake, DeserializerSend, AttemptRetried,
         AttemptFails, BeginStop, ProcessorExit, DeserializerExit, ReaderExit, Restart, kafkaVars,
         historyVars
<1>2. Handled' = Handled
  <2>1. handling' = handling
    BY DEF Revoke, Reader, Poll, ReaderHandOver, DeserializerTake, DeserializerSend, AttemptRetried,
           AttemptFails, BeginStop, ProcessorExit, DeserializerExit, ReaderExit, Restart, procVars
  <2>2. stage' = stage \/ (stage[p] = "trying" /\ stage' = [stage EXCEPT ![p] = "dead"])
    BY DEF Revoke, Reader, Poll, ReaderHandOver, DeserializerTake, DeserializerSend, AttemptRetried,
           AttemptFails, BeginStop, ProcessorExit, DeserializerExit, ReaderExit, Restart, procVars
  <2>3. QED
    BY <2>1, <2>2, HandledKept DEF IInv, TypeOK
<1>3. QED
  BY <1>1, <1>2, SettledStay, PromiseStutters

LEMMA DeserializeFailsPromised ==
  ASSUME IInv, NEW p \in Members, DeserializeFails(p)
  PROVE  [Promise!Next]_(Promise!vars)
<1> DEFINE o == decoding[p][1].off
<1>1. o \in DOMAIN log
  BY InWork, LenProperties DEF DeserializeFails, IInv, TypeOK, Offsets
<1>2. Handled' = Handled
  BY HandledKept DEF DeserializeFails, procVars
<1>3. Settled' = Settled \cup {o}
  BY DEF DeserializeFails, SendToDLQ, Settled
<1>4. UNCHANGED <<log, committed>> /\ ~log[o]
  BY DEF DeserializeFails, kafkaVars
<1> HIDE DEF o
<1>5. Promise!Reject(o)
  BY <1>2, <1>3, <1>4 DEF Promise!Reject
<1>6. QED
  BY <1>1, <1>5 DEF Promise!Next

(* What a Processor works on, in terms of the promise.                     *)
WorkDue ==
    \A p \in Members : stage[p] # "idle" =>
        /\ Current(p) \in DOMAIN log /\ log[Current(p)]
        /\ \A o \in 1..(Current(p) - 1) : o \in Settled

LEMMA WorkInOrder == IInv => WorkDue
<1> SUFFICES ASSUME IInv, NEW p \in Members, stage[p] # "idle"
             PROVE  /\ Current(p) \in DOMAIN log /\ log[Current(p)]
                    /\ \A o \in 1..(Current(p) - 1) : o \in Settled
  BY DEF WorkDue
<1>1. Current(p) \in DOMAIN log
  <2>1. DOMAIN log = 1..Len(log)
    BY LenProperties DEF IInv, TypeOK
  <2>2. Current(p) \in Offsets
    BY InWork DEF IInv
  <2>3. QED
    BY <2>1, <2>2 DEF Offsets
<1>2. log[Current(p)] /\ ProcessorOn(p)
  BY DEF IInv, MemberInv, Decoded, Attended
<1>3. \A o \in 1..(Current(p) - 1) : o \in Settled
  <2> DEFINE b == ((envelopes[p] \o decoding[p]) \o messages[p]) \o batch[p]
             r == handling[p][1]
  <2>1. b \in Seq(AnyRecord) /\ r \in AnyRecord /\ Pipe(p) = <<r>> \o b
    BY WorkFirst DEF IInv
  <2> HIDE DEF b, r
  <2>2. \A o \in 1..(r.off - 1) : o \in Settled
    BY <1>2, <2>1, SettledBeforeCurrent
  <2>3. QED
    BY <2>2 DEF Current, r
<1>4. QED
  BY <1>1, <1>2, <1>3

LEMMA WorkInOrderNext == IInv' => WorkDue'
BY WorkInOrder, PTL

(* The handler is given a record when everything before it is decided.     *)
LEMMA ProcessorTakePromised ==
  ASSUME IInv, TypeOK', NEW p \in Members, ProcessorTake(p)
  PROVE  [Promise!Next]_(Promise!vars)
<1> DEFINE o == Current(p)'
<1>1. IInv'
  BY ProcessorTakeStep
<1>2. /\ stage[p] = "idle" /\ stage'[p] = "trying"
      /\ \A q \in Members \ {p} : stage'[q] = stage[q] /\ handling'[q] = handling[q]
      /\ UNCHANGED <<log, committed, dlq, phase, handled, dropped, jumped>> /\ ProcessorOn(p)'
  BY DEF ProcessorTake, kafkaVars, historyVars, IInv, TypeOK, ProcessorOn
<1>3. Settled' = Settled
  BY <1>2, SettledStay
<1>4. o \in DOMAIN log /\ log[o] /\ \A x \in 1..(o - 1) : x \in Settled
  BY <1>1, <1>2, <1>3, WorkInOrderNext DEF WorkDue
<1>5. 1..(o - 1) \subseteq Settled
  BY <1>4
<1>6. Handled' = [Handled EXCEPT ![p] = o] /\ Handled[p] = 0
  BY <1>2, HandledStep DEF IInv
<1>7. Promise!Take(p, o)
  BY <1>2, <1>3, <1>4, <1>5, <1>6 DEF Promise!Take, Promise!SettledBefore
<1>8. QED
  BY <1>4, <1>7 DEF Promise!Next

(* The handler's answer, or what is done about its error, is the decision. *)
LEMMA DecidePromised ==
  ASSUME IInv, NEW p \in Members, AttemptEnds(p) \/ HandleError(p)
  PROVE  [Promise!Next]_(Promise!vars)
<1>1. /\ stage[p] # "idle" /\ stage' = [stage EXCEPT ![p] = "mark"]
      /\ UNCHANGED <<log, committed, handling>>
  BY DEF AttemptEnds, HandleError, kafkaVars
<1>2. Handled' = Handled /\ Handled[p] = Current(p)
  BY <1>1, HandledKept DEF IInv, TypeOK, Handled
<1>3. Settled' = Settled \cup {Current(p)}
  BY DEF AttemptEnds, HandleError, SendToDLQ, Settled
<1>4. Current(p) # 0
  <2>1. Current(p) \in Offsets
    BY <1>1, InWork DEF IInv
  <2>2. QED
    BY <2>1 DEF Offsets
<1>5. Promise!Decide(p)
  BY <1>1, <1>2, <1>3, <1>4 DEF Promise!Decide
<1>6. QED
  BY <1>5 DEF Promise!Next

LEMMA HandleReturnsPromised ==
  ASSUME IInv, NEW p \in Members, HandleReturns(p)
  PROVE  [Promise!Next]_(Promise!vars)
<1>1. /\ stage[p] = "mark" /\ stage'[p] = "idle"
      /\ \A q \in Members \ {p} : stage'[q] = stage[q] /\ handling'[q] = handling[q]
      /\ UNCHANGED <<log, committed, dlq, handled, dropped, jumped>>
  BY DEF HandleReturns, kafkaVars, historyVars, IInv, TypeOK
<1>2. Handled' = [Handled EXCEPT ![p] = 0] /\ Handled[p] = Current(p)
  BY <1>1, HandledStep DEF IInv
<1>3. Settled' = Settled /\ Current(p) \in Settled
  BY <1>1, SettledStay DEF IInv, MemberInv, MarksSettled
<1>4. Promise!Return(p)
  BY <1>1, <1>2, <1>3 DEF Promise!Return
<1>5. QED
  BY <1>4 DEF Promise!Next

LEMMA DiePromised ==
  ASSUME IInv, NEW p \in Members, Die(p)
  PROVE  [Promise!Next]_(Promise!vars)
<1>1. /\ stage'[p] = "idle"
      /\ \A q \in Members \ {p} : stage'[q] = stage[q] /\ handling'[q] = handling[q]
      /\ UNCHANGED <<log, committed, dlq, handled, dropped, jumped>>
  BY DEF Die, historyVars, IInv, TypeOK
<1>2. Settled' = Settled
  BY <1>1, SettledStay
<1>3. CASE stage[p] = "idle"
  <2>1. Handled' = Handled
    BY <1>1, <1>3, HandledKept
  <2>2. QED
    BY <1>1, <1>2, <2>1, PromiseStutters
<1>4. CASE stage[p] # "idle"
  <2>1. Handled' = [Handled EXCEPT ![p] = 0] /\ Handled[p] = Current(p)
    BY <1>1, <1>4, HandledStep DEF IInv
  <2>2. Current(p) # 0
    <3>1. Current(p) \in Offsets
      BY <1>4, InWork DEF IInv
    <3>2. QED
      BY <3>1 DEF Offsets
  <2>3. Promise!Abandon(p)
    BY <1>1, <1>2, <2>1, <2>2 DEF Promise!Abandon
  <2>4. QED
    BY <2>3 DEF Promise!Next
<1>5. QED
  BY <1>3, <1>4

LEMMA InitPromised == Init => Promise!Init
<1> SUFFICES ASSUME Init
             PROVE  Promise!Init
  OBVIOUS
<1>1. Handled = [p \in Members |-> 0]
  BY DEF Init, Handled
<1>2. QED
  BY <1>1 DEF Init, Settled, Promise!Init

LEMMA NextPromised == IInv /\ [Next]_vars => [Promise!Next]_(Promise!vars)
<1> SUFFICES ASSUME IInv, [Next]_vars
             PROVE  [Promise!Next]_(Promise!vars)
  OBVIOUS
<1>1. TypeOK'
  BY StepType DEF IInv
<1>2. CASE UNCHANGED vars
  <2>1. UNCHANGED <<log, committed, dlq, handling, stage, handled, dropped, jumped>>
    BY <1>2 DEF vars, kafkaVars, procVars, historyVars
  <2>2. QED
    BY <2>1, HandledKept, SettledStay, PromiseStutters
<1>3. ASSUME NEW ok \in BOOLEAN, Produce(ok)
      PROVE  [Promise!Next]_(Promise!vars)
  BY <1>3, ProducePromised
<1>4. ASSUME NEW p \in Members, Assign(p) \/ Revoke(p) \/ AutoCommit(p)
      PROVE  [Promise!Next]_(Promise!vars)
  BY <1>4, AssignPromised, AutoCommitPromised, OthersPromised
<1>5. ASSUME NEW p \in Members, Reader(p) \/ MessageDeserializer(p)
      PROVE  [Promise!Next]_(Promise!vars)
  BY <1>5, DeserializeFailsPromised, OthersPromised DEF MessageDeserializer
<1>6. ASSUME NEW p \in Members, Processor(p)
      PROVE  [Promise!Next]_(Promise!vars)
  BY <1>1, <1>6, ProcessorTakePromised, DecidePromised, HandleReturnsPromised, OthersPromised
     DEF Processor, Attempt
<1>7. ASSUME NEW p \in Members, BeginStop(p) \/ Stop(p) \/ Crash(p) \/ Restart(p)
      PROVE  [Promise!Next]_(Promise!vars)
  BY <1>7, DiePromised, OthersPromised DEF Stop, ClientClose, Crash
<1>8. QED
  BY <1>2, <1>3, <1>4, <1>5, <1>6, <1>7 DEF Next

(* The channels, members and marks keep the promise: a record reaches a    *)
(* handler only when every earlier one has been decided about, also when   *)
(* it was left behind in the channels of a member that lost the partition  *)
(* and got it back, and no commit passes an undecided record.              *)
THEOREM PromiseKept == Spec => DeliveryPromise
<1>1. Init => Promise!Init
  BY InitPromised
<1>2. IInv /\ [Next]_vars => [Promise!Next]_(Promise!vars)
  BY NextPromised
<1>3. QED
  BY <1>1, <1>2, Invariance, PTL DEF Spec, DeliveryPromise, Promise!Spec
=============================================================================
