---------------------------- MODULE OutboxProofs ----------------------------
(***************************************************************************)
(* Theorems about the outbox, for any number of messages and replicas, any *)
(* capacities, deadlines and bounds.                                       *)
(***************************************************************************)
EXTENDS Outbox, SequenceTheorems, TLAPS

(* The elements of a sequence after Append and Tail, and of an empty one.  *)
LEMMA RangeAppend ==
  ASSUME NEW S, NEW s \in Seq(S), NEW x \in S
  PROVE  Append(s, x) \in Seq(S) /\ Range(Append(s, x)) = Range(s) \cup {x}
<1>1. /\ Append(s, x) \in Seq(S)
      /\ Len(Append(s, x)) = Len(s) + 1
      /\ \A i \in 1..Len(s) : Append(s, x)[i] = s[i]
      /\ Append(s, x)[Len(s) + 1] = x
  BY AppendProperties
<1>2. /\ DOMAIN Append(s, x) = 1..(Len(s) + 1)
      /\ DOMAIN s = 1..Len(s)
      /\ Len(s) \in Nat
  BY <1>1, LenProperties
<1>3. ASSUME NEW y PROVE y \in Range(Append(s, x)) <=> y \in Range(s) \cup {x}
  <2>1. y \in Range(Append(s, x)) <=> \E i \in 1..(Len(s) + 1) : Append(s, x)[i] = y
    BY <1>2 DEF Range
  <2>2. y \in Range(s) <=> \E i \in 1..Len(s) : s[i] = y
    BY <1>2 DEF Range
  <2>3. QED
    BY <1>1, <1>2, <2>1, <2>2
<1>4. QED
  BY <1>1, <1>3

(* What is taken from the front of a sequence was in it, and nothing new   *)
(* stays behind.                                                           *)
LEMMA RangeTail ==
  ASSUME NEW S, NEW s \in Seq(S), s # <<>>
  PROVE  /\ Head(s) \in S /\ Head(s) \in Range(s)
         /\ Tail(s) \in Seq(S) /\ Range(Tail(s)) \subseteq Range(s)
<1>1. /\ Head(s) = s[1] /\ Head(s) \in S
      /\ Tail(s) \in Seq(S)
      /\ Len(Tail(s)) = Len(s) - 1
      /\ \A i \in 1..Len(Tail(s)) : Tail(s)[i] = s[i + 1]
  BY HeadTailProperties
<1>2. /\ Len(s) \in Nat \ {0}
      /\ DOMAIN s = 1..Len(s)
      /\ DOMAIN Tail(s) = 1..(Len(s) - 1)
  BY <1>1, LenProperties, EmptySeq
<1>3. QED
  BY <1>1, <1>2 DEF Range

(* A sequence over S holds members of S, the empty one nothing.            *)
LEMMA RangeInSet ==
  ASSUME NEW S, NEW s \in Seq(S)
  PROVE  Range(s) \subseteq S
BY LenProperties DEF Range

LEMMA RangeEmpty == Range(<<>>) = {}
BY DEF Range
-----------------------------------------------------------------------------
(* The type invariant.                                                     *)

LEMMA InitType == Init => TypeOK
BY OutboxAssumption DEF Init, TypeOK, Statuses, Phases, ConfirmResult, NoBatches

LEMMA CallerType ==
  ASSUME TypeOK, NEW p \in Instances, Caller(p)
  PROVE  TypeOK'
<1>1. PICK m \in Messages : Create(p, m) \/ Commit(p, m) \/ Abort(p, m)
                             \/ SendFuncEnqueue(p, m) \/ SendFuncDrop(p, m)
  BY DEF Caller
<1>2. CASE Create(p, m)
  BY <1>2, OutboxAssumption DEF TypeOK, Create, InsertEntity, Statuses, topicVars, pipeVars
<1>3. CASE Commit(p, m)
  BY <1>3, RangeAppend DEF TypeOK, Commit, Statuses, topicVars, pipeVars
<1>4. CASE Abort(p, m)
  BY <1>4 DEF TypeOK, Abort, Statuses, topicVars, pipeVars
<1>5. CASE SendFuncEnqueue(p, m)
  BY <1>5, RangeAppend DEF TypeOK, SendFuncEnqueue, docVars, topicVars
<1>6. CASE SendFuncDrop(p, m)
  BY <1>6 DEF TypeOK, SendFuncDrop, docVars, topicVars, pipeVars
<1>7. QED
  BY <1>1, <1>2, <1>3, <1>4, <1>5, <1>6

LEMMA FetcherType ==
  ASSUME TypeOK, NEW p \in Instances, Fetcher(p)
  PROVE  TypeOK'
<1>1. ASSUME NEW m \in Messages, FetchAndLock(p, m) PROVE TypeOK'
  <2>1. Smaller(attempts[m] + 1, AttemptCap) \in Nat /\ Backoff(attempts[m]) \in Int
    BY OutboxAssumption DEF TypeOK, Smaller, Backoff
  <2>2. older' \subseteq Messages \X Messages
    BY <1>1 DEF TypeOK, FetchAndLock, Without
  <2>3. fetched' \in [Instances -> Messages \cup {NoMessage}]
    BY <1>1 DEF TypeOK, FetchAndLock
  <2>4. QED
    BY <1>1, <2>1, <2>2, <2>3, OutboxAssumption
       DEF TypeOK, FetchAndLock, topicVars, callVars
<1>2. CASE FetcherHandOver(p)
  <2>1. fetched[p] \in Messages
    BY <1>2 DEF TypeOK, FetcherHandOver
  <2>2. QED
    BY <1>2, <2>1, RangeAppend DEF TypeOK, FetcherHandOver, docVars, topicVars, callVars
<1>3. QED
  BY <1>1, <1>2 DEF Fetcher

LEMMA ClientType ==
  ASSUME TypeOK, NEW p \in Instances, SenderSend(p) \/ Broker(p) \/ Promise(p)
  PROVE  TypeOK'
<1>1. CASE SenderSend(p)
  <2>1. Head(entities[p]) \in Messages /\ Tail(entities[p]) \in Seq(Messages)
    BY <1>1, RangeTail DEF TypeOK, SenderSend
  <2>2. QED
    BY <1>1, <2>1, RangeAppend DEF TypeOK, SenderSend, docVars, topicVars, callVars
<1>2. ASSUME NEW ok \in BOOLEAN, producing[p] # <<>>, Finish(p, ok)
      PROVE  /\ producing' \in [Instances -> Seq(Messages)]
             /\ promises' \in [Instances -> Seq(ConfirmResult)]
  <2>1. Head(producing[p]) \in Messages /\ Tail(producing[p]) \in Seq(Messages)
    BY <1>2, RangeTail DEF TypeOK
  <2>2. [id |-> Head(producing[p]), ok |-> ok] \in ConfirmResult
    BY <2>1 DEF ConfirmResult
  <2>3. QED
    BY <1>2, <2>1, <2>2, RangeAppend DEF TypeOK, Finish
<1>3. ASSUME NEW m \in Messages, AppendRecord(m)
      PROVE  topic' \in Seq(Messages) /\ duplicates' \subseteq Messages
  <2>1. Append(topic, m) \in Seq(Messages)
    BY RangeAppend DEF TypeOK
  <2>2. CASE m \in Range(topic)
    BY <1>3, <2>2 DEF TypeOK, AppendRecord
  <2>3. CASE m \notin Range(topic)
    BY <1>3, <2>1, <2>3 DEF TypeOK, AppendRecord
  <2>4. QED
    BY <2>2, <2>3
<1>4. producing[p] # <<>> => Head(producing[p]) \in Messages
  BY RangeTail DEF TypeOK
<1>5. CASE KafkaWrite(p)
  BY <1>2, <1>3, <1>4, <1>5 DEF TypeOK, KafkaWrite, docVars, callVars
<1>6. CASE KafkaFail(p)
  BY <1>2, <1>6 DEF TypeOK, KafkaFail, docVars, topicVars, callVars
<1>7. CASE KafkaAckLost(p)
  BY <1>2, <1>3, <1>4, <1>7 DEF TypeOK, KafkaAckLost, docVars, callVars
<1>8. CASE Promise(p)
  <2>1. Head(promises[p]) \in ConfirmResult /\ Tail(promises[p]) \in Seq(ConfirmResult)
    BY <1>8, RangeTail DEF TypeOK, Promise
  <2>2. QED
    BY <1>8, <2>1, RangeAppend DEF TypeOK, Promise, docVars, topicVars, callVars
<1>9. QED
  BY <1>1, <1>5, <1>6, <1>7, <1>8 DEF Broker

(* A batch is a set of message ids.                                        *)
LEMMA OkIdsType ==
  ASSUME NEW rs \in Seq(ConfirmResult)
  PROVE  OkIds(rs) \subseteq Messages
<1>1. Range(rs) \subseteq ConfirmResult
  BY RangeInSet
<1>2. QED
  BY <1>1 DEF OkIds, ConfirmResult

(* The count of one batch of one replica changes, the others do not.       *)
LEMMA SetCount ==
  ASSUME NEW f \in [Instances -> [SUBSET Messages -> Nat]],
         NEW p \in Instances, NEW ids \in SUBSET Messages, NEW n \in Nat
  PROVE  LET g == [f EXCEPT ![p][ids] = n]
         IN  /\ g \in [Instances -> [SUBSET Messages -> Nat]]
             /\ g[p][ids] = n
             /\ \A q \in Instances, S \in SUBSET Messages :
                    <<q, S>> # <<p, ids>> => g[q][S] = f[q][S]
<1>1. DEFINE row == [f[p] EXCEPT ![ids] = n]
<1>2. row \in [SUBSET Messages -> Nat] /\ row[ids] = n
  OBVIOUS
<1>3. \A S \in SUBSET Messages : S # ids => row[S] = f[p][S]
  OBVIOUS
<1>4. [f EXCEPT ![p][ids] = n] = [f EXCEPT ![p] = row]
  OBVIOUS
<1>5. HIDE DEF row
<1>6. QED
  BY <1>2, <1>3, <1>4

LEMMA CountType ==
  ASSUME TypeOK, NEW p \in Instances, NEW ids \in SUBSET Messages
  PROVE  confirming[p][ids] \in Nat
<1>1. confirming[p] \in [SUBSET Messages -> Nat]
  BY DEF TypeOK
<1>2. QED
  BY <1>1

LEMMA ConfirmerType ==
  ASSUME TypeOK, NEW p \in Instances, Confirmer(p)
  PROVE  TypeOK'
<1>1. ASSUME NEW rs \in Seq(ConfirmResult), Flush(p, rs)
      PROVE  /\ results' \in [Instances -> Seq(ConfirmResult)]
             /\ confirming' \in [Instances -> [SUBSET Messages -> Nat]]
  <2>1. OkIds(rs) \subseteq Messages
    BY OkIdsType
  <2>2. QED
    <3>1. confirming[p][OkIds(rs)] + 1 \in Nat
      BY <2>1, CountType
    <3>2. confirming' \in [Instances -> [SUBSET Messages -> Nat]]
      <4>1. CASE OkIds(rs) = {}
        BY <1>1, <4>1 DEF TypeOK, Flush
      <4>2. CASE OkIds(rs) # {}
        BY <1>1, <2>1, <3>1, <4>2, SetCount DEF TypeOK, Flush
      <4>3. QED
        BY <4>1, <4>2
    <3>3. QED
      BY <1>1, <3>2, EmptySeq DEF TypeOK, Flush
<1>2. CASE ConfirmerReceive(p)
  <2>1. Head(confirms[p]) \in ConfirmResult /\ Tail(confirms[p]) \in Seq(ConfirmResult)
    BY <1>2, RangeTail DEF TypeOK, ConfirmerReceive, Receives
  <2>2. Append(results[p], Head(confirms[p])) \in Seq(ConfirmResult)
    BY <2>1, RangeAppend DEF TypeOK
  <2>3. /\ results' \in [Instances -> Seq(ConfirmResult)]
        /\ confirming' \in [Instances -> [SUBSET Messages -> Nat]]
    BY <1>1, <1>2, <2>2 DEF TypeOK, ConfirmerReceive
  <2>4. QED
    BY <1>2, <2>1, <2>3 DEF TypeOK, ConfirmerReceive, docVars, topicVars, callVars
<1>3. CASE ConfirmerTick(p)
  <2>1. results[p] \in Seq(ConfirmResult)
    BY DEF TypeOK
  <2>2. QED
    BY <1>1, <1>3, <2>1 DEF TypeOK, ConfirmerTick, docVars, topicVars, callVars
<1>4. QED
  BY <1>2, <1>3 DEF Confirmer

LEMMA BatchType ==
  ASSUME TypeOK, NEW p \in Instances, Batch(p)
  PROVE  TypeOK'
<1>1. PICK ids \in SUBSET Messages : UpdateAsSentByIDs(p, ids) \/ UpdateFails(p, ids)
  BY DEF Batch
<1>2. ASSUME confirming[p][ids] > 0, BatchDone(p, ids)
      PROVE  confirming' \in [Instances -> [SUBSET Messages -> Nat]]
  <2>1. confirming[p][ids] - 1 \in Nat
    BY <1>2, CountType
  <2>2. QED
    BY <1>2, <2>1, SetCount DEF TypeOK, BatchDone
<1>3. CASE UpdateAsSentByIDs(p, ids)
  <2>1. older' \subseteq Messages \X Messages
    BY <1>3 DEF TypeOK, UpdateAsSentByIDs, Without
  <2>2. status' \in [Messages -> Statuses]
    BY <1>3 DEF TypeOK, UpdateAsSentByIDs, Statuses
  <2>3. lockLeft' \in [Messages -> Nat] /\ nextLeft' \in [Messages -> Int]
    BY <1>3 DEF TypeOK, UpdateAsSentByIDs
  <2>4. QED
    BY <1>2, <1>3, <2>1, <2>2, <2>3 DEF TypeOK, UpdateAsSentByIDs, topicVars, callVars
<1>4. CASE UpdateFails(p, ids)
  BY <1>2, <1>4 DEF TypeOK, UpdateFails, docVars, topicVars, callVars
<1>5. QED
  BY <1>1, <1>3, <1>4

LEMMA DieType ==
  ASSUME TypeOK, NEW p \in Instances, Die(p), stops' \in Nat
  PROVE  TypeOK'
<1>1. NoBatches \in [SUBSET Messages -> Nat]
  BY DEF NoBatches
<1>2. <<>> \in Seq(Messages) /\ <<>> \in Seq(ConfirmResult)
  BY EmptySeq
<1>3. late' \subseteq Messages
  BY DEF TypeOK, Die
<1>4. QED
  BY <1>1, <1>2, <1>3 DEF TypeOK, Die, Statuses, Phases, topicVars

LEMMA LifecycleType ==
  ASSUME TypeOK, NEW p \in Instances, Stop(p) \/ Crash(p) \/ Restart(p)
  PROVE  TypeOK'
<1>1. CASE BeginStop(p)
  <2>1. stops' \in Nat
    BY <1>1 DEF TypeOK, BeginStop
  <2>2. phase' \in [Instances -> Phases]
    BY <1>1 DEF TypeOK, BeginStop, Phases
  <2>3. QED
    BY <1>1, <2>1, <2>2 DEF TypeOK, BeginStop, docVars, topicVars, callVars, pipeVars
<1>2. CASE ConfirmerExit(p)
  <2>1. OkIds(results[p]) \subseteq Messages
    BY OkIdsType DEF TypeOK
  <2>2. QED
    BY <1>2, <2>1, EmptySeq
       DEF TypeOK, ConfirmerExit, Phases, docVars, topicVars, callVars
<1>3. CASE SenderExit(p)
  BY <1>3 DEF TypeOK, SenderExit, Phases, docVars, topicVars, callVars, pipeVars
<1>4. CASE FetcherExit(p)
  BY <1>4 DEF TypeOK, FetcherExit, Phases, docVars, topicVars, callVars
<1>5. CASE ClientClose(p)
  BY <1>5, DieType DEF TypeOK, ClientClose
<1>6. CASE Crash(p)
  <2>1. stops' \in Nat
    BY <1>6 DEF TypeOK, Crash
  <2>2. QED
    BY <1>6, <2>1, DieType DEF Crash
<1>7. CASE Restart(p)
  BY <1>7 DEF TypeOK, Restart, Phases, docVars, topicVars, callVars, pipeVars
<1>8. QED
  BY <1>1, <1>2, <1>3, <1>4, <1>5, <1>6, <1>7 DEF Stop

LEMMA TimeType ==
  ASSUME TypeOK, Tick \/ \E m \in Messages : Expire(m)
  PROVE  TypeOK'
<1>1. CASE Tick
  <2>1. /\ Countdown(lockLeft) \in [Messages -> Nat]
        /\ Countdown(nextLeft) \in [Messages -> Int]
    BY DEF TypeOK, Countdown
  <2>2. age' \in [Messages -> Nat]
    BY <1>1, OutboxAssumption DEF TypeOK, Tick, Smaller
  <2>3. older' \subseteq Messages \X Messages /\ late' \subseteq Messages
    BY <1>1 DEF TypeOK, Tick
  <2>4. QED
    BY <1>1, <2>1, <2>2, <2>3 DEF TypeOK, Tick, topicVars, callVars, pipeVars
<1>2. ASSUME NEW m \in Messages, Expire(m) PROVE TypeOK'
  BY <1>2 DEF TypeOK, Expire, Without, Statuses, topicVars, callVars, pipeVars
<1>3. QED
  BY <1>1, <1>2

LEMMA StepType == TypeOK /\ [Next]_vars => TypeOK'
<1>1. SUFFICES ASSUME TypeOK, [Next]_vars PROVE TypeOK'
  OBVIOUS
<1>2. ASSUME NEW p \in Instances,
             \/ Caller(p) \/ Fetcher(p) \/ SenderSend(p) \/ Broker(p) \/ Promise(p)
             \/ Confirmer(p) \/ Batch(p) \/ Stop(p) \/ Crash(p) \/ Restart(p)
      PROVE  TypeOK'
  BY <1>1, <1>2, CallerType, FetcherType, ClientType, ConfirmerType, BatchType, LifecycleType
<1>3. CASE Tick \/ \E m \in Messages : Expire(m)
  BY <1>1, <1>3, TimeType
<1>4. CASE UNCHANGED vars
  BY <1>1, <1>4 DEF TypeOK, vars, docVars, topicVars, callVars, pipeVars
<1>5. QED
  BY <1>1, <1>2, <1>3, <1>4 DEF Next

(* Every variable keeps its type, for every value of the constants.        *)
THEOREM TypeCorrect == Spec => []TypeOK
BY InitType, StepType, PTL DEF Spec
-----------------------------------------------------------------------------
(* The inductive invariant, in three parts: what travels is committed, what *)
(* is reported is written, and the collection agrees with the topic.        *)

(* The Ok ids of a sequence after Append and Tail.                         *)
LEMMA OkIdsAppend ==
  ASSUME NEW rs \in Seq(ConfirmResult), NEW r \in ConfirmResult
  PROVE  /\ r.ok => OkIds(Append(rs, r)) = OkIds(rs) \cup {r.id}
         /\ ~r.ok => OkIds(Append(rs, r)) = OkIds(rs)
<1>1. Range(Append(rs, r)) = Range(rs) \cup {r}
  BY RangeAppend
<1>2. QED
  BY <1>1 DEF OkIds

LEMMA OkIdsTail ==
  ASSUME NEW rs \in Seq(ConfirmResult), rs # <<>>
  PROVE  /\ OkIds(Tail(rs)) \subseteq OkIds(rs)
         /\ Head(rs).ok => Head(rs).id \in OkIds(rs)
<1>1. Head(rs) \in Range(rs) /\ Range(Tail(rs)) \subseteq Range(rs)
  BY RangeTail
<1>2. QED
  BY <1>1 DEF OkIds

LEMMA OkIdsEmpty == OkIds(<<>>) = {}
BY RangeEmpty DEF OkIds

LEMMA InitInv == Init => IInv
<1>1. SUFFICES ASSUME Init PROVE IInv
  OBVIOUS
<1>2. TypeOK
  BY <1>1, InitType
<1>3. OnlyCommittedTravels
  BY <1>1, RangeEmpty DEF Init, OnlyCommittedTravels
<1>4. ResultsAreTrue
  BY <1>1, OkIdsEmpty DEF Init, ResultsAreTrue, NoBatches
<1>5. StoreMatchesTopic
  BY <1>1, RangeEmpty DEF Init, StoreMatchesTopic, SentIsPublished, Committed
<1>6. QED
  BY <1>2, <1>3, <1>4, <1>5 DEF IInv

(* No step uncommits a message: documents never leave Committed.           *)
LEMMA CommittedGrows ==
  ASSUME TypeOK, OnlyCommittedTravels, [Next]_vars
  PROVE  Committed \subseteq Committed'
<1>1. ASSUME NEW p \in Instances, NEW m \in Messages, Create(p, m)
      PROVE  Committed \subseteq Committed'
  BY <1>1 DEF Create, InsertEntity, TypeOK, Committed
<1>2. ASSUME NEW p \in Instances, NEW m \in Messages, Commit(p, m)
      PROVE  Committed \subseteq Committed'
  BY <1>2 DEF Commit, TypeOK, Committed
<1>3. ASSUME NEW p \in Instances, NEW m \in Messages, Abort(p, m)
      PROVE  Committed \subseteq Committed'
  BY <1>3 DEF Abort, TypeOK, Committed, OnlyCommittedTravels
<1>4. ASSUME NEW p \in Instances, NEW ids \in SUBSET Messages, UpdateAsSentByIDs(p, ids)
      PROVE  Committed \subseteq Committed'
  BY <1>4 DEF UpdateAsSentByIDs, TypeOK, Committed
<1>5. ASSUME NEW p \in Instances, Die(p)
      PROVE  Committed \subseteq Committed'
  BY <1>5 DEF Die, TypeOK, Committed, OnlyCommittedTravels
<1>6. ASSUME NEW m \in Messages, Expire(m)
      PROVE  Committed \subseteq Committed'
  BY <1>6 DEF Expire, TypeOK, Committed
<1>7. ASSUME NEW p \in Instances,
             \/ \E m \in Messages : \/ SendFuncEnqueue(p, m) \/ SendFuncDrop(p, m)
                                   \/ FetchAndLock(p, m)
             \/ FetcherHandOver(p) \/ SenderSend(p) \/ Broker(p) \/ Promise(p) \/ Confirmer(p)
             \/ \E ids \in SUBSET Messages : UpdateFails(p, ids)
             \/ BeginStop(p) \/ ConfirmerExit(p) \/ SenderExit(p) \/ FetcherExit(p) \/ Restart(p)
             \/ Tick \/ UNCHANGED vars
      PROVE  status' = status
  BY <1>7 DEF SendFuncEnqueue, SendFuncDrop, FetchAndLock, FetcherHandOver, SenderSend, Broker,
       KafkaWrite, KafkaFail, KafkaAckLost, Promise, Confirmer, ConfirmerReceive, ConfirmerTick,
       UpdateFails, BeginStop, ConfirmerExit, SenderExit, FetcherExit, Restart, Tick, vars, docVars
<1>8. status' = status => Committed \subseteq Committed'
  BY DEF Committed
<1>9. CASE \E p \in Instances :
             \/ Caller(p) \/ Fetcher(p) \/ SenderSend(p) \/ Broker(p) \/ Promise(p)
             \/ Confirmer(p) \/ Batch(p) \/ Stop(p) \/ Crash(p) \/ Restart(p)
  BY <1>1, <1>2, <1>3, <1>4, <1>5, <1>7, <1>8, <1>9
     DEF Caller, Fetcher, Batch, Stop, Crash, ClientClose
<1>10. CASE Tick \/ UNCHANGED vars
  BY <1>8, <1>10 DEF Tick, vars, docVars
<1>11. QED
  BY <1>6, <1>9, <1>10 DEF Next

(* A step that leaves the channels of the pipeline alone keeps them        *)
(* committed, because no document leaves Committed.                        *)
LEMMA TravelFrame ==
  ASSUME OnlyCommittedTravels, Committed \subseteq Committed', status' = status,
         UNCHANGED <<txn, sendFunc, fetched, entities, producing>>
  PROVE  OnlyCommittedTravels'
BY DEF OnlyCommittedTravels

LEMMA TravelCaller ==
  ASSUME TypeOK, OnlyCommittedTravels, Committed \subseteq Committed',
         NEW p \in Instances, Caller(p)
  PROVE  OnlyCommittedTravels'
<1>1. PICK m \in Messages : Create(p, m) \/ Commit(p, m) \/ Abort(p, m)
                             \/ SendFuncEnqueue(p, m) \/ SendFuncDrop(p, m)
  BY DEF Caller
<1>2. CASE Create(p, m)
  <2>1. \A q \in Instances : m \notin txn[q]
    BY <1>2 DEF Create, InsertEntity, OnlyCommittedTravels
  <2>2. /\ txn'[p] = txn[p] \cup {m}
        /\ \A q \in Instances \ {p} : txn'[q] = txn[q]
    BY <1>2 DEF Create, InsertEntity, TypeOK
  <2>3. \A q \in Instances : \A n \in txn'[q] : status'[n] = "Uncommitted"
    BY <1>2, <2>2 DEF Create, InsertEntity, TypeOK, OnlyCommittedTravels
  <2>4. \A q \in Instances : \A r \in Instances \ {q} : txn'[q] \cap txn'[r] = {}
    BY <2>1, <2>2 DEF OnlyCommittedTravels
  <2>5. UNCHANGED <<sendFunc, fetched, entities, producing>>
    BY <1>2 DEF Create, InsertEntity, pipeVars
  <2>6. QED
    BY <2>3, <2>4, <2>5 DEF OnlyCommittedTravels
<1>3. CASE Commit(p, m)
  <2>1. m \in Committed'
    BY <1>3 DEF Commit, TypeOK, Committed
  <2>2. \A q \in Instances \ {p} : m \notin txn[q]
    BY <1>3 DEF Commit, OnlyCommittedTravels
  <2>3. QED
    BY <1>3, <2>1, <2>2 DEF Commit, TypeOK, OnlyCommittedTravels, pipeVars
<1>4. CASE Abort(p, m)
  <2>1. \A q \in Instances \ {p} : m \notin txn[q]
    BY <1>4 DEF Abort, OnlyCommittedTravels
  <2>2. QED
    BY <1>4, <2>1 DEF Abort, TypeOK, OnlyCommittedTravels, pipeVars
<1>5. CASE SendFuncEnqueue(p, m)
  <2>1. Range(entities'[p]) = Range(entities[p]) \cup {m}
    BY <1>5, RangeAppend DEF SendFuncEnqueue, TypeOK
  <2>2. m \in Committed
    BY <1>5 DEF SendFuncEnqueue, OnlyCommittedTravels
  <2>3. QED
    BY <1>5, <2>1, <2>2 DEF SendFuncEnqueue, TypeOK, OnlyCommittedTravels, docVars
<1>6. CASE SendFuncDrop(p, m)
  BY <1>6 DEF SendFuncDrop, TypeOK, OnlyCommittedTravels, docVars, pipeVars
<1>7. QED
  BY <1>1, <1>2, <1>3, <1>4, <1>5, <1>6

LEMMA TravelFetcher ==
  ASSUME TypeOK, OnlyCommittedTravels, Committed \subseteq Committed',
         NEW p \in Instances, Fetcher(p)
  PROVE  OnlyCommittedTravels'
<1>1. ASSUME NEW m \in Messages, FetchAndLock(p, m) PROVE OnlyCommittedTravels'
  <2>1. m \in Committed
    BY <1>1 DEF FetchAndLock, Lockable, Due, Committed
  <2>2. QED
    BY <1>1, <2>1 DEF FetchAndLock, TypeOK, OnlyCommittedTravels, callVars
<1>2. CASE FetcherHandOver(p)
  <2>1. fetched[p] \in Messages /\ fetched[p] \in Committed
    BY <1>2 DEF FetcherHandOver, TypeOK, OnlyCommittedTravels
  <2>2. Range(entities'[p]) = Range(entities[p]) \cup {fetched[p]}
    BY <1>2, <2>1, RangeAppend DEF FetcherHandOver, TypeOK
  <2>3. QED
    BY <1>2, <2>1, <2>2 DEF FetcherHandOver, TypeOK, OnlyCommittedTravels, docVars, callVars
<1>3. QED
  BY <1>1, <1>2 DEF Fetcher

LEMMA TravelClient ==
  ASSUME TypeOK, OnlyCommittedTravels, Committed \subseteq Committed',
         NEW p \in Instances, SenderSend(p) \/ Broker(p)
  PROVE  OnlyCommittedTravels'
<1>1. CASE SenderSend(p)
  <2>1. /\ Head(entities[p]) \in Messages
        /\ Head(entities[p]) \in Range(entities[p])
        /\ Range(Tail(entities[p])) \subseteq Range(entities[p])
    BY <1>1, RangeTail DEF SenderSend, TypeOK
  <2>2. /\ Range(producing'[p]) = Range(producing[p]) \cup {Head(entities[p])}
        /\ Range(entities'[p]) \subseteq Range(entities[p])
    BY <1>1, <2>1, RangeAppend DEF SenderSend, TypeOK
  <2>3. QED
    BY <1>1, <2>1, <2>2 DEF SenderSend, TypeOK, OnlyCommittedTravels, docVars, callVars
<1>2. CASE Broker(p)
  <2>1. producing[p] # <<>> /\ producing' = [producing EXCEPT ![p] = Tail(@)]
    BY <1>2 DEF Broker, KafkaWrite, KafkaFail, KafkaAckLost, Finish
  <2>2. UNCHANGED <<status, txn, sendFunc, fetched, entities>>
    BY <1>2 DEF Broker, KafkaWrite, KafkaFail, KafkaAckLost, docVars, callVars
  <2>3. Range(producing'[p]) \subseteq Range(producing[p])
    BY <2>1, RangeTail DEF TypeOK
  <2>4. QED
    BY <2>1, <2>2, <2>3 DEF TypeOK, OnlyCommittedTravels
<1>3. QED
  BY <1>1, <1>2

LEMMA TravelDie ==
  ASSUME TypeOK, OnlyCommittedTravels, Committed \subseteq Committed',
         NEW p \in Instances, Die(p)
  PROVE  OnlyCommittedTravels'
<1>1. \A q \in Instances \ {p}, m \in Messages : m \in txn[q] => status'[m] = "Uncommitted"
  BY DEF Die, TypeOK, OnlyCommittedTravels
<1>2. QED
  BY <1>1, RangeEmpty DEF Die, TypeOK, OnlyCommittedTravels

LEMMA TravelStep ==
  ASSUME TypeOK, OnlyCommittedTravels, [Next]_vars
  PROVE  OnlyCommittedTravels'
<1>1. Committed \subseteq Committed'
  BY CommittedGrows
<1>2. ASSUME NEW p \in Instances,
             \/ Promise(p) \/ Confirmer(p) \/ \E ids \in SUBSET Messages : UpdateFails(p, ids)
             \/ BeginStop(p) \/ ConfirmerExit(p) \/ SenderExit(p) \/ Restart(p)
      PROVE  OnlyCommittedTravels'
  BY <1>1, <1>2, TravelFrame
     DEF Promise, Confirmer, ConfirmerReceive, ConfirmerTick, UpdateFails, BeginStop,
         ConfirmerExit, SenderExit, Restart, docVars, callVars, pipeVars
<1>3. ASSUME NEW p \in Instances, NEW ids \in SUBSET Messages, UpdateAsSentByIDs(p, ids)
      PROVE  OnlyCommittedTravels'
  <2>1. \A m \in Messages : status[m] = "Uncommitted" => status'[m] = "Uncommitted"
    BY <1>3 DEF UpdateAsSentByIDs, Matched
  <2>2. QED
    BY <1>1, <1>3, <2>1 DEF UpdateAsSentByIDs, TypeOK, OnlyCommittedTravels, callVars
<1>4. ASSUME NEW p \in Instances, FetcherExit(p) PROVE OnlyCommittedTravels'
  BY <1>1, <1>4 DEF FetcherExit, TypeOK, OnlyCommittedTravels, docVars, callVars
<1>5. ASSUME NEW m \in Messages, Expire(m) PROVE OnlyCommittedTravels'
  BY <1>1, <1>5 DEF Expire, TypeOK, OnlyCommittedTravels, callVars, pipeVars
<1>6. CASE Tick \/ UNCHANGED vars
  BY <1>1, <1>6, TravelFrame DEF Tick, vars, docVars, callVars, pipeVars
<1>7. ASSUME NEW p \in Instances,
             \/ Caller(p) \/ Fetcher(p) \/ SenderSend(p) \/ Broker(p) \/ Promise(p)
             \/ Confirmer(p) \/ Batch(p) \/ Stop(p) \/ Crash(p) \/ Restart(p)
      PROVE  OnlyCommittedTravels'
  BY <1>1, <1>2, <1>3, <1>4, <1>7, TravelCaller, TravelFetcher, TravelClient, TravelDie
     DEF Batch, Stop, Crash, ClientClose
<1>8. QED
  BY <1>5, <1>6, <1>7 DEF Next

(* Records are never taken back from the topic.                            *)
LEMMA AppendedRecord ==
  ASSUME TypeOK, NEW m \in Messages, AppendRecord(m)
  PROVE  Range(topic') = Range(topic) \cup {m}
<1>1. CASE m \in Range(topic)
  BY <1>1 DEF AppendRecord
<1>2. CASE m \notin Range(topic)
  <2>1. topic \in Seq(Messages) /\ topic' = Append(topic, m)
    BY <1>2 DEF AppendRecord, TypeOK
  <2>2. QED
    BY <2>1, RangeAppend
<1>3. QED
  BY <1>1, <1>2

LEMMA TopicGrows ==
  ASSUME TypeOK, [Next]_vars
  PROVE  Range(topic) \subseteq Range(topic')
<1>1. ASSUME NEW p \in Instances, KafkaWrite(p) \/ KafkaAckLost(p)
      PROVE  Range(topic) \subseteq Range(topic')
  <2>1. Head(producing[p]) \in Messages
    BY <1>1, RangeTail DEF KafkaWrite, KafkaAckLost, TypeOK
  <2>2. QED
    BY <1>1, <2>1, AppendedRecord DEF KafkaWrite, KafkaAckLost
<1>2. CASE topic' = topic
  BY <1>2
<1>3. ASSUME NEW p \in Instances,
             \/ Caller(p) \/ Fetcher(p) \/ SenderSend(p) \/ KafkaFail(p) \/ Promise(p)
             \/ Confirmer(p)
      PROVE  topic' = topic
  BY <1>3 DEF Caller, Create, InsertEntity, Commit, Abort, SendFuncEnqueue, SendFuncDrop,
                  Fetcher, FetchAndLock,
       FetcherHandOver, SenderSend, KafkaFail, Promise, Confirmer, ConfirmerReceive,
       ConfirmerTick, topicVars
<1>4. ASSUME NEW p \in Instances, Batch(p) \/ Stop(p) \/ Crash(p) \/ Restart(p)
      PROVE  topic' = topic
  BY <1>4 DEF Batch, UpdateAsSentByIDs, UpdateFails, Stop, BeginStop, ConfirmerExit, SenderExit,
       FetcherExit, ClientClose, Crash, Die, Restart, topicVars
<1>5. CASE Tick \/ (\E m \in Messages : Expire(m)) \/ UNCHANGED vars
  BY <1>5 DEF Tick, Expire, vars, topicVars
<1>6. QED
  BY <1>1, <1>2, <1>3, <1>4, <1>5 DEF Next, Broker

LEMMA ResultsFrame ==
  ASSUME ResultsAreTrue, Range(topic) \subseteq Range(topic'),
         UNCHANGED <<promises, confirms, results, confirming>>
  PROVE  ResultsAreTrue'
<1>1. SUFFICES ASSUME NEW p \in Instances
               PROVE  /\ OkIds(promises[p]) \subseteq Range(topic')
                      /\ OkIds(confirms[p]) \subseteq Range(topic')
                      /\ OkIds(results[p]) \subseteq Range(topic')
                      /\ \A ids \in SUBSET Messages :
                             confirming[p][ids] > 0 => ids \subseteq Range(topic')
  BY DEF ResultsAreTrue
<1>2. QED
  BY DEF ResultsAreTrue

(* A finished record is reported Ok only by KafkaWrite, which wrote it.    *)
LEMMA ResultsBroker ==
  ASSUME TypeOK, ResultsAreTrue, Range(topic) \subseteq Range(topic'),
         NEW p \in Instances, Broker(p)
  PROVE  ResultsAreTrue'
<1>1. producing[p] # <<>>
  BY DEF Broker, KafkaWrite, KafkaFail, KafkaAckLost
<1>2. Head(producing[p]) \in Messages
  BY <1>1, RangeTail DEF TypeOK
<1>3. PICK ok \in BOOLEAN : Finish(p, ok) /\ (ok => AppendRecord(Head(producing[p])))
  BY DEF Broker, KafkaWrite, KafkaFail, KafkaAckLost
<1>4. DEFINE r == [id |-> Head(producing[p]), ok |-> ok]
<1>5. r \in ConfirmResult /\ r.ok = ok /\ r.id = Head(producing[p])
  BY <1>2 DEF ConfirmResult
<1>6. promises' = [promises EXCEPT ![p] = Append(@, r)]
  BY <1>3 DEF Finish
<1>7. HIDE DEF r
<1>8. OkIds(promises'[p]) \subseteq Range(topic')
  <2>1. promises[p] \in Seq(ConfirmResult) /\ promises'[p] = Append(promises[p], r)
    BY <1>6 DEF TypeOK
  <2>2. CASE ok
    <3>1. OkIds(promises'[p]) = OkIds(promises[p]) \cup {Head(producing[p])}
      BY <1>5, <2>1, <2>2, OkIdsAppend
    <3>2. Range(topic') = Range(topic) \cup {Head(producing[p])}
      BY <1>2, <1>3, <2>2, AppendedRecord
    <3>3. QED
      BY <3>1, <3>2 DEF ResultsAreTrue
  <2>3. CASE ~ok
    <3>1. OkIds(promises'[p]) = OkIds(promises[p])
      BY <1>5, <2>1, <2>3, OkIdsAppend
    <3>2. QED
      BY <3>1 DEF ResultsAreTrue
  <2>4. QED
    BY <2>2, <2>3
<1>9. \A q \in Instances \ {p} : promises'[q] = promises[q]
  BY <1>6 DEF TypeOK
<1>10. UNCHANGED <<confirms, results, confirming>>
  BY DEF Broker, KafkaWrite, KafkaFail, KafkaAckLost
<1>11. QED
  BY <1>8, <1>9, <1>10 DEF ResultsAreTrue

LEMMA ResultsPromise ==
  ASSUME TypeOK, ResultsAreTrue, NEW p \in Instances, Promise(p)
  PROVE  ResultsAreTrue'
<1>1. /\ promises[p] # <<>> /\ promises[p] \in Seq(ConfirmResult)
      /\ confirms[p] \in Seq(ConfirmResult)
  BY DEF Promise, TypeOK
<1>2. Head(promises[p]) \in ConfirmResult
  BY <1>1, RangeTail
<1>3. /\ promises'[p] = Tail(promises[p])
      /\ confirms'[p] = Append(confirms[p], Head(promises[p]))
      /\ \A q \in Instances \ {p} : promises'[q] = promises[q] /\ confirms'[q] = confirms[q]
      /\ UNCHANGED <<topic, results, confirming>>
  BY DEF Promise, TypeOK, topicVars
<1>4. /\ OkIds(promises'[p]) \subseteq Range(topic)
      /\ Head(promises[p]).ok => Head(promises[p]).id \in Range(topic)
  BY <1>1, <1>3, OkIdsTail DEF ResultsAreTrue
<1>5. OkIds(confirms'[p]) \subseteq Range(topic)
  <2>1. Head(promises[p]).ok \in BOOLEAN
    BY <1>2 DEF ConfirmResult
  <2>2. QED
    BY <1>1, <1>2, <1>3, <1>4, <2>1, OkIdsAppend DEF ResultsAreTrue
<1>6. QED
  BY <1>3, <1>4, <1>5 DEF ResultsAreTrue

LEMMA ResultsFlush ==
  ASSUME TypeOK, ResultsAreTrue, NEW p \in Instances, NEW rs \in Seq(ConfirmResult),
         OkIds(rs) \subseteq Range(topic), Flush(p, rs)
  PROVE  /\ \A q \in Instances : OkIds(results'[q]) \subseteq Range(topic)
         /\ \A q \in Instances, ids \in SUBSET Messages :
                confirming'[q][ids] > 0 => ids \subseteq Range(topic)
<1>1. \A q \in Instances : OkIds(results'[q]) \subseteq Range(topic)
  <2>1. results' = [results EXCEPT ![p] = <<>>]
    BY DEF Flush
  <2>2. QED
    BY <2>1, OkIdsEmpty DEF TypeOK, ResultsAreTrue
<1>2. CASE OkIds(rs) = {}
  BY <1>1, <1>2 DEF Flush, ResultsAreTrue
<1>3. CASE OkIds(rs) # {}
  <2>1. OkIds(rs) \in SUBSET Messages
    BY OkIdsType
  <2>2. confirming[p][OkIds(rs)] + 1 \in Nat
    BY <2>1, CountType
  <2>3. confirming' = [confirming EXCEPT ![p][OkIds(rs)] = confirming[p][OkIds(rs)] + 1]
    BY <1>3 DEF Flush
  <2>4. \A q \in Instances, S \in SUBSET Messages :
           <<q, S>> # <<p, OkIds(rs)>> => confirming'[q][S] = confirming[q][S]
    BY <2>1, <2>2, <2>3, SetCount DEF TypeOK
  <2>5. QED
    BY <1>1, <2>1, <2>4 DEF ResultsAreTrue
<1>4. QED
  BY <1>2, <1>3

LEMMA ResultsConfirmer ==
  ASSUME TypeOK, ResultsAreTrue, NEW p \in Instances, Confirmer(p)
  PROVE  ResultsAreTrue'
<1>1. CASE ConfirmerTick(p)
  <2>1. results[p] \in Seq(ConfirmResult) /\ OkIds(results[p]) \subseteq Range(topic)
    BY DEF TypeOK, ResultsAreTrue
  <2>2. Flush(p, results[p]) /\ UNCHANGED <<topic, promises, confirms>>
    BY <1>1 DEF ConfirmerTick, topicVars
  <2>3. QED
    BY <2>1, <2>2, ResultsFlush DEF ResultsAreTrue
<1>2. CASE ConfirmerReceive(p)
  <2>1. /\ confirms[p] # <<>> /\ confirms[p] \in Seq(ConfirmResult)
        /\ results[p] \in Seq(ConfirmResult)
    BY <1>2 DEF ConfirmerReceive, Receives, TypeOK
  <2>2. Head(confirms[p]) \in ConfirmResult
    BY <2>1, RangeTail
  <2>3. DEFINE rs == Append(results[p], Head(confirms[p]))
  <2>4. rs \in Seq(ConfirmResult)
    BY <2>1, <2>2, RangeAppend
  <2>5. /\ OkIds(Tail(confirms[p])) \subseteq Range(topic)
        /\ Head(confirms[p]).ok => Head(confirms[p]).id \in Range(topic)
    BY <2>1, OkIdsTail DEF ResultsAreTrue
  <2>6. OkIds(rs) \subseteq Range(topic)
    <3>1. Head(confirms[p]).ok \in BOOLEAN
      BY <2>2 DEF ConfirmResult
    <3>2. QED
      BY <2>1, <2>2, <2>5, <3>1, OkIdsAppend DEF ResultsAreTrue
  <2>7. /\ confirms' = [confirms EXCEPT ![p] = Tail(@)]
        /\ Flush(p, rs) \/ (results' = [results EXCEPT ![p] = rs] /\ UNCHANGED confirming)
        /\ UNCHANGED <<topic, promises>>
    BY <1>2 DEF ConfirmerReceive, topicVars
  <2>8. \A q \in Instances : OkIds(confirms'[q]) \subseteq Range(topic)
    BY <2>5, <2>7 DEF TypeOK, ResultsAreTrue
  <2>9. HIDE DEF rs
  <2>10. CASE Flush(p, rs)
    BY <2>4, <2>6, <2>7, <2>8, <2>10, ResultsFlush DEF ResultsAreTrue
  <2>11. CASE results' = [results EXCEPT ![p] = rs] /\ UNCHANGED confirming
    BY <2>6, <2>7, <2>8, <2>11 DEF TypeOK, ResultsAreTrue
  <2>12. QED
    BY <2>7, <2>10, <2>11
<1>3. QED
  BY <1>1, <1>2 DEF Confirmer

LEMMA ResultsBatch ==
  ASSUME TypeOK, ResultsAreTrue, NEW p \in Instances, Batch(p)
  PROVE  ResultsAreTrue'
<1>1. PICK ids \in SUBSET Messages :
         /\ confirming[p][ids] > 0
         /\ BatchDone(p, ids)
         /\ UNCHANGED <<topic, promises, confirms, results>>
  BY DEF Batch, UpdateAsSentByIDs, UpdateFails, topicVars
<1>2. confirming[p][ids] - 1 \in Nat
  BY <1>1, CountType
<1>3. \A q \in Instances, S \in SUBSET Messages :
         <<q, S>> # <<p, ids>> => confirming'[q][S] = confirming[q][S]
  BY <1>1, <1>2, SetCount DEF TypeOK, BatchDone
<1>4. ids \subseteq Range(topic)
  BY <1>1 DEF ResultsAreTrue
<1>5. QED
  BY <1>1, <1>3, <1>4 DEF ResultsAreTrue

LEMMA ResultsLifecycle ==
  ASSUME TypeOK, ResultsAreTrue, NEW p \in Instances, Stop(p) \/ Crash(p) \/ Restart(p)
  PROVE  ResultsAreTrue'
<1>1. CASE BeginStop(p) \/ SenderExit(p) \/ FetcherExit(p) \/ Restart(p)
  BY <1>1, ResultsFrame DEF BeginStop, SenderExit, FetcherExit, Restart, topicVars, pipeVars
<1>2. CASE ConfirmerExit(p)
  BY <1>2, OkIdsEmpty DEF ConfirmerExit, TypeOK, ResultsAreTrue, topicVars
<1>3. CASE Die(p)
  <2>1. \A ids \in SUBSET Messages : confirming'[p][ids] = 0
    BY <1>3 DEF Die, TypeOK, NoBatches
  <2>2. /\ OkIds(promises'[p]) = {} /\ OkIds(confirms'[p]) = {} /\ OkIds(results'[p]) = {}
    BY <1>3, OkIdsEmpty DEF Die, TypeOK
  <2>3. /\ topic' = topic
        /\ \A q \in Instances \ {p} :
              /\ promises'[q] = promises[q] /\ confirms'[q] = confirms[q]
              /\ results'[q] = results[q] /\ confirming'[q] = confirming[q]
    BY <1>3 DEF Die, TypeOK, topicVars
  <2>4. QED
    BY <2>1, <2>2, <2>3 DEF ResultsAreTrue
<1>4. QED
  BY <1>1, <1>2, <1>3 DEF Stop, Crash, ClientClose

LEMMA ResultsStep ==
  ASSUME TypeOK, ResultsAreTrue, [Next]_vars
  PROVE  ResultsAreTrue'
<1>1. Range(topic) \subseteq Range(topic')
  BY TopicGrows
<1>2. ASSUME NEW p \in Instances, Caller(p) \/ Fetcher(p) \/ SenderSend(p)
      PROVE  UNCHANGED <<promises, confirms, results, confirming>>
  BY <1>2 DEF Caller, Create, InsertEntity, Commit, Abort, SendFuncEnqueue, SendFuncDrop,
                  Fetcher, FetchAndLock,
       FetcherHandOver, SenderSend, pipeVars
<1>3. CASE Tick \/ (\E m \in Messages : Expire(m)) \/ UNCHANGED vars
  BY <1>1, <1>3, ResultsFrame DEF Tick, Expire, vars, pipeVars
<1>4. QED
  BY <1>1, <1>2, <1>3, ResultsFrame, ResultsBroker, ResultsPromise, ResultsConfirmer,
     ResultsBatch, ResultsLifecycle DEF Next

(* Only a batch marks documents SENT, and only the TTL monitor expires them. *)
LEMMA StoreStep ==
  ASSUME IInv, [Next]_vars
  PROVE  StoreMatchesTopic'
<1>1. TypeOK /\ OnlyCommittedTravels /\ ResultsAreTrue /\ StoreMatchesTopic
  BY DEF IInv
<1>2. Range(topic) \subseteq Range(topic') /\ Committed \subseteq Committed'
  BY <1>1, TopicGrows, CommittedGrows
<1>3. CASE UNCHANGED <<status, age, topic, commitLog>>
  BY <1>1, <1>3 DEF StoreMatchesTopic, SentIsPublished, Committed
<1>4. ASSUME NEW p \in Instances, NEW m \in Messages, Create(p, m) \/ Abort(p, m)
      PROVE  StoreMatchesTopic'
  <2>1. /\ status[m] \in {"None", "Uncommitted"}
        /\ UNCHANGED <<topic, commitLog, age>>
        /\ \E st \in {"Uncommitted", "Aborted"} : status' = [status EXCEPT ![m] = st]
    BY <1>1, <1>4 DEF Create, InsertEntity, Abort, OnlyCommittedTravels, topicVars
  <2>2. Committed' = Committed
    BY <1>1, <2>1 DEF TypeOK, Committed
  <2>3. QED
    BY <1>1, <2>1, <2>2 DEF TypeOK, StoreMatchesTopic, SentIsPublished
<1>5. ASSUME NEW p \in Instances, NEW m \in Messages, Commit(p, m)
      PROVE  StoreMatchesTopic'
  <2>1. Committed' = Committed \cup {m}
    BY <1>1, <1>5 DEF Commit, TypeOK, Committed
  <2>2. Range(commitLog') = Range(commitLog) \cup {m}
    BY <1>1, <1>5, RangeAppend DEF Commit, TypeOK
  <2>3. UNCHANGED <<topic, age>>
    BY <1>5 DEF Commit, topicVars
  <2>4. \A n \in Messages : status'[n] \in {"SENT", "Expired"} => status'[n] = status[n]
    BY <1>1, <1>5 DEF Commit, TypeOK
  <2>5. QED
    BY <1>1, <2>1, <2>2, <2>3, <2>4 DEF StoreMatchesTopic, SentIsPublished
<1>6. ASSUME NEW p \in Instances, Broker(p)
      PROVE  StoreMatchesTopic'
  <2>1. UNCHANGED <<status, age, commitLog>> /\ Committed' = Committed
    BY <1>6 DEF Broker, KafkaWrite, KafkaFail, KafkaAckLost, docVars, Committed
  <2>2. Head(producing[p]) \in Messages /\ Head(producing[p]) \in Committed
    BY <1>1, <1>6, RangeTail
       DEF Broker, KafkaWrite, KafkaFail, KafkaAckLost, TypeOK, OnlyCommittedTravels
  <2>3. topic' = topic \/ AppendRecord(Head(producing[p]))
    BY <1>6 DEF Broker, KafkaWrite, KafkaFail, KafkaAckLost, topicVars
  <2>4. Range(topic') \subseteq Range(topic) \cup {Head(producing[p])}
    BY <1>1, <2>2, <2>3, AppendedRecord
  <2>5. QED
    BY <1>1, <1>2, <2>1, <2>2, <2>4 DEF StoreMatchesTopic, SentIsPublished
<1>7. ASSUME NEW p \in Instances, NEW ids \in SUBSET Messages, UpdateAsSentByIDs(p, ids)
      PROVE  StoreMatchesTopic'
  <2>1. /\ confirming[p][ids] > 0
        /\ status' = [m \in Messages |-> IF m \in Matched(ids) THEN "SENT" ELSE status[m]]
        /\ UNCHANGED <<topic, age, commitLog>>
    BY <1>7 DEF UpdateAsSentByIDs, topicVars
  <2>2. ids \subseteq Range(topic)
    BY <1>1, <2>1 DEF ResultsAreTrue
  <2>3. Committed' = Committed
    BY <1>1, <2>1 DEF TypeOK, Committed, Matched
  <2>4. SentIsPublished'
    BY <1>1, <2>1, <2>2 DEF TypeOK, StoreMatchesTopic, SentIsPublished, Matched
  <2>5. \A m \in Messages : status'[m] = "Expired" => status[m] = "Expired"
    BY <1>1, <2>1 DEF TypeOK
  <2>6. QED
    BY <1>1, <2>1, <2>3, <2>4, <2>5 DEF StoreMatchesTopic
<1>8. ASSUME NEW p \in Instances, Die(p)
      PROVE  StoreMatchesTopic'
  <2>1. /\ status' = [m \in Messages |-> IF m \in txn[p] THEN "Aborted" ELSE status[m]]
        /\ UNCHANGED <<topic, age, commitLog>>
    BY <1>8 DEF Die, topicVars
  <2>2. Committed' = Committed
    BY <1>1, <2>1 DEF TypeOK, Committed, OnlyCommittedTravels
  <2>3. \A m \in Messages : status'[m] \in {"SENT", "Expired"} => status'[m] = status[m]
    BY <1>1, <2>1 DEF TypeOK
  <2>4. QED
    BY <1>1, <2>1, <2>2, <2>3 DEF StoreMatchesTopic, SentIsPublished
<1>9. CASE Tick
  <2>1. UNCHANGED <<status, topic, commitLog>> /\ Committed' = Committed
    BY <1>9 DEF Tick, topicVars, Committed
  <2>2. \A m \in Messages : status[m] = "Expired" => age'[m] = TTLTicks
    BY <1>1, <1>9, OutboxAssumption DEF Tick, StoreMatchesTopic, Smaller
  <2>3. QED
    BY <1>1, <2>1, <2>2 DEF StoreMatchesTopic, SentIsPublished
<1>10. ASSUME NEW m \in Messages, Expire(m)
       PROVE  StoreMatchesTopic'
  <2>1. Committed' = Committed /\ UNCHANGED <<topic, age, commitLog>>
    BY <1>1, <1>10 DEF Expire, TypeOK, Committed, topicVars
  <2>2. \A n \in Messages : /\ status'[n] = "SENT" => status[n] = "SENT"
                            /\ status'[n] = "Expired" => status[n] = "Expired" \/ n = m
    BY <1>1, <1>10 DEF Expire, TypeOK
  <2>3. QED
    BY <1>1, <1>10, <2>1, <2>2 DEF Expire, StoreMatchesTopic, SentIsPublished
<1>11. ASSUME NEW p \in Instances,
              \/ \E m \in Messages : SendFuncEnqueue(p, m) \/ SendFuncDrop(p, m)
              \/ Fetcher(p) \/ SenderSend(p) \/ Promise(p) \/ Confirmer(p)
              \/ \E ids \in SUBSET Messages : UpdateFails(p, ids)
              \/ BeginStop(p) \/ ConfirmerExit(p) \/ SenderExit(p) \/ FetcherExit(p)
              \/ Restart(p)
       PROVE  UNCHANGED <<status, age, topic, commitLog>>
  BY <1>11 DEF SendFuncEnqueue, SendFuncDrop, Fetcher, FetchAndLock, FetcherHandOver, SenderSend,
       Promise, Confirmer, ConfirmerReceive, ConfirmerTick, UpdateFails, BeginStop,
       ConfirmerExit, SenderExit, FetcherExit, Restart, docVars, topicVars
<1>12. CASE UNCHANGED vars
  BY <1>3, <1>12 DEF vars, docVars, topicVars
<1>13. ASSUME NEW p \in Instances,
              \/ Caller(p) \/ Fetcher(p) \/ SenderSend(p) \/ Broker(p) \/ Promise(p)
              \/ Confirmer(p) \/ Batch(p) \/ Stop(p) \/ Crash(p) \/ Restart(p)
       PROVE  StoreMatchesTopic'
  BY <1>3, <1>4, <1>5, <1>6, <1>7, <1>8, <1>11, <1>13
     DEF Caller, Batch, Stop, ClientClose, Crash
<1>14. QED
  BY <1>9, <1>10, <1>12, <1>13 DEF Next

LEMMA InvStep == IInv /\ [Next]_vars => IInv'
BY StepType, TravelStep, ResultsStep, StoreStep DEF IInv

LEMMA InvHolds == Spec => []IInv
BY InitInv, InvStep, PTL DEF Spec

(* A document is SENT only when its message is in the topic.               *)
THEOREM SentOnlyIfPublished == Spec => []SentIsPublished
<1>1. IInv => SentIsPublished
  BY DEF IInv, StoreMatchesTopic
<1>2. QED
  BY <1>1, InvHolds, PTL

(* A committed message that Kafka does not have is still PROCESSING, or    *)
(* its document reached the age of the TTL index.                          *)
THEOREM NothingLost == Spec => []ReliableDelivery
<1>1. IInv => ReliableDelivery
  BY DEF IInv, StoreMatchesTopic, SentIsPublished, Committed, ReliableDelivery
<1>2. QED
  BY <1>1, InvHolds, PTL
-----------------------------------------------------------------------------
(* The outbox implements AtLeastOnce: each step is one of the abstract     *)
(* specification, or leaves StoredAs and the set of records alone.         *)

LEMMA AbstractInit == Init => Abstract!Init
<1>1. SUFFICES ASSUME Init PROVE Abstract!Init
  OBVIOUS
<1>2. StoredAs = [m \in Messages |-> "absent"]
  BY <1>1 DEF Init, StoredAs
<1>3. QED
  BY <1>1, <1>2, RangeEmpty DEF Init, Abstract!Init

(* The names of a document's two views agree.                              *)
LEMMA StoredOf ==
  ASSUME TypeOK, NEW m \in Messages
  PROVE  /\ StoredAs[m] \in {"absent", "pending", "sent", "expired"}
         /\ StoredAs[m] = "absent" <=> m \notin Committed
         /\ StoredAs[m] = "pending" <=> status[m] = "PROCESSING"
         /\ StoredAs[m] = "sent" <=> status[m] = "SENT"
         /\ StoredAs[m] = "expired" <=> status[m] = "Expired"
<1>1. status[m] \in Statuses
  BY DEF TypeOK
<1>2. QED
  BY <1>1 DEF StoredAs, Statuses, Committed

LEMMA StoredSame ==
  ASSUME TypeOK, TypeOK', Committed' = Committed,
         \A m \in Committed : status'[m] = status[m]
  PROVE  StoredAs' = StoredAs
<1>1. \A m \in Messages : m \notin Committed => StoredAs[m] = "absent"
  BY StoredOf
<1>2. \A m \in Messages : m \notin Committed' => StoredAs'[m] = "absent"
  <2>1. \A m \in Messages : status'[m] \in Statuses
    BY DEF TypeOK
  <2>2. QED
    BY <2>1 DEF StoredAs, Statuses, Committed
<1>3. \A m \in Messages : m \in Committed => StoredAs'[m] = StoredAs[m]
  BY DEF StoredAs
<1>4. \A m \in Messages : StoredAs'[m] = StoredAs[m]
  BY <1>1, <1>2, <1>3
<1>5. QED
  BY <1>4 DEF StoredAs

(* A step that commits nothing and sends nothing stutters.                 *)
LEMMA AbstractStutter ==
  ASSUME TypeOK, TypeOK', Committed' = Committed,
         \A m \in Committed : status'[m] = status[m], topic' = topic
  PROVE  UNCHANGED Abstract!vars
<1>1. StoredAs' = StoredAs
  BY StoredSame
<1>2. QED
  BY <1>1 DEF Abstract!vars

LEMMA AbstractStep == IInv /\ IInv' /\ [Next]_vars => [Abstract!Next]_(Abstract!vars)
<1>1. SUFFICES ASSUME IInv, IInv', [Next]_vars
               PROVE  Abstract!Next \/ UNCHANGED Abstract!vars
  OBVIOUS
<1>2. /\ TypeOK /\ TypeOK' /\ OnlyCommittedTravels /\ ResultsAreTrue /\ StoreMatchesTopic
  BY <1>1 DEF IInv
<1>3. CASE UNCHANGED <<status, topic>>
  <2>1. Committed' = Committed
    BY <1>3 DEF Committed
  <2>2. QED
    BY <1>2, <1>3, <2>1, AbstractStutter
<1>4. ASSUME NEW p \in Instances, NEW m \in Messages, Create(p, m) \/ Abort(p, m)
      PROVE  UNCHANGED Abstract!vars
  <2>1. /\ status[m] \in {"None", "Uncommitted"} /\ topic' = topic
        /\ \E st \in {"Uncommitted", "Aborted"} : status' = [status EXCEPT ![m] = st]
    BY <1>2, <1>4 DEF Create, InsertEntity, Abort, OnlyCommittedTravels, topicVars
  <2>2. Committed' = Committed /\ \A n \in Committed : status'[n] = status[n]
    BY <1>2, <2>1 DEF TypeOK, Committed
  <2>3. QED
    BY <1>2, <2>1, <2>2, AbstractStutter
<1>5. ASSUME NEW p \in Instances, NEW m \in Messages, Commit(p, m)
      PROVE  Abstract!Commit(m)
  <2>1. status[m] = "Uncommitted" /\ status' = [status EXCEPT ![m] = "PROCESSING"]
    BY <1>2, <1>5 DEF Commit, OnlyCommittedTravels
  <2>2. StoredAs[m] = "absent" /\ StoredAs' = [StoredAs EXCEPT ![m] = "pending"]
    BY <1>2, <2>1 DEF TypeOK, StoredAs
  <2>3. QED
    BY <1>5, <2>2 DEF Commit, Abstract!Commit, topicVars
<1>6. ASSUME NEW p \in Instances, Broker(p)
      PROVE  (\E m \in Messages : Abstract!Publish(m)) \/ UNCHANGED Abstract!vars
  <2>1. /\ status' = status
        /\ topic' = topic \/ AppendRecord(Head(producing[p]))
        /\ producing[p] # <<>>
    BY <1>6 DEF Broker, KafkaWrite, KafkaFail, KafkaAckLost, docVars, topicVars
  <2>2. Head(producing[p]) \in Messages /\ Head(producing[p]) \in Committed
    BY <1>2, <2>1, RangeTail DEF TypeOK, OnlyCommittedTravels
  <2>3. CASE topic' = topic
    <3>1. Committed' = Committed
      BY <2>1 DEF Committed
    <3>2. QED
      BY <1>2, <2>1, <2>3, <3>1, AbstractStutter
  <2>4. CASE AppendRecord(Head(producing[p]))
    <3>1. Range(topic') = Range(topic) \cup {Head(producing[p])}
      BY <1>2, <2>2, <2>4, AppendedRecord
    <3>2. StoredAs' = StoredAs
      BY <2>1 DEF StoredAs
    <3>3. StoredAs[Head(producing[p])] # "absent"
      BY <1>2, <2>2, StoredOf
    <3>4. Abstract!Publish(Head(producing[p]))
      BY <3>1, <3>2, <3>3 DEF Abstract!Publish
    <3>5. QED
      BY <2>2, <3>4
  <2>5. QED
    BY <2>1, <2>3, <2>4
<1>7. ASSUME NEW p \in Instances, NEW ids \in SUBSET Messages, UpdateAsSentByIDs(p, ids)
      PROVE  Abstract!Confirm(Matched(ids))
  <2>1. /\ confirming[p][ids] > 0 /\ topic' = topic
        /\ status' = [m \in Messages |-> IF m \in Matched(ids) THEN "SENT" ELSE status[m]]
    BY <1>7 DEF UpdateAsSentByIDs, topicVars
  <2>2. Matched(ids) \subseteq Range(topic)
    BY <1>2, <2>1 DEF ResultsAreTrue, Matched
  <2>3. \A m \in Matched(ids) : m \in Messages /\ status[m] \in {"PROCESSING", "SENT"}
    BY DEF Matched
  <2>4. \A m \in Matched(ids) : StoredAs[m] \in {"pending", "sent"}
    BY <1>2, <2>3, StoredOf
  <2>5. StoredAs' = [m \in Messages |-> IF m \in Matched(ids) THEN "sent" ELSE StoredAs[m]]
    BY <1>2, <2>1 DEF StoredAs
  <2>6. QED
    BY <2>1, <2>2, <2>4, <2>5 DEF Abstract!Confirm
<1>8. ASSUME NEW p \in Instances, Die(p)
      PROVE  UNCHANGED Abstract!vars
  <2>1. /\ status' = [m \in Messages |-> IF m \in txn[p] THEN "Aborted" ELSE status[m]]
        /\ topic' = topic
    BY <1>8 DEF Die, topicVars
  <2>2. Committed' = Committed /\ \A n \in Committed : status'[n] = status[n]
    BY <1>2, <2>1 DEF TypeOK, Committed, OnlyCommittedTravels
  <2>3. QED
    BY <1>2, <2>1, <2>2, AbstractStutter
<1>9. ASSUME NEW m \in Messages, Expire(m)
      PROVE  Abstract!Expire(m)
  <2>1. /\ status[m] \in {"PROCESSING", "SENT"} /\ topic' = topic
        /\ status' = [status EXCEPT ![m] = "Expired"]
    BY <1>9 DEF Expire, topicVars
  <2>2. /\ StoredAs[m] \in {"pending", "sent"}
        /\ StoredAs' = [StoredAs EXCEPT ![m] = "expired"]
    BY <1>2, <2>1 DEF TypeOK, StoredAs
  <2>3. QED
    BY <2>1, <2>2 DEF Abstract!Expire
<1>10. ASSUME NEW p \in Instances,
              \/ \E m \in Messages : SendFuncEnqueue(p, m) \/ SendFuncDrop(p, m)
              \/ Fetcher(p) \/ SenderSend(p) \/ Promise(p) \/ Confirmer(p)
              \/ \E ids \in SUBSET Messages : UpdateFails(p, ids)
              \/ BeginStop(p) \/ ConfirmerExit(p) \/ SenderExit(p) \/ FetcherExit(p)
              \/ Restart(p)
       PROVE  UNCHANGED <<status, topic>>
  BY <1>10 DEF SendFuncEnqueue, SendFuncDrop, Fetcher, FetchAndLock, FetcherHandOver, SenderSend,
       Promise, Confirmer, ConfirmerReceive, ConfirmerTick, UpdateFails, BeginStop,
       ConfirmerExit, SenderExit, FetcherExit, Restart, docVars, topicVars
<1>11. CASE Tick \/ UNCHANGED vars
  BY <1>3, <1>11 DEF Tick, vars, docVars, topicVars
<1>12. ASSUME NEW p \in Instances,
              \/ Caller(p) \/ Fetcher(p) \/ SenderSend(p) \/ Broker(p) \/ Promise(p)
              \/ Confirmer(p) \/ Batch(p) \/ Stop(p) \/ Crash(p) \/ Restart(p)
       PROVE  Abstract!Next \/ UNCHANGED Abstract!vars
  <2>1. CASE Caller(p)
    BY <1>3, <1>4, <1>5, <1>10, <2>1 DEF Caller, Abstract!Next
  <2>2. CASE Batch(p)
    <3>1. \A ids \in SUBSET Messages : Matched(ids) \in SUBSET Messages
      BY DEF Matched
    <3>2. QED
      BY <1>3, <1>7, <1>10, <2>2, <3>1 DEF Batch, Abstract!Next
  <2>3. CASE Stop(p) \/ Crash(p)
    BY <1>3, <1>8, <1>10, <2>3 DEF Stop, ClientClose, Crash
  <2>4. CASE Broker(p)
    BY <1>6, <2>4 DEF Abstract!Next
  <2>5. QED
    BY <1>3, <1>10, <1>12, <2>1, <2>2, <2>3, <2>4
<1>13. QED
  BY <1>1, <1>9, <1>11, <1>12 DEF Next, Abstract!Next

(* The whole pipeline keeps the promise made to the callers of the outbox. *)
THEOREM ImplementsAtLeastOnce == Spec => AtLeastOnceSpec
<1>1. Init => Abstract!Init
  BY AbstractInit
<1>2. IInv /\ IInv' /\ [Next]_vars => [Abstract!Next]_(Abstract!vars)
  BY AbstractStep
<1>3. QED
  BY <1>1, <1>2, InvHolds, PTL DEF Spec, AtLeastOnceSpec, Abstract!Spec
=============================================================================
