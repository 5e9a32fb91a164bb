---------------------------- MODULE CallsProofs ----------------------------
(***************************************************************************)
(* Theorems about calls between services, for any number of calls, any     *)
(* configurations that the files may hold and any bounds.                  *)
(***************************************************************************)
EXTENDS Calls, FiniteSetTheorems, TLAPS

(* What the loaded configurations amount to.                               *)
LEMMA ConfigFacts == ConfigOK => MaxRetries \in Int /\ MaxIdle \in Nat
BY CallsAssumption DEF ConfigOK, MaxRetries, MaxIdle

LEMMA ConfigSame ==
  UNCHANGED configVars => /\ ConfigOK => ConfigOK'
                          /\ MaxRetries' = MaxRetries /\ MaxIdle' = MaxIdle
                          /\ client' = client /\ server' = server
BY DEF configVars, ConfigOK, MaxRetries, MaxIdle

LEMMA InitConfig == Init => ConfigOK
<1>1. SUFFICES ASSUME Init PROVE ConfigOK
  OBVIOUS
<1>2. PICK c \in ClientConfigs : client = ClientDefaults(c)
  BY <1>1 DEF Init
<1>3. client.idle \in Int /\ client.lifetime \in Int
  <2>1. c \in [idle : Int \cup {Unset}, lifetime : Int \cup {Unset}]
    BY CallsAssumption
  <2>2. /\ client.idle = IF c.idle = Unset THEN DefaultIdle ELSE c.idle
        /\ client.lifetime = IF c.lifetime = Unset THEN DefaultLifetime ELSE c.lifetime
    BY <1>2 DEF ClientDefaults
  <2>3. QED
    BY <2>1, <2>2, CallsAssumption
<1>4. PICK s \in ServerConfigs : server = ServerDefaults(s) /\ ServerValid(server)
  BY <1>1 DEF Init
<1>5. s \in [requestTimeout : Int, bulkhead : BOOLEAN, maxConcurrent : Int]
  BY CallsAssumption
<1>6. server \in [requestTimeout : Int, bulkhead : BOOLEAN, maxConcurrent : Int]
  BY <1>4, <1>5, CallsAssumption DEF ServerDefaults
<1>7. server.requestTimeout \in Nat /\ (server.bulkhead => server.maxConcurrent \in Nat)
  BY <1>4, CallsAssumption DEF ServerValid
<1>8. QED
  BY <1>3, <1>6, <1>7 DEF ConfigOK

LEMMA InitType == Init => TypeOK
<1>1. SUFFICES ASSUME Init, ConfigOK PROVE TypeOK
  BY InitConfig
<1>2. PoolOK
  <2>1. PICK n \in 0..MaxIdle : pool = [NoneIdle EXCEPT !["fresh"] = n]
    BY <1>1 DEF Init
  <2>2. /\ pool \in [Kinds -> Nat]
        /\ pool["fresh"] = n /\ pool["aged"] = 0 /\ pool["dead"] = 0
    BY <1>1, <2>1, ConfigFacts DEF NoneIdle, Kinds
  <2>3. QED
    BY <1>1, <2>1, <2>2, ConfigFacts DEF PoolOK, Idle
<1>3. CallOK
  BY <1>1 DEF Init, CallOK, Phases
<1>4. ServerOK /\ HistoryOK
  BY <1>1, CallsAssumption DEF Init, ServerOK, HistoryOK, ConfigOK
<1>5. QED
  BY <1>1, <1>2, <1>3, <1>4 DEF TypeOK
-----------------------------------------------------------------------------
(* What the client's steps do to a call that has neither begun nor ended.  *)

Active(r) == phase[r] \notin {"idle", "done"}

LEMMA DoneType ==
  ASSUME CallOK, NEW r \in Calls, NEW x \in Answers \cup Errors, Done(r, x),
         UNCHANGED configVars
  PROVE  CallOK'
BY ConfigSame DEF CallOK, Done, Phases, Answers, Errors, Kinds

LEMMA ConnectionErrorType ==
  ASSUME ConfigOK, CallOK, NEW r \in Calls, Active(r), ConnectionError(r),
         UNCHANGED configVars
  PROVE  CallOK'
<1>1. CASE InLoop(r) /\ Retry(r)
  <2>1. /\ attempt' \in [Calls -> Nat]
        /\ \A q \in Calls : attempt'[q] = 0 \/ attempt'[q] <= MaxRetries + 1
    BY <1>1, ConfigFacts DEF CallOK, InLoop, Retry
  <2>2. PICK p \in {"ready", "drain"} : phase' = [phase EXCEPT ![r] = p]
    BY <1>1 DEF Retry, Turn
  <2>3. phase' \in [Calls -> Phases]
    BY <2>2 DEF CallOK, Phases
  <2>4. /\ spent' \in [Calls -> BOOLEAN]
        /\ conn' \in [Calls -> Kinds \cup {"none", "new"}]
        /\ outcome' = outcome
    BY <1>1 DEF CallOK, Retry
  <2>5. \A q \in Calls : conn'[q] # "none" <=> phase'[q] \in {"writing", "waiting"}
    BY <1>1, <2>2 DEF CallOK, Retry
  <2>6. \A q \in Calls : outcome'[q] # "none" <=> phase'[q] = "done"
    BY <2>2, <2>4 DEF CallOK, Active
  <2>7. QED
    BY <2>1, <2>3, <2>4, <2>5, <2>6, ConfigSame DEF CallOK
<1>2. CASE ~InLoop(r) /\ Done(r, "refused")
  BY <1>2, DoneType DEF Errors
<1>3. QED
  BY <1>1, <1>2 DEF ConnectionError

LEMMA ExpiredType ==
  ASSUME CallOK, NEW r \in Calls, Active(r), Expired(r), UNCHANGED configVars
  PROVE  CallOK'
<1>1. CASE ~InLoop(r) /\ Done(r, "expired")
  BY <1>1, DoneType DEF Errors
<1>2. CASE ~(~InLoop(r) /\ Done(r, "expired"))
  BY <1>2, ConfigSame DEF CallOK, Expired, Active, Phases, Answers, Errors, Kinds
<1>3. QED
  BY <1>1, <1>2

LEMMA WriteType ==
  ASSUME CallOK, NEW r \in Calls, phase[r] = "ready", NEW k \in Kinds \cup {"new"},
         Write(r, k), UNCHANGED configVars
  PROVE  CallOK'
BY ConfigSame DEF CallOK, Write, Phases, Answers, Errors, Kinds

(* What happens to the pool.                                               *)
LEMMA PoolTaken ==
  ASSUME ConfigOK, PoolOK, NEW k \in Kinds, pool[k] > 0,
         pool' = [pool EXCEPT ![k] = @ - 1], UNCHANGED configVars
  PROVE  PoolOK'
BY ConfigSame, ConfigFacts DEF PoolOK, Idle, Kinds

LEMMA PoolPut ==
  ASSUME ConfigOK, PoolOK, NEW k \in Kinds \cup {"none", "new"}, PutIdle(k), UNCHANGED configVars
  PROVE  PoolOK'
<1>1. CASE Idle < MaxIdle /\ k \in Kinds
  BY <1>1, ConfigSame, ConfigFacts DEF PoolOK, PutIdle, Idle, Kinds
<1>2. CASE Idle < MaxIdle /\ k \notin Kinds
  <2>1. pool' = pool
    BY <1>2 DEF PutIdle, PoolOK
  <2>2. QED
    BY <2>1, ConfigSame DEF PoolOK, Idle
<1>3. CASE ~(Idle < MaxIdle)
  BY <1>3, ConfigSame DEF PoolOK, PutIdle, Idle
<1>4. QED
  BY <1>1, <1>2, <1>3

LEMMA PoolSame ==
  ASSUME PoolOK, pool' = pool, UNCHANGED configVars
  PROVE  PoolOK'
BY ConfigSame DEF PoolOK, Idle

LEMMA CallSame ==
  ASSUME CallOK, UNCHANGED callVars, UNCHANGED configVars
  PROVE  CallOK'
BY ConfigSame DEF CallOK, callVars

LEMMA ServerSame == ServerOK /\ UNCHANGED serverVars => ServerOK'
BY DEF ServerOK, serverVars

LEMMA HistorySame ==
  HistoryOK /\ UNCHANGED <<ran, lost, troubled, crashes, agings>> => HistoryOK'
BY DEF HistoryOK
-----------------------------------------------------------------------------
LEMMA ClientType ==
  ASSUME TypeOK, NEW r \in Calls, Client(r) \/ Begin(r) \/ NoToken(r) \/ TimesOut(r) \/ Age(r)
  PROVE  TypeOK'
<1> USE DEF TypeOK
<1>1. CASE Begin(r)
  <2>1. CallOK'
    BY <1>1, ConfigSame DEF Begin, Turn, CallOK, Phases, Kinds, Answers, Errors
  <2>2. HistoryOK'
    BY <1>1 DEF Begin, HistoryOK, serverVars, boundedVars
  <2>3. QED
    BY <1>1, <2>1, <2>2, PoolSame, ServerSame, ConfigSame DEF Begin
<1>2. CASE NoToken(r)
  BY <1>2, DoneType, PoolSame, ServerSame, HistorySame, ConfigSame
     DEF NoToken, Errors, serverVars, historyVars, boundedVars
<1>3. CASE TimesOut(r)
  BY <1>3, DoneType, PoolSame, ServerSame, HistorySame, ConfigSame
     DEF TimesOut, Errors, serverVars, historyVars, boundedVars
<1>4. CASE Age(r)
  <2>1. CallOK'
    BY <1>4, ConfigSame DEF Age, CallOK, Kinds
  <2>2. HistoryOK'
    BY <1>4, CallsAssumption DEF Age, Aging, HistoryOK, serverVars, historyVars
  <2>3. QED
    BY <1>4, <2>1, <2>2, PoolSame, ServerSame, ConfigSame DEF Age
<1>5. ASSUME NEW k \in Kinds, TakeIdle(r, k) PROVE TypeOK'
  <2>1. PoolOK'
    BY <1>5, PoolTaken DEF TakeIdle
  <2>2. CallOK'
    <3>1. CASE Write(r, "fresh")
      BY <1>5, <3>1, WriteType DEF TakeIdle, Kinds
    <3>2. CASE UNCHANGED callVars
      BY <1>5, <3>2, CallSame DEF TakeIdle
    <3>3. CASE ConnectionError(r)
      BY <1>5, <3>3, ConnectionErrorType DEF TakeIdle, Active
    <3>4. QED
      BY <1>5, <3>1, <3>2, <3>3 DEF TakeIdle, FirstWrite
  <2>3. QED
    BY <1>5, <2>1, <2>2, ServerSame, HistorySame, ConfigSame
       DEF TakeIdle, serverVars, historyVars, boundedVars
<1>6. CASE Dial(r)
  <2>1. CallOK'
    BY <1>6, WriteType, ConnectionErrorType DEF Dial, Active
  <2>2. QED
    BY <1>6, <2>1, PoolSame, ServerSame, HistorySame, ConfigSame
       DEF Dial, serverVars, historyVars, boundedVars
<1>7. CASE SendSpentBody(r)
  BY <1>7, DoneType, PoolSame, ServerSame, HistorySame, ConfigSame
     DEF SendSpentBody, Errors, serverVars, historyVars, boundedVars
<1>8. CASE Written(r)
  <2>1. CallOK'
    BY <1>8, ConfigSame DEF Written, CallOK, Phases, Kinds
  <2>2. ServerOK'
    BY <1>8 DEF Written, ServerOK
  <2>3. QED
    BY <1>8, <2>1, <2>2, PoolSame, HistorySame, ConfigSame DEF Written, historyVars, boundedVars
<1>9. CASE WriteExpires(r)
  BY <1>9, ExpiredType, PoolSame, ServerSame, HistorySame, ConfigSame
     DEF WriteExpires, Active, serverVars, historyVars, boundedVars
<1>10. CASE ConnectionBreaks(r)
  BY <1>10, ConnectionErrorType, PoolSame, ServerSame, HistorySame, ConfigSame
     DEF ConnectionBreaks, Active, serverVars, historyVars, boundedVars
<1>11. CASE CloseIdleConnections(r)
  <2>1. CallOK'
    BY <1>11, ConfigSame DEF CloseIdleConnections, CallOK, Phases, Kinds
  <2>2. PoolOK'
    BY <1>11, ConfigSame, ConfigFacts DEF CloseIdleConnections, PoolOK, Idle, NoneIdle, Kinds
  <2>3. QED
    BY <1>11, <2>1, <2>2, ServerSame, HistorySame, ConfigSame
       DEF CloseIdleConnections, serverVars, historyVars, boundedVars
<1>12. QED
  BY <1>1, <1>2, <1>3, <1>4, <1>5, <1>6, <1>7, <1>8, <1>9, <1>10, <1>11 DEF Client

LEMMA ReplyType ==
  ASSUME TypeOK, NEW r \in Calls, NEW a \in Answers, Reply(r, a), slots' \in Int,
         ran' = ran
  PROVE  TypeOK'
<1> USE DEF TypeOK
<1>1. UNCHANGED configVars /\ ConfigOK'
  BY ConfigSame DEF Reply
<1>2. ServerOK'
  BY DEF Reply, ServerOK
<1>3. CASE phase[r] = "waiting" /\ Deliver(r, a)
  <2>1. HistoryOK'
    BY <1>3 DEF Reply, Deliver, LoseAnswer, HistoryOK, boundedVars
  <2>2. PoolOK'
    <3>1. conn[r] \in Kinds \cup {"none", "new"}
      BY DEF CallOK
    <3>2. QED
      BY <1>1, <1>3, <3>1, PoolPut, PoolSame DEF Deliver
  <2>3. CallOK'
    <3>1. CASE conn' = [conn EXCEPT ![r] = "dead"] /\ UNCHANGED <<phase, attempt, spent, outcome>>
      BY <1>1, <1>3, <3>1, ConfigSame DEF CallOK, Kinds
    <3>2. CASE Expired(r)
      BY <1>1, <1>3, <3>2, ExpiredType DEF Active
    <3>3. CASE Done(r, a) \/ Done(r, "expired")
      BY <1>1, <3>3, DoneType DEF Errors
    <3>4. QED
      BY <1>3, <3>1, <3>2, <3>3 DEF Deliver
  <2>4. QED
    BY <1>1, <1>2, <2>1, <2>2, <2>3
<1>4. CASE phase[r] = "done" /\ UNCHANGED <<pool, callVars, lost>>
  BY <1>1, <1>2, <1>4, PoolSame, CallSame, HistorySame DEF Reply, boundedVars
<1>5. QED
  BY <1>3, <1>4 DEF Reply

LEMMA RunType ==
  ASSUME TypeOK, NEW r \in Calls, Run(r), slots' \in Int
  PROVE  TypeOK'
<1> USE DEF TypeOK
<1>1. ServerOK'
  BY DEF Run, ServerOK
<1>2. HistoryOK'
  BY DEF Run, HistoryOK, historyVars, boundedVars
<1>3. QED
  BY <1>1, <1>2, ConfigSame, PoolSame, CallSame DEF Run

LEMMA ServerType ==
  ASSUME TypeOK, NEW r \in Calls, Server(r) \/ RequestTimeout(r) \/ WriteTimeout(r)
  PROVE  TypeOK'
<1>1. slots \in Int /\ slots + 1 \in Int /\ slots - 1 \in Int
  BY DEF TypeOK, ServerOK
<1>2. CASE Refuse(r)
  BY <1>1, <1>2, ReplyType DEF Refuse, Answers
<1>3. CASE Admit(r)
  <2>1. CASE Run(r)
    BY <1>1, <1>3, <2>1, RunType DEF Admit
  <2>2. CASE ~Run(r)
    <3>1. ServerOK'
      BY <1>3, <2>2 DEF Admit, TypeOK, ServerOK
    <3>2. QED
      BY <1>3, <2>2, <3>1, ConfigSame, PoolSame, CallSame, HistorySame
         DEF Admit, TypeOK, historyVars, boundedVars
  <2>3. QED
    BY <2>1, <2>2
<1>4. CASE Acquire(r)
  BY <1>1, <1>4, RunType DEF Acquire
<1>5. CASE NoSlot(r)
  BY <1>1, <1>5, ReplyType DEF NoSlot, Answers
<1>6. CASE HandlerReturns(r)
  BY <1>1, <1>6, ReplyType DEF HandlerReturns, Release, Answers
<1>7. CASE HandlerPanics(r)
  BY <1>1, <1>7, ReplyType DEF HandlerPanics, Release, Answers
<1>8. CASE RequestTimeout(r) \/ WriteTimeout(r)
  <2>1. ServerOK'
    BY <1>8 DEF RequestTimeout, WriteTimeout, TypeOK, ServerOK
  <2>2. UNCHANGED <<configVars, pool, callVars, ran, historyVars, boundedVars>>
    BY <1>8 DEF RequestTimeout, WriteTimeout
  <2>3. QED
    BY <2>1, <2>2, ConfigSame, PoolSame, CallSame, HistorySame
       DEF TypeOK, historyVars, boundedVars
<1>9. QED
  BY <1>2, <1>3, <1>4, <1>5, <1>6, <1>7, <1>8 DEF Server

LEMMA CrashType ==
  ASSUME TypeOK, Crash
  PROVE  TypeOK'
<1> USE DEF TypeOK
<1>1. ConfigOK' /\ UNCHANGED configVars
  BY ConfigSame DEF Crash
<1>2. PoolOK'
  BY <1>1, ConfigSame DEF Crash, PoolOK, Idle, Kinds
<1>3. CallOK'
  BY <1>1, ConfigSame DEF Crash, CallOK, Kinds
<1>4. ServerOK'
  BY <1>1, ConfigSame DEF Crash, ServerOK, ConfigOK
<1>5. HistoryOK'
  BY CallsAssumption DEF Crash, HistoryOK, CallerGone
<1>6. QED
  BY <1>1, <1>2, <1>3, <1>4, <1>5

LEMMA PoolStepType ==
  ASSUME TypeOK, NEW k \in Kinds, IdleConnTimeout(k) \/ AgeIdle(k)
  PROVE  TypeOK'
<1> USE DEF TypeOK
<1>1. UNCHANGED <<configVars, callVars, serverVars, historyVars, crashes>> /\ ConfigOK'
  BY ConfigSame DEF IdleConnTimeout, AgeIdle, boundedVars
<1>2. PoolOK'
  <2>1. CASE IdleConnTimeout(k)
    BY <2>1, PoolTaken DEF IdleConnTimeout
  <2>2. CASE AgeIdle(k)
    BY <1>1, <2>2, ConfigSame, ConfigFacts DEF AgeIdle, PoolOK, Idle, Kinds
  <2>3. QED
    BY <2>1, <2>2
<1>3. agings' \in 0..MaxAgings
  BY CallsAssumption DEF IdleConnTimeout, AgeIdle, Aging, HistoryOK, boundedVars
<1>4. QED
  BY <1>1, <1>2, <1>3, CallSame, ServerSame DEF HistoryOK, serverVars, historyVars

LEMMA StepType == TypeOK /\ [Next]_vars => TypeOK'
<1>1. SUFFICES ASSUME TypeOK, [Next]_vars PROVE TypeOK'
  OBVIOUS
<1>2. CASE Restart
  BY <1>1, <1>2, ConfigSame, PoolSame, CallSame, HistorySame
     DEF Restart, TypeOK, ServerOK, historyVars, boundedVars
<1>3. CASE UNCHANGED vars
  BY <1>1, <1>3, ConfigSame, PoolSame, CallSame, ServerSame, HistorySame
     DEF vars, TypeOK, serverVars, historyVars, boundedVars
<1>4. QED
  BY <1>1, <1>2, <1>3, ClientType, ServerType, CrashType, PoolStepType DEF Next

(* Every variable keeps its type, the pool its limit, and the bulkhead a   *)
(* limit that is not negative.                                             *)
THEOREM TypeCorrect == Spec => []TypeOK
<1>1. QED
  BY InitType, StepType, PTL DEF Spec
-----------------------------------------------------------------------------
(* The inductive invariant.  The server works for calls that wait or have  *)
(* timed out, and never on a dead connection; exactly the runs before the  *)
(* last one have lost their answer, and before a run, between two attempts *)
(* and in the queue there is no last one; and everything that makes a      *)
(* final attempt fail has a cause.                                         *)

Served ==
    /\ \A r \in Calls : serving[r] # "none" => phase[r] \in {"waiting", "done"}
    /\ \A r \in Calls : conn[r] = "dead" => serving[r] = "none"
    /\ \A r \in Calls : serving[r] # "none" /\ phase[r] = "done" => outcome[r] = "timeout"
    /\ \A r \in Calls : late[r] = "cut" => serving[r] = "running"

Last(r) == serving[r] = "running" \/ (phase[r] = "done" /\ serving[r] = "none")

LostButLast ==
    /\ \A r \in Calls : ran[r] <= lost[r] + 1
    /\ \A r \in Calls : serving[r] = "running" => ran[r] = lost[r] + 1
    /\ \A r \in Calls : ~Last(r) => ran[r] = lost[r]

Cause(r) == r \in troubled \/ lost[r] > 0

Final(r) == Active(r) /\ ~InLoop(r) /\ phase[r] # "drain"

Causes ==
    /\ \A r \in Calls : Active(r) /\ ~up => r \in troubled
    /\ \A r \in Calls : conn[r] = "dead" => Cause(r)
    /\ \A r \in Calls : Final(r) /\ pool["dead"] > 0 => Cause(r)
    /\ FailureHasCause

IInv == TypeOK /\ Served /\ LostButLast /\ Causes /\ SlotsConserved

LEMMA InitInv == Init => IInv
<1>1. SUFFICES ASSUME Init, TypeOK PROVE Served /\ LostButLast /\ Causes /\ SlotsConserved
  BY InitType DEF IInv
<1>2. Served /\ LostButLast /\ Causes
  BY <1>1 DEF Init, Served, Last, LostButLast, Cause, Final, Active, Causes, FailureHasCause
<1>3. SlotsConserved
  <2>1. Running = {}
    BY <1>1 DEF Init, Running
  <2>2. slots = server.maxConcurrent /\ (server.bulkhead => server.maxConcurrent \in Nat)
    BY <1>1 DEF Init, TypeOK, ConfigOK
  <2>3. QED
    BY <2>1, <2>2, FS_EmptySet DEF SlotsConserved
<1>4. QED
  BY <1>2, <1>3
-----------------------------------------------------------------------------
(* A step of the client before and after which one call looks like this.   *)

Moves(r) ==
    /\ UNCHANGED <<configVars, up, slots, serving, late, ran, lost>>
    /\ \A q \in Calls \ {r} :
           /\ phase'[q] = phase[q] /\ conn'[q] = conn[q]
           /\ attempt'[q] = attempt[q] /\ outcome'[q] = outcome[q]

LEMMA DoneMoves ==
  ASSUME TypeOK, NEW r \in Calls, NEW x, Done(r, x)
  PROVE  /\ phase'[r] = "done" /\ conn'[r] = "none" /\ outcome'[r] = x
         /\ \A q \in Calls \ {r} :
                /\ phase'[q] = phase[q] /\ conn'[q] = conn[q]
                /\ attempt'[q] = attempt[q] /\ outcome'[q] = outcome[q]
BY DEF TypeOK, CallOK, Done

LEMMA ConnectionErrorMoves ==
  ASSUME TypeOK, NEW r \in Calls, Active(r), ConnectionError(r), UNCHANGED configVars
  PROVE  /\ phase'[r] \in {"ready", "drain", "done"} /\ conn'[r] = "none"
         /\ ~Final(r)'
         /\ outcome'[r] = "refused" => ~InLoop(r)
         /\ \A q \in Calls \ {r} :
                /\ phase'[q] = phase[q] /\ conn'[q] = conn[q]
                /\ attempt'[q] = attempt[q] /\ outcome'[q] = outcome[q]
<1>1. CASE InLoop(r) /\ Retry(r)
  <2>1. attempt'[r] = attempt[r] + 1 /\ phase'[r] = Turn(attempt[r] + 1)
    BY <1>1 DEF TypeOK, CallOK, Retry
  <2>2. outcome'[r] # "refused"
    BY <1>1 DEF TypeOK, CallOK, Retry, Active
  <2>3. phase'[r] \in {"ready", "drain"} /\ ~Final(r)'
    BY <2>1, ConfigSame DEF Final, InLoop, Turn
  <2>4. QED
    BY <1>1, <2>2, <2>3 DEF TypeOK, CallOK, Retry
<1>2. CASE ~InLoop(r) /\ Done(r, "refused")
  BY <1>2, DoneMoves DEF Final, Active
<1>3. QED
  BY <1>1, <1>2 DEF ConnectionError

LEMMA ExpiredMoves ==
  ASSUME TypeOK, NEW r \in Calls, Active(r), Expired(r), UNCHANGED configVars
  PROVE  /\ phase'[r] \in {"ready", "done"} /\ conn'[r] = "none"
         /\ ~Final(r)'
         /\ outcome'[r] # "refused"
         /\ \A q \in Calls \ {r} :
                /\ phase'[q] = phase[q] /\ conn'[q] = conn[q]
                /\ attempt'[q] = attempt[q] /\ outcome'[q] = outcome[q]
<1>1. CASE ~InLoop(r) /\ Done(r, "expired")
  BY <1>1, DoneMoves DEF Final, Active
<1>2. CASE ~(~InLoop(r) /\ Done(r, "expired"))
  <2>1. attempt' = attempt /\ outcome' = outcome /\ InLoop(r)
    BY <1>2 DEF Expired
  <2>2. ~Final(r)'
    BY <2>1, ConfigSame DEF Final, InLoop
  <2>3. outcome[r] # "refused"
    BY DEF TypeOK, CallOK, Active
  <2>4. QED
    BY <1>2, <2>1, <2>2, <2>3 DEF Expired, TypeOK, CallOK
<1>3. QED
  BY <1>1, <1>2

(* Whatever a call does on its own, with the server not working for it.    *)
LEMMA MovesInv ==
  ASSUME IInv, NEW r \in Calls, Moves(r), TypeOK',
         troubled \subseteq troubled',
         pool'["dead"] <= pool["dead"],
         \/ serving[r] = "none"
         \/ phase'[r] = "done" /\ outcome'[r] = "timeout"
         \/ phase'[r] = phase[r] /\ phase[r] = "waiting",
         phase[r] # "done",
         conn'[r] = "dead" => conn[r] = "dead",
         Active(r)' /\ ~up' => r \in troubled',
         Final(r)' => Final(r) \/ pool'["dead"] = 0,
         outcome'[r] = "refused" => Cause(r)
  PROVE  IInv'
<1>1. /\ \A q \in Calls : /\ serving'[q] = serving[q] /\ late'[q] = late[q]
                         /\ ran'[q] = ran[q] /\ lost'[q] = lost[q]
      /\ up' = up /\ MaxRetries' = MaxRetries
  BY ConfigSame DEF Moves
<1>2. Served'
  BY <1>1 DEF IInv, Served, Moves
<1>3. LostButLast'
  <2>1. \A q \in Calls : Last(q) => Last(q)'
    BY <1>1 DEF Last, Moves
  <2>2. QED
    BY <1>1, <2>1 DEF IInv, LostButLast
<1>4. Causes'
  <2>1. \A q \in Calls : Cause(q) => Cause(q)'
    BY <1>1 DEF Cause
  <2>2. \A q \in Calls \ {r} :
            (Active(q)' => Active(q)) /\ (Final(q)' => Final(q))
    BY <1>1 DEF Moves, Active, Final, InLoop
  <2>3. \A q \in Calls : Active(q)' /\ ~up' => q \in troubled'
    BY <1>1, <2>2 DEF IInv, Causes
  <2>4. \A q \in Calls : conn'[q] = "dead" => Cause(q)'
    BY <1>1, <2>1 DEF IInv, Causes, Moves
  <2>5. \A q \in Calls : Final(q)' /\ pool'["dead"] > 0 => Cause(q)'
    <3>1. pool["dead"] \in Nat /\ pool'["dead"] \in Nat
      BY DEF IInv, TypeOK, PoolOK, Kinds
    <3>2. QED
      BY <2>1, <2>2, <3>1 DEF IInv, Causes
  <2>6. FailureHasCause'
    <3>1. \A q \in Calls : outcome'[q] = "refused" => Cause(q)
      BY DEF IInv, Causes, FailureHasCause, Moves, Cause
    <3>2. QED
      BY <2>1, <3>1 DEF FailureHasCause, Cause
  <2>7. QED
    BY <2>3, <2>4, <2>5, <2>6 DEF Causes
<1>5. SlotsConserved'
  <2>1. Running' = Running
    BY <1>1 DEF Running
  <2>2. QED
    BY <2>1, ConfigSame DEF IInv, SlotsConserved, Moves
<1>6. QED
  BY <1>2, <1>3, <1>4, <1>5 DEF IInv

LEMMA WrittenInv ==
  ASSUME IInv, NEW r \in Calls, Written(r)
  PROVE  IInv'
<1>1. TypeOK /\ TypeOK'
  BY ClientType DEF IInv, Client
<1>2. /\ UNCHANGED <<configVars, pool, attempt, outcome, up, slots, late, ran, lost, troubled>>
      /\ phase[r] = "writing" /\ phase'[r] = "waiting"
      /\ conn'[r] = "fresh" /\ serving'[r] = "arrived"
      /\ \A q \in Calls \ {r} :
             phase'[q] = phase[q] /\ conn'[q] = conn[q] /\ serving'[q] = serving[q]
      /\ MaxRetries' = MaxRetries
  BY <1>1, ConfigSame DEF Written, TypeOK, CallOK, ServerOK, historyVars
<1>3. serving[r] = "none"
  BY <1>2 DEF IInv, Served
<1>4. Served'
  BY <1>2 DEF IInv, Served
<1>5. LostButLast'
  <2>1. \A q \in Calls : Last(q) => Last(q)'
    BY <1>2, <1>3 DEF Last
  <2>2. QED
    BY <1>2, <2>1 DEF IInv, LostButLast
<1>6. Causes'
  <2>1. \A q \in Calls : (Active(q)' => Active(q)) /\ (Final(q)' => Final(q))
    BY <1>2 DEF Active, Final, InLoop
  <2>2. \A q \in Calls : Cause(q) => Cause(q)'
    BY <1>2 DEF Cause
  <2>3. FailureHasCause'
    BY <1>2 DEF IInv, Causes, FailureHasCause
  <2>4. QED
    BY <1>2, <2>1, <2>2, <2>3 DEF IInv, Causes
<1>7. SlotsConserved'
  <2>1. Running' = Running
    BY <1>2, <1>3 DEF Running
  <2>2. QED
    BY <1>2, <2>1, ConfigSame DEF IInv, SlotsConserved
<1>8. QED
  BY <1>1, <1>4, <1>5, <1>6, <1>7 DEF IInv

LEMMA ClientInv ==
  ASSUME IInv, NEW r \in Calls, Client(r) \/ Begin(r) \/ NoToken(r) \/ TimesOut(r) \/ Age(r)
  PROVE  IInv'
<1>1. TypeOK /\ TypeOK' /\ Served /\ Causes
  BY ClientType DEF IInv
<1>2. outcome[r] = "refused" => phase[r] = "done"
  BY <1>1 DEF TypeOK, CallOK
<1>3. pool["dead"] \in Nat
  BY <1>1 DEF TypeOK, PoolOK, Kinds
<1>4. CASE Begin(r)
  <2>1. Moves(r) /\ troubled \subseteq troubled' /\ conn' = conn
    BY <1>1, <1>4 DEF Begin, Moves, serverVars, TypeOK, CallOK
  <2>2. serving[r] = "none" /\ phase[r] = "idle"
    BY <1>1, <1>4 DEF Begin, Served
  <2>3. phase'[r] = Turn(0) /\ attempt'[r] = 0 /\ MaxRetries' = MaxRetries
    BY <1>1, <1>4, ConfigSame DEF Begin, TypeOK, CallOK
  <2>4. ~Final(r)'
    BY <2>3 DEF Final, InLoop, Turn
  <2>5. Active(r)' /\ ~up' => r \in troubled'
    BY <1>4 DEF Begin, serverVars
  <2>6. pool' = pool /\ outcome' = outcome
    BY <1>4 DEF Begin
  <2>7. QED
    BY <1>1, <1>2, <1>3, <2>1, <2>2, <2>4, <2>5, <2>6, MovesInv
<1>5. CASE NoToken(r)
  <2>1. /\ Moves(r) /\ troubled' = troubled /\ pool' = pool
        /\ phase'[r] = "done" /\ conn'[r] = "none" /\ outcome'[r] = "noToken"
    BY <1>1, <1>5, DoneMoves DEF NoToken, Moves, serverVars, historyVars
  <2>2. phase[r] # "done" /\ serving[r] = "none" /\ ~Active(r)' /\ ~Final(r)'
    BY <1>1, <1>5, <2>1 DEF NoToken, Served, Active, Final
  <2>3. QED
    BY <1>1, <1>3, <2>1, <2>2, MovesInv
<1>6. CASE TimesOut(r)
  <2>1. /\ Moves(r) /\ troubled' = troubled /\ pool' = pool
        /\ phase'[r] = "done" /\ conn'[r] = "none" /\ outcome'[r] = "timeout"
    BY <1>1, <1>6, DoneMoves DEF TimesOut, Moves, serverVars, historyVars
  <2>2. phase[r] # "done" /\ ~Active(r)' /\ ~Final(r)'
    BY <1>6, <2>1 DEF TimesOut, Active, Final
  <2>3. QED
    BY <1>1, <1>3, <2>1, <2>2, MovesInv
<1>7. CASE Age(r)
  <2>1. /\ Moves(r) /\ UNCHANGED <<troubled, pool, phase, attempt, outcome, up>>
        /\ conn'[r] # "dead"
    BY <1>1, <1>7 DEF Age, Moves, TypeOK, CallOK, serverVars, historyVars
  <2>2. phase[r] \in {"writing", "waiting"} /\ phase'[r] = phase[r]
    BY <1>1, <1>7, <2>1 DEF Age, TypeOK, CallOK
  <2>3. /\ Active(r)' /\ ~up' => r \in troubled'
        /\ Final(r)' => Final(r)
    BY <1>1, <2>1, ConfigSame DEF Causes, Active, Final, InLoop, Moves
  <2>4. phase[r] = "writing" => serving[r] = "none"
    BY <1>1, <2>2 DEF Served
  <2>5. QED
    BY <1>1, <1>2, <1>3, <2>1, <2>2, <2>3, <2>4, MovesInv
<1>8. ASSUME NEW k \in Kinds, TakeIdle(r, k) PROVE IInv'
  <2>1. /\ UNCHANGED <<configVars, serverVars, historyVars>>
        /\ phase[r] = "ready" /\ serving[r] = "none" /\ conn[r] = "none"
        /\ pool[k] > 0 /\ pool' = [pool EXCEPT ![k] = @ - 1]
    BY <1>1, <1>8 DEF TakeIdle, Served, TypeOK, CallOK
  <2>2. pool'["dead"] <= pool["dead"]
    BY <1>1, <2>1 DEF TypeOK, PoolOK, Kinds
  <2>3. ~up => r \in troubled
    BY <1>1, <2>1 DEF Causes, Active
  <2>4. CASE Write(r, "fresh")
    <3>1. /\ Moves(r) /\ conn'[r] = "fresh" /\ phase'[r] = "writing"
          /\ attempt' = attempt /\ outcome' = outcome
      BY <1>1, <2>1, <2>4 DEF Write, Moves, TypeOK, CallOK, serverVars, historyVars
    <3>2. Final(r)' => Final(r)
      BY <2>1, <3>1, ConfigSame DEF Final, Active, InLoop
    <3>3. QED
      BY <1>1, <1>2, <2>1, <2>2, <2>3, <3>1, <3>2, MovesInv DEF serverVars, historyVars
  <2>5. CASE UNCHANGED callVars
    <3>1. Moves(r) /\ UNCHANGED <<phase, attempt, conn, outcome>>
      BY <2>1, <2>5 DEF Moves, callVars, serverVars, historyVars
    <3>2. Final(r)' => Final(r)
      BY <2>1, <3>1, ConfigSame DEF Final, Active, InLoop
    <3>3. QED
      BY <1>1, <1>2, <2>1, <2>2, <2>3, <3>1, <3>2, MovesInv DEF serverVars, historyVars
  <2>6. CASE k = "dead" /\ ConnectionError(r)
    <3>1. Active(r)
      BY <2>1 DEF Active
    <3>2. /\ Moves(r) /\ conn'[r] = "none" /\ ~Final(r)' /\ phase'[r] # "idle"
          /\ outcome'[r] = "refused" => ~InLoop(r)
      BY <1>1, <2>1, <2>6, <3>1, ConnectionErrorMoves DEF Moves, serverVars, historyVars
    <3>3. outcome'[r] = "refused" => Cause(r)
      BY <1>1, <2>1, <2>6, <3>1, <3>2 DEF Causes, Final
    <3>4. QED
      BY <1>1, <2>1, <2>2, <2>3, <3>2, <3>3, MovesInv DEF serverVars, historyVars
  <2>7. QED
    BY <1>8, <2>4, <2>5, <2>6 DEF TakeIdle, FirstWrite
<1>9. CASE Dial(r)
  <2>1. /\ UNCHANGED <<configVars, pool, serverVars, historyVars>>
        /\ phase[r] = "ready" /\ serving[r] = "none" /\ Active(r)
    BY <1>1, <1>9 DEF Dial, Served, Active
  <2>2. ~up => r \in troubled
    BY <1>1, <2>1 DEF Causes
  <2>3. CASE Write(r, "new")
    <3>1. /\ Moves(r) /\ conn'[r] = "new" /\ phase'[r] = "writing"
          /\ attempt' = attempt /\ outcome' = outcome
      BY <1>1, <2>1, <2>3 DEF Write, Moves, TypeOK, CallOK, serverVars, historyVars
    <3>2. Final(r)' => Final(r)
      BY <2>1, <3>1, ConfigSame DEF Final, Active, InLoop
    <3>3. QED
      BY <1>1, <1>2, <1>3, <2>1, <2>2, <3>1, <3>2, MovesInv DEF serverVars, historyVars
  <2>4. CASE ~up /\ ConnectionError(r)
    <3>1. /\ Moves(r) /\ conn'[r] = "none" /\ ~Final(r)'
      BY <1>1, <2>1, <2>4, ConnectionErrorMoves DEF Moves, serverVars, historyVars
    <3>2. QED
      BY <1>1, <1>3, <2>1, <2>2, <2>4, <3>1, MovesInv DEF serverVars, historyVars, Cause
  <2>5. QED
    BY <1>9, <2>3, <2>4 DEF Dial
<1>10. CASE SendSpentBody(r)
  <2>1. /\ Moves(r) /\ troubled' = troubled /\ pool' = pool
        /\ phase'[r] = "done" /\ conn'[r] = "none" /\ outcome'[r] = "spentBody"
    BY <1>1, <1>10, DoneMoves DEF SendSpentBody, Moves, serverVars, historyVars
  <2>2. phase[r] # "done" /\ serving[r] = "none" /\ ~Active(r)' /\ ~Final(r)'
    BY <1>1, <1>10, <2>1 DEF SendSpentBody, Served, Active, Final
  <2>3. QED
    BY <1>1, <1>3, <2>1, <2>2, MovesInv
<1>11. CASE WriteExpires(r)
  <2>1. /\ UNCHANGED <<configVars, pool, serverVars, historyVars>>
        /\ phase[r] = "writing" /\ serving[r] = "none" /\ Active(r)
    BY <1>1, <1>11 DEF WriteExpires, Served, Active
  <2>2. Moves(r) /\ conn'[r] = "none" /\ ~Final(r)' /\ outcome'[r] # "refused"
    BY <1>1, <1>11, <2>1, ExpiredMoves DEF WriteExpires, Moves, serverVars, historyVars
  <2>3. QED
    BY <1>1, <1>3, <2>1, <2>2, MovesInv DEF serverVars, historyVars, Causes
<1>12. CASE ConnectionBreaks(r)
  <2>1. /\ UNCHANGED <<configVars, pool, serverVars, historyVars>>
        /\ conn[r] = "dead" /\ serving[r] = "none" /\ Active(r) /\ Cause(r)
    BY <1>1, <1>12 DEF ConnectionBreaks, Served, Active, Causes
  <2>2. Moves(r) /\ conn'[r] = "none" /\ ~Final(r)'
    BY <1>1, <1>12, <2>1, ConnectionErrorMoves
       DEF ConnectionBreaks, Moves, serverVars, historyVars
  <2>3. QED
    BY <1>1, <1>3, <2>1, <2>2, MovesInv DEF serverVars, historyVars, Causes, Active
<1>13. CASE CloseIdleConnections(r)
  <2>1. /\ UNCHANGED <<configVars, attempt, conn, outcome, serverVars, historyVars>>
        /\ phase[r] = "drain" /\ phase'[r] = "ready" /\ serving[r] = "none" /\ Active(r)
        /\ pool'["dead"] = 0
    BY <1>1, <1>13 DEF CloseIdleConnections, Served, Active, TypeOK, CallOK, NoneIdle, Kinds
  <2>2. Moves(r)
    BY <1>1, <1>13, <2>1 DEF CloseIdleConnections, Moves, TypeOK, CallOK, serverVars, historyVars
  <2>3. QED
    BY <1>1, <1>2, <1>3, <2>1, <2>2, MovesInv DEF serverVars, historyVars, Causes
<1>14. CASE Written(r)
  BY <1>14, WrittenInv
<1>15. QED
  BY <1>4, <1>5, <1>6, <1>7, <1>8, <1>9, <1>10, <1>11, <1>12, <1>13, <1>14 DEF Client
-----------------------------------------------------------------------------
(* Taking a slot and giving it back.                                       *)

LEMMA RunningFinite == IsFiniteSet(Running) /\ Cardinality(Running) \in Nat
BY CallsAssumption, FS_Subset, FS_CardinalityType DEF Running

LEMMA SlotTaken ==
  ASSUME TypeOK, SlotsConserved, NEW r \in Calls, serving[r] # "running",
         serving' = [serving EXCEPT ![r] = "running"],
         server.bulkhead => slots > 0 /\ slots' = slots - 1,
         UNCHANGED configVars
  PROVE  SlotsConserved'
<1>1. Running' = Running \cup {r} /\ r \notin Running
  BY DEF Running, TypeOK, ServerOK
<1>2. Cardinality(Running') = Cardinality(Running) + 1
  BY <1>1, RunningFinite, FS_AddElement
<1>3. slots \in Int /\ server.maxConcurrent \in Int /\ Cardinality(Running) \in Nat
  BY RunningFinite DEF TypeOK, ServerOK, ConfigOK
<1>4. QED
  BY <1>2, <1>3, ConfigSame DEF SlotsConserved

LEMMA SlotReleased ==
  ASSUME TypeOK, SlotsConserved, NEW r \in Calls, serving[r] = "running",
         serving' = [serving EXCEPT ![r] = "none"], Release, UNCHANGED configVars
  PROVE  SlotsConserved'
<1>1. Running' = Running \ {r} /\ r \in Running
  BY DEF Running, TypeOK, ServerOK
<1>2. Cardinality(Running') = Cardinality(Running) - 1
  BY <1>1, RunningFinite, FS_RemoveElement
<1>3. slots \in Int /\ server.maxConcurrent \in Int /\ Cardinality(Running) \in Nat
  BY RunningFinite DEF TypeOK, ServerOK, ConfigOK
<1>4. QED
  BY <1>2, <1>3, ConfigSame DEF SlotsConserved, Release

LEMMA SlotsSame ==
  ASSUME SlotsConserved, Running' = Running, slots' = slots, UNCHANGED configVars
  PROVE  SlotsConserved'
BY ConfigSame DEF SlotsConserved
-----------------------------------------------------------------------------
(* Steps of the server.                                                    *)

LEMMA ReplyInv ==
  ASSUME IInv, TypeOK', NEW r \in Calls, NEW a \in Answers, serving[r] # "none",
         Reply(r, a), ran' = ran, SlotsConserved'
  PROVE  IInv'
<1>1. /\ UNCHANGED <<configVars, up, troubled>> /\ serving'[r] = "none"
      /\ late'[r] = "no"
      /\ \A q \in Calls \ {r} : serving'[q] = serving[q] /\ late'[q] = late[q]
      /\ phase[r] \in {"waiting", "done"} /\ conn[r] # "dead"
      /\ late[r] = "cut" => serving[r] = "running"
      /\ TypeOK /\ MaxRetries' = MaxRetries
      /\ outcome[r] = "refused" => phase[r] = "done"
  BY ConfigSame DEF IInv, Served, Reply, TypeOK, CallOK, ServerOK
<1>2. \A q \in Calls : ran[q] \in Nat /\ lost[q] \in Nat
  BY <1>1 DEF TypeOK, HistoryOK
<1>3. /\ \A q \in Calls \ {r} :
             /\ phase'[q] = phase[q] /\ conn'[q] = conn[q] /\ lost'[q] = lost[q]
             /\ attempt'[q] = attempt[q] /\ outcome'[q] = outcome[q]
      /\ lost'[r] = lost[r] \/ (lost'[r] = lost[r] + 1 /\ serving[r] = "running")
      /\ serving[r] = "running" => Last(r)' \/ lost'[r] = lost[r] + 1
      /\ conn'[r] = "dead" => lost'[r] = lost[r] + 1
      /\ Active(r)' => Active(r)
      /\ Final(r)' => lost'[r] = lost[r] + 1
      /\ outcome'[r] = "refused" => outcome[r] = "refused"
      /\ pool'["dead"] <= pool["dead"]
  <2>1. CASE phase[r] = "done" /\ UNCHANGED <<pool, callVars, lost>>
    <3>1. UNCHANGED <<pool, phase, attempt, conn, outcome, lost>>
      BY <2>1 DEF callVars
    <3>2. pool'["dead"] <= pool["dead"]
      BY <1>1, <3>1 DEF TypeOK, PoolOK, Kinds
    <3>3. QED
      BY <1>1, <2>1, <3>1, <3>2 DEF Last, Active, Final
  <2>2. CASE phase[r] = "waiting" /\ Deliver(r, a)
    <3>1. CASE /\ late[r] = "cut"
               /\ conn' = [conn EXCEPT ![r] = "dead"]
               /\ LoseAnswer(r)
               /\ UNCHANGED <<pool, phase, attempt, spent, outcome>>
      <4>1. pool'["dead"] <= pool["dead"]
        BY <1>1, <3>1 DEF TypeOK, PoolOK, Kinds
      <4>2. QED
        BY <1>1, <3>1, <4>1 DEF LoseAnswer, TypeOK, CallOK, HistoryOK, Active
    <3>2. CASE PutIdle(conn[r]) /\ Done(r, a) /\ UNCHANGED lost
      <4>1. pool'["dead"] <= pool["dead"]
        BY <1>1, <3>2 DEF PutIdle, TypeOK, PoolOK, Kinds
      <4>2. a # "refused"
        BY DEF Answers
      <4>3. QED
        BY <1>1, <3>2, <4>1, <4>2, DoneMoves DEF Last, Active, Final
    <3>3. CASE /\ Expired(r) \/ Done(r, "expired")
               /\ LoseAnswer(r)
               /\ UNCHANGED pool
      <4>1. pool'["dead"] <= pool["dead"]
        BY <1>1, <3>3 DEF TypeOK, PoolOK, Kinds
      <4>2. /\ lost'[r] = IF serving[r] = "running" THEN lost[r] + 1 ELSE lost[r]
            /\ \A q \in Calls \ {r} : lost'[q] = lost[q]
        BY <1>1, <3>3 DEF LoseAnswer, TypeOK, HistoryOK
      <4>3. Active(r)
        BY <2>2 DEF Active
      <4>4. CASE Expired(r)
        BY <1>1, <4>1, <4>2, <4>3, <4>4, ExpiredMoves
      <4>5. CASE Done(r, "expired")
        BY <1>1, <4>1, <4>2, <4>3, <4>5, DoneMoves DEF Active, Final
      <4>6. QED
        BY <3>3, <4>4, <4>5
    <3>4. QED
      BY <2>2, <3>1, <3>2, <3>3 DEF Deliver
  <2>3. QED
    BY <2>1, <2>2 DEF Reply
<1>4. Served'
  BY <1>1, <1>3 DEF IInv, Served
<1>5. LostButLast'
  <2>1. \A q \in Calls \ {r} : Last(q)' <=> Last(q)
    BY <1>1, <1>3 DEF Last
  <2>2. serving[r] # "running" => ~Last(r)
    BY DEF Last
  <2>3. QED
    BY <1>1, <1>2, <1>3, <2>1, <2>2 DEF IInv, LostButLast
<1>6. Causes'
  <2>1. \A q \in Calls : Cause(q) => Cause(q)'
    BY <1>1, <1>2, <1>3 DEF Cause
  <2>2. \A q \in Calls \ {r} :
            (Active(q)' => Active(q)) /\ (Final(q)' => Final(q))
    BY <1>1, <1>3 DEF Active, Final, InLoop
  <2>3. lost'[r] = lost[r] + 1 => Cause(r)'
    BY <1>2 DEF Cause
  <2>4. \A q \in Calls : Active(q)' /\ ~up' => q \in troubled'
    BY <1>1, <1>3, <2>2 DEF IInv, Causes
  <2>5. \A q \in Calls : conn'[q] = "dead" => Cause(q)'
    BY <1>1, <1>3, <2>1, <2>3 DEF IInv, Causes
  <2>6. \A q \in Calls : Final(q)' /\ pool'["dead"] > 0 => Cause(q)'
    <3>1. pool["dead"] \in Nat /\ pool'["dead"] \in Nat
      BY <1>1 DEF TypeOK, PoolOK, Kinds
    <3>2. QED
      BY <1>3, <2>1, <2>2, <2>3, <3>1 DEF IInv, Causes
  <2>7. FailureHasCause'
    <3>1. \A q \in Calls : outcome'[q] = "refused" => Cause(q)
      BY <1>3 DEF IInv, Causes, FailureHasCause, Cause
    <3>2. QED
      BY <2>1, <3>1 DEF FailureHasCause, Cause
  <2>8. QED
    BY <2>4, <2>5, <2>6, <2>7 DEF Causes
<1>7. QED
  BY <1>4, <1>5, <1>6 DEF IInv

(* The request moves on in the server and the caller is not told.          *)
LEMMA InsideInv ==
  ASSUME IInv, TypeOK', NEW r \in Calls,
         UNCHANGED <<configVars, pool, callVars, up, historyVars>>,
         serving[r] # "none",
         serving'[r] # "none", \A q \in Calls \ {r} : serving'[q] = serving[q],
         \A q \in Calls \ {r} : ran'[q] = ran[q] /\ late'[q] = late[q],
         late'[r] = "cut" => serving'[r] = "running",
         \/ ran'[r] = ran[r] /\ (serving[r] = "running" <=> serving'[r] = "running")
         \/ ran'[r] = ran[r] + 1 /\ serving[r] # "running" /\ serving'[r] = "running",
         SlotsConserved'
  PROVE  IInv'
<1>1. /\ UNCHANGED <<phase, attempt, conn, outcome, lost, troubled>>
      /\ MaxRetries' = MaxRetries
  BY ConfigSame DEF callVars, historyVars
<1>2. Served'
  BY <1>1 DEF IInv, Served
<1>3. LostButLast'
  <2>1. ran[r] \in Nat /\ lost[r] \in Nat
    BY DEF IInv, TypeOK, HistoryOK
  <2>2. \A q \in Calls \ {r} : Last(q)' <=> Last(q)
    BY <1>1 DEF Last
  <2>3. serving[r] # "running" => ~Last(r)
    BY DEF Last
  <2>4. serving'[r] = "running" => Last(r)'
    BY DEF Last
  <2>5. QED
    BY <1>1, <2>1, <2>2, <2>3, <2>4 DEF IInv, LostButLast
<1>4. Causes'
  <2>1. \A q \in Calls : /\ Active(q)' <=> Active(q)
                         /\ Final(q)' <=> Final(q)
                         /\ Cause(q)' <=> Cause(q)
    BY <1>1 DEF Active, Final, InLoop, Cause
  <2>2. FailureHasCause'
    BY <1>1 DEF IInv, Causes, FailureHasCause
  <2>3. QED
    BY <1>1, <2>1, <2>2 DEF IInv, Causes
<1>5. QED
  BY <1>2, <1>3, <1>4 DEF IInv

LEMMA ServerInv ==
  ASSUME IInv, NEW r \in Calls, Server(r) \/ RequestTimeout(r) \/ WriteTimeout(r)
  PROVE  IInv'
<1>1. TypeOK /\ TypeOK' /\ SlotsConserved
  BY ServerType DEF IInv
<1>2. serving \in [Calls -> {"none", "arrived", "queued", "running"}] /\ ran \in [Calls -> Nat]
  BY <1>1 DEF TypeOK, ServerOK, HistoryOK
<1>3. ASSUME NEW a \in Answers, Reply(r, a), serving[r] \in {"arrived", "queued"},
             slots' = slots, ran' = ran
      PROVE  IInv'
  <2>1. Running' = Running
    BY <1>2, <1>3 DEF Running, Reply
  <2>2. SlotsConserved'
    BY <1>1, <1>3, <2>1, SlotsSame DEF Reply
  <2>3. QED
    BY <1>1, <1>3, <2>2, ReplyInv
<1>4. ASSUME NEW a \in Answers, Reply(r, a), serving[r] = "running", Release, ran' = ran
      PROVE  IInv'
  <2>1. SlotsConserved'
    BY <1>1, <1>4, SlotReleased DEF Reply
  <2>2. QED
    BY <1>1, <1>4, <2>1, ReplyInv
<1>5. ASSUME Run(r), serving[r] \in {"arrived", "queued"},
             server.bulkhead => slots > 0 /\ slots' = slots - 1
      PROVE  IInv'
  <2>1. SlotsConserved'
    BY <1>1, <1>5, SlotTaken DEF Run
  <2>2. /\ serving'[r] = "running" /\ ran'[r] = ran[r] + 1
        /\ \A q \in Calls \ {r} : /\ serving'[q] = serving[q] /\ ran'[q] = ran[q]
                                 /\ late'[q] = late[q]
        /\ UNCHANGED <<configVars, pool, callVars, up, historyVars>>
    BY <1>2, <1>5 DEF Run
  <2>3. QED
    BY <1>1, <1>5, <2>1, <2>2, InsideInv
<1>6. CASE Refuse(r)
  BY <1>3, <1>6 DEF Refuse, Answers
<1>7. CASE NoSlot(r)
  BY <1>3, <1>7 DEF NoSlot, Answers
<1>8. CASE HandlerReturns(r)
  BY <1>4, <1>8 DEF HandlerReturns, Answers
<1>9. CASE HandlerPanics(r)
  BY <1>4, <1>9 DEF HandlerPanics, Answers
<1>10. CASE Acquire(r)
  BY <1>5, <1>10 DEF Acquire
<1>11. CASE Admit(r)
  <2>1. CASE ~server.bulkhead /\ Run(r)
    BY <1>5, <1>11, <2>1 DEF Admit
  <2>2. CASE ~(~server.bulkhead /\ Run(r))
    <3>1. /\ serving[r] = "arrived" /\ serving' = [serving EXCEPT ![r] = "queued"]
          /\ slots' = slots
          /\ UNCHANGED <<configVars, pool, callVars, up, late, ran, historyVars>>
          /\ late[r] # "cut"
      BY <1>1, <1>11, <2>2 DEF Admit, IInv, Served
    <3>2. Running' = Running
      BY <1>2, <3>1 DEF Running
    <3>3. SlotsConserved'
      BY <1>1, <3>1, <3>2, SlotsSame
    <3>4. serving'[r] = "queued" /\ \A q \in Calls \ {r} : serving'[q] = serving[q]
      BY <1>2, <3>1
    <3>5. /\ ran'[r] = ran[r] /\ (serving[r] = "running" <=> serving'[r] = "running")
          /\ late'[r] # "cut"
          /\ \A q \in Calls \ {r} : ran'[q] = ran[q] /\ late'[q] = late[q]
          /\ serving[r] # "none" /\ serving'[r] # "none"
          /\ UNCHANGED <<configVars, pool, callVars, up, historyVars>>
      BY <3>1, <3>4
    <3>6. QED
      BY <1>1, <3>3, <3>4, <3>5, InsideInv
  <2>3. QED
    BY <2>1, <2>2
<1>12. CASE RequestTimeout(r) \/ WriteTimeout(r)
  <2>1. /\ serving[r] \in {"queued", "running"}
        /\ UNCHANGED <<configVars, pool, callVars, up, slots, serving, ran, historyVars>>
        /\ late'[r] = "cut" => serving[r] = "running"
        /\ \A q \in Calls \ {r} : late'[q] = late[q]
    BY <1>1, <1>12 DEF RequestTimeout, WriteTimeout, TypeOK, ServerOK
  <2>2. SlotsConserved'
    BY <1>1, <2>1, SlotsSame DEF Running
  <2>3. /\ ran'[r] = ran[r] /\ (serving[r] = "running" <=> serving'[r] = "running")
        /\ late'[r] = "cut" => serving'[r] = "running"
        /\ \A q \in Calls \ {r} : /\ ran'[q] = ran[q] /\ serving'[q] = serving[q]
                                 /\ late'[q] = late[q]
        /\ serving[r] # "none" /\ serving'[r] # "none"
        /\ UNCHANGED <<configVars, pool, callVars, up, historyVars>>
    BY <2>1
  <2>4. QED
    BY <1>1, <2>2, <2>3, InsideInv
<1>13. QED
  BY <1>6, <1>7, <1>8, <1>9, <1>10, <1>11, <1>12 DEF Server

LEMMA CrashInv ==
  ASSUME IInv, Crash
  PROVE  IInv'
<1>1. TypeOK /\ TypeOK'
  BY CrashType DEF IInv
<1>2. /\ UNCHANGED <<configVars, phase, attempt, outcome, ran>> /\ up' = FALSE
      /\ MaxRetries' = MaxRetries
      /\ \A r \in Calls :
             /\ serving'[r] = "none" /\ late'[r] = "no"
             /\ conn'[r] = "dead" => phase[r] \in {"writing", "waiting"}
             /\ lost'[r] = IF serving[r] = "running" /\ phase[r] # "done"
                           THEN lost[r] + 1 ELSE lost[r]
             /\ Active(r) => r \in troubled'
             /\ r \in troubled => r \in troubled'
             /\ ran[r] \in Nat /\ lost[r] \in Nat
  BY <1>1, ConfigSame DEF Crash, CallerGone, Active, TypeOK, CallOK, HistoryOK
<1>3. Served'
  BY <1>2 DEF Served
<1>4. LostButLast'
  <2>1. ASSUME NEW r \in Calls PROVE ran'[r] <= lost'[r] + 1 /\ (~Last(r)' => ran'[r] = lost'[r])
    BY <1>2 DEF IInv, LostButLast, Last
  <2>2. QED
    BY <1>2, <2>1 DEF LostButLast
<1>5. Causes'
  <2>1. \A r \in Calls : Active(r)' => Cause(r)' /\ r \in troubled'
    BY <1>2 DEF Active, Cause
  <2>2. \A r \in Calls : conn'[r] = "dead" => Cause(r)'
    BY <1>2, <2>1 DEF Active
  <2>3. FailureHasCause'
    BY <1>2 DEF IInv, Causes, FailureHasCause
  <2>4. QED
    BY <2>1, <2>2, <2>3 DEF Causes, Final
<1>6. SlotsConserved'
  <2>1. Running' = {}
    BY <1>2 DEF Running
  <2>2. slots' = server.maxConcurrent /\ (server.bulkhead => server.maxConcurrent \in Nat)
    BY <1>1 DEF Crash, TypeOK, ConfigOK
  <2>3. QED
    BY <1>2, <2>1, <2>2, FS_EmptySet, ConfigSame DEF SlotsConserved
<1>7. QED
  BY <1>1, <1>3, <1>4, <1>5, <1>6 DEF IInv

LEMMA PoolStepInv ==
  ASSUME IInv, NEW k \in Kinds, IdleConnTimeout(k) \/ AgeIdle(k)
  PROVE  IInv'
<1>1. TypeOK /\ TypeOK'
  BY PoolStepType DEF IInv
<1>2. /\ UNCHANGED <<configVars, phase, attempt, conn, outcome, up, slots, serving, late, ran, lost, troubled>>
      /\ MaxRetries' = MaxRetries
  BY ConfigSame DEF IdleConnTimeout, AgeIdle, callVars, serverVars, historyVars
<1>3. pool["dead"] \in Nat /\ pool'["dead"] <= pool["dead"]
  BY <1>1 DEF IdleConnTimeout, AgeIdle, TypeOK, PoolOK, Kinds
<1>4. Served' /\ LostButLast'
  BY <1>2 DEF IInv, Served, LostButLast, Last
<1>5. Causes'
  <2>1. \A q \in Calls : /\ Active(q)' <=> Active(q)
                         /\ Final(q)' <=> Final(q)
                         /\ Cause(q)' <=> Cause(q)
    BY <1>2 DEF Active, Final, InLoop, Cause
  <2>2. FailureHasCause'
    BY <1>2 DEF IInv, Causes, FailureHasCause
  <2>3. pool'["dead"] > 0 => pool["dead"] > 0
    <3>1. pool'["dead"] \in Nat
      BY <1>1 DEF TypeOK, PoolOK, Kinds
    <3>2. QED
      BY <1>3, <3>1
  <2>4. QED
    BY <1>2, <2>1, <2>2, <2>3 DEF IInv, Causes
<1>6. SlotsConserved'
  BY <1>2, SlotsSame DEF IInv, Running
<1>7. QED
  BY <1>1, <1>4, <1>5, <1>6 DEF IInv

LEMMA RestartInv ==
  ASSUME IInv, Restart
  PROVE  IInv'
<1>1. TypeOK'
  BY StepType DEF IInv, Next
<1>2. /\ UNCHANGED <<configVars, pool, phase, attempt, conn, outcome, slots, serving, late, ran, lost, troubled>>
      /\ up' = TRUE /\ MaxRetries' = MaxRetries
  BY ConfigSame DEF Restart, callVars, historyVars
<1>3. Served' /\ LostButLast'
  BY <1>2 DEF IInv, Served, LostButLast, Last
<1>4. Causes'
  BY <1>2 DEF IInv, Causes, FailureHasCause, Cause, Final, Active, InLoop
<1>5. SlotsConserved'
  BY <1>2, SlotsSame DEF IInv, Running
<1>6. QED
  BY <1>1, <1>3, <1>4, <1>5 DEF IInv

LEMMA StutterInv ==
  ASSUME IInv, UNCHANGED vars
  PROVE  IInv'
<1>1. TypeOK'
  BY StepType DEF IInv
<1>2. /\ UNCHANGED <<configVars, pool, phase, attempt, conn, outcome, up, slots, serving, late, ran, lost, troubled>>
      /\ MaxRetries' = MaxRetries
  BY ConfigSame DEF vars, callVars, serverVars, historyVars
<1>3. Served' /\ LostButLast'
  BY <1>2 DEF IInv, Served, LostButLast, Last
<1>4. Causes'
  BY <1>2 DEF IInv, Causes, FailureHasCause, Cause, Final, Active, InLoop
<1>5. SlotsConserved'
  BY <1>2, SlotsSame DEF IInv, Running
<1>6. QED
  BY <1>1, <1>3, <1>4, <1>5 DEF IInv

LEMMA StepInv == IInv /\ [Next]_vars => IInv'
BY ClientInv, ServerInv, CrashInv, PoolStepInv, RestartInv, StutterInv DEF Next

LEMMA Invariance == Spec => []IInv
<1>1. QED
  BY InitInv, StepInv, PTL DEF Spec
-----------------------------------------------------------------------------
(* No slot of the bulkhead leaks, whatever handlers and callers do.        *)
THEOREM SlotsNeverLeak == Spec => []SlotsConserved
<1>1. IInv => SlotsConserved
  BY DEF IInv
<1>2. QED
  BY <1>1, Invariance, PTL

(* A handler runs again only for an answer that was lost.                  *)
THEOREM RepeatsExplained == Spec => []RunsExplained
<1>1. IInv => RunsExplained
  BY DEF IInv, LostButLast, RunsExplained
<1>2. QED
  BY <1>1, Invariance, PTL

(* The retries and the emptied pool get past any number of dead            *)
(* connections.                                                            *)
THEOREM FailuresHaveCause == Spec => []FailureHasCause
<1>1. IInv => FailureHasCause
  BY DEF IInv, Causes
<1>2. QED
  BY <1>1, Invariance, PTL
-----------------------------------------------------------------------------
(* The calls are exchanges as Exchange promises them: each step is one of  *)
(* its steps or one that nobody but the two programs sees.                 *)

NoRun == {"noToken", "rejected", "unavailable", "refused", "spentBody", "expired"}

LEMMA InitExchange == Init => Handled!Init
BY DEF Init, Handled!Init

(* What the invariant says of the history of one call.                     *)
LEMMA History ==
  ASSUME IInv, NEW r \in Calls
  PROVE  /\ serving[r] = "running" => Handled!Executed(r)
         /\ phase[r] # "done" /\ serving[r] # "running" => Handled!AllLost(r)
         /\ serving[r] \in {"arrived", "queued"} => Handled!AllLost(r)
         /\ phase[r] # "done" => outcome[r] = "none"
         /\ serving[r] # "none" => outcome[r] \in {"none", "timeout"}
<1>1. /\ serving[r] = "running" => ran[r] = lost[r] + 1
      /\ ~Last(r) => ran[r] = lost[r]
  BY DEF IInv, LostButLast
<1>2. /\ phase[r] # "done" /\ serving[r] # "running" => ~Last(r)
      /\ serving[r] \in {"arrived", "queued"} => ~Last(r)
  BY DEF Last
<1>3. /\ phase[r] # "done" => outcome[r] = "none"
      /\ serving[r] # "none" /\ phase[r] = "done" => outcome[r] = "timeout"
  BY DEF IInv, TypeOK, CallOK, Served
<1>4. QED
  BY <1>1, <1>2, <1>3 DEF Handled!Executed, Handled!AllLost

(* A call that ends before its handler ran, or after its answers were lost.*)
LEMMA EndsNotRun ==
  ASSUME IInv, NEW r \in Calls, phase[r] # "done", serving[r] # "running",
         NEW x \in NoRun, Done(r, x), UNCHANGED <<ran, lost>>
  PROVE  Handled!NotRun(r)
BY History DEF NoRun, Done, Handled!NotRun, Handled!Ends

LEMMA EndsTooLate ==
  ASSUME IInv, NEW r \in Calls, phase[r] # "done",
         NEW x \in {"timeout", "deadlineExceeded"}, Done(r, x), UNCHANGED <<ran, lost>>
  PROVE  Handled!TooLate(r)
BY History DEF Done, Handled!TooLate, Handled!Ends

LEMMA ConnectionErrorExchange ==
  ASSUME IInv, NEW r \in Calls, phase[r] # "done", serving[r] # "running",
         ConnectionError(r), UNCHANGED <<ran, lost>>
  PROVE  Handled!NotRun(r) \/ outcome' = outcome
BY EndsNotRun DEF ConnectionError, Retry, NoRun

LEMMA ExpiredExchange ==
  ASSUME IInv, NEW r \in Calls, phase[r] # "done", serving[r] # "running",
         Expired(r), UNCHANGED <<ran, lost>>
  PROVE  Handled!NotRun(r) \/ outcome' = outcome
BY EndsNotRun DEF Expired, NoRun

(* What the client does on its own.                                        *)
LEMMA ClientExchange ==
  ASSUME IInv, NEW r \in Calls, Client(r) \/ Begin(r) \/ NoToken(r) \/ TimesOut(r) \/ Age(r)
  PROVE  Handled!NotRun(r) \/ Handled!TooLate(r) \/ UNCHANGED Handled!vars
<1> USE DEF Handled!vars
<1>1. /\ serving[r] # "none" => phase[r] \in {"waiting", "done"}
      /\ conn[r] = "dead" => serving[r] = "none"
  BY DEF IInv, Served
<1>2. UNCHANGED <<ran, lost>>
  BY DEF Client, Begin, NoToken, TimesOut, Age, TakeIdle, Dial, SendSpentBody, Written,
         WriteExpires, ConnectionBreaks, CloseIdleConnections, serverVars, historyVars
<1>3. CASE Begin(r) \/ Age(r) \/ Written(r) \/ CloseIdleConnections(r)
  BY <1>2, <1>3 DEF Begin, Age, Written, CloseIdleConnections
<1>4. CASE NoToken(r)
  BY <1>1, <1>2, <1>4, EndsNotRun DEF NoToken, NoRun
<1>5. CASE TimesOut(r)
  BY <1>2, <1>5, EndsTooLate DEF TimesOut
<1>6. ASSUME NEW k \in Kinds, TakeIdle(r, k)
      PROVE  Handled!NotRun(r) \/ UNCHANGED Handled!vars
  BY <1>1, <1>2, <1>6, ConnectionErrorExchange DEF TakeIdle, FirstWrite, Write, callVars
<1>7. CASE Dial(r)
  BY <1>1, <1>2, <1>7, ConnectionErrorExchange DEF Dial, Write
<1>8. CASE SendSpentBody(r)
  BY <1>1, <1>2, <1>8, EndsNotRun DEF SendSpentBody, NoRun
<1>9. CASE WriteExpires(r)
  BY <1>1, <1>2, <1>9, ExpiredExchange DEF WriteExpires
<1>10. CASE ConnectionBreaks(r)
  BY <1>1, <1>2, <1>10, ConnectionErrorExchange DEF ConnectionBreaks
<1>11. QED
  BY <1>3, <1>4, <1>5, <1>6, <1>7, <1>8, <1>9, <1>10 DEF Client

(* An answer that is lost: the call goes on.                               *)
LEMMA AnswerLost ==
  ASSUME IInv, NEW r \in Calls, phase[r] # "done", LoseAnswer(r),
         UNCHANGED <<ran, outcome>>
  PROVE  (\E S \in SUBSET Calls : Handled!Lose(S)) \/ UNCHANGED Handled!vars
<1>1. CASE serving[r] = "running"
  <2>1. \A q \in {r} : Handled!Executed(q) /\ outcome[q] = "none"
    BY <1>1, History
  <2>2. lost' = [q \in Calls |-> IF q \in {r} THEN lost[q] + 1 ELSE lost[q]]
    BY <1>1 DEF LoseAnswer, IInv, TypeOK, HistoryOK
  <2>3. Handled!Lose({r})
    BY <2>1, <2>2 DEF Handled!Lose
  <2>4. QED
    BY <2>3
<1>2. CASE serving[r] # "running"
  BY <1>2 DEF LoseAnswer, Handled!vars
<1>3. QED
  BY <1>1, <1>2

(* What the server answers: of its own, or because the handler did.        *)
LEMMA ReplyExchange ==
  ASSUME IInv, NEW r \in Calls, serving[r] # "none",
         NEW a \in Answers, Reply(r, a), ran' = ran,
         IF serving[r] = "running"
           THEN a \in {"ok", "internal", "deadlineExceeded"}
           ELSE a \in {"rejected", "unavailable", "deadlineExceeded"}
  PROVE  \/ Handled!Answer(r) \/ Handled!NotRun(r) \/ Handled!LostAnswer(r)
         \/ Handled!TooLate(r) \/ \E S \in SUBSET Calls : Handled!Lose(S)
         \/ UNCHANGED Handled!vars
<1>1. CASE phase[r] = "done" /\ UNCHANGED <<pool, callVars, lost>>
  BY <1>1 DEF callVars, Handled!vars
<1>2. CASE phase[r] = "waiting" /\ Deliver(r, a)
  <2>1. CASE LoseAnswer(r) /\ UNCHANGED outcome
    BY <1>2, <2>1, AnswerLost
  <2>2. CASE Done(r, a) /\ UNCHANGED lost
    <3>1. CASE a = "deadlineExceeded"
      BY <1>2, <2>2, <3>1, EndsTooLate
    <3>2. CASE serving[r] = "running" /\ a \in {"ok", "internal"}
      BY <1>2, <2>2, <3>2, History DEF Done, Handled!Answer, Handled!Ends
    <3>3. CASE serving[r] # "running" /\ a \in {"rejected", "unavailable"}
      BY <1>2, <2>2, <3>3, EndsNotRun DEF NoRun
    <3>4. QED
      BY <3>1, <3>2, <3>3
  <2>3. CASE Done(r, "expired") /\ LoseAnswer(r)
    <3>1. CASE serving[r] = "running"
      BY <1>2, <2>3, <3>1, History DEF Done, LoseAnswer, Handled!LostAnswer
    <3>2. CASE serving[r] # "running"
      BY <1>2, <2>3, <3>2, EndsNotRun DEF NoRun, LoseAnswer
    <3>3. QED
      BY <3>1, <3>2
  <2>4. QED
    BY <1>2, <2>1, <2>2, <2>3 DEF Deliver, Expired
<1>3. QED
  BY <1>1, <1>2 DEF Reply

LEMMA RunExchange ==
  ASSUME IInv, NEW r \in Calls, serving[r] \in {"arrived", "queued"}, Run(r)
  PROVE  Handled!Run(r)
BY History DEF Run, Handled!Run, callVars, historyVars

LEMMA ServerExchange ==
  ASSUME IInv, NEW r \in Calls, Server(r) \/ RequestTimeout(r) \/ WriteTimeout(r)
  PROVE  \/ Handled!Run(r) \/ Handled!Answer(r) \/ Handled!NotRun(r) \/ Handled!LostAnswer(r)
         \/ Handled!TooLate(r) \/ \E S \in SUBSET Calls : Handled!Lose(S)
         \/ UNCHANGED Handled!vars
<1>1. CASE Refuse(r)
  BY <1>1, ReplyExchange DEF Refuse, Answers
<1>2. CASE Admit(r)
  BY <1>2, RunExchange DEF Admit, callVars, historyVars, Handled!vars
<1>3. CASE Acquire(r)
  BY <1>3, RunExchange DEF Acquire
<1>4. CASE NoSlot(r)
  BY <1>4, ReplyExchange DEF NoSlot, Answers
<1>5. CASE HandlerReturns(r)
  BY <1>5, ReplyExchange DEF HandlerReturns, Answers
<1>6. CASE HandlerPanics(r)
  BY <1>6, ReplyExchange DEF HandlerPanics, Answers
<1>7. CASE RequestTimeout(r) \/ WriteTimeout(r)
  BY <1>7 DEF RequestTimeout, WriteTimeout, callVars, historyVars, Handled!vars
<1>8. QED
  BY <1>1, <1>2, <1>3, <1>4, <1>5, <1>6, <1>7 DEF Server

(* The server's death loses the answers of all the handlers that run for   *)
(* callers who still wait.                                                 *)
LEMMA CrashExchange ==
  ASSUME IInv, Crash
  PROVE  \E S \in SUBSET Calls : Handled!Lose(S)
<1> DEFINE Waiting == {r \in Calls : serving[r] = "running" /\ ~CallerGone(r)}
<1>1. \A r \in Waiting : Handled!Executed(r) /\ outcome[r] = "none"
  BY History DEF CallerGone
<1>2. lost' = [r \in Calls |-> IF r \in Waiting THEN lost[r] + 1 ELSE lost[r]]
  BY DEF Crash
<1>3. Handled!Lose(Waiting)
  BY <1>1, <1>2 DEF Crash, Handled!Lose
<1>4. QED
  BY <1>3

LEMMA StepExchange == IInv /\ [Next]_vars => [Handled!Next]_Handled!vars
<1>1. SUFFICES ASSUME IInv, [Next]_vars PROVE [Handled!Next]_Handled!vars
  OBVIOUS
<1>2. ASSUME NEW r \in Calls,
             Client(r) \/ Begin(r) \/ NoToken(r) \/ TimesOut(r) \/ Age(r)
      PROVE  [Handled!Next]_Handled!vars
  BY <1>1, <1>2, ClientExchange DEF Handled!Next
<1>3. ASSUME NEW r \in Calls, Server(r) \/ RequestTimeout(r) \/ WriteTimeout(r)
      PROVE  [Handled!Next]_Handled!vars
  BY <1>1, <1>3, ServerExchange DEF Handled!Next
<1>4. CASE Crash
  BY <1>1, <1>4, CrashExchange DEF Handled!Next
<1>5. CASE Restart \/ (\E k \in Kinds : IdleConnTimeout(k) \/ AgeIdle(k)) \/ UNCHANGED vars
  BY <1>5 DEF Restart, IdleConnTimeout, AgeIdle, vars, callVars, serverVars, historyVars,
              Handled!vars
<1>6. QED
  BY <1>1, <1>2, <1>3, <1>4, <1>5 DEF Next

(* A caller can believe its result: an answer of the handler stands for    *)
(* one run whose answer was not lost, every error but a timeout or a       *)
(* deadline for none, and only for a caller that timed out does a handler  *)
(* still begin (retry.go, bulkhead.go, timeout.go of pkg/http).            *)
THEOREM ResultsTruthful == Spec => TruthfulResults
<1>1. QED
  BY InitExchange, Invariance, StepExchange, PTL DEF Spec, TruthfulResults, Handled!Spec
=============================================================================
