------------------------------- MODULE Calls -------------------------------
(***************************************************************************)
(* Calls between services: the HTTP client of pkg/http/client with its     *)
(* connection pool, connection lifetimes and retries, and the server of    *)
(* pkg/http/server behind the interceptors of pkg/http/connect.            *)
(*                                                                         *)
(* The configurations of both sides come from files, are completed and     *)
(* validated.  The client keeps idle connections; one may have died with   *)
(* the server's process or passed its lifetime without anybody noticing.   *)
(* A call takes an idle connection or dials, and is tried again at once    *)
(* when the connection fails.  The server admits a request, makes it wait  *)
(* for a slot and runs the handler, which may panic or outlast deadlines.  *)
(***************************************************************************)
EXTENDS Integers, FiniteSets

CONSTANTS
    Calls,
    ClientConfigs,     \* [idle, lifetime] as found in the file
    ServerConfigs,     \* [requestTimeout, bulkhead, maxConcurrent] likewise
    Unset,             \* a key that the file does not have
    DefaultIdle, DefaultLifetime, DefaultConcurrent,
    RetriesCap,        \* MaxRetriesCap
    TransportIdle,     \* what net/http takes for MaxIdleConnsPerHost 0
    ConcurrentLimit,   \* maxConcurrent of config.go
    TimeoutLimit,      \* maxRequestTimeout
    MaxCrashes,        \* bound: crashes of the server
    MaxAgings          \* bound: connections whose lifetime ends

ASSUME CallsAssumption ==
    /\ IsFiniteSet(Calls)
    /\ ClientConfigs \subseteq [idle : Int \cup {Unset}, lifetime : Int \cup {Unset}]
    /\ ServerConfigs \subseteq
           [requestTimeout : Int, bulkhead : BOOLEAN, maxConcurrent : Int]
    /\ Unset \notin Int
    /\ DefaultIdle \in Nat /\ DefaultLifetime \in Nat /\ DefaultConcurrent \in Nat \ {0}
    /\ RetriesCap \in Nat /\ TransportIdle \in Nat
    /\ ConcurrentLimit \in Nat /\ TimeoutLimit \in Nat
    /\ MaxCrashes \in Nat /\ MaxAgings \in Nat

VARIABLES
    client, server,    \* the loaded configurations
    pool,              \* pool[k]: idle connections of kind k
    phase,             \* phase[r]: where call r is in RoundTrip
    attempt,           \* attempt[r]: the loop's counter
    spent,             \* spent[r]: the body of the request to send was read
    conn,              \* conn[r]: the connection r uses
    outcome,           \* outcome[r]: what the caller gets
    up,                \* the server's process runs
    slots,             \* free slots of the bulkhead
    serving,           \* serving[r]: where r's request is in the server
    late,              \* late[r]: the deadlines it has passed
    ran,               \* history: handlers started for r
    lost,              \* history: started handlers whose answer was lost
    troubled,          \* history: calls that met a server that was down
    crashes, agings    \* bounded

configVars == <<client, server>>
callVars == <<phase, attempt, spent, conn, outcome>>
serverVars == <<up, slots, serving, late, ran>>
historyVars == <<lost, troubled>>
boundedVars == <<crashes, agings>>
vars == <<configVars, pool, callVars, serverVars, historyVars, boundedVars>>

Kinds == {"fresh", "aged", "dead"}   \* an aged one may be dead as well
Idle == pool["fresh"] + pool["aged"] + pool["dead"]
NoneIdle == [k \in Kinds |-> 0]
-----------------------------------------------------------------------------
(* Load: defaults first, then validation.                                  *)

ClientDefaults(c) ==
    [idle |-> IF c.idle = Unset THEN DefaultIdle ELSE c.idle,
     lifetime |-> IF c.lifetime = Unset THEN DefaultLifetime ELSE c.lifetime]

\* "<= 0" takes the default, so that a negative number never reaches the validation.
ServerDefaults(s) ==
    IF s.bulkhead /\ s.maxConcurrent <= 0
    THEN [s EXCEPT !.maxConcurrent = DefaultConcurrent]
    ELSE s

ServerValid(s) ==
    /\ s.requestTimeout \in 0..TimeoutLimit
    /\ s.bulkhead => s.maxConcurrent \in 0..ConcurrentLimit

MaxRetries == IF client.idle < RetriesCap THEN client.idle ELSE RetriesCap

\* net/http: 0 stands for its default, a negative number for no pool.
MaxIdle ==
    CASE client.idle = 0 -> TransportIdle
      [] client.idle > 0 -> client.idle
      [] OTHER -> 0

\* The service does not start with a configuration that is not valid.
Init ==
    /\ client \in {ClientDefaults(c) : c \in ClientConfigs}
    /\ server \in {s \in {ServerDefaults(c) : c \in ServerConfigs} : ServerValid(s)}
    /\ pool \in {[NoneIdle EXCEPT !["fresh"] = n] : n \in 0..MaxIdle}
    /\ phase = [r \in Calls |-> "idle"]
    /\ attempt = [r \in Calls |-> 0]
    /\ spent = [r \in Calls |-> FALSE]
    /\ conn = [r \in Calls |-> "none"]
    /\ outcome = [r \in Calls |-> "none"]
    /\ up = TRUE
    /\ slots = server.maxConcurrent
    /\ serving = [r \in Calls |-> "none"]
    /\ late = [r \in Calls |-> "no"]
    /\ ran = [r \in Calls |-> 0]
    /\ lost = [r \in Calls |-> 0]
    /\ troubled = {}
    /\ crashes = 0 /\ agings = 0
-----------------------------------------------------------------------------
(* The client.                                                             *)

Done(r, result) ==
    /\ phase' = [phase EXCEPT ![r] = "done"]
    /\ outcome' = [outcome EXCEPT ![r] = result]
    /\ conn' = [conn EXCEPT ![r] = "none"]
    /\ attempt' = [attempt EXCEPT ![r] = 0]
    /\ spent' = [spent EXCEPT ![r] = FALSE]

InLoop(r) == attempt[r] <= MaxRetries

\* The loop's condition for the attempt n.
Turn(n) == IF n <= MaxRetries THEN "ready" ELSE "drain"

\* From the second attempt on doRequest sends a clone with a body of its own.
Retry(r) ==
    /\ attempt' = [attempt EXCEPT ![r] = @ + 1]
    /\ spent' = [spent EXCEPT ![r] = FALSE]
    /\ phase' = [phase EXCEPT ![r] = Turn(attempt[r] + 1)]
    /\ conn' = [conn EXCEPT ![r] = "none"]
    /\ UNCHANGED outcome

\* isRetryableError, or the last attempt, which nothing follows.
ConnectionError(r) == (InLoop(r) /\ Retry(r)) \/ (~InLoop(r) /\ Done(r, "refused"))

\* ErrConnExpired does not count.
Expired(r) ==
    \/ /\ InLoop(r)
       /\ phase' = [phase EXCEPT ![r] = "ready"]
       /\ conn' = [conn EXCEPT ![r] = "none"]
       /\ UNCHANGED <<attempt, spent, outcome>>
    \/ ~InLoop(r) /\ Done(r, "expired")

Begin(r) ==
    /\ phase[r] = "idle"
    /\ attempt' = [attempt EXCEPT ![r] = 0]
    /\ phase' = [phase EXCEPT ![r] = Turn(0)]
    /\ troubled' = IF up THEN troubled ELSE troubled \cup {r}
    /\ UNCHANGED <<configVars, pool, spent, conn, outcome, serverVars, lost, boundedVars>>

Write(r, kind) ==
    /\ phase' = [phase EXCEPT ![r] = "writing"]
    /\ conn' = [conn EXCEPT ![r] = kind]
    /\ spent' = [spent EXCEPT ![r] = @ \/ attempt[r] = 0]
    /\ UNCHANGED <<attempt, outcome>>

\* authTransport gets no token and the request is not sent.
NoToken(r) ==
    /\ phase[r] = "idle"
    /\ Done(r, "noToken")
    /\ UNCHANGED <<configVars, pool, serverVars, historyVars, boundedVars>>

\* The first write tells what has become of an idle connection.  When it
\* writes nothing net/http takes another connection by itself; a dead one
\* may also take the bytes and then report a reset or an end of file.
FirstWrite(r, k) ==
    \/ k = "fresh" /\ Write(r, "fresh")
    \/ k \in {"aged", "dead"} /\ UNCHANGED callVars
    \/ k = "dead" /\ ConnectionError(r)

ExpiredKept(r, k) ==               \* mutant: timedConn does not close itself
    /\ phase[r] = "ready" /\ ~spent[r]
    /\ pool[k] > 0
    /\ pool' = IF k = "aged" THEN pool ELSE [pool EXCEPT ![k] = @ - 1]
    /\ FirstWrite(r, k)
    /\ UNCHANGED <<configVars, serverVars, historyVars, boundedVars>>

TakeIdle(r, k) ==
    /\ phase[r] = "ready" /\ ~spent[r]
    /\ pool[k] > 0
    /\ pool' = [pool EXCEPT ![k] = @ - 1]
    /\ FirstWrite(r, k)
    /\ UNCHANGED <<configVars, serverVars, historyVars, boundedVars>>

\* A new connection outlives the write it is dialled for.
Dial(r) ==
    /\ phase[r] = "ready" /\ ~spent[r]
    /\ Idle = 0
    /\ \/ up /\ Write(r, "new")
       \/ ~up /\ ConnectionError(r)
    /\ UNCHANGED <<configVars, pool, serverVars, historyVars, boundedVars>>

\* The transport notices that the body is shorter than announced.
SendSpentBody(r) ==
    /\ phase[r] = "ready" /\ spent[r]
    /\ Done(r, "spentBody")
    /\ UNCHANGED <<configVars, pool, serverVars, historyVars, boundedVars>>

Written(r) ==
    /\ phase[r] = "writing" /\ conn[r] \in {"new", "fresh"}
    /\ phase' = [phase EXCEPT ![r] = "waiting"]
    /\ conn' = [conn EXCEPT ![r] = "fresh"]
    /\ serving' = [serving EXCEPT ![r] = "arrived"]
    /\ UNCHANGED <<configVars, pool, attempt, spent, outcome, up, slots, late, ran, historyVars, boundedVars>>

\* A body of several writes, and the lifetime ends between two.
WriteExpires(r) ==
    /\ phase[r] = "writing" /\ conn[r] = "aged"
    /\ Expired(r)
    /\ UNCHANGED <<configVars, pool, serverVars, historyVars, boundedVars>>

ConnectionBreaks(r) ==
    /\ phase[r] \in {"writing", "waiting"} /\ conn[r] = "dead"
    /\ ConnectionError(r)
    /\ UNCHANGED <<configVars, pool, serverVars, historyVars, boundedVars>>

PoolKept(r) ==                     \* mutant: no CloseIdleConnections
    /\ phase[r] = "drain"
    /\ phase' = [phase EXCEPT ![r] = "ready"]
    /\ UNCHANGED <<configVars, pool, attempt, spent, conn, outcome, serverVars, historyVars, boundedVars>>

CloseIdleConnections(r) ==
    /\ phase[r] = "drain"
    /\ pool' = NoneIdle
    /\ phase' = [phase EXCEPT ![r] = "ready"]
    /\ UNCHANGED <<configVars, attempt, spent, conn, outcome, serverVars, historyVars, boundedVars>>

\* http.Client.Timeout, or the caller's context: not retryable.  The handler goes on.
TimeoutRetried(r) ==               \* mutant: a timeout is taken for a broken connection
    /\ phase[r] = "waiting"
    /\ ConnectionError(r)
    /\ UNCHANGED <<configVars, pool, serverVars, historyVars, boundedVars>>

TimesOut(r) ==
    /\ phase[r] \in {"ready", "drain", "writing", "waiting"}
    /\ Done(r, "timeout")
    /\ UNCHANGED <<configVars, pool, serverVars, historyVars, boundedVars>>

IdleConnTimeout(k) ==
    /\ pool[k] > 0
    /\ pool' = [pool EXCEPT ![k] = @ - 1]
    /\ UNCHANGED <<configVars, callVars, serverVars, historyVars, boundedVars>>

\* The lifetime of an idle connection, or of one in use, ends.
Aging ==
    /\ client.lifetime > 0
    /\ agings < MaxAgings
    /\ agings' = agings + 1

AgeIdle(k) ==
    /\ Aging
    /\ k # "aged" /\ pool[k] > 0
    /\ pool' = [pool EXCEPT ![k] = @ - 1, !["aged"] = @ + 1]
    /\ UNCHANGED <<configVars, callVars, serverVars, historyVars, crashes>>

Age(r) ==
    /\ Aging
    /\ conn[r] = "fresh"
    /\ conn' = [conn EXCEPT ![r] = "aged"]
    /\ UNCHANGED <<configVars, pool, phase, attempt, spent, outcome, serverVars, historyVars, crashes>>
-----------------------------------------------------------------------------
(* The server.                                                             *)

\* The answer is read whole and the connection goes back to the pool, if there is room.
NoLimit(k) == pool' = [pool EXCEPT ![k] = @ + 1]       \* mutant: MaxIdleConnsPerHost ignored

PutIdle(k) ==
    pool' = IF Idle < MaxIdle THEN [pool EXCEPT ![k] = @ + 1] ELSE pool

LoseAnswer(r) ==
    lost' = IF serving[r] = "running" THEN [lost EXCEPT ![r] = @ + 1] ELSE lost

\* An answer to a caller that still waits.  After WriteTimeout the server
\* closes the connection instead.  An answer of several reads is cut off at
\* the lifetime's end: in its head, which RoundTrip sees, or in its body.
Deliver(r, answer) ==
    \/ /\ late[r] = "cut"
       /\ conn' = [conn EXCEPT ![r] = "dead"]
       /\ LoseAnswer(r)
       /\ UNCHANGED <<pool, phase, attempt, spent, outcome>>
    \/ /\ late[r] # "cut"
       /\ PutIdle(conn[r])
       /\ Done(r, answer)
       /\ UNCHANGED lost
    \/ /\ late[r] # "cut" /\ conn[r] = "aged"
       /\ Expired(r) \/ Done(r, "expired")
       /\ LoseAnswer(r)
       /\ UNCHANGED pool

Reply(r, answer) ==
    /\ serving' = [serving EXCEPT ![r] = "none"]
    /\ late' = [late EXCEPT ![r] = "no"]
    /\ \/ phase[r] = "waiting" /\ Deliver(r, answer)
       \/ phase[r] = "done" /\ UNCHANGED <<pool, callVars, lost>>
    /\ UNCHANGED <<configVars, up, troubled, boundedVars>>

\* Tenant resolution, validation, authorization and the rate limit refuse
\* before the bulkhead is reached.
Refuse(r) ==
    /\ serving[r] = "arrived"
    /\ Reply(r, "rejected")
    /\ UNCHANGED <<slots, ran>>

Run(r) ==
    /\ serving' = [serving EXCEPT ![r] = "running"]
    /\ ran' = [ran EXCEPT ![r] = @ + 1]
    /\ UNCHANGED <<configVars, pool, callVars, up, late, historyVars, boundedVars>>

Admit(r) ==
    /\ serving[r] = "arrived"
    /\ \/ ~server.bulkhead /\ Run(r)
       \/ /\ server.bulkhead
          /\ serving' = [serving EXCEPT ![r] = "queued"]
          /\ UNCHANGED <<configVars, pool, callVars, up, late, ran, historyVars, boundedVars>>
    /\ UNCHANGED slots

Acquire(r) ==
    /\ serving[r] = "queued"
    /\ slots > 0
    /\ slots' = slots - 1
    /\ Run(r)

CallerGone(r) == phase[r] = "done"

\* The bulkhead's own timeout, or the context's end, which the timeout
\* interceptor reports.
NoSlot(r) ==
    /\ serving[r] = "queued"
    /\ slots = 0 \/ late[r] # "no" \/ CallerGone(r)
    /\ Reply(r, IF late[r] = "no" THEN "unavailable" ELSE "deadlineExceeded")
    /\ UNCHANGED <<slots, ran>>

\* RequestTimeout ends; the handler is asked to stop, not stopped.
RequestTimeout(r) ==
    /\ server.requestTimeout > 0
    /\ serving[r] \in {"queued", "running"}
    /\ late[r] = "no"
    /\ late' = [late EXCEPT ![r] = "deadline"]
    /\ UNCHANGED <<configVars, pool, callVars, up, slots, serving, ran, historyVars, boundedVars>>

\* WriteTimeout = RequestTimeout + writeTimeoutBuffer counts from the request's
\* head: with a slow body it ends before RequestTimeout does.
WriteTimeout(r) ==
    /\ server.requestTimeout > 0
    /\ serving[r] = "running"
    /\ late[r] # "cut"
    /\ late' = [late EXCEPT ![r] = "cut"]
    /\ UNCHANGED <<configVars, pool, callVars, up, slots, serving, ran, historyVars, boundedVars>>

Release == slots' = IF server.bulkhead THEN slots + 1 ELSE slots

SlowUnavailable(r) ==              \* mutant: the deadline reported like a full bulkhead
    /\ serving[r] = "running"
    /\ Release
    /\ Reply(r, IF late[r] = "no" THEN "ok" ELSE "unavailable")
    /\ UNCHANGED ran

HandlerReturns(r) ==
    /\ serving[r] = "running"
    /\ Release
    /\ Reply(r, IF late[r] = "no" THEN "ok" ELSE "deadlineExceeded")
    /\ UNCHANGED ran

PanicKeepsSlot(r) ==               \* mutant: Release is not deferred
    /\ serving[r] = "running"
    /\ Reply(r, "internal")
    /\ UNCHANGED <<slots, ran>>

HandlerPanics(r) ==
    /\ serving[r] = "running"
    /\ Release
    /\ Reply(r, "internal")
    /\ UNCHANGED ran

\* The process dies with its connections.
Crash ==
    /\ up
    /\ crashes < MaxCrashes
    /\ crashes' = crashes + 1
    /\ up' = FALSE
    /\ slots' = server.maxConcurrent
    /\ serving' = [r \in Calls |-> "none"]
    /\ late' = [r \in Calls |-> "no"]
    /\ pool' = [pool EXCEPT !["dead"] = @ + pool["fresh"], !["fresh"] = 0]
    /\ conn' = [r \in Calls |-> IF conn[r] = "none" THEN "none" ELSE "dead"]
    /\ lost' = [r \in Calls |->
                  IF serving[r] = "running" /\ ~CallerGone(r) THEN lost[r] + 1 ELSE lost[r]]
    /\ troubled' = troubled \cup {r \in Calls : phase[r] \notin {"idle", "done"}}
    /\ UNCHANGED <<configVars, phase, attempt, spent, outcome, ran, agings>>

Restart ==
    /\ ~up
    /\ up' = TRUE
    /\ UNCHANGED <<configVars, pool, callVars, slots, serving, late, ran, historyVars, boundedVars>>
-----------------------------------------------------------------------------
Client(r) ==
    \/ \E k \in Kinds : TakeIdle(r, k)
    \/ Dial(r) \/ SendSpentBody(r) \/ Written(r) \/ WriteExpires(r)
    \/ ConnectionBreaks(r) \/ CloseIdleConnections(r)

Server(r) ==
    \/ Refuse(r) \/ Admit(r) \/ Acquire(r) \/ NoSlot(r)
    \/ HandlerReturns(r) \/ HandlerPanics(r)

Next ==
    \/ \E r \in Calls :
           \/ Begin(r) \/ NoToken(r) \/ Client(r) \/ TimesOut(r) \/ Age(r)
           \/ Server(r) \/ RequestTimeout(r) \/ WriteTimeout(r)
    \/ \E k \in Kinds : IdleConnTimeout(k) \/ AgeIdle(k)
    \/ Crash \/ Restart

Spec == Init /\ [][Next]_vars

\* RoundTrip goes on, and the server with it; a handler returns or panics in
\* the end.  Nothing is assumed of timeouts, of lifetimes or of the restart.
Fairness == \A r \in Calls : WF_vars(Client(r)) /\ WF_vars(Server(r))

FairSpec == Spec /\ Fairness
-----------------------------------------------------------------------------
Phases == {"idle", "ready", "drain", "writing", "waiting", "done"}
Answers == {"ok", "unavailable", "deadlineExceeded", "internal", "rejected"}
Errors == {"noToken", "refused", "expired", "spentBody", "timeout"}

ConfigOK ==
    /\ client.idle \in Int /\ client.lifetime \in Int
    /\ server.requestTimeout \in Nat
    /\ server.bulkhead \in BOOLEAN /\ server.maxConcurrent \in Int
    /\ server.bulkhead => server.maxConcurrent \in Nat

PoolOK == pool \in [Kinds -> Nat] /\ Idle <= MaxIdle

CallOK ==
    /\ phase \in [Calls -> Phases]
    /\ attempt \in [Calls -> Nat]
    /\ \A r \in Calls : attempt[r] = 0 \/ attempt[r] <= MaxRetries + 1
    /\ spent \in [Calls -> BOOLEAN]
    /\ conn \in [Calls -> Kinds \cup {"none", "new"}]
    /\ \A r \in Calls : conn[r] # "none" <=> phase[r] \in {"writing", "waiting"}
    /\ outcome \in [Calls -> Answers \cup Errors \cup {"none"}]
    /\ \A r \in Calls : outcome[r] # "none" <=> phase[r] = "done"

ServerOK ==
    /\ up \in BOOLEAN /\ slots \in Int
    /\ serving \in [Calls -> {"none", "arrived", "queued", "running"}]
    /\ late \in [Calls -> {"no", "deadline", "cut"}]

HistoryOK ==
    /\ ran \in [Calls -> Nat] /\ lost \in [Calls -> Nat]
    /\ troubled \subseteq Calls
    /\ crashes \in 0..MaxCrashes /\ agings \in 0..MaxAgings

(* Type: the pool never holds more idle connections than configured, a     *)
(* call has a connection exactly while it writes or waits and a result     *)
(* exactly when it is done, and a negative limit never reaches the         *)
(* bulkhead (client.go:70-82, retry.go:20-45, config.go:79-235).           *)
TypeOK == ConfigOK /\ PoolOK /\ CallOK /\ ServerOK /\ HistoryOK

Running == {r \in Calls : serving[r] = "running"}

(* Every slot of the bulkhead is free or held by one running handler:      *)
(* none leaks through a panic, a deadline, a caller that is gone or a      *)
(* timeout in the queue (bulkhead.go:19-25).                               *)
SlotsConserved ==
    server.bulkhead => slots >= 0 /\ slots + Cardinality(Running) = server.maxConcurrent

(* A handler runs again for one call only because an earlier run's answer  *)
(* was lost: in a crash, behind WriteTimeout, or cut off when a            *)
(* connection's lifetime ended.  No retry of a timeout or of an answered   *)
(* error (retry.go:27-35, 65-103).                                         *)
RunsExplained == \A r \in Calls : ran[r] <= lost[r] + 1

(* A call fails on its connections only when the server was down during it *)
(* or lost an answer: however many idle connections died before, the       *)
(* retries and the emptied pool get past them (retry.go:36-44).            *)
FailureHasCause ==
    \A r \in Calls : outcome[r] = "refused" => r \in troubled \/ lost[r] > 0

Handled == INSTANCE Exchange

(* The caller can believe its result: behind an answer of the handler is   *)
(* one run more than answers were lost, behind an error other than a       *)
(* timeout or a deadline none, and only after a timeout does a handler     *)
(* still begin, whatever died, expired, queued or was tried again          *)
(* (retry.go:27-103, bulkhead.go:19-25, timeout.go:15-24).                 *)
TruthfulResults == Handled!Spec

(* Every call ends, with timeouts disabled too, although expired           *)
(* connections do not count as attempts (retry.go:27-30).                  *)
EventuallyEnds == \A r \in Calls : (phase[r] # "idle") ~> (phase[r] = "done")
=============================================================================
