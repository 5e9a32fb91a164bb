--------------------------- MODULE LifecycleProofs ---------------------------
(***************************************************************************)
(* Theorems about the life of a process, for any hooks, components,        *)
(* workers, environments, concurrent probes and faults.                    *)
(***************************************************************************)
EXTENDS Lifecycle, TLAPS

-----------------------------------------------------------------------------
(* The inductive invariant.                                                *)

(* Who is inside the Once is the only one, and has not closed yet.         *)
OnceHolds ==
    /\ closes = IF once = "done" THEN 1 ELSE 0
    /\ \A r \in Requests : probe[r] = "closing" => once = "held"
    /\ \A r, s \in Requests : probe[r] = "closing" /\ probe[s] = "closing" => r = s

(* Every component is registered before the first one can be ready, so     *)
(* that the last of them closes readyChan and nobody before it.            *)
AllRegistered ==
    /\ phase = "building" => \A h \in Components : h <= hook => components[h] # "unknown"
    /\ phase = "starting" => \A h \in Components : components[h] # "unknown"
    /\ readyClosed => \A h \in Components : components[h] = "ready"

(* A gate is behind a worker only when it is open.                         *)
GatesPassed ==
    \A w \in Workers :
        /\ worker[w] = "waitProbe" => readyClosed
        /\ worker[w] = "running" =>
             /\ w \in AwaitReady \cup AwaitTraffic => readyClosed
             /\ w \in AwaitTraffic /\ IsKubernetes => trafficClosed

Live(w) == worker[w] \in Waiting \cup {"running"}

Up == {"starting", "running", "stopping"}

(* The components that are started are open up to the highest hook, before *)
(* the first stop they are the ones that are ready, and the workers that   *)
(* live are among the started hooks.                                       *)
OpenBelow ==
    /\ phase \in Up => open = {h \in Components : h <= hook}
    /\ phase = "building" => open = {}
    /\ phase \in {"building", "starting"} => open = Ready
    /\ \A w \in Workers : Live(w) => w <= hook /\ phase \in Up

(* Whoever is on the way to announce the service found it ready.           *)
ProbesReady == \A r \in Requests : probe[r] # "none" => readyClosed

(* A worker begins with its own hook.                                      *)
StartsInTurn ==
    /\ phase = "building" => \A w \in Workers : worker[w] = "off"
    /\ phase = "starting" => \A w \in Workers : w > hook => worker[w] = "off"

IInv ==
    /\ TypeOK /\ OnceHolds /\ AllRegistered /\ GatesPassed /\ OpenBelow
    /\ ProbesReady /\ StartsInTurn
-----------------------------------------------------------------------------
(* Types.                                                                  *)

LEMMA HooksType ==
  /\ Hooks \in Nat /\ Components \subseteq 1..Hooks /\ Workers \subseteq 1..Hooks
  /\ Components \cap Workers = {} /\ Components \cup Workers = 1..Hooks /\ Server \in Components
BY LifecycleAssumption DEF Workers

LEMMA InitType == Init => TypeOK
<1> SUFFICES ASSUME Init
             PROVE  TypeOK
  OBVIOUS
<1>1. /\ hook \in 0..Hooks /\ faults \in 0..MaxFaults /\ closes \in Nat
      /\ ~trafficClosed /\ ~(closes > 0)
  BY LifecycleAssumption DEF Init
<1>2. /\ components \in [Components -> {"unknown", "added", "ready"}]
      /\ probe \in [Requests -> {"none", "marking", "once", "closing"}]
      /\ worker \in [Workers -> {"off", "running"} \cup Waiting \cup Ended]
  BY DEF Init
<1>3. QED
  BY <1>1, <1>2 DEF Init, TypeOK

LEMMA StartUpType ==
  ASSUME TypeOK, StartUp \/ StartFails
  PROVE  TypeOK'
<1>1. CASE LoadFails \/ Start \/ Started
  <2>1. hook' \in 0..Hooks
    BY <1>1, LifecycleAssumption DEF TypeOK, LoadFails, Start, Started
  <2>2. QED
    BY <1>1, <2>1 DEF TypeOK, LoadFails, Start, Started, readinessVars, trafficVars
<1>2. CASE AppendHook
  BY <1>2, LifecycleAssumption DEF TypeOK, AppendHook, AddComponent, trafficVars
<1>3. CASE StartComponent
  BY <1>3, HooksType DEF TypeOK, StartComponent, MarkReady, trafficVars
<1>4. CASE StartWorker
  <2>1. AfterReady(hook + 1) \in {"running"} \cup Waiting
    BY DEF AfterReady, Waiting
  <2>2. worker' \in [Workers -> {"off", "running"} \cup Waiting \cup Ended]
    BY <1>4, <2>1 DEF TypeOK, StartWorker, Waiting
  <2>3. QED
    BY <1>4, <2>2, HooksType DEF TypeOK, StartWorker, readinessVars, trafficVars
<1>5. CASE StartFails
  BY <1>5, LifecycleAssumption DEF TypeOK, StartFails, readinessVars, trafficVars
<1>6. QED
  BY <1>1, <1>2, <1>3, <1>4, <1>5 DEF StartUp

LEMMA ProbeType ==
  ASSUME TypeOK, NEW r \in Requests, ProbeStep(r)
  PROVE  TypeOK'
<1>1. CASE Probe(r) \/ TestClosed(r) \/ EnterOnce(r) \/ SkipOnce(r)
  BY <1>1 DEF TypeOK, Probe, TestClosed, EnterOnce, SkipOnce, appVars, readinessVars, trafficVars
<1>2. CASE CloseTraffic(r)
  BY <1>2 DEF TypeOK, CloseTraffic, appVars, readinessVars
<1>3. QED
  BY <1>1, <1>2 DEF ProbeStep

LEMMA WorkerType ==
  ASSUME TypeOK, NEW w \in Workers, Gate(w) \/ RunReturns(w) \/ RunFails(w)
  PROVE  TypeOK'
<1>1. CASE PassGate(w)
  <2>1. AfterReady(w) \in {"running"} \cup Waiting /\ AfterTraffic \in {"running"} \cup Waiting
    BY DEF AfterReady, AfterTraffic, Waiting
  <2>2. worker' \in [Workers -> {"off", "running"} \cup Waiting \cup Ended]
    BY <1>1, <2>1 DEF TypeOK, PassGate
  <2>3. QED
    BY <1>1, <2>2 DEF TypeOK, PassGate, appVars, readinessVars, trafficVars
<1>2. CASE LeaveGate(w) \/ RunReturns(w)
  BY <1>2 DEF TypeOK, LeaveGate, RunReturns, Ended, appVars, readinessVars, trafficVars
<1>3. CASE RunFails(w)
  BY <1>3, LifecycleAssumption DEF TypeOK, RunFails, Ended, appVars, readinessVars, trafficVars
<1>4. QED
  BY <1>1, <1>2, <1>3 DEF Gate

LEMMA StoppingType ==
  ASSUME TypeOK, Stopping \/ StopTimesOut \/ Signal \/ ServeFails
  PROVE  TypeOK'
<1>1. CASE BeginStop \/ Stopped \/ Signal
  <2>1. CASE BeginStop
    BY <2>1 DEF TypeOK, BeginStop, readinessVars, trafficVars
  <2>2. CASE Stopped
    BY <2>2 DEF TypeOK, Stopped, readinessVars, trafficVars
  <2>3. CASE Signal
    BY <2>3 DEF TypeOK, Signal, appVars, readinessVars, trafficVars
  <2>4. QED
    BY <1>1, <2>1, <2>2, <2>3
<1>2. CASE CancelWorker
  BY <1>2 DEF TypeOK, CancelWorker, appVars, readinessVars, trafficVars
<1>3. CASE StopComponent \/ WorkerStopped
  <2>1. hook \in 1..Hooks /\ hook' = hook - 1 /\ open' \subseteq Components
    BY <1>3, HooksType DEF TypeOK, StopComponent, WorkerStopped
  <2>2. hook' \in 0..Hooks
    BY <2>1, HooksType
  <2>3. QED
    BY <1>3, <2>1, <2>2 DEF TypeOK, StopComponent, WorkerStopped, readinessVars, trafficVars
<1>4. CASE StopTimesOut
  BY <1>4 DEF TypeOK, StopTimesOut, Ended, readinessVars, trafficVars
<1>5. CASE ServeFails
  BY <1>5, LifecycleAssumption DEF TypeOK, ServeFails, appVars, readinessVars, trafficVars
<1>6. QED
  BY <1>1, <1>2, <1>3, <1>4, <1>5 DEF Stopping

LEMMA NextType == TypeOK /\ [Next]_vars => TypeOK'
<1> SUFFICES ASSUME TypeOK, [Next]_vars
             PROVE  TypeOK'
  OBVIOUS
<1>1. CASE UNCHANGED vars
  BY <1>1 DEF TypeOK, vars, appVars, readinessVars, trafficVars
<1>2. CASE Next
  BY <1>2, StartUpType, ProbeType, WorkerType, StoppingType DEF Next
<1>3. QED
  BY <1>1, <1>2

(* Every variable has the shape the code gives it, and a channel is closed *)
(* exactly if somebody closed it.                                          *)
THEOREM TypeCorrect == Spec => []TypeOK
BY InitType, NextType, PTL DEF Spec
-----------------------------------------------------------------------------
(* The conjuncts, each by the variables it is about.                       *)

LEMMA OnceInv ==
  ASSUME IInv, [Next]_vars
  PROVE  OnceHolds'
<1>1. CASE UNCHANGED <<once, closes, probe>>
  BY <1>1 DEF IInv, OnceHolds
<1>2. ASSUME NEW r \in Requests, ProbeStep(r)
      PROVE  OnceHolds'
  <2>1. CASE Probe(r) \/ TestClosed(r) \/ SkipOnce(r)
    <3>1. /\ UNCHANGED <<once, closes>>
          /\ \A s \in Requests : probe'[s] = "closing" => probe[s] = "closing"
      BY <2>1 DEF IInv, TypeOK, Probe, TestClosed, SkipOnce, trafficVars
    <3>2. QED
      BY <3>1 DEF IInv, OnceHolds
  <2>2. CASE EnterOnce(r)
    <3>1. /\ once = "free" /\ once' = "held" /\ closes' = closes
          /\ \A s \in Requests \ {r} : probe'[s] = probe[s]
      BY <2>2 DEF IInv, TypeOK, EnterOnce
    <3>2. QED
      BY <3>1 DEF IInv, OnceHolds
  <2>3. CASE CloseTraffic(r)
    <3>1. /\ probe[r] = "closing" /\ probe'[r] = "none" /\ once' = "done" /\ closes' = closes + 1
          /\ \A s \in Requests \ {r} : probe'[s] = probe[s]
      BY <2>3 DEF IInv, TypeOK, CloseTraffic
    <3>2. once = "held" /\ closes = 0 /\ \A s \in Requests \ {r} : probe[s] # "closing"
      BY <3>1 DEF IInv, OnceHolds
    <3>3. QED
      BY <3>1, <3>2 DEF OnceHolds
  <2>4. QED
    BY <1>2, <2>1, <2>2, <2>3 DEF ProbeStep
<1>3. CASE StopTimesOut
  BY <1>3 DEF IInv, OnceHolds, StopTimesOut, trafficVars
<1>4. CASE StartUp \/ StartFails \/ Stopping \/ Signal \/ ServeFails
  <2>1. UNCHANGED <<once, closes, probe>>
    BY <1>4 DEF StartUp, LoadFails, AppendHook, Start, StartComponent, StartWorker, Started, StartFails,
         Stopping, BeginStop, StopComponent, CancelWorker, WorkerStopped, Stopped, Signal, ServeFails,
         trafficVars
  <2>2. QED
    BY <1>1, <2>1
<1>5. ASSUME NEW w \in Workers, Gate(w) \/ RunReturns(w) \/ RunFails(w)
      PROVE  OnceHolds'
  <2>1. UNCHANGED <<once, closes, probe>>
    BY <1>5 DEF Gate, PassGate, LeaveGate, RunReturns, RunFails, trafficVars
  <2>2. QED
    BY <1>1, <2>1
<1>6. CASE UNCHANGED vars
  BY <1>1, <1>6 DEF vars, trafficVars
<1>7. QED
  BY <1>2, <1>3, <1>4, <1>5, <1>6 DEF Next

LEMMA RegisteredInv ==
  ASSUME IInv, [Next]_vars
  PROVE  AllRegistered'
<1>1. CASE UNCHANGED <<components, readyClosed>> /\ phase' \notin {"building", "starting"}
  BY <1>1 DEF IInv, AllRegistered
<1>2. CASE UNCHANGED <<components, readyClosed, phase>> /\ (phase = "building" => hook' = hook)
  BY <1>2 DEF IInv, AllRegistered
<1>3. CASE AppendHook
  <2>1. /\ phase = "building" /\ phase' = phase /\ readyClosed' = readyClosed /\ hook' = hook + 1
        /\ hook \in Nat
    BY <1>3, LifecycleAssumption DEF AppendHook, IInv, TypeOK
  <2>2. /\ \A h \in Components : components[h] # "unknown" => components'[h] = components[h]
        /\ hook' \in Components => components'[hook'] # "unknown"
    <3>1. CASE hook' \in Components /\ AddComponent(hook')
      BY <3>1 DEF AddComponent, IInv, TypeOK
    <3>2. CASE hook' \in Workers /\ UNCHANGED components
      BY <3>2 DEF Workers
    <3>3. QED
      BY <1>3, <3>1, <3>2 DEF AppendHook
  <2>3. \A h \in Components : h <= hook' => components'[h] # "unknown"
    <3>1. \A h \in Components : h <= hook' => h <= hook \/ h = hook'
      BY <2>1, HooksType
    <3>2. QED
      BY <2>1, <2>2, <3>1 DEF IInv, AllRegistered
  <2>4. QED
    BY <2>1, <2>2, <2>3 DEF IInv, AllRegistered
<1>4. CASE Start
  <2>1. \A h \in Components : h <= hook
    BY <1>4, HooksType DEF Start
  <2>2. QED
    BY <1>4, <2>1 DEF Start, IInv, AllRegistered, readinessVars
<1>5. CASE StartComponent
  <2>1. /\ phase = "starting" /\ phase' = phase
        /\ hook' \in Components /\ components' = [components EXCEPT ![hook'] = "ready"]
        /\ readyClosed' = (readyClosed \/ \A c \in Components \ {hook'} :
                                            components[c] \in {"ready", "unknown"})
    BY <1>5 DEF StartComponent, MarkReady
  <2>2. /\ components'[hook'] = "ready"
        /\ \A h \in Components \ {hook'} : components'[h] = components[h]
    BY <2>1 DEF IInv, TypeOK
  <2>3. QED
    BY <2>1, <2>2 DEF IInv, AllRegistered
<1>6. CASE LoadFails \/ Started \/ StartFails \/ BeginStop \/ Stopped \/ StopTimesOut
  BY <1>1, <1>6 DEF LoadFails, Started, StartFails, BeginStop, Stopped, StopTimesOut, readinessVars
<1>7. CASE StartWorker \/ StopComponent \/ CancelWorker \/ WorkerStopped \/ Signal \/ ServeFails
  <2>1. UNCHANGED <<components, readyClosed, phase>> /\ (phase = "building" => hook' = hook)
    BY <1>7 DEF StartWorker, StopComponent, CancelWorker, WorkerStopped, Signal, ServeFails,
         readinessVars, appVars
  <2>2. QED
    BY <1>2, <2>1
<1>8. ASSUME NEW r \in Requests, ProbeStep(r)
      PROVE  AllRegistered'
  <2>1. UNCHANGED <<components, readyClosed, phase, hook>>
    BY <1>8 DEF ProbeStep, Probe, TestClosed, EnterOnce, SkipOnce, CloseTraffic, readinessVars, appVars
  <2>2. QED
    BY <1>2, <2>1
<1>9. ASSUME NEW w \in Workers, Gate(w) \/ RunReturns(w) \/ RunFails(w)
      PROVE  AllRegistered'
  <2>1. UNCHANGED <<components, readyClosed, phase, hook>>
    BY <1>9 DEF Gate, PassGate, LeaveGate, RunReturns, RunFails, readinessVars, appVars
  <2>2. QED
    BY <1>2, <2>1
<1>10. CASE UNCHANGED vars
  BY <1>2, <1>10 DEF vars, readinessVars, appVars
<1>11. QED
  BY <1>3, <1>4, <1>5, <1>6, <1>7, <1>8, <1>9, <1>10 DEF Next, StartUp, Stopping

(* A gate that is open stays open.                                         *)
LEMMA GatesStayOpen ==
  ASSUME IInv, [Next]_vars
  PROVE  (readyClosed => readyClosed') /\ (trafficClosed => trafficClosed') /\ env' = env
<1>1. CASE StartUp \/ StartFails
  <2>1. CASE StartComponent
    <3>1. UNCHANGED <<env, trafficClosed>>
      BY <2>1 DEF StartComponent, trafficVars
    <3>2. readyClosed => readyClosed'
      BY <2>1, Zenon DEF StartComponent, MarkReady
    <3>3. QED
      BY <3>1, <3>2
  <2>2. CASE LoadFails \/ AppendHook \/ Start \/ StartWorker \/ Started \/ StartFails
    <3>1. UNCHANGED <<env, readyClosed, trafficClosed>>
      BY <2>2 DEF LoadFails, AppendHook, Start, StartWorker, Started, StartFails, readinessVars,
           trafficVars
    <3>2. QED
      BY <3>1
  <2>3. QED
    BY <1>1, <2>1, <2>2 DEF StartUp
<1>2. CASE Stopping \/ StopTimesOut \/ Signal \/ ServeFails
  BY <1>2 DEF Stopping, BeginStop, StopComponent, CancelWorker, WorkerStopped, Stopped,
       StopTimesOut, Signal, ServeFails, readinessVars, trafficVars
<1>3. ASSUME NEW r \in Requests, ProbeStep(r)
      PROVE  (readyClosed => readyClosed') /\ (trafficClosed => trafficClosed') /\ env' = env
  BY <1>3 DEF ProbeStep, Probe, TestClosed, EnterOnce, SkipOnce, CloseTraffic, readinessVars,
       trafficVars
<1>4. ASSUME NEW w \in Workers, Gate(w) \/ RunReturns(w) \/ RunFails(w)
      PROVE  (readyClosed => readyClosed') /\ (trafficClosed => trafficClosed') /\ env' = env
  BY <1>4 DEF Gate, PassGate, LeaveGate, RunReturns, RunFails, readinessVars, trafficVars
<1>5. CASE UNCHANGED vars
  BY <1>5 DEF vars, readinessVars, trafficVars
<1>6. QED
  BY <1>1, <1>2, <1>3, <1>4, <1>5 DEF Next

(* What one worker may do at the gates.                                    *)
GatePassed(w) ==
    /\ worker[w] = "waitProbe" => readyClosed
    /\ worker[w] = "running" =>
         /\ w \in AwaitReady \cup AwaitTraffic => readyClosed
         /\ w \in AwaitTraffic /\ IsKubernetes => trafficClosed

LEMMA GateKept ==
  ASSUME IInv, [Next]_vars, NEW w \in Workers,
         worker'[w] \in {"waitProbe", "running"} => worker'[w] = worker[w]
  PROVE  GatePassed(w)'
<1>1. IsKubernetes' = IsKubernetes
  BY GatesStayOpen DEF IsKubernetes, Unmarshalled
<1>2. GatePassed(w)
  BY DEF IInv, GatesPassed, GatePassed
<1>3. QED
  BY <1>1, <1>2, GatesStayOpen DEF GatePassed

LEMMA GatesInv ==
  ASSUME IInv, [Next]_vars
  PROVE  GatesPassed'
<1> SUFFICES ASSUME NEW w \in Workers
             PROVE  GatePassed(w)'
  BY DEF GatesPassed, GatePassed
<1>1. CASE worker'[w] = worker[w]
  BY <1>1, GateKept
<1>2. CASE StartWorker
  <2>1. CASE w = hook'
    <3>1. worker'[w] = IF w \in AwaitReady THEN "waitReady" ELSE AfterReady(w)
      BY <1>2, <2>1 DEF StartWorker, IInv, TypeOK
    <3>2. worker'[w] # "waitProbe" /\ (worker'[w] = "running" => w \notin AwaitReady \cup AwaitTraffic)
      BY <3>1 DEF AfterReady
    <3>3. QED
      BY <3>2 DEF GatePassed
  <2>2. CASE w # hook'
    BY <1>1, <1>2, <2>2 DEF StartWorker, IInv, TypeOK
  <2>3. QED
    BY <2>1, <2>2
<1>3. CASE PassGate(w)
  <2>1. UNCHANGED <<env, readyClosed, trafficClosed>>
    BY <1>3 DEF PassGate, readinessVars, trafficVars
  <2>2. IsKubernetes' = IsKubernetes
    BY <2>1 DEF IsKubernetes, Unmarshalled
  <2>3. CASE worker[w] = "waitReady" /\ readyClosed /\ worker'[w] = AfterReady(w)
    BY <2>1, <2>2, <2>3 DEF AfterReady, GatePassed
  <2>4. CASE worker[w] = "waitTraffic" /\ readyClosed /\ worker'[w] = AfterTraffic
    BY <2>1, <2>2, <2>4 DEF AfterTraffic, GatePassed
  <2>5. CASE worker[w] = "waitProbe" /\ trafficClosed /\ worker'[w] = "running"
    BY <2>1, <2>2, <2>5 DEF IInv, GatesPassed, GatePassed
  <2>6. QED
    BY <1>3, <2>3, <2>4, <2>5 DEF PassGate, IInv, TypeOK
<1>4. ASSUME NEW v \in Workers, v # w, Gate(v) \/ RunReturns(v) \/ RunFails(v)
      PROVE  worker'[w] = worker[w]
  BY <1>4 DEF Gate, PassGate, LeaveGate, RunReturns, RunFails, IInv, TypeOK
<1>5. CASE LeaveGate(w) \/ RunReturns(w) \/ RunFails(w)
  <2>1. worker'[w] \in Ended
    BY <1>5 DEF LeaveGate, RunReturns, RunFails, Ended, IInv, TypeOK
  <2>2. QED
    BY <2>1, GateKept DEF Ended
<1>6. CASE StopTimesOut
  <2>1. worker'[w] = "done"
    BY <1>6 DEF StopTimesOut
  <2>2. QED
    BY <2>1, GateKept
<1>7. CASE \/ LoadFails \/ AppendHook \/ Start \/ StartComponent \/ Started \/ StartFails
           \/ Stopping \/ Signal \/ ServeFails
  <2>1. worker' = worker
    BY <1>7 DEF LoadFails, AppendHook, Start, StartComponent, Started, StartFails, Stopping, BeginStop,
         StopComponent, CancelWorker, WorkerStopped, Stopped, Signal, ServeFails
  <2>2. QED
    BY <1>1, <2>1
<1>8. ASSUME NEW r \in Requests, ProbeStep(r)
      PROVE  worker'[w] = worker[w]
  BY <1>8 DEF ProbeStep, Probe, TestClosed, EnterOnce, SkipOnce, CloseTraffic
<1>9. CASE UNCHANGED vars
  BY <1>1, <1>9 DEF vars
<1>10. QED
  BY <1>1, <1>2, <1>3, <1>4, <1>5, <1>6, <1>7, <1>8, <1>9 DEF Next, StartUp, Gate

(* What becomes ready, and when.                                           *)
LEMMA ReadyMoves ==
  ASSUME TypeOK, [Next]_vars
  PROVE  IF StartComponent THEN Ready' = Ready \cup {hook + 1} ELSE Ready' = Ready
<1>1. CASE StartComponent
  <2>1. hook + 1 \in Components /\ components' = [components EXCEPT ![hook + 1] = "ready"]
    BY <1>1 DEF StartComponent, MarkReady
  <2>2. QED
    BY <1>1, <2>1 DEF Ready, TypeOK
<1>2. CASE AppendHook
  <2>1. CASE UNCHANGED components
    BY <1>2, <2>1 DEF Ready, AppendHook, StartComponent
  <2>2. CASE hook' \in Components /\ AddComponent(hook')
    BY <1>2, <2>2 DEF AddComponent, Ready, TypeOK, AppendHook, StartComponent
  <2>3. QED
    BY <1>2, <2>1, <2>2 DEF AppendHook
<1>3. CASE ~StartComponent /\ ~AppendHook
  <2>1. components' = components
    <3>1. CASE StartUp \/ StartFails
      BY <1>3, <3>1 DEF StartUp, LoadFails, Start, StartWorker, Started, StartFails, readinessVars
    <3>2. CASE Stopping \/ StopTimesOut \/ Signal \/ ServeFails
      BY <3>2 DEF Stopping, BeginStop, StopComponent, CancelWorker, WorkerStopped, Stopped,
           StopTimesOut, Signal, ServeFails, readinessVars
    <3>3. ASSUME NEW r \in Requests, ProbeStep(r)
          PROVE  components' = components
      BY <3>3 DEF ProbeStep, Probe, TestClosed, EnterOnce, SkipOnce, CloseTraffic, readinessVars
    <3>4. ASSUME NEW w \in Workers, Gate(w) \/ RunReturns(w) \/ RunFails(w)
          PROVE  components' = components
      BY <3>4 DEF Gate, PassGate, LeaveGate, RunReturns, RunFails, readinessVars
    <3>5. CASE UNCHANGED vars
      BY <3>5 DEF vars, readinessVars
    <3>6. QED
      BY <3>1, <3>2, <3>3, <3>4, <3>5 DEF Next
  <2>2. QED
    BY <1>3, <2>1 DEF Ready
<1>4. QED
  BY <1>1, <1>2, <1>3

LEMMA OpenInv ==
  ASSUME IInv, [Next]_vars
  PROVE  OpenBelow'
<1> DEFINE Opened == phase \in Up => open = {h \in Components : h <= hook}
           Early == /\ phase = "building" => open = {}
                    /\ phase \in {"building", "starting"} => open = Ready
           Behind == \A w \in Workers : Live(w) => w <= hook /\ phase \in Up
<1>1. Opened /\ Early /\ Behind /\ hook \in Nat
  BY LifecycleAssumption DEF IInv, OpenBelow, TypeOK
<1>2. ASSUME Opened', Early', Behind'
      PROVE  OpenBelow'
  BY <1>2 DEF OpenBelow
<1>3. Ready' = IF StartComponent THEN Ready \cup {hook + 1} ELSE Ready
  BY ReadyMoves DEF IInv
<1>4. ASSUME UNCHANGED <<phase, hook, open>>, \A w \in Workers : Live(w)' => Live(w)
      PROVE  OpenBelow'
  <2>1. ~StartComponent
    BY <1>1, <1>4 DEF StartComponent
  <2>2. Opened' /\ Early' /\ Behind'
    BY <1>1, <1>3, <1>4, <2>1
  <2>3. QED
    BY <1>2, <2>2
<1>5. CASE LoadFails \/ AppendHook \/ Start
  <2>1. /\ phase = "building" /\ UNCHANGED <<open, worker>>
        /\ phase' \in Up => phase' = "starting" /\ hook' = 0
    BY <1>5 DEF LoadFails, AppendHook, Start, Up
  <2>2. \A w \in Workers : ~Live(w)
    BY <1>1, <2>1 DEF Up
  <2>3. Behind'
    BY <2>1, <2>2 DEF Live
  <2>4. {h \in Components : h <= 0} = {}
    BY HooksType
  <2>5. Opened' /\ Early'
    BY <1>1, <1>3, <2>1, <2>4 DEF StartComponent
  <2>6. QED
    BY <1>2, <2>3, <2>5
<1>6. CASE StartComponent
  <2>1. /\ phase = "starting" /\ phase' = phase /\ hook' = hook + 1 /\ open' = open \cup {hook'}
        /\ worker' = worker /\ hook' \in Components
    BY <1>6 DEF StartComponent
  <2>2. Behind'
    BY <1>1, <2>1, HooksType DEF Live, Up
  <2>3. {h \in Components : h <= hook + 1} = {h \in Components : h <= hook} \cup {hook + 1}
    BY <1>1, <2>1, HooksType
  <2>4. Opened' /\ Early'
    BY <1>1, <1>3, <1>6, <2>1, <2>3 DEF Up
  <2>5. QED
    BY <1>2, <2>2, <2>4
<1>7. CASE StartWorker
  <2>1. /\ phase = "starting" /\ phase' = phase /\ hook' = hook + 1 /\ open' = open
        /\ hook' \in Workers /\ \A w \in Workers : w # hook' => worker'[w] = worker[w]
    BY <1>7 DEF StartWorker, IInv, TypeOK
  <2>2. Behind'
    BY <1>1, <2>1, HooksType DEF Live, Up
  <2>3. {h \in Components : h <= hook + 1} = {h \in Components : h <= hook}
    BY <1>1, <2>1, HooksType
  <2>4. Ready' = Ready
    BY <1>3, <2>1, HooksType DEF StartComponent
  <2>5. Opened' /\ Early'
    BY <1>1, <2>1, <2>3, <2>4 DEF Up
  <2>6. QED
    BY <1>2, <2>2, <2>5
<1>8. CASE Started \/ StartFails \/ BeginStop
  <2>1. /\ phase \in Up /\ phase' \in Up \ {"starting"}
        /\ UNCHANGED <<hook, open, worker>>
    BY <1>8 DEF Started, StartFails, BeginStop, Up
  <2>2. Behind' /\ Opened' /\ Early'
    BY <1>1, <2>1 DEF Live, Up
  <2>3. QED
    BY <1>2, <2>2
<1>9. CASE StopComponent
  <2>1. /\ phase = "stopping" /\ phase' = phase /\ hook \in Components /\ hook' = hook - 1
        /\ open' = open \ {hook} /\ worker' = worker
    BY <1>9 DEF StopComponent
  <2>2. \A w \in Workers : w <= hook => w <= hook'
    BY <1>1, <2>1, HooksType
  <2>3. Behind'
    BY <1>1, <2>1, <2>2 DEF Live
  <2>4. {h \in Components : h <= hook - 1} = {h \in Components : h <= hook} \ {hook}
    BY <1>1, <2>1, HooksType
  <2>5. Opened' /\ Early'
    BY <1>1, <2>1, <2>4 DEF Up
  <2>6. QED
    BY <1>2, <2>3, <2>5
<1>10. CASE WorkerStopped
  <2>1. /\ phase = "stopping" /\ phase' = phase /\ hook \in Workers /\ hook' = hook - 1
        /\ open' = open /\ worker' = worker /\ worker[hook] \in Ended
    BY <1>10 DEF WorkerStopped
  <2>2. ~Live(hook)
    BY <2>1 DEF Live, Waiting, Ended
  <2>3. \A w \in Workers : w <= hook /\ w # hook => w <= hook'
    BY <1>1, <2>1, HooksType
  <2>4. Behind'
    BY <1>1, <2>1, <2>2, <2>3 DEF Live
  <2>5. {h \in Components : h <= hook - 1} = {h \in Components : h <= hook}
    BY <1>1, <2>1, HooksType
  <2>6. Opened' /\ Early'
    BY <1>1, <2>1, <2>5 DEF Up
  <2>7. QED
    BY <1>2, <2>4, <2>6
<1>11. CASE StopTimesOut \/ Stopped
  <2>1. phase' \in {"exited", "stopped"}
    BY <1>11 DEF StopTimesOut, Stopped
  <2>2. \A w \in Workers : ~Live(w)'
    <3>1. CASE StopTimesOut
      BY <3>1 DEF StopTimesOut, Live, Waiting
    <3>2. CASE Stopped
      <4>1. hook = 0 /\ worker' = worker
        BY <3>2 DEF Stopped
      <4>2. \A w \in Workers : ~(w <= hook)
        BY <4>1, HooksType
      <4>3. QED
        BY <1>1, <4>1, <4>2 DEF Live
    <3>3. QED
      BY <1>11, <3>1, <3>2
  <2>3. Opened' /\ Early'
    BY <2>1 DEF Up
  <2>4. QED
    BY <1>2, <2>2, <2>3
<1>12. CASE CancelWorker \/ Signal \/ ServeFails
  BY <1>4, <1>12 DEF CancelWorker, Signal, ServeFails, appVars, Live
<1>13. ASSUME NEW r \in Requests, ProbeStep(r)
       PROVE  OpenBelow'
  BY <1>4, <1>13 DEF ProbeStep, Probe, TestClosed, EnterOnce, SkipOnce, CloseTraffic, appVars, Live
<1>14. ASSUME NEW w \in Workers, Gate(w) \/ RunReturns(w) \/ RunFails(w)
       PROVE  OpenBelow'
  <2>1. UNCHANGED <<phase, hook, open>>
    BY <1>14 DEF Gate, PassGate, LeaveGate, RunReturns, RunFails, appVars
  <2>2. Live(w)
    BY <1>14 DEF Gate, PassGate, LeaveGate, RunReturns, RunFails, Live, Waiting
  <2>3. \A v \in Workers \ {w} : worker'[v] = worker[v]
    BY <1>14 DEF Gate, PassGate, LeaveGate, RunReturns, RunFails, IInv, TypeOK
  <2>4. QED
    BY <1>4, <2>1, <2>2, <2>3 DEF Live
<1>15. CASE UNCHANGED vars
  BY <1>4, <1>15 DEF vars, appVars, Live
<1>16. QED
  BY <1>5, <1>6, <1>7, <1>8, <1>9, <1>10, <1>11, <1>12, <1>13, <1>14, <1>15
     DEF Next, StartUp, Stopping

LEMMA ProbesInv ==
  ASSUME IInv, [Next]_vars
  PROVE  ProbesReady'
<1>1. ASSUME \A r \in Requests : probe'[r] # "none" => probe[r] # "none"
      PROVE  ProbesReady'
  BY <1>1, GatesStayOpen DEF IInv, ProbesReady
<1>2. ASSUME NEW r \in Requests, ProbeStep(r)
      PROVE  ProbesReady'
  <2>1. /\ probe[r] # "none" \/ readyClosed
        /\ \A s \in Requests \ {r} : probe'[s] = probe[s]
    BY <1>2 DEF ProbeStep, Probe, TestClosed, EnterOnce, SkipOnce, CloseTraffic, IInv, TypeOK
  <2>2. QED
    BY <2>1, GatesStayOpen DEF IInv, ProbesReady
<1>3. CASE StopTimesOut
  BY <1>1, <1>3 DEF StopTimesOut
<1>4. CASE StartUp \/ StartFails \/ Stopping \/ Signal \/ ServeFails
  <2>1. probe' = probe
    BY <1>4 DEF StartUp, LoadFails, AppendHook, Start, StartComponent, StartWorker, Started, StartFails,
         Stopping, BeginStop, StopComponent, CancelWorker, WorkerStopped, Stopped, Signal, ServeFails
  <2>2. QED
    BY <1>1, <2>1
<1>5. ASSUME NEW w \in Workers, Gate(w) \/ RunReturns(w) \/ RunFails(w)
      PROVE  ProbesReady'
  <2>1. probe' = probe
    BY <1>5 DEF Gate, PassGate, LeaveGate, RunReturns, RunFails
  <2>2. QED
    BY <1>1, <2>1
<1>6. CASE UNCHANGED vars
  BY <1>1, <1>6 DEF vars
<1>7. QED
  BY <1>2, <1>3, <1>4, <1>5, <1>6 DEF Next

LEMMA TurnInv ==
  ASSUME IInv, [Next]_vars
  PROVE  StartsInTurn'
<1>1. CASE LoadFails \/ Started \/ StartFails \/ Stopping \/ StopTimesOut
  <2>1. phase' \notin {"building", "starting"}
    BY <1>1 DEF LoadFails, Started, StartFails, Stopping, BeginStop, StopComponent, CancelWorker,
         WorkerStopped, Stopped, StopTimesOut, appVars
  <2>2. QED
    BY <2>1 DEF StartsInTurn
<1>2. CASE AppendHook \/ Start
  BY <1>2 DEF AppendHook, Start, IInv, StartsInTurn
<1>3. CASE StartComponent \/ StartWorker
  <2>1. /\ phase = "starting" /\ phase' = phase /\ hook' = hook + 1 /\ hook \in Nat
        /\ \A w \in Workers : w # hook' => worker'[w] = worker[w]
    BY <1>3, LifecycleAssumption DEF StartComponent, StartWorker, IInv, TypeOK
  <2>2. \A w \in Workers : w > hook' => w > hook /\ w # hook'
    BY <2>1, HooksType
  <2>3. QED
    BY <2>1, <2>2 DEF IInv, StartsInTurn
<1>4. CASE Signal \/ ServeFails \/ UNCHANGED vars
  BY <1>4 DEF Signal, ServeFails, vars, appVars, IInv, StartsInTurn
<1>5. ASSUME NEW r \in Requests, ProbeStep(r)
      PROVE  StartsInTurn'
  <2>1. UNCHANGED <<phase, hook, worker>>
    BY <1>5 DEF ProbeStep, Probe, TestClosed, EnterOnce, SkipOnce, CloseTraffic, appVars
  <2>2. QED
    BY <2>1 DEF IInv, StartsInTurn
<1>6. ASSUME NEW w \in Workers, Gate(w) \/ RunReturns(w) \/ RunFails(w)
      PROVE  StartsInTurn'
  <2>1. /\ UNCHANGED <<phase, hook>> /\ worker[w] # "off"
        /\ \A v \in Workers \ {w} : worker'[v] = worker[v]
    BY <1>6 DEF Gate, PassGate, LeaveGate, RunReturns, RunFails, Waiting, appVars, IInv, TypeOK
  <2>2. QED
    BY <2>1 DEF IInv, StartsInTurn
<1>7. QED
  BY <1>1, <1>2, <1>3, <1>4, <1>5, <1>6 DEF Next, StartUp

LEMMA InitInv == Init => IInv
<1> SUFFICES ASSUME Init
             PROVE  IInv
  OBVIOUS
<1>1. OnceHolds /\ GatesPassed /\ OpenBelow /\ ProbesReady /\ StartsInTurn
  BY DEF Init, OnceHolds, GatesPassed, OpenBelow, ProbesReady, StartsInTurn, Ready, Live, Waiting,
         Up
<1>2. AllRegistered
  BY HooksType DEF Init, AllRegistered
<1>3. QED
  BY <1>1, <1>2, InitType DEF IInv

(* The inductive invariant.  The hooks give it its shape: all components   *)
(* are added before the first one starts (readiness.go:101-125), OnStop    *)
(* runs in reverse, and Stop waits for its worker (worker.go:115-134).     *)
THEOREM Invariance == Spec => []IInv
<1>1. IInv /\ [Next]_vars => IInv'
  BY NextType, OnceInv, RegisteredInv, GatesInv, OpenInv, ProbesInv, TurnInv
     DEF IInv
<1>2. QED
  BY <1>1, InitInv, PTL DEF Spec

(* However many probes race, kubernetesReadyChan is closed at most once    *)
(* (readiness.go:200-214).                                                 *)
THEOREM NeverClosedTwice == Spec => []ClosedOnce
<1>1. IInv => ClosedOnce
  BY DEF IInv, OnceHolds, ClosedOnce
<1>2. QED
  BY <1>1, Invariance, PTL

(* No worker is ahead of the gates it asked for, whatever hooks come after *)
(* its own (worker.go:72-91).                                              *)
THEOREM NoWorkerEarly == Spec => []GatesHold
<1>1. IInv => GatesHold
  BY DEF IInv, AllRegistered, GatesPassed, GatesHold
<1>2. QED
  BY <1>1, Invariance, PTL

(* No worker runs on a component that is closed or was never opened        *)
(* (worker.go:115-134).                                                    *)
THEOREM NothingClosedInUse == Spec => []NoUseAfterClose
<1>1. IInv => NoUseAfterClose
  <2> SUFFICES ASSUME IInv, NEW w \in Workers, NEW h \in Components, worker[w] = "running", h < w
               PROVE  h \in open
    BY DEF NoUseAfterClose
  <2>1. w <= hook /\ phase \in Up
    BY DEF IInv, OpenBelow, Live
  <2>2. h <= hook
    BY <2>1, HooksType DEF IInv, TypeOK
  <2>3. QED
    BY <2>1, <2>2 DEF IInv, OpenBelow
<1>2. QED
  BY <1>1, Invariance, PTL
-----------------------------------------------------------------------------
(* The process keeps the promise of a service: every step is one of        *)
(* Service's or nothing to it.                                             *)

LEMMA StateType ==
  ASSUME TypeOK, NEW w \in Workers
  PROVE  /\ StateOf(w) = "new" <=> worker[w] \in {"off"} \cup Waiting
         /\ StateOf(w) = "running" <=> worker[w] = "running"
         /\ StateOf(w) = "over" <=> worker[w] \in Ended
<1>1. worker[w] \in {"off", "running"} \cup Waiting \cup Ended
  BY DEF TypeOK
<1>2. QED
  BY <1>1 DEF StateOf, Waiting, Ended

(* One worker's step, as the promise sees it.                              *)
LEMMA StateMoves ==
  ASSUME TypeOK, TypeOK', NEW w \in Workers, NEW x,
         worker' = [worker EXCEPT ![w] = x]
  PROVE  /\ x \in Ended => [v \in Workers |-> StateOf(v)]' =
                               [[v \in Workers |-> StateOf(v)] EXCEPT ![w] = "over"]
         /\ x = "running" => [v \in Workers |-> StateOf(v)]' =
                               [[v \in Workers |-> StateOf(v)] EXCEPT ![w] = "running"]
         /\ x \in Waiting /\ StateOf(w) = "new" =>
                [v \in Workers |-> StateOf(v)]' = [v \in Workers |-> StateOf(v)]
<1>1. \A v \in Workers \ {w} : StateOf(v)' = StateOf(v)
  BY DEF StateOf, TypeOK
<1>2. worker'[w] = x
  BY DEF TypeOK
<1>3. /\ x \in Ended => StateOf(w)' = "over"
      /\ x = "running" => StateOf(w)' = "running"
      /\ x \in Waiting => StateOf(w)' = "new"
  BY <1>2 DEF StateOf, Waiting, Ended
<1>4. QED
  BY <1>1, <1>3

LEMMA InitPromise == Init => Promise!Init
<1>1. SUFFICES ASSUME Init
               PROVE  Promise!Init
  OBVIOUS
<1>2. IsKubernetes \in BOOLEAN
  BY DEF IsKubernetes
<1>3. Ready = {} /\ open = {} /\ closes = 0
  BY <1>1 DEF Init, Ready
<1>4. \A w \in Workers : StateOf(w) = "new"
  BY <1>1, InitType, StateType DEF Init
<1>5. QED
  BY <1>2, <1>3, <1>4 DEF Promise!Init

(* The mode never changes.                                                 *)
LEMMA ModeKept == IInv /\ [Next]_vars => IsKubernetes' = IsKubernetes
BY GatesStayOpen DEF IsKubernetes, Unmarshalled

LEMMA OpenPromise ==
  ASSUME IInv, IInv', StartComponent
  PROVE  \E h \in Components : Promise!Open(h)
<1> DEFINE h == hook + 1
<1>1. h \in Components /\ open' = open \cup {h} /\ phase = "starting" /\ hook \in Nat
  BY LifecycleAssumption DEF StartComponent, IInv, TypeOK
<1>2. UNCHANGED <<IsKubernetes, closes, worker>> /\ Ready' = Ready \cup {h}
  BY ModeKept, ReadyMoves DEF IInv, StartComponent, trafficVars, Next, StartUp
<1>3. open = Ready /\ Ready = {g \in Components : g <= hook}
  BY <1>1 DEF IInv, OpenBelow, Up
<1>4. h \notin Ready /\ Promise!Before(h) = Ready
  BY <1>1, <1>3, HooksType DEF Promise!Before
<1>5. [w \in Workers |-> StateOf(w)]' = [w \in Workers |-> StateOf(w)]
  BY <1>2 DEF StateOf
<1>6. Promise!Open(h)
  BY <1>1, <1>2, <1>3, <1>4, <1>5 DEF Promise!Open
<1>7. QED
  BY <1>1, <1>6

LEMMA ClosePromise ==
  ASSUME IInv, IInv', StopComponent
  PROVE  \E h \in Components : Promise!Close(h)
<1>1. /\ hook \in Components /\ open' = open \ {hook} /\ phase = "stopping" /\ phase' = phase
      /\ hook' = hook - 1 /\ worker' = worker
  BY DEF StopComponent
<1>2. UNCHANGED <<IsKubernetes, closes>> /\ Ready' = Ready
  <2>1. ~StartComponent
    BY <1>1 DEF StartComponent
  <2>2. QED
    BY <2>1, ModeKept, ReadyMoves DEF IInv, StopComponent, trafficVars, Next, Stopping
<1>3. open = {g \in Components : g <= hook}
  BY <1>1 DEF IInv, OpenBelow, Up
<1>4. \A w \in Workers : StateOf(w) = "running" => w <= hook
  BY StateType DEF IInv, OpenBelow, Live
<1>5. [w \in Workers |-> StateOf(w)]' = [w \in Workers |-> StateOf(w)]
  BY <1>1 DEF StateOf
<1>6. \A g \in open \cup Promise!Running : g <= hook
  BY <1>3, <1>4 DEF Promise!Running
<1>7. hook \in open
  BY <1>1, <1>3, HooksType
<1>8. Promise!Close(hook)
  BY <1>1, <1>2, <1>5, <1>6, <1>7 DEF Promise!Close
<1>9. QED
  BY <1>1, <1>8

LEMMA ProbePromise ==
  ASSUME IInv, IInv', NEW r \in Requests, ProbeStep(r)
  PROVE  Promise!Announce \/ UNCHANGED Promise!vars
<1>1. /\ UNCHANGED <<env, open, components, worker>>
      /\ CloseTraffic(r) \/ closes' = closes
  BY DEF ProbeStep, Probe, TestClosed, EnterOnce, SkipOnce, CloseTraffic, appVars, readinessVars,
         trafficVars
<1>2. UNCHANGED <<IsKubernetes, Ready, [w \in Workers |-> StateOf(w)]>>
  BY <1>1 DEF IsKubernetes, Unmarshalled, Ready, StateOf
<1>3. CASE CloseTraffic(r)
  <2>1. closes = 0 /\ closes' = 1
    BY <1>3 DEF CloseTraffic, IInv, OnceHolds
  <2>2. readyClosed
    BY <1>3 DEF CloseTraffic, IInv, ProbesReady
  <2>3. Ready = Components
    BY <2>2 DEF IInv, AllRegistered, Ready
  <2>4. QED
    BY <1>1, <1>2, <2>1, <2>3 DEF Promise!Announce
<1>4. CASE closes' = closes
  BY <1>1, <1>2, <1>4 DEF Promise!vars
<1>5. QED
  BY <1>1, <1>3, <1>4

(* A worker starts to run, at once or at a gate.                           *)
LEMMA RunPromise ==
  ASSUME IInv, IInv', [Next]_vars, NEW w \in Workers,
         UNCHANGED <<env, open, components, closes, trafficClosed, readyClosed>>,
         worker' = [worker EXCEPT ![w] = "running"], StateOf(w) = "new"
  PROVE  Promise!Run(w)
<1>1. UNCHANGED <<IsKubernetes, Ready>>
  BY DEF IsKubernetes, Unmarshalled, Ready
<1>2. worker'[w] = "running"
  BY DEF IInv, TypeOK
<1>3. Promise!Before(w) \subseteq open
  <2>1. w <= hook' /\ phase' \in Up
    BY <1>2 DEF IInv, OpenBelow, Live
  <2>2. open' = {h \in Components : h <= hook'} /\ hook' \in 0..Hooks
    BY <2>1 DEF IInv, OpenBelow, TypeOK
  <2>3. QED
    BY <2>1, <2>2, HooksType DEF Promise!Before
<1>4. w \in AwaitReady \cup AwaitTraffic => Ready = Components
  BY <1>2 DEF IInv, GatesPassed, AllRegistered, Ready
<1>5. w \in AwaitTraffic /\ IsKubernetes => closes = 1
  <2>1. w \in AwaitTraffic /\ IsKubernetes => trafficClosed
    BY <1>1, <1>2 DEF IInv, GatesPassed
  <2>2. trafficClosed => closes = 1
    BY DEF IInv, TypeOK, OnceHolds
  <2>3. QED
    BY <2>1, <2>2
<1>6. [v \in Workers |-> StateOf(v)]' = [[v \in Workers |-> StateOf(v)] EXCEPT ![w] = "running"]
  BY StateMoves DEF IInv
<1>7. QED
  BY <1>1, <1>3, <1>4, <1>5, <1>6 DEF Promise!Run

LEMMA StartWorkerPromise ==
  ASSUME IInv, IInv', StartWorker
  PROVE  (\E w \in Workers : Promise!Run(w)) \/ UNCHANGED Promise!vars
<1> DEFINE w == hook + 1
           x == IF w \in AwaitReady THEN "waitReady" ELSE AfterReady(w)
<1>1. /\ w \in Workers /\ worker' = [worker EXCEPT ![w] = x]
      /\ UNCHANGED <<env, open, components, closes, trafficClosed, readyClosed>>
  BY DEF StartWorker, readinessVars, trafficVars
<1>2. StateOf(w) = "new"
  <2>1. hook \in Nat
    BY LifecycleAssumption DEF IInv, TypeOK
  <2>2. worker[w] = "off"
    BY <1>1, <2>1 DEF StartWorker, IInv, StartsInTurn
  <2>3. QED
    BY <1>1, <2>2, StateType DEF IInv
<1>3. CASE x = "running"
  BY <1>1, <1>2, <1>3, RunPromise DEF Next, StartUp
<1>4. CASE x \in Waiting
  <2>1. UNCHANGED <<IsKubernetes, Ready>>
    BY <1>1 DEF IsKubernetes, Unmarshalled, Ready
  <2>2. [v \in Workers |-> StateOf(v)]' = [v \in Workers |-> StateOf(v)]
    BY <1>1, <1>2, <1>4, StateMoves DEF IInv
  <2>3. QED
    BY <1>1, <2>1, <2>2 DEF Promise!vars
<1>5. QED
  BY <1>3, <1>4 DEF AfterReady, Waiting

LEMMA GatePromise ==
  ASSUME IInv, IInv', NEW w \in Workers, PassGate(w)
  PROVE  Promise!Run(w) \/ UNCHANGED Promise!vars
<1>1. /\ UNCHANGED <<env, open, components, closes, trafficClosed, readyClosed>>
      /\ worker[w] \in Waiting
  BY DEF PassGate, Waiting, appVars, readinessVars, trafficVars
<1>2. StateOf(w) = "new"
  BY <1>1, StateType DEF IInv
<1>3. PICK x \in {"running"} \cup Waiting : worker' = [worker EXCEPT ![w] = x]
  BY DEF PassGate, AfterReady, AfterTraffic, Waiting
<1>4. CASE x = "running"
  BY <1>1, <1>2, <1>3, <1>4, RunPromise DEF Next, Gate
<1>5. CASE x \in Waiting
  <2>1. UNCHANGED <<IsKubernetes, Ready>>
    BY <1>1 DEF IsKubernetes, Unmarshalled, Ready
  <2>2. [v \in Workers |-> StateOf(v)]' = [v \in Workers |-> StateOf(v)]
    BY <1>2, <1>3, <1>5, StateMoves DEF IInv
  <2>3. QED
    BY <1>1, <2>1, <2>2 DEF Promise!vars
<1>6. QED
  BY <1>3, <1>4, <1>5

(* It leaves a gate, returns or fails.                                     *)
LEMMA OverPromise ==
  ASSUME IInv, IInv', NEW w \in Workers, LeaveGate(w) \/ RunReturns(w) \/ RunFails(w)
  PROVE  Promise!Over(w)
<1>1. UNCHANGED <<env, open, components, closes>> /\ worker[w] \notin Ended
  BY DEF LeaveGate, RunReturns, RunFails, Waiting, Ended, appVars, readinessVars, trafficVars
<1>2. UNCHANGED <<IsKubernetes, Ready>>
  BY <1>1 DEF IsKubernetes, Unmarshalled, Ready
<1>3. PICK x \in Ended : worker' = [worker EXCEPT ![w] = x]
  BY DEF LeaveGate, RunReturns, RunFails, Ended
<1>4. [v \in Workers |-> StateOf(v)]' = [[v \in Workers |-> StateOf(v)] EXCEPT ![w] = "over"]
  BY <1>3, StateMoves DEF IInv
<1>5. StateOf(w) # "over"
  BY <1>1, StateType DEF IInv
<1>6. QED
  BY <1>1, <1>2, <1>4, <1>5 DEF Promise!Over

LEMMA ExitPromise ==
  ASSUME IInv, IInv', StopTimesOut
  PROVE  Promise!Exit
<1>1. UNCHANGED <<env, components, closes>> /\ open' = {}
  BY DEF StopTimesOut, readinessVars, trafficVars
<1>2. UNCHANGED <<IsKubernetes, Ready>>
  BY <1>1 DEF IsKubernetes, Unmarshalled, Ready
<1>3. \A w \in Workers : StateOf(w)' = "over"
  <2>1. \A w \in Workers : worker'[w] \in Ended
    BY DEF StopTimesOut, Ended
  <2>2. QED
    BY <2>1, StateType DEF IInv, StateOf, Waiting, Ended
<1>4. QED
  BY <1>1, <1>2, <1>3 DEF Promise!Exit

(* What else happens in the process does not show.                         *)
LEMMA SilentPromise ==
  ASSUME IInv, [Next]_vars,
         \/ LoadFails \/ AppendHook \/ Start \/ Started \/ StartFails \/ Signal \/ ServeFails
         \/ BeginStop \/ CancelWorker \/ WorkerStopped \/ Stopped \/ UNCHANGED vars
  PROVE  UNCHANGED Promise!vars
<1>1. UNCHANGED <<open, closes, worker>>
  BY DEF LoadFails, AppendHook, Start, Started, StartFails, Signal, ServeFails, BeginStop,
         CancelWorker, WorkerStopped, Stopped, vars, appVars, trafficVars
<1>2. ~StartComponent
  <2>1. phase # "starting" \/ phase' # phase \/ hook' = hook
    BY DEF LoadFails, AppendHook, Start, Started, StartFails, Signal, ServeFails, BeginStop,
           CancelWorker, WorkerStopped, Stopped, vars, appVars
  <2>2. hook \in Nat
    BY LifecycleAssumption DEF IInv, TypeOK
  <2>3. QED
    BY <2>1, <2>2 DEF StartComponent
<1>3. Ready' = Ready /\ IsKubernetes' = IsKubernetes
  BY <1>2, ReadyMoves, ModeKept DEF IInv
<1>4. [w \in Workers |-> StateOf(w)]' = [w \in Workers |-> StateOf(w)]
  BY <1>1 DEF StateOf
<1>5. QED
  BY <1>1, <1>3, <1>4 DEF Promise!vars

LEMMA StepPromise == IInv /\ IInv' /\ [Next]_vars => [Promise!Next]_Promise!vars
<1>1. SUFFICES ASSUME IInv, IInv', [Next]_vars
               PROVE  [Promise!Next]_Promise!vars
  OBVIOUS
<1>2. CASE StartComponent
  BY <1>1, <1>2, OpenPromise DEF Promise!Next
<1>3. CASE StopComponent
  BY <1>1, <1>3, ClosePromise DEF Promise!Next
<1>4. CASE StartWorker
  BY <1>1, <1>4, StartWorkerPromise DEF Promise!Next
<1>5. ASSUME NEW r \in Requests, ProbeStep(r)
      PROVE  [Promise!Next]_Promise!vars
  BY <1>1, <1>5, ProbePromise DEF Promise!Next
<1>6. ASSUME NEW w \in Workers, Gate(w) \/ RunReturns(w) \/ RunFails(w)
      PROVE  [Promise!Next]_Promise!vars
  BY <1>1, <1>6, GatePromise, OverPromise DEF Gate, Promise!Next
<1>7. CASE StopTimesOut
  BY <1>1, <1>7, ExitPromise DEF Promise!Next
<1>8. CASE \/ LoadFails \/ AppendHook \/ Start \/ Started \/ StartFails \/ Signal \/ ServeFails
           \/ BeginStop \/ CancelWorker \/ WorkerStopped \/ Stopped \/ UNCHANGED vars
  BY <1>1, <1>8, SilentPromise
<1>9. QED
  BY <1>1, <1>2, <1>3, <1>4, <1>5, <1>6, <1>7, <1>8 DEF Next, StartUp, Stopping

(* Through every start, failed start, probe, signal, fault and stop the    *)
(* process is a service as its components and workers are promised         *)
(* (worker.go:72-134, readiness.go:101-214).                               *)
THEOREM PromiseKept == Spec => KeepsPromise
<1>1. QED
  BY InitPromise, Invariance, StepPromise, PTL DEF Spec, KeepsPromise, Promise!Spec
=============================================================================
