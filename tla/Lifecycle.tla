----------------------------- MODULE Lifecycle -----------------------------
(***************************************************************************)
(* One service process from construction to exit: the fx lifecycle hooks,  *)
(* the readiness gates of pkg/core/health, the readiness endpoint of       *)
(* pkg/http/health and the workers of pkg/core/worker.                     *)
(*                                                                         *)
(* Hooks are numbered in the order they are appended.  OnStart runs in     *)
(* that order and OnStop in reverse.  A hook belongs to a component (the   *)
(* MongoDB client, the migrations, the Kafka clients, the HTTP server),    *)
(* which marks itself ready in OnStart, or to a worker, whose OnStart only *)
(* starts a goroutine that may wait for readiness.                         *)
(***************************************************************************)
EXTENDS Integers, FiniteSets

CONSTANTS
    Hooks,           \* number of hooks
    Components,      \* the hooks of components, the others are workers
    Server,          \* the HTTP server, one of Components
    AwaitReady,      \* workers with WithReady
    AwaitTraffic,    \* workers with WithTrafficReady
    ShutdownOnError, \* workers with WithShutdown
    Environments,    \* sets of configuration keys a process may be started with
    Requests,        \* concurrent probes
    MaxFaults        \* bound: failed workers, a failed start, a failed server

Workers == (1..Hooks) \ Components

ASSUME LifecycleAssumption ==
    /\ Hooks \in Nat \ {0}
    /\ Components \subseteq 1..Hooks /\ Server \in Components
    /\ AwaitReady \subseteq Workers /\ AwaitTraffic \subseteq Workers
    /\ ShutdownOnError \subseteq Workers
    /\ \A keys \in Environments : keys \subseteq STRING
    /\ MaxFaults \in Nat

VARIABLES
    env,           \* the keys this process was started with
    phase,         \* the fx application
    hook,          \* hooks appended, then hooks started and not yet stopped
    open,          \* components between OnStart and OnStop
    shutdown,      \* a signal arrived or Shutdown was called
    components,    \* Readiness.components
    readyClosed,   \* readyChan is closed
    trafficClosed, \* kubernetesReadyChan is closed
    once,          \* kubernetesReadyOnce: "free", "held" or "done"
    closes,        \* calls of close(kubernetesReadyChan)
    probe,         \* probe[r]: where the readiness request r is
    worker,        \* worker[w]: where baseWorker.run is
    cancelled,     \* workers whose context Stop has cancelled
    faults

appVars == <<phase, hook, open>>
readinessVars == <<components, readyClosed>>
trafficVars == <<trafficClosed, once, closes>>
vars == <<env, appVars, shutdown, readinessVars, trafficVars, probe, worker, cancelled, faults>>

Waiting == {"waitReady", "waitTraffic", "waitProbe"}
Ended == {"done", "failed"}

-----------------------------------------------------------------------------
(* AppConfig, loaded from the environment.                                 *)

Required == {"app-service-name", "app-service-version", "app-env"}
ServiceHost == "kubernetes-service-host"

\* The keys that Unmarshal can store: the field for ServiceHost is not exported,
\* IsKubernetes goes by its name because it has no tag.
ExportedFields == Required \cup {"iskubernetes"}

Unmarshalled(keys) == keys \cap ExportedFields

\* ApplyDefaults.
IsKubernetes == Unmarshalled(env) \cap {"iskubernetes", ServiceHost} # {}

\* Validate.
ConfigValid == Required \subseteq Unmarshalled(env)
-----------------------------------------------------------------------------
Init ==
    /\ env \in Environments
    /\ phase = "building" /\ hook = 0 /\ open = {} /\ shutdown = FALSE
    /\ components = [h \in Components |-> "unknown"]
    /\ readyClosed = FALSE
    /\ trafficClosed = FALSE /\ once = "free" /\ closes = 0
    /\ probe = [r \in Requests |-> "none"]
    /\ worker = [w \in Workers |-> "off"]
    /\ cancelled = {}
    /\ faults = 0
-----------------------------------------------------------------------------
(* Readiness.                                                              *)

AddComponentLate(h) == UNCHANGED components     \* mutant: OnStart is where it is added

AddComponent(h) ==
    components' = IF components[h] = "unknown"
                  THEN [components EXCEPT ![h] = "added"] ELSE components

\* The function AddComponent returned: under the mutex, the last component
\* to become ready closes readyChan.
MarkReady(h) ==
    /\ components' = [components EXCEPT ![h] = "ready"]
    /\ readyClosed' = (readyClosed \/ \A c \in Components \ {h} : components[c] \in {"ready", "unknown"})
-----------------------------------------------------------------------------
(* Construction and start.                                                 *)

\* An invalid configuration fails the construction: nothing has started yet.
LoadFails ==
    /\ phase = "building"
    /\ ~ConfigValid
    /\ phase' = "stopped"
    /\ UNCHANGED <<env, hook, open, shutdown, readinessVars, trafficVars, probe, worker, cancelled,
                   faults>>

AppendHook ==
    /\ phase = "building" /\ hook < Hooks
    /\ ConfigValid
    /\ hook' = hook + 1
    /\ \/ hook' \in Components /\ AddComponent(hook')
       \/ hook' \in Workers /\ UNCHANGED components
    /\ UNCHANGED <<env, phase, open, shutdown, readyClosed, trafficVars, probe, worker, cancelled, faults>>

Start ==
    /\ phase = "building" /\ hook = Hooks
    /\ phase' = "starting" /\ hook' = 0
    /\ UNCHANGED <<env, open, shutdown, readinessVars, trafficVars, probe, worker, cancelled, faults>>

StartComponent ==
    /\ phase = "starting"
    /\ hook + 1 \in Components
    /\ hook' = hook + 1
    /\ open' = open \cup {hook'}
    /\ MarkReady(hook')
    /\ UNCHANGED <<env, phase, shutdown, trafficVars, probe, worker, cancelled, faults>>

\* OnStart returned an error: fx stops the hooks that have started.
StartFails ==
    /\ phase = "starting"
    /\ hook + 1 \in Components
    /\ faults < MaxFaults
    /\ faults' = faults + 1
    /\ phase' = "stopping"
    /\ UNCHANGED <<env, hook, open, shutdown, readinessVars, trafficVars, probe, worker, cancelled>>

AfterReady(w) == IF w \in AwaitTraffic THEN "waitTraffic" ELSE "running"

AfterTraffic == IF IsKubernetes THEN "waitProbe" ELSE "running"

StartWorker ==
    /\ phase = "starting"
    /\ hook + 1 \in Workers
    /\ hook' = hook + 1
    /\ worker' = [worker EXCEPT ![hook'] =
                    IF hook' \in AwaitReady THEN "waitReady" ELSE AfterReady(hook')]
    /\ UNCHANGED <<env, phase, open, shutdown, readinessVars, trafficVars, probe, cancelled, faults>>

Started ==
    /\ phase = "starting" /\ hook = Hooks
    /\ phase' = "running"
    /\ UNCHANGED <<env, hook, open, shutdown, readinessVars, trafficVars, probe, worker, cancelled, faults>>
-----------------------------------------------------------------------------
(* The readiness endpoint.  A probe that finds the service not ready, or   *)
(* that asks for JSON, is answered without changing anything.              *)

ProbeUnready(r) ==                              \* mutant: MarkTrafficReady whatever IsReady says
    /\ Server \in open
    /\ phase = "stopping" => hook # Server
    /\ probe[r] = "none"
    /\ probe' = [probe EXCEPT ![r] = "marking"]
    /\ UNCHANGED <<env, appVars, shutdown, readinessVars, trafficVars, worker, cancelled, faults>>

Probe(r) ==
    /\ Server \in open
    /\ phase = "stopping" => hook # Server
    /\ probe[r] = "none"
    /\ readyClosed
    /\ probe' = [probe EXCEPT ![r] = "marking"]
    /\ UNCHANGED <<env, appVars, shutdown, readinessVars, trafficVars, worker, cancelled, faults>>

AnswerOnly(r) ==                                \* mutant: no MarkTrafficReady
    /\ probe[r] = "marking"
    /\ probe' = [probe EXCEPT ![r] = "none"]
    /\ UNCHANGED <<env, appVars, shutdown, readinessVars, trafficVars, worker, cancelled, faults>>

\* MarkTrafficReady: the select ...
TestClosed(r) ==
    /\ probe[r] = "marking"
    /\ probe' = [probe EXCEPT ![r] = IF trafficClosed THEN "none" ELSE "once"]
    /\ UNCHANGED <<env, appVars, shutdown, readinessVars, trafficVars, worker, cancelled, faults>>

EnterUnguarded(r) ==                            \* mutant: the select alone
    /\ probe[r] = "once"
    /\ once' = "held"
    /\ probe' = [probe EXCEPT ![r] = "closing"]
    /\ UNCHANGED <<env, appVars, shutdown, readinessVars, trafficClosed, closes, worker, cancelled, faults>>

\* ... and the Once, which keeps later callers until the first is done.
EnterOnce(r) ==
    /\ probe[r] = "once"
    /\ once = "free"
    /\ once' = "held"
    /\ probe' = [probe EXCEPT ![r] = "closing"]
    /\ UNCHANGED <<env, appVars, shutdown, readinessVars, trafficClosed, closes, worker, cancelled, faults>>

SkipOnce(r) ==
    /\ probe[r] = "once"
    /\ once = "done"
    /\ probe' = [probe EXCEPT ![r] = "none"]
    /\ UNCHANGED <<env, appVars, shutdown, readinessVars, trafficVars, worker, cancelled, faults>>

CloseTraffic(r) ==
    /\ probe[r] = "closing"
    /\ trafficClosed' = TRUE
    /\ closes' = closes + 1
    /\ once' = "done"
    /\ probe' = [probe EXCEPT ![r] = "none"]
    /\ UNCHANGED <<env, appVars, shutdown, readinessVars, worker, cancelled, faults>>
-----------------------------------------------------------------------------
(* baseWorker.run.                                                         *)

PassGate(w) ==
    /\ \/ /\ worker[w] = "waitReady" /\ readyClosed
          /\ worker' = [worker EXCEPT ![w] = AfterReady(w)]
       \/ /\ worker[w] = "waitTraffic" /\ readyClosed
          /\ worker' = [worker EXCEPT ![w] = AfterTraffic]
       \/ /\ worker[w] = "waitProbe" /\ trafficClosed
          /\ worker' = [worker EXCEPT ![w] = "running"]
    /\ UNCHANGED <<env, appVars, shutdown, readinessVars, trafficVars, probe, cancelled, faults>>

LeaveGateLate(w) ==                             \* mutant: ctx.Done is tested after readyChan
    /\ worker[w] \in Waiting
    /\ w \in cancelled /\ readyClosed
    /\ worker' = [worker EXCEPT ![w] = "done"]
    /\ UNCHANGED <<env, appVars, shutdown, readinessVars, trafficVars, probe, cancelled, faults>>

LeaveGate(w) ==
    /\ worker[w] \in Waiting
    /\ w \in cancelled
    /\ worker' = [worker EXCEPT ![w] = "done"]
    /\ UNCHANGED <<env, appVars, shutdown, readinessVars, trafficVars, probe, cancelled, faults>>

\* The run function returns nil, on cancellation or of its own accord.
RunReturns(w) ==
    /\ worker[w] = "running"
    /\ worker' = [worker EXCEPT ![w] = "done"]
    /\ UNCHANGED <<env, appVars, shutdown, readinessVars, trafficVars, probe, cancelled, faults>>

RunFailsQuietly(w) ==                           \* mutant: Shutdown is not called
    /\ worker[w] = "running"
    /\ faults < MaxFaults
    /\ faults' = faults + 1
    /\ worker' = [worker EXCEPT ![w] = "failed"]
    /\ UNCHANGED <<env, appVars, shutdown, readinessVars, trafficVars, probe, cancelled>>

RunFails(w) ==
    /\ worker[w] = "running"
    /\ faults < MaxFaults
    /\ faults' = faults + 1
    /\ worker' = [worker EXCEPT ![w] = "failed"]
    /\ shutdown' = (shutdown \/ w \in ShutdownOnError)
    /\ UNCHANGED <<env, appVars, readinessVars, trafficVars, probe, cancelled>>
-----------------------------------------------------------------------------
(* Shutdown.                                                               *)

Signal ==
    /\ phase \in {"starting", "running"}
    /\ ~shutdown
    /\ shutdown' = TRUE
    /\ UNCHANGED <<env, appVars, readinessVars, trafficVars, probe, worker, cancelled, faults>>

ServeFails ==
    /\ Server \in open
    /\ faults < MaxFaults
    /\ faults' = faults + 1
    /\ shutdown' = TRUE
    /\ UNCHANGED <<env, appVars, readinessVars, trafficVars, probe, worker, cancelled>>

BeginStop ==
    /\ phase = "running" /\ shutdown
    /\ phase' = "stopping"
    /\ UNCHANGED <<env, hook, open, shutdown, readinessVars, trafficVars, probe, worker, cancelled, faults>>

\* srv.Shutdown takes no new requests and waits for those in progress.
StopComponent ==
    /\ phase = "stopping"
    /\ hook \in Components
    /\ hook = Server => \A r \in Requests : probe[r] = "none"
    /\ open' = open \ {hook}
    /\ hook' = hook - 1
    /\ UNCHANGED <<env, phase, shutdown, readinessVars, trafficVars, probe, worker, cancelled, faults>>

CancelPrevious ==                               \* mutant: the wrong hook's worker
    /\ phase = "stopping"
    /\ hook \in Workers \ cancelled
    /\ cancelled' = cancelled \cup {hook, hook - 1}
    /\ UNCHANGED <<env, appVars, shutdown, readinessVars, trafficVars, probe, worker, faults>>

CancelWorker ==
    /\ phase = "stopping"
    /\ hook \in Workers \ cancelled
    /\ cancelled' = cancelled \cup {hook}
    /\ UNCHANGED <<env, appVars, shutdown, readinessVars, trafficVars, probe, worker, faults>>

NotAwaited ==                                   \* mutant: Stop only cancels
    /\ phase = "stopping"
    /\ hook \in Workers \cap cancelled
    /\ hook' = hook - 1
    /\ UNCHANGED <<env, phase, open, shutdown, readinessVars, trafficVars, probe, worker, cancelled, faults>>

WorkerStopped ==
    /\ phase = "stopping"
    /\ hook \in Workers \cap cancelled
    /\ worker[hook] \in Ended
    /\ hook' = hook - 1
    /\ UNCHANGED <<env, phase, open, shutdown, readinessVars, trafficVars, probe, worker, cancelled, faults>>

\* The stop context ends: fx runs no further hook, and the process exits with
\* all its goroutines.
StopTimesOut ==
    /\ phase = "stopping"
    /\ hook \in Workers \cap cancelled
    /\ worker[hook] \notin Ended
    /\ phase' = "exited"
    /\ open' = {}
    /\ probe' = [r \in Requests |-> "none"]
    /\ worker' = [w \in Workers |-> "done"]
    /\ UNCHANGED <<env, hook, shutdown, readinessVars, trafficVars, cancelled, faults>>

Stopped ==
    /\ phase = "stopping" /\ hook = 0
    /\ phase' = "stopped"
    /\ UNCHANGED <<env, hook, open, shutdown, readinessVars, trafficVars, probe, worker, cancelled, faults>>
-----------------------------------------------------------------------------
StartUp == LoadFails \/ AppendHook \/ Start \/ StartComponent \/ StartWorker \/ Started

ProbeStep(r) == Probe(r) \/ TestClosed(r) \/ EnterOnce(r) \/ SkipOnce(r) \/ CloseTraffic(r)

Gate(w) == PassGate(w) \/ LeaveGate(w)

Stopping == BeginStop \/ StopComponent \/ CancelWorker \/ WorkerStopped \/ Stopped

Next ==
    \/ StartUp \/ StartFails \/ Stopping \/ StopTimesOut \/ Signal \/ ServeFails
    \/ \E r \in Requests : ProbeStep(r)
    \/ \E w \in Workers : Gate(w) \/ RunReturns(w) \/ RunFails(w)

Spec == Init /\ [][Next]_vars

\* Go runs every goroutine that can run, OnStart hooks end, Kubernetes goes
\* on probing, and a run function returns when its context is cancelled.
\* Nothing forces a signal, a failure or the end of the stop context.
FairSpec ==
    /\ Spec
    /\ WF_vars(StartUp)
    /\ WF_vars(Stopping)
    /\ \A r \in Requests : WF_vars(ProbeStep(r))
    /\ \A w \in Workers :
        /\ WF_vars(Gate(w))
        /\ WF_vars(w \in cancelled /\ RunReturns(w))
-----------------------------------------------------------------------------
(* Type: every variable has the shape the code gives it; a channel is      *)
(* closed exactly if somebody closed it.                                   *)
TypeOK ==
    /\ env \in Environments
    /\ phase \in {"building", "starting", "running", "stopping", "stopped", "exited"}
    /\ hook \in 0..Hooks
    /\ open \subseteq Components
    /\ shutdown \in BOOLEAN
    /\ components \in [Components -> {"unknown", "added", "ready"}]
    /\ readyClosed \in BOOLEAN /\ trafficClosed \in BOOLEAN
    /\ once \in {"free", "held", "done"} /\ closes \in Nat
    /\ trafficClosed <=> closes > 0
    /\ probe \in [Requests -> {"none", "marking", "once", "closing"}]
    /\ worker \in [Workers -> {"off", "running"} \cup Waiting \cup Ended]
    /\ cancelled \subseteq Workers
    /\ faults \in 0..MaxFaults

(* Concurrent probes close kubernetesReadyChan once: a second close would  *)
(* panic the process (MarkTrafficReady, readiness.go:200-214).             *)
ClosedOnce == closes <= 1

(* A worker that asked for readiness runs only when every component of the *)
(* process is ready, the ones whose hooks come after its own included; one *)
(* that asked for traffic only after a probe was answered, if IsKubernetes *)
(* is set (baseWorker.run, worker.go:72-91).                               *)
GatesHold ==
    \A w \in Workers : worker[w] = "running" =>
        /\ w \in AwaitReady \cup AwaitTraffic => \A h \in Components : components[h] = "ready"
        /\ w \in AwaitTraffic /\ IsKubernetes => trafficClosed

(* A running worker finds open whatever was opened before it: hooks stop   *)
(* in reverse, and none before the worker has left (worker.go:115-134).    *)
NoUseAfterClose ==
    \A w \in Workers, h \in Components :
        worker[w] = "running" /\ h < w => h \in open

Ready == {h \in Components : components[h] = "ready"}

StateOf(w) ==
    CASE worker[w] \in {"off"} \cup Waiting -> "new"
      [] worker[w] = "running" -> "running"
      [] worker[w] \in Ended -> "over"

Promise == INSTANCE Service
    WITH probed <- IsKubernetes, opened <- Ready, announced <- closes,
         state <- [w \in Workers |-> StateOf(w)]

(* The process keeps the promise of a service through every start, failed  *)
(* start, probe, signal, fault and stop: hooks open in order and close in  *)
(* reverse around the workers that run, each of which runs once, behind    *)
(* its gates (worker.go:72-134, readiness.go:101-214).                     *)
KeepsPromise == Promise!Spec

(* No gate is waited at for ever: once started, the components become      *)
(* ready and a probe opens the traffic gate, or the process stops.         *)
GatedWorkersRun ==
    \A w \in Workers :
        worker[w] \in Waiting ~> (worker[w] \in {"running"} \cup Ended)

(* A stop ends without its deadline: workers leave the gates they wait at, *)
(* also when the start failed and readyChan will never be closed.          *)
StopCompletes == phase = "stopping" ~> phase \in {"stopped", "exited"}

(* An error of a worker with WithShutdown ends the process                 *)
(* (worker.go:102-107).                                                    *)
FatalErrorStops ==
    \A w \in ShutdownOnError : worker[w] = "failed" ~> phase \in {"stopped", "exited"}

(* "In Kubernetes mode, wait for the readiness probe to confirm"           *)
(* (core/health/readiness.go:183), a mode ApplyDefaults sets "based on     *)
(* environment variables" (core/config/config.go:16): in a pod, where      *)
(* KUBERNETES_SERVICE_HOST is set, no worker with WithTrafficReady runs    *)
(* before a probe was answered.                                            *)
PodAwaitsProbe ==
    \A w \in AwaitTraffic :
        worker[w] = "running" /\ ServiceHost \in env => trafficClosed
=============================================================================
