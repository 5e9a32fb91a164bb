------------------------------ MODULE Service ------------------------------
(***************************************************************************)
(* What a service process promises whoever writes its components and       *)
(* workers, without hook counters, channels, a Once, mutexes or contexts:  *)
(* components open once, in order, and close in reverse; the service is    *)
(* announced once, when everything is open; a worker runs once, finds open *)
(* what comes before it and, if it asked, everything opened and announced, *)
(* and nothing before it closes while it runs.                             *)
(***************************************************************************)
EXTENDS Integers

CONSTANTS Components, Workers, AwaitReady, AwaitTraffic

VARIABLES
    probed,      \* the environment announces services by a probe
    opened,      \* components that have been opened
    open,        \* those of them that are not closed
    announced,   \* times the service was announced
    state        \* state[w]: "new", "running" or "over"

vars == <<probed, opened, open, announced, state>>

Init ==
    /\ probed \in BOOLEAN
    /\ opened = {} /\ open = {} /\ announced = 0
    /\ state = [w \in Workers |-> "new"]

Before(n) == {h \in Components : h < n}
Running == {w \in Workers : state[w] = "running"}

Open(h) ==
    /\ open = opened
    /\ h \notin opened /\ Before(h) = opened
    /\ opened' = opened \cup {h}
    /\ open' = open \cup {h}
    /\ UNCHANGED <<probed, announced, state>>

Announce ==
    /\ announced = 0
    /\ opened = Components
    /\ announced' = 1
    /\ UNCHANGED <<probed, opened, open, state>>

Run(w) ==
    /\ state[w] = "new"
    /\ Before(w) \subseteq open
    /\ w \in AwaitReady \cup AwaitTraffic => opened = Components
    /\ w \in AwaitTraffic /\ probed => announced = 1
    /\ state' = [state EXCEPT ![w] = "running"]
    /\ UNCHANGED <<probed, opened, open, announced>>

\* It has run, or gave up before it could.
Over(w) ==
    /\ state[w] # "over"
    /\ state' = [state EXCEPT ![w] = "over"]
    /\ UNCHANGED <<probed, opened, open, announced>>

Close(h) ==
    /\ h \in open
    /\ \A g \in open \cup Running : g <= h
    /\ open' = open \ {h}
    /\ UNCHANGED <<probed, opened, announced, state>>

\* The process ends with everything in it.
Exit ==
    /\ open' = {}
    /\ state' = [w \in Workers |-> "over"]
    /\ UNCHANGED <<probed, opened, announced>>

Next ==
    \/ \E h \in Components : Open(h) \/ Close(h)
    \/ \E w \in Workers : Run(w) \/ Over(w)
    \/ Announce \/ Exit

Spec == Init /\ [][Next]_vars
=============================================================================
