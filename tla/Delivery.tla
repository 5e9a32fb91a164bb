------------------------------ MODULE Delivery ------------------------------
(***************************************************************************)
(* What the consumer promises its handler, without channels, offsets in    *)
(* flight or rebalances: a record is handed over only when every record    *)
(* before it has been decided about, each record of a member is decided    *)
(* about before the member takes another, and the committed offset passes  *)
(* nothing that was not decided about.  A record may be handed over again  *)
(* at any time, to several members at once.                                *)
(***************************************************************************)
EXTENDS Integers, Sequences

CONSTANTS Members

VARIABLES
    log,        \* log[o]: whether record o can be deserialized
    handling,   \* handling[p]: the offset p's Processor works on, 0: none
    settled,    \* offsets that are decided about
    committed   \* the group's next offset, 0 before the first commit

vars == <<log, handling, settled, committed>>

Init ==
    /\ log = <<>>
    /\ handling = [p \in Members |-> 0]
    /\ settled = {}
    /\ committed = 0

SettledBefore(o) == 1..(o - 1) \subseteq settled

Produce(ok) ==
    /\ log' = Append(log, ok)
    /\ UNCHANGED <<handling, settled, committed>>

Take(p, o) ==
    /\ handling[p] = 0
    /\ log[o]
    /\ SettledBefore(o)
    /\ handling' = [handling EXCEPT ![p] = o]
    /\ UNCHANGED <<log, settled, committed>>

\* The handler took it, or it went to the DLQ, or it was given up.
Decide(p) ==
    /\ handling[p] # 0
    /\ settled' = settled \cup {handling[p]}
    /\ UNCHANGED <<log, handling, committed>>

Return(p) ==
    /\ handling[p] \in settled
    /\ handling' = [handling EXCEPT ![p] = 0]
    /\ UNCHANGED <<log, settled, committed>>

\* A member stops or crashes in the middle of a record.
Abandon(p) ==
    /\ handling[p] # 0
    /\ handling' = [handling EXCEPT ![p] = 0]
    /\ UNCHANGED <<log, settled, committed>>

\* A record that cannot be deserialized never reaches a handler.
Reject(o) ==
    /\ ~log[o]
    /\ settled' = settled \cup {o}
    /\ UNCHANGED <<log, handling, committed>>

\* A member without a committed offset starts at the end of the topic.
Jump ==
    /\ committed = 0
    /\ settled' = settled \cup DOMAIN log
    /\ UNCHANGED <<log, handling, committed>>

Commit(o) ==
    /\ SettledBefore(o)
    /\ committed' = o
    /\ UNCHANGED <<log, handling, settled>>

Next ==
    \/ \E ok \in BOOLEAN : Produce(ok)
    \/ \E o \in DOMAIN log : Reject(o) \/ \E p \in Members : Take(p, o)
    \/ \E p \in Members : Decide(p) \/ Return(p) \/ Abandon(p)
    \/ Jump
    \/ \E o \in 1..(Len(log) + 1) : Commit(o)

Spec == Init /\ [][Next]_vars
=============================================================================
