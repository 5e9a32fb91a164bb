---------------------------- MODULE AtLeastOnce ----------------------------
(***************************************************************************)
(* What the outbox promises its callers, without channels, leases, batches *)
(* or processes: a message reaches Kafka only after the transaction that   *)
(* created it committed, it counts as sent only after Kafka has it, and a  *)
(* committed message is eventually sent.  A message may be published more  *)
(* than once (published is a set: a repetition changes nothing here).      *)
(***************************************************************************)
CONSTANTS Messages

VARIABLES
    stored,     \* stored[m]: "absent", "pending", "sent" or "expired"
    published   \* messages Kafka has

vars == <<stored, published>>

Init ==
    /\ stored = [m \in Messages |-> "absent"]
    /\ published = {}

Commit(m) ==
    /\ stored[m] = "absent"
    /\ stored' = [stored EXCEPT ![m] = "pending"]
    /\ UNCHANGED published

Publish(m) ==
    /\ stored[m] # "absent"
    /\ published' = published \cup {m}
    /\ UNCHANGED stored

\* Messages are confirmed in batches; one that expired stays expired.
Confirm(S) ==
    /\ S \subseteq published
    /\ \A m \in S : stored[m] \in {"pending", "sent"}
    /\ stored' = [m \in Messages |-> IF m \in S THEN "sent" ELSE stored[m]]
    /\ UNCHANGED published

Expire(m) ==
    /\ stored[m] \in {"pending", "sent"}
    /\ stored' = [stored EXCEPT ![m] = "expired"]
    /\ UNCHANGED published

Next ==
    \/ \E m \in Messages : Commit(m) \/ Publish(m) \/ Expire(m)
    \/ \E S \in SUBSET Messages : Confirm(S)

Spec == Init /\ [][Next]_vars
=============================================================================
