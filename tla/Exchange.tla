------------------------------ MODULE Exchange ------------------------------
(***************************************************************************)
(* What a call promises its caller, without connections, pools, retries,   *)
(* slots, deadlines or a server that dies: the handler runs again only     *)
(* after the answer of its last run was lost, and the result says whether  *)
(* a run stands behind it.  After a timeout nobody knows: a run may still  *)
(* begin.                                                                  *)
(***************************************************************************)
EXTENDS Integers

CONSTANTS Calls

VARIABLES
    ran,      \* ran[r]: handlers started for r
    lost,     \* lost[r]: those whose answer was lost before r ended
    outcome   \* outcome[r]: what the caller gets, "none" before

vars == <<ran, lost, outcome>>

Init ==
    /\ ran = [r \in Calls |-> 0]
    /\ lost = [r \in Calls |-> 0]
    /\ outcome = [r \in Calls |-> "none"]

\* A run whose answer may still come; otherwise every answer was lost.
Executed(r) == ran[r] = lost[r] + 1
AllLost(r) == ran[r] = lost[r]

Run(r) ==
    /\ AllLost(r)
    /\ outcome[r] \in {"none", "timeout"}
    /\ ran' = [ran EXCEPT ![r] = @ + 1]
    /\ UNCHANGED <<lost, outcome>>

\* The server dies, or a connection does.
Lose(S) ==
    /\ \A r \in S : Executed(r) /\ outcome[r] = "none"
    /\ lost' = [r \in Calls |-> IF r \in S THEN lost[r] + 1 ELSE lost[r]]
    /\ UNCHANGED <<ran, outcome>>

Ends(r, result) ==
    /\ outcome[r] = "none"
    /\ outcome' = [outcome EXCEPT ![r] = result]
    /\ UNCHANGED <<ran, lost>>

\* The handler's own answer.
Answer(r) == Executed(r) /\ \E o \in {"ok", "internal"} : Ends(r, o)

\* No run of the handler stands behind these.
NotRun(r) ==
    /\ AllLost(r)
    /\ \E o \in {"noToken", "rejected", "unavailable", "refused", "spentBody", "expired"} :
           Ends(r, o)

\* The answer is lost together with the call.
LostAnswer(r) ==
    /\ Executed(r) /\ outcome[r] = "none"
    /\ outcome' = [outcome EXCEPT ![r] = "expired"]
    /\ lost' = [lost EXCEPT ![r] = @ + 1]
    /\ UNCHANGED ran

TooLate(r) == \E o \in {"timeout", "deadlineExceeded"} : Ends(r, o)

Next ==
    \/ \E r \in Calls : Run(r) \/ Answer(r) \/ NotRun(r) \/ LostAnswer(r) \/ TooLate(r)
    \/ \E S \in SUBSET Calls : Lose(S)

Spec == Init /\ [][Next]_vars
=============================================================================
