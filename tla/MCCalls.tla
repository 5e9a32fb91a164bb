------------------------------ MODULE MCCalls ------------------------------
(* A client without a pool, one with the pool of net/http and no retry in  *)
(* the loop, and one with the defaults; a server that is protected, one    *)
(* that is not, and one whose configuration is refused.                    *)
EXTENDS Calls, TLC

MCClientConfigs ==
    {[idle |-> -1, lifetime |-> 0],
     [idle |-> 0, lifetime |-> Unset],
     [idle |-> Unset, lifetime |-> Unset]}

MCServerConfigs ==
    {[requestTimeout |-> 1, bulkhead |-> TRUE, maxConcurrent |-> -1],
     [requestTimeout |-> 0, bulkhead |-> FALSE, maxConcurrent |-> 0],
     [requestTimeout |-> -1, bulkhead |-> FALSE, maxConcurrent |-> 0]}
=============================================================================
