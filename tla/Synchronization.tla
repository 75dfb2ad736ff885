-------------------------- MODULE Synchronization --------------------------
(***************************************************************************)
(* What the agent and the manager promise together to a module that calls  *)
(* synchronizeModule, without sessions, messages, retries and restarts.    *)
(* One call is open at a time.  Its items are applied by the indexer one   *)
(* by one or together, in any order, possibly long after the call ended;   *)
(* nothing is applied that no call announced.  The call may fail at any    *)
(* time, and succeeds only when all of its items have been applied.        *)
(*                                                                         *)
(* InventorySync implements it, and SyncedQueue is the queue built on it.  *)
(***************************************************************************)
EXTENDS Naturals

VARIABLES
    calls,      \* the number of calls so far
    open,       \* the number of items of the open call, 0 if there is none
    announced,  \* the calls the manager may hear of, with their sizes
    applied,    \* the items the indexer has applied: <<call, item>>
    succeeded   \* the calls that succeeded

vars == <<calls, open, announced, applied, succeeded>>

Init ==
    /\ calls = 0
    /\ open = 0
    /\ announced = {}
    /\ applied = {}
    /\ succeeded = {}

Begin ==
    /\ open = 0
    /\ calls' = calls + 1
    /\ open' \in Nat \ {0}
    /\ UNCHANGED <<announced, applied, succeeded>>

Announce ==
    /\ open # 0
    /\ announced' = announced \cup {<<calls, open>>}
    /\ UNCHANGED <<calls, open, applied, succeeded>>

Items == UNION {{<<call[1], item>> : item \in 0 .. call[2] - 1} : call \in announced}

Apply ==
    /\ applied \subseteq applied'
    /\ \A new \in applied' \ applied : new \in Items
    /\ UNCHANGED <<calls, open, announced, succeeded>>

Succeed ==
    /\ open # 0
    /\ \A item \in 0 .. open - 1 : <<calls, item>> \in applied
    /\ succeeded' = succeeded \cup {calls}
    /\ open' = 0
    /\ UNCHANGED <<calls, announced, applied>>

Fail ==
    /\ open # 0
    /\ open' = 0
    /\ UNCHANGED <<calls, announced, applied, succeeded>>

Next == Begin \/ Apply \/ Announce \/ Succeed \/ Fail

Spec == Init /\ [][Next]_vars
=============================================================================
