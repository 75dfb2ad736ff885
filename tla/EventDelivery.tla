---------------------------- MODULE EventDelivery ----------------------------
(***************************************************************************)
(* What a queue between the producers of events and one consumer promises: *)
(* the events, numbered as they arrive, are processed in this order, and   *)
(* only the oldest one ever leaves, once it has been processed.  An event  *)
(* may be processed before it leaves, and again if it has not left (at     *)
(* least once); a queue that takes the event out as it processes it        *)
(* processes it once.  A queue may refuse an event when it arrives.        *)
(*                                                                         *)
(* The buffer of the agent (ClientBuffer) and the persistent queue of the  *)
(* asynchronous indexer connector (IndexerConnectorAsync) implement it.    *)
(***************************************************************************)
EXTENDS Integers

VARIABLES
    arrived,        \* the number of events that have arrived
    waiting,        \* the events in the queue
    processed       \* the events that were processed, or given up

vars == <<arrived, waiting, processed>>

\* A queue on disk may hold events from an earlier time.
Init ==
    /\ arrived \in Nat
    /\ waiting = 1 .. arrived
    /\ processed = {}

Store ==
    /\ arrived' = arrived + 1
    /\ waiting' = waiting \cup {arrived + 1}
    /\ UNCHANGED processed

Refuse ==
    /\ arrived' = arrived + 1
    /\ UNCHANGED <<waiting, processed>>

\* An event that finds nobody before it need not wait.
Pass ==
    /\ waiting = {}
    /\ arrived' = arrived + 1
    /\ processed' = processed \cup {arrived + 1}
    /\ UNCHANGED waiting

\* The oldest events, up to the event e.
Process ==
    /\ \E e \in waiting : processed' = processed \cup {w \in waiting : w <= e}
    /\ UNCHANGED <<arrived, waiting>>

Remove ==
    /\ \E oldest \in waiting :
          /\ \A w \in waiting : oldest <= w
          /\ waiting' = waiting \ {oldest}
          /\ \/ oldest \in processed /\ UNCHANGED processed
             \/ processed' = processed \cup {oldest}
    /\ UNCHANGED arrived

Next == Store \/ Refuse \/ Pass \/ Process \/ Remove

Spec == Init /\ [][Next]_vars
=============================================================================
