---------------------------- MODULE SyncedQueue ----------------------------
(***************************************************************************)
(* QueueSync over Synchronization: what the two promise together.  The     *)
(* agent's side of each step is that of QueueSync; the manager's side is   *)
(* whatever Synchronization, which InventorySync implements, lets happen   *)
(* to the calls of synchronizeModule.  That this implements QueueSync is   *)
(* what entitles QueueSync to its own, simpler manager.                    *)
(*                                                                         *)
(* applied and late are here no more than names for what the state of the  *)
(* calls says: no step is guarded by them.                                 *)
(***************************************************************************)
EXTENDS QueueSync, Functions

VARIABLES
    calls, open, announced, executed, succeeded, \* as in Synchronization
    contents    \* what each item of each call does to the indexer

callVars == <<calls, open, announced, executed, succeeded>>
syncedVars == <<vars, callVars, contents>>

Sync == INSTANCE Synchronization WITH applied <- executed

Contents == [call : Nat, seq : Nat, id : Ids, document : Document]

\* dataToSync[i].seq = i
Numbered(call, order) ==
    {[call |-> call, seq |-> seq, id |-> order[seq], document |-> Effect(Fetched[order[seq]])] :
        seq \in DOMAIN order}

Open(call) == open # 0 /\ call = calls

Heard == {call[1] : call \in announced}

AppliedIds ==
    {item.id : item \in {i \in contents : Open(i.call) /\ <<i.call, i.seq>> \in executed}}

LateItems ==
    {<<item.id, item.document>> :
        item \in {i \in contents : i.call \in Heard \ succeeded /\ ~Open(i.call)}}

Record == applied' = AppliedIds' /\ late' = LateItems'

-----------------------------------------------------------------------------
SyncedInit ==
    /\ Init
    /\ Sync!Init
    /\ contents = {}

Reported ==
    /\ Report
    /\ UNCHANGED <<callVars, contents>>

Begin ==
    /\ Fetch
    /\ open' = Cardinality(Pending)
    /\ Sync!Begin
    /\ \E order \in Bijection(0 .. open' - 1, Pending) :
          contents' = contents \cup Numbered(calls', order)
    /\ UNCHANGED remote
    /\ Record

\* The Start message is sent.
Announce ==
    /\ Sync!Announce
    /\ UNCHANGED <<table, local, remote, dataToSync, troubles, contents>>
    /\ Record

\* The indexer executes an item of a call that has not succeeded, for the first
\* time or again.
Apply ==
    /\ \E item \in contents :
          /\ <<item.call, item.seq>> \in Sync!Items
          /\ item.call \notin succeeded
          /\ executed' = executed \cup {<<item.call, item.seq>>}
          /\ remote' = [remote EXCEPT ![item.id] = item.document]
          /\ overtaken' = IF Open(item.call) THEN overtaken \ {item.id}
                          ELSE overtaken \cup {item.id}
    /\ Sync!Apply
    /\ UNCHANGED <<table, local, dataToSync, unreported, stranded, doubtful, faults, contents>>
    /\ Record

Succeed ==
    /\ Sync!Succeed
    /\ ClearRows
    /\ EndBatch
    /\ UNCHANGED <<remote, contents>>
    /\ Record

Answerless == IF calls \in Heard THEN Unanswered ELSE Unheard

Fail ==
    /\ Sync!Fail
    /\ \/ Answerless /\ ResetRows
       \/ ResetFails
    /\ EndBatch
    /\ UNCHANGED <<remote, contents>>
    /\ Record

Stop ==
    /\ \/ open = 0 /\ UNCHANGED callVars /\ Unheard
       \/ Sync!Fail /\ Answerless
    /\ ResetRows
    /\ EndBatch
    /\ UNCHANGED <<remote, contents>>
    /\ Record

SyncedNext ==
    \/ Reported
    \/ Begin
    \/ Announce
    \/ Apply
    \/ Succeed
    \/ Fail
    \/ Stop

SyncedSpec == SyncedInit /\ [][SyncedNext]_syncedVars
=============================================================================
