--------------------------- MODULE InventorySync ---------------------------
(***************************************************************************)
(* Inventory synchronization end to end: an agent (AgentSyncProtocol), the *)
(* manager (InventorySyncFacade) and what carries their messages, which    *)
(* loses, repeats, delays and reorders them: remoted, the router and the   *)
(* manager's worker threads on one way, the ar queue and remoted on the    *)
(* other.  Either side may be restarted at any time.                       *)
(*                                                                         *)
(* A message once sent stays in toManager or toAgent and may be received   *)
(* any number of times.                                                    *)
(***************************************************************************)
EXTENDS AgentSyncProtocol, InventorySyncFacade

CONSTANT
    LateStartAcks   \* may a StartAck arrive after its synchronization ended?

\* A session of an agent's batch, whatever it has received.
BatchSession == [size : 1 .. MaxSize, observed : SUBSET (0 .. MaxSize - 1),
                 endReceived : BOOLEAN, endEnqueued : BOOLEAN]

ASSUME SyncAssumption ==
    /\ LateStartAcks \in BOOLEAN
    /\ Sessions = 1 .. MaxSessions
    /\ \A s \in BatchSession : ranges(s) \in RangeLists

vars == <<agentVars, facadeVars>>

Init == AgentInit /\ FacadeInit

Agent ==
    /\ synchronizeModule \/ SyncThread \/ Restart
    /\ UNCHANGED facadeVars

Manager ==
    /\ \/ \E message \in toManager : run(message)
       \/ ManagerThreads
       \/ ManagerRestart
    /\ UNCHANGED agentVars

Deliver ==
    /\ \E message \in toAgent :
          /\ message.type = "StartAck" => LateStartAcks \/ message.batch = batch
          /\ parseResponseBuffer(message)
    /\ UNCHANGED facadeVars

Next == Agent \/ Manager \/ Deliver

Spec == Init /\ [][Next]_vars

-----------------------------------------------------------------------------
TypeOK == AgentTypeOK /\ FacadeTypeOK

\* A synchronization that the agent takes for successful, so that it deletes the
\* rows of its queue, has had every one of its items executed by the indexer,
\* whatever was lost, repeated or reordered on the way, whichever session ids
\* were used and whoever was restarted (synchronizeModule, AgentSession,
\* InventorySyncFacade::start).
SuccessIsIndexed ==
    \A start \in toManager :
        start.type = "Start" /\ start.batch \in succeeded
        => \A seq \in 0 .. start.size - 1 : <<start.batch, seq>> \in indexed

\* A session is handed to the indexer only when all it announced is in the
\* store, and stays there until the session is answered: what the thread of the
\* indexer queue reads is complete (handleData stores before it observes, and
\* only answering a session deletes its data).
QueuedIsStored ==
    /\ \A id \in DOMAIN sessions : \A seq \in sessions[id].observed :
          \E e \in store : e.session = id /\ e.seq = seq
    /\ \A k \in DOMAIN queue :
          queue[k] \in DOMAIN sessions => Complete(sessions[queue[k]])

\* What a module sees of all this.
Announced == {<<m.batch, m.size>> : m \in {x \in toManager : x.type = "Start"}}

Contract == INSTANCE Synchronization
                WITH calls <- batch,
                     open <- IF pc = "idle" THEN 0 ELSE size,
                     announced <- Announced,
                     applied <- indexed

\* Agent, transport and manager implement Synchronization: whatever sessions,
\* repetitions, late completions and restarts there are, the indexer applies only
\* items that a call announced, under the call's own numbers, and a call returns
\* success only at a moment when all of its items are applied (synchronizeModule,
\* AgentSession, InventorySyncFacade).
Synchronizes == Contract!Spec

=============================================================================
