------------------------ MODULE InventorySyncFacade ------------------------
(***************************************************************************)
(* The manager's side of the synchronization protocol                      *)
(* (src/src/wazuh_modules/inventory_sync/src/inventorySyncFacade.hpp and   *)
(* agentSession.hpp).  Worker threads handle the agents' messages, in any  *)
(* order; the thread of the indexer queue hands finished sessions to the   *)
(* indexer connector; the connector's callbacks acknowledge them; a timer  *)
(* thread drops sessions that got no data for too long.                    *)
(*                                                                         *)
(* A handler holds its session's mutex, so each is one step.  The          *)
(* session's GapSet is the set of sequence numbers observed (GapSetProofs: *)
(* CompleteHolds and RangesHold).  The connector is its contract,          *)
(* BulkConnector, which IndexerConnectorSync implements as long as no      *)
(* request fails for good.  An operation is <<batch, seq>>.                *)
(*                                                                         *)
(* Session ids are random 64-bit numbers.  Here they are 1, 2, ...: only   *)
(* that they differ matters, and that no id is a decimal prefix of another *)
(* (deleteByPrefix).                                                       *)
(***************************************************************************)
EXTENDS Naturals, Sequences, FiniteSets, BulkConnector

CONSTANTS
    MaxSessions,    \* bound on the number of sessions created
    MaxQueued       \* bound on the length of the indexer queue

ASSUME FacadeAssumption == MaxSessions \in Nat /\ MaxQueued \in Nat

VARIABLES
    sessions,   \* m_agentSessions: a function from the ids of live sessions
    store,      \* m_dataStore: the Data messages kept
    queue,      \* m_indexerQueue
    created,    \* how many sessions were created
    toAgent     \* the answers sent so far

sessionVars == <<sessions, store, queue, created>>
facadeVars == <<sessionVars, connectorVars, toAgent>>

FacadeInit ==
    /\ sessions = <<>>
    /\ store = {}
    /\ queue = <<>>
    /\ ConnectorInit
    /\ created = 0
    /\ toAgent = {}

Answer(message) == toAgent' = toAgent \cup {message}

\* The batch of a StartAck is not on the wire: it says which Start is answered.
StartAck(status, id, batch) ==
    [type |-> "StartAck", status |-> status, session |-> id, batch |-> batch]

EndAck(status, id) == [type |-> "EndAck", status |-> status, session |-> id]

ReqRet(id, ranges) == [type |-> "ReqRet", session |-> id, ranges |-> ranges]

-----------------------------------------------------------------------------
(* AgentSession *)

Missing(s) == (0 .. s.size - 1) \ s.observed

\* GapSet::empty
Complete(s) == Missing(s) = {}

\* GapSet::ranges: the k-th maximal run of missing sequence numbers.
ranges(s) ==
    LET Begins == {n \in Missing(s) : n = 0 \/ n - 1 \notin Missing(s)}
        Ends == {n \in Missing(s) : n + 1 \notin Missing(s)}
        Nth(S, k) == CHOOSE n \in S : Cardinality({m \in S : m < n}) = k - 1
    IN  [k \in 1 .. Cardinality(Begins) |->
            [begin |-> Nth(Begins, k), end |-> Nth(Ends, k)]]

\* The key is the session and the sequence number; a second put replaces.
put(id, seq, batch) ==
    {e \in store : e.session # id \/ e.seq # seq}
        \cup {[session |-> id, seq |-> seq, batch |-> batch]}

\* For one session after the other.
deleteByPrefix(ids) == {e \in store : e.session \notin ids}

erase(ids) == [id \in DOMAIN sessions \ ids |-> sessions[id]]

Opened(id, size) ==
    [i \in DOMAIN sessions \cup {id} |->
        IF i = id THEN [size |-> size, observed |-> {}, endReceived |-> FALSE,
                        endEnqueued |-> FALSE]
        ELSE sessions[i]]

\* The handler of a Start message, and the constructor of AgentSession.
handleStart(message) ==
    /\ message.type = "Start"
    /\ \/ /\ created < MaxSessions
          /\ created' = created + 1
          /\ IF message.size = 0
             THEN /\ Answer(StartAck("Error", created', message.batch))
                  /\ UNCHANGED sessions
             ELSE /\ Answer(StartAck("Ok", created', message.batch))
                  /\ sessions' = Opened(created', message.size)
       \/ /\ Answer(StartAck("Offline", 0, message.batch))  \* no indexer
          /\ UNCHANGED <<sessions, created>>
    /\ UNCHANGED <<store, queue, connectorVars>>

\* Faulty: the message that completes the session is observed but not stored.
handleDataUnstored(message) ==
    /\ message.type = "Data"
    /\ message.session \in DOMAIN sessions
    /\ LET id == message.session
           s == sessions[id]
           after == [s EXCEPT !.observed = @ \cup {message.seq}]
           finished == message.seq < s.size /\ s.endReceived /\ Complete(after)
       IN  /\ store' = IF finished THEN store
                       ELSE put(id, message.seq, message.batch)
           /\ finished => Len(queue) < MaxQueued
           /\ queue' = IF finished THEN Append(queue, id) ELSE queue
           /\ sessions' = IF message.seq < s.size
                          THEN [sessions EXCEPT ![id] =
                                  [after EXCEPT !.endEnqueued = @ \/ finished]]
                          ELSE sessions
    /\ UNCHANGED <<created, connectorVars, toAgent>>

\* A sequence number out of range is stored all the same; then observe throws.
\* A message that completes the session, or comes again after that, hands the
\* session to the indexer queue if End was received.
handleData(message) ==
    /\ message.type = "Data"
    /\ message.session \in DOMAIN sessions
    /\ LET id == message.session
           s == sessions[id]
           after == [s EXCEPT !.observed = @ \cup {message.seq}]
           finished == message.seq < s.size /\ s.endReceived /\ Complete(after)
       IN  /\ store' = put(id, message.seq, message.batch)
           /\ finished => Len(queue) < MaxQueued
           /\ queue' = IF finished THEN Append(queue, id) ELSE queue
           /\ sessions' = IF message.seq < s.size
                          THEN [sessions EXCEPT ![id] =
                                  [after EXCEPT !.endEnqueued = @ \/ finished]]
                          ELSE sessions
    /\ UNCHANGED <<created, connectorVars, toAgent>>

handleEnd(message) ==
    /\ message.type = "End"
    /\ message.session \in DOMAIN sessions
    /\ LET id == message.session
           s == sessions[id]
           finished == ~s.endEnqueued /\ Complete(s)
       IN  /\ finished => Len(queue) < MaxQueued
           /\ queue' = IF finished THEN Append(queue, id) ELSE queue
           /\ sessions' = [sessions EXCEPT ![id].endReceived = TRUE,
                                           ![id].endEnqueued = @ \/ finished]
           /\ IF s.endEnqueued \/ finished THEN UNCHANGED toAgent
              ELSE Answer(ReqRet(id, ranges(s)))
    /\ UNCHANGED <<store, created, connectorVars>>

\* InventorySyncFacade::run.  A Data or End message for an unknown session is
\* logged.
run(message) == handleStart(message) \/ handleData(message) \/ handleEnd(message)

\* The timer thread finds that !isAlive: only the session is dropped.  How long a
\* session was idle is not modelled; it may be any time.
sessionTimeout ==
    /\ \E id \in DOMAIN sessions : sessions' = erase({id})
    /\ UNCHANGED <<store, queue, created, connectorVars, toAgent>>

-----------------------------------------------------------------------------
(* The indexer queue and the connector *)

takeSession ==
    /\ queue # <<>>
    /\ queue' = Tail(queue)
    /\ Take(IF Head(queue) \in DOMAIN sessions THEN Head(queue) ELSE 0)
    /\ UNCHANGED <<sessions, store, created, toAgent>>

\* What the seek under the connector's lock yields.
Stored(id) == {<<e.batch, e.seq>> : e \in {x \in store : x.session = id}}

\* bulkIndex or bulkDelete.
addItem == AddItem(Stored(adding)) /\ UNCHANGED <<sessionVars, toAgent>>

\* registerNotify
addSession == Register(Stored(adding)) /\ UNCHANGED <<sessionVars, toAgent>>

\* An exception of the connector, or an item that is rejected.
addSessionFails ==
    /\ GiveUp
    /\ Answer(EndAck("Error", adding))
    /\ store' = deleteByPrefix({adding})
    /\ sessions' = erase({adding})
    /\ UNCHANGED <<queue, created>>

processBulk == Request /\ UNCHANGED <<sessionVars, toAgent>>

\* Every callback answers the agent and deletes data and session.
onSuccess ==
    /\ \E ids \in SUBSET notify :
          /\ Acknowledge(ids)
          /\ toAgent' = toAgent \cup {EndAck("Ok", id) : id \in ids}
          /\ store' = deleteByPrefix(ids)
          /\ sessions' = erase(ids)
    /\ UNCHANGED <<queue, created>>

\* The manager stops at any point and is started again, with an empty store.
ManagerRestart ==
    /\ sessions' = <<>>
    /\ store' = {}
    /\ queue' = <<>>
    /\ adding' = 0
    /\ bulk' = {}
    /\ notify' = {}
    /\ UNCHANGED <<indexed, created, toAgent>>

ManagerThreads ==
    \/ sessionTimeout
    \/ takeSession \/ addItem \/ addSession \/ addSessionFails
    \/ processBulk \/ onSuccess

-----------------------------------------------------------------------------
Session == [size : Nat \ {0}, observed : SUBSET Nat, endReceived : BOOLEAN,
            endEnqueued : BOOLEAN]

FacadeTypeOK ==
    /\ created \in 0 .. MaxSessions
    /\ DOMAIN sessions \subseteq 1 .. created
    /\ \A id \in DOMAIN sessions :
          /\ sessions[id] \in Session
          /\ sessions[id].observed \subseteq 0 .. sessions[id].size - 1
    /\ store \subseteq [session : 1 .. created, seq : Nat, batch : Nat]
    /\ queue \in Seq(1 .. created)
    /\ Len(queue) <= MaxQueued
    /\ adding \in 0 .. created
    /\ bulk \subseteq Nat \X Nat
    /\ indexed \subseteq Nat \X Nat
    /\ notify \subseteq 1 .. created

=============================================================================
