--------------------------- MODULE BulkConnector ---------------------------
(***************************************************************************)
(* What the indexer connector promises to the thread of the indexer queue  *)
(* of inventorySyncFacade.hpp, its only client: that thread adds one       *)
(* session after the other to the bulk and registers a callback for it;    *)
(* the connector has the indexer execute the bulk at any time, in one      *)
(* request or in parts, and runs callbacks only when nothing handed over   *)
(* before is left to execute.                                              *)
(*                                                                         *)
(* IndexerConnectorSync implements it, and InventorySyncFacade is built on *)
(* it.                                                                     *)
(***************************************************************************)
VARIABLES
    adding,     \* the session that is being added, or 0
    bulk,       \* the operations handed over that are not executed yet
    notify,     \* the sessions whose callbacks are registered
    indexed     \* the operations the indexer has executed

connectorVars == <<adding, bulk, notify, indexed>>

ConnectorInit ==
    /\ adding = 0
    /\ bulk = {}
    /\ notify = {}
    /\ indexed = {}

\* The session was found in the indexer queue.
Take(id) ==
    /\ adding = 0
    /\ adding' = id
    /\ UNCHANGED <<bulk, notify, indexed>>

\* An operation of the session goes into the bulk.  A session may be added twice:
\* what is executed already is executed again, which changes nothing.
AddItem(operations) ==
    /\ adding # 0
    /\ \E op \in operations \ (bulk \cup indexed) : bulk' = bulk \cup {op}
    /\ UNCHANGED <<adding, notify, indexed>>

\* All of them are handed over.
Register(operations) ==
    /\ adding # 0
    /\ operations \subseteq bulk \cup indexed
    /\ notify' = notify \cup {adding}
    /\ adding' = 0
    /\ UNCHANGED <<bulk, indexed>>

Execute(part) ==
    /\ indexed' = indexed \cup part
    /\ bulk' = bulk \ part

\* A request, for the bulk or for a part of it.
Request ==
    /\ \E part \in SUBSET bulk : part # {} /\ Execute(part)
    /\ UNCHANGED <<adding, notify>>

\* The session is given up because an item is rejected or a request fails, of
\* which the indexer may have executed a part.
GiveUp ==
    /\ adding # 0
    /\ adding' = 0
    /\ \E part \in SUBSET bulk : Execute(part)
    /\ UNCHANGED notify

\* Faulty: the callbacks run when their sessions are handed over.
AcknowledgeEarly(ids) ==
    /\ ids # {} /\ ids \subseteq notify
    /\ notify' = notify \ ids
    /\ UNCHANGED <<adding, bulk, indexed>>

\* The request that leaves nothing to execute, and the callbacks that it runs, one
\* after the other or together.
Acknowledge(ids) ==
    /\ ids # {} /\ ids \subseteq notify
    /\ notify' = notify \ ids
    /\ Execute(bulk)
    /\ UNCHANGED adding
=============================================================================
