# Verification of inventory synchronization and event delivery

A TLA+ development of the two ways in which what an agent finds reaches the
indexer. The inventory goes through the agent's persistent queue, the session
protocol over a lossy transport, the manager's session handling, and the bulk
indexing that ends in an acknowledgement. Events go through the agent's buffer and,
on the manager, through the persistent queue of the asynchronous indexer connector.
TLC checks small instances; TLAPS proves the safety results for all values of the
constants.

## The system and its parts

The repository is an endpoint security platform: agents collect facts, a manager
receives and indexes them. Most of it is input, output and data (scanners,
parsers, a rule engine, cloud collectors). The parts whose correctness rests on
concurrency, failure and order are inventory synchronization and the queues on the
way of the events.

| Part | Where | State | Operations |
|---|---|---|---|
| Persistent queue | `shared_modules/sync_protocol` (`persistent_queue*.cpp`) | an SQLite table: one row per document, four status columns | `submitOrCoalesce`, `fetchAndMarkForSync`, `removeAllSynced`, `resetAllSyncing` |
| Agent protocol | `agent_sync_protocol.cpp` | `m_syncState` under a mutex; a thread in one of two wait loops | `persistDifference`, `synchronizeModule`, `parseResponseBuffer` |
| Gap set | `wazuh_modules/inventory_sync/src/gapSet.hpp` | intervals of the numbers that arrived, a cached flag | `observe`, `empty`, `contains`, `ranges` |
| Agent session | `agentSession.hpp` | gap set, `endReceived`, `endEnqueued` | constructor, `handleData`, `handleEnd` |
| Facade | `inventorySyncFacade.hpp` | the sessions, RocksDB, the indexer queue | `run`, the queue's action, the callback, the timer, `start`, `stop` |
| Connector | `shared_modules/indexer_connector` (`indexerConnectorSyncImpl.hpp`) | bulk, boundaries, deletes, callbacks, one mutex | `bulkIndex`, `deleteByQuery`, `registerNotify`, `processBulk`, `flush`, the destructor |
| Agent buffer | `client-agent/buffer.c`, `event-forward.c`, `sendmsg.c`, `shared/wait_op.c` | a ring with one free slot, its level, the wait lock | `buffer_append`, `dispatch_buffer`, `os_wait`, `os_setwait`, `os_delwait`, `w_agentd_buffer_resize` |
| Asynchronous connector | `indexerConnectorAsyncImpl.hpp`, `utils/threadEventDispatcher.hpp`, `threadSafeQueue.h`, `rocksDBQueue.hpp` | a RocksDB database with first, last and size; the bulk size | `push`, `getBulk`, the functor, `popBulk`, `cancel`, opening the database |

How they interact: a module (FIM, SCA, syscollector) reports a change with
`persistDifference`, which writes a row. `synchronizeModule` fetches the pending
rows, sends Start and waits for StartAck with a session id, sends one Data message
per row, sends End, and waits for EndAck, sending again what a ReqRet asks for. The
manager keeps Data in RocksDB, and pushes a complete session whose End came to the
indexer queue. One thread takes sessions from it, adds their operations to the
connector's bulk and registers a callback. The bulk is sent by a timer thread or
when it is full; the callback then sends EndAck and deletes the session and its
data. On EndAck with Ok the agent deletes the rows.

An event that a module of the agent reports is stored in the ring by the main
thread and sent by the dispatch thread, which waits while the connection is down.
On the manager, documents that need no acknowledgement are pushed to a queue on
disk; one thread posts them in bulks and pops each bulk once it is through.

What is hard to get right, and hard to test:

- a document changes while its previous content is on its way;
- an acknowledgement is lost after the work was done, or either side restarts;
- messages come late, twice, or in another order, to several worker threads;
- the receiving thread sets flags that the synchronizing thread tests under
  separate holds of the mutex;
- a request to the indexer fails, is retried or split while callbacks wait;
- a session is queued twice, or dropped by the timer while it is being handled;
- the dispatch thread of the buffer clears a slot after it released the mutex;
- a reload changes the size of the ring under messages that wait;
- the process ends between posting a bulk and removing it from the disk, or half-way
  through the removal.

`PROJECT.json` lists every part of the repository, modelled or not, and each hazard
at its line with the properties that cover it.

## The modules

| Module | Models | Steps |
|---|---|---|
| `PersistentQueue` | the statements on the rows of the table | one SQLite transaction |
| `QueueSync` | the life of a change: reports, batches whose items the indexer applies one by one, or late, or not at all, restarts, throwing transactions, and what each fault leaves in doubt | one transaction, one item applied |
| `SyncedQueue` | the agent's side of `QueueSync` on top of the calls of `Synchronization`; implements both | |
| `AgentSyncProtocol` | `synchronizeModule` and `parseResponseBuffer`; the manager is left open | what runs under one hold of the mutex, or one send |
| `AgentSync` | the agent against a manager that answers anything at any time | |
| `GapSet` | the interval set | one `observe` |
| `BulkConnector` | what the connector promises to the facade's queue thread: a session is taken, added, registered, executed in parts, acknowledged or given up | one call, one request |
| `IndexerConnectorSync` | the connector, with the facade's queue thread as client; implements `BulkConnector` | one request or one call of the client |
| `InventorySyncFacade` | sessions, store, indexer queue, callback, timer, restart, on top of `BulkConnector` | one handler (it holds its session's mutex) |
| `InventorySync` | the composition: `AgentSyncProtocol`, `InventorySyncFacade` and the transport; implements `Synchronization` | |
| `Synchronization` | what agent and manager together promise to the caller of `synchronizeModule`; no code of its own | |
| `MCQueueSync`, `MCSyncedQueue`, `MCAgentSync`, `MCInventorySync` | the payloads of the documents and the lists of ranges for TLC | |
| `EventDelivery` | what a queue of events promises; no code of its own | |
| `ClientBuffer` | the ring, the two threads, the wait lock, the level; implements `EventDelivery` | what runs under one hold of the mutex, one send, or the clearing of the slot |
| `ClientBufferResize` | `ClientBuffer` with a reload that changes `queue_size` | the read of the configuration, the count, the copy |
| `IndexerConnectorAsync` | the persistent queue, its dispatcher and the functor; implements `EventDelivery` | one hold of the lock, one request, one deletion |
| `QueueSyncProofs`, `GapSetProofs`, `AgentSyncProofs`, `IndexerConnectorProofs`, `InventorySyncProofs`, `ClientBufferProofs`, `IndexerConnectorAsyncProofs` | the theorems | |
| `AgentSyncProtocolProofs` | the lemmas on the agent that `AgentSyncProofs` and `InventorySyncProofs` share | |

The modules of inventory synchronization form a chain of contracts:

    SyncedQueue                 implements QueueSync, is built on Synchronization
    InventorySync               implements Synchronization, is built on BulkConnector
    IndexerConnectorSync        implements BulkConnector

`InventorySyncFacade` extends `BulkConnector`: `takeSession`, `addItem`, `addSession`,
`addSessionFails`, `processBulk` and `onSuccess` are its operations with what the facade
does around them. `IndexerConnectorSync` is mapped to it by `Contract`: the bulk of the
contract is what of `m_bulkData` is not through yet, and an operation that was given up
counts as executed, since the code answers for it in the same way. If no request fails
for good nothing is given up (`ReliableConnector`), and the two meanings of `indexed`
are one. `Contract` of `InventorySync` maps the agent's batches to calls, the Starts
that were sent to announcements, and forgets sessions, messages, store and queue.
`QueueSync` has a manager of its own, which knows documents where `Synchronization` has
only numbered items. `SyncedQueue` joins the two: the agent's side of each step (`Fetch`,
`ClearRows`, `ResetRows`, `ResetFails`) is that of `QueueSync`, the manager's side is a step
of `Synchronization`, and `contents` says which document each numbered item carries. It is
proved to implement `QueueSync` (`SyncedIsQueue`) and `Synchronization`
(`SyncedKeepsCalls`), so the properties of the queue hold of it (`SyncedLosesNothing`). What
is proved of the queue thus rests on what is proved of the protocol, and that on what is
proved of the connector, with three things that are taken for granted: the theorems are
about modules, which one puts together by their names; the operations of one bulk
reach the indexer one after the other; and a session that was acknowledged and is
executed again, because it was queued twice, is so before anything newer of the same
documents (`Apply` of `SyncedQueue` leaves out the items of a call that succeeded). The
last is how one thread (`m_threadCount` is 1) and one bulk in order of arrival work.

Variables and actions carry the names of the code where TLA+ allows it. A
definition that begins with the comment "Faulty:" is a plausible bug of the
definition after it; no specification uses it. Replacing the one by the other
makes TLC report the property named for it in `PROJECT.json`, which shows that the
property depends on that code.

What the modules abstract from:

- A payload is a model value; an item on the wire is its batch and its sequence
  number. The batch of Start, Data, End and StartAck is not on the real wire: it is
  there so that properties can say which contents a message stands for, and no
  guard of either side reads it. (The guard of `Deliver` reads it to state an
  assumption, see below.)
- Time: a timeout may happen whenever its condition is not met. The timer may drop
  a session at any moment.
- A send may fail at any message. Rate limiting (`maxEps`), encoding, JSON, document
  ids and logging are left out.
- An operation has size one. `limit` is the size the indexer accepts in a request; it
  is one of `Limits`, chosen at the start, and `raiseLimit` of
  `IndexerConnectorAsync` stands for the administrator who raises
  `http.max_content_length`.
- An event is the number of its arrival. The buffer's levels are compared as
  integers where the code divides floats.
- A crash of the daemon leaves the database as the last Put or Delete left it:
  RocksDB is used without sync, which survives the end of the process, not of the
  machine.
- `InventorySync` uses the gap set and the connector through what is proved of
  them: a session's `observed` is the set of numbers that arrived
  (`CompleteHolds`, `RangesHold`), and the connector is `BulkConnector`
  (`ConnectorKeepsContract`, `ReliableConnector`).
- The transport keeps every message it was given for ever and hands over any of
  them at any time, which is loss, repetition, delay and reordering at once.
- Session ids are random 64-bit numbers in the code. Here they count up; only that
  they differ matters, and that none is a decimal prefix of another.
- The unsynchronized accesses to the session map (`inventorySyncFacade.hpp:371` and
  others) are taken as single steps.

## The runs

Seven runs pass, five find what the code does against what the repository says.

| Run | Instance | What it shows |
|---|---|---|
| `queue` | 2 ids, one with 2 payloads and late items, any one fault | Every row leads to the current document unless its report was not stored (`QueueIsCurrent`); an id without a row is the same on both sides unless a fault left the agent mistaken of it (`NothingLost`), and one the module still has is given up for no lost acknowledgement unless a late item is applied over it (`NoDocumentLost`); the status columns are true of the manager (`StatusIsTrue`), a row marked SYNCING holds what was sent (`SyncingIsSent`), only meaningful combinations of columns occur (`RowShape`); and a document that stops changing eventually stays the same in the indexer (`Convergence`) |
| `gapset` | sizes 0, 1, 5, 10 | All orders of arrival with repetitions and numbers out of range: intervals, completeness and missing ranges exact |
| `agent` | 2 sessions, 2 items, 1 retry, 2 calls | Against a manager that answers anything: flags are up only for this exchange (`FlagsAreFresh`), success means everything was sent (`SuccessMeansSent`), and the call returns (`Returns`) |
| `connector` | 2 sessions of 2 items, one Full, bulk of 3, limits 0 and 2, every kind of failure, one for good | The connector implements `BulkConnector` (`KeepsContract`), by which an acknowledged operation is executed or given up; boundaries fit (`BoundariesExact`), the bulk stays within its maximum (`BulkBounded`), every session taken is answered (`Answered`), the destructor ends (`Stops`) |
| `inventory_sync` | 1 batch of up to 2 items, 1 retry, 2 sessions, queue of 1 | End to end: a success is indexed (`SuccessIsIndexed`); what is queued is stored (`QueuedIsStored`); agent, transport and manager implement `Synchronization` (`Synchronizes`): nothing is indexed that no call announced |
| `buffer` | ring of 4, warning at 75 %, normal at 25 %, 8 events | The slot cleared outside the mutex holds no message (`RingIntact`); every event is at exactly one place (`EveryEventOnce`) and sent in order (`SentInOrder`); the buffer implements `EventDelivery` (`Delivers`); the level lags by one message (`LevelLagsByOne`); an outage costs one message (`OutageCostsOne`); the buffer empties and its level returns to NORMAL (`Recovers`) |
| `async` | bulks of up to 3, 3 documents, 1 fault, 1 stop | Keys and counters agree (`QueueContiguous`); what is popped is what was posted (`BulkIsHead`); a document is indexed again only after a fault (`RedeliveryBounded`); the connector implements `EventDelivery` (`Delivers`) and works everything off (`Drains`) |
| `queue_orphan` | `SyncedQueue`, 1 id, one lost acknowledgement | violates `NothingOrphaned` |
| `connector_fatal` | 2 sessions of 1 item | violates `AckedIsIndexed` |
| `connector_full` | 2 sessions of 1 item, one Full | violates `FullReplaces` |
| `inventory_sync_late` | 2 batches, no retry, 1 session | violates `SuccessIsIndexed` |
| `buffer_resize` | ring of 3 resized to 2 or 4, 5 events | violates `OldestPreserved` |

Faults are part of the runs that pass: `QueueSync` and `IndexerConnectorSync` carry
variables that the code does not have (`unreported`, `stranded`, `overtaken`, `doubtful`,
`lost`, `leftover`), which record what a fault has cost, so that a property can say that
nothing else was lost. `faults` and `fatals` count them.

Why the bounds are enough. Two ids make a batch mix rows of different histories;
rows of different ids do not otherwise affect each other, so it is enough that one of
them changes its contents (`Payloads`) and is applied late (`Slow`); the other comes and
goes. Two payloads tell an old content from a new one. Ten numbers give a gap set several intervals at once, with
gaps at both ends and between. In the connector a session spans two bulks (items 2,
bulk 3), a full bulk is refused and split (limit 2), halves fit, and a session may
be taken twice; with limit 0 a half, and a single operation, is refused again. In
`inventory_sync` one retry lets Start, and so the session, exist twice, and a session be
queued again while its first turn is still being added, sent or acknowledged. With one batch the assumption on late StartAcks never
applies there; several batches are covered by the theorem. A ring of 4 has a level
between empty and full for each of the four states, and 8 events go round it more
than once. Three documents in the asynchronous queue make a bulk that is halved, one
that is popped in part, and a push behind either.

Every bound is a constant that appears in a guard: `Slow`, `MaxSize`, `MaxSyncs` (calls of
`synchronizeModule`), `Retries`, `MaxSessions`, `MaxQueued`, `MaxPushes` (how often a
session is in the indexer queue), `MaxFaults`, `MaxFatals`, `MaxEvents`, `MaxStops`.

Deadlock is checked except where the system may stop: a gap set that has seen
everything, a connector after its destructor, and the asynchronous connector, whose
thread idles when the queue is empty.

### Fairness

- `QueueSync`: the module's loop calls `synchronizeModule` again and again (weak
  fairness of the fetch); a manager that is offered batches for ever gets on with the
  items of one and gets its acknowledgement through (strong fairness of an application
  that is new, and of the success). The second is an assumption about the network,
  without which nothing can arrive. Nothing is assumed of late items.
- `AgentSync`: weak fairness of the synchronizing thread only. Every wait is a
  `wait_for` with a timeout. The manager is assumed to do nothing at all.
- `IndexerConnectorSync`: the threads run, the bulk thread wakes every
  FlushInterval, the mutex is granted to a thread that asks again and again, and the
  indexer does not answer 409 or 429 for ever. `Stops` needs the last for the retry
  loop holds the mutex.
- `ClientBuffer`: the dispatch thread runs, and the main thread reaches the manager
  again and does not lose it each time between two checks of the lock.
- `IndexerConnectorAsync`: the dispatcher's thread runs, the daemon is started again
  after a stop, the indexer is not busy (429) for ever, and a limit below a single
  document is raised. The last is what the comment at
  `indexerConnectorAsyncImpl.hpp:341` asks the user to do; without it the document is
  posted for ever and everything behind it waits.

### What the violations show

- `queue_orphan`: a document is created and sent, deleted while it is on its way,
  and the EndAck is lost. `resetAllSyncing` drops the deletion as never sent; the
  document stays in the indexer. The run is one of `SyncedQueue`: the manager does nothing
  but what `Synchronization` allows.
- `connector_fatal`: on a status other than 409, 413 and 429 the bulk is cleared and
  the callbacks stay; the next bulk that succeeds acknowledges sessions whose data
  are gone.
- `connector_full`: `deleteByQuery` is called without the mutex; a request made while
  the bulk thread sends is cleared without having been sent.
- `inventory_sync_late`: a StartAck says nothing about the Start it answers. One that
  outlives its synchronization gives the next one a session of the wrong size,
  which is acknowledged before all items are there.
- `buffer_resize`: on a reload `ReadConfig` stores the new `queue_size` before
  `w_agentd_buffer_resize` counts the messages, and the count is taken modulo the new
  size. A full ring of 3 that shrinks to 2 counts no message and drops all. The unit
  tests call the function with the old size still in place.

Further disagreements met on the way, described here and not kept as runs:

- If `resetSyncingItems` throws (`agent_sync_protocol.cpp:114`), rows that were never
  sent stay SYNCING and the next success deletes them.
- After a retransmission `sendEnd` stays false (`agent_sync_protocol.cpp:363`), so a
  timeout sends no End, where lifecycle.md:238 says it is sent again.
- A StartAck is accepted while data are being sent (`agent_sync_protocol.cpp:451`) and
  changes the session between Data and End.
- A half that is refused is split at positions of the whole bulk
  (`indexerConnectorSyncImpl.hpp:298`), so a second level of splitting ends in an
  error however small the operations are.
- The retry loop sleeps with the mutex held, and the destructor waits for the mutex
  (`indexerConnectorSyncImpl.hpp:350`).
- In the asynchronous connector the branch that would take a document too large on
  its own out of the queue tests the number of bytes of the request
  (`bulkData.size() <= 1`, `indexerConnectorAsyncImpl.hpp:328`), not of documents, and is
  never taken.
- An answer other than 409, 413 and 429, a lost connection included, takes the bulk
  out of the asynchronous queue (`indexerConnectorAsyncImpl.hpp:381`): `Delivers` counts
  it as given up.

## What is proved

For every value of the constants that meets the named assumptions
(`QueueAssumption`, `GapAssumption`, `ConnectorAssumption`, `AgentAssumption`,
`FacadeAssumption`, `SyncAssumption`, `BufferAssumption`, `AsyncAssumption`; TLC
evaluates them in the runs):

| Theorem | Further assumption | Statement |
|---|---|---|
| `QueueSyncProofs!TypeCorrect`, `RowShapeHolds`, `QueueCurrent` | | `TypeOK`, `RowShape`, `QueueIsCurrent` |
| `QueueSyncProofs!DocumentsKept` | | `SyncingIsSent`, `NoDocumentLost` |
| `QueueSyncProofs!NothingIsLost` | | `StatusIsTrue`, `NothingLost` |
| `QueueSyncProofs!SyncedIsQueue` | any item may be late (`Slow = Ids`) | `SyncedQueue` implements `QueueSync` |
| `QueueSyncProofs!SyncedKeepsCalls` | | `SyncedQueue` implements `Synchronization` |
| `QueueSyncProofs!SyncedLosesNothing` | any item may be late | `NothingLost`, `NoDocumentLost`, `QueueIsCurrent`, `StatusIsTrue` of `SyncedQueue` |
| `GapSetProofs` | | `TypeOK`, `Separated`, `IntervalsExact`, `CompleteExact`, `ContainsExact`, `RangesExact` |
| `AgentSyncProofs!AgentTypeCorrect`, `FlagsStayFresh`, `SuccessfulHasSent` | | `AgentTypeOK`, `FlagsAreFresh`, `SuccessMeansSent` |
| `IndexerConnectorProofs!TypeCorrect`, `BulkIsBounded` | | `TypeOK`, `BulkBounded` |
| `IndexerConnectorProofs!AcknowledgedIsSettled` | | `AckedIsSettled`, `BoundariesExact` |
| `IndexerConnectorProofs!ConnectorKeepsContract` | | `KeepsContract`: the connector implements `BulkConnector` |
| `IndexerConnectorProofs!AcknowledgedIsIndexed`, `ReliableConnector` | no request and no operation fails for good; the indexer accepts a single operation | `AckedIsIndexed`; what counts as executed in the contract is indexed |
| `InventorySyncProofs!SyncTypeCorrect` | | `TypeOK` |
| `InventorySyncProofs!SuccessfulIsIndexed` | no StartAck outlives its synchronization | `SuccessIsIndexed`, `QueuedIsStored` |
| `InventorySyncProofs!SynchronizationImplemented` | no StartAck outlives its synchronization | `Synchronizes`: agent, transport and manager implement `Synchronization` |
| `ClientBufferProofs!IndicesStayInside`, `RingStaysIntact`, `EventsAccounted`, `EventsInOrder` | | `TypeOK`, `RingIntact`, `EveryEventOnce`, `SentInOrder` |
| `ClientBufferProofs!LevelFollows`, `OutageIsCheap` | | `LevelLagsByOne`, `OutageCostsOne` |
| `ClientBufferProofs!BufferDelivers` | | `Delivers`: the buffer implements `EventDelivery` |
| `IndexerConnectorAsyncProofs!SizesBounded`, `QueueStaysContiguous`, `PoppedIsPosted`, `FewRedeliveries` | | `TypeOK`, `QueueContiguous`, `BulkIsHead`, `RedeliveryBounded` |
| `IndexerConnectorAsyncProofs!ConnectorDelivers` | | `Delivers`: the connector implements `EventDelivery` |

That any item may be late is no restriction: `Slow` is a bound for TLC. The assumptions
on failures and on StartAcks are needed: `connector_fatal` and `inventory_sync_late` show
what happens without them. `SyncAssumption` asks of `RangeLists` that it holds the
ranges a session can ask for; TLC evaluates it on the lists of `MCInventorySync`.
`ContainsExact` and `AckedIsSettled` are stated by theorems only; the first says of the
lookup what `IntervalsExact` says of the intervals, the second follows from the contract.

The arguments:

- **Queue.** `NothingLost` is not inductive: that a row may be dropped unsent depends
  on the columns telling the truth. `LossInv` adds `RowShape` (which combinations
  occur), `QueueIsCurrent`, `SyncingIsSent` (what a row marked SYNCING stands for) and
  `StatusIsTrue` (a NEW row belongs to a document the indexer has never had). A fault
  makes ids doubtful, and an id ceases to be doubtful when it is synchronized again with
  no item of it still to come. An id that an item of an abandoned batch was applied to is
  `overtaken` until a newer batch is applied to it.
- **Queue over the calls.** `SyncedInv` couples the two views: the batch on its way is the
  open call, item by item (`BatchIsCall`); no call is numbered beyond `calls`
  (`CallsInOrder`); a call and a number stand for one item (`OneEach`); `applied` and `late` are what the state of the calls says. With it a
  `Succeed` finds all ids of the batch applied, a `Fail` of a call that was announced is a
  batch given up and one of a call that was not is a batch not applied, and an `Apply` is
  one of the open call (`ManagerApplies`) or of an earlier one (`ManagerAppliesLate`). There is one
  lemma per action.
- **Gap set.** `Inv` says the intervals are apart and cover exactly what arrived. Since
  they are apart, at most the predecessor and the successor of a new number can
  touch it; the lemmas show that the loop absorbs exactly those. Counting uses the
  finite set theorems.
- **Agent.** `FlagsAreFresh` is inductive with the types. `SuccessMeansSent` needs
  `SentSoFar`: from the first send on all items but those of `toSend` are sent, and
  past the first wait for the EndAck an End is, also where `sendEnd` is down after a
  retransmission; and `StartsOfCalls`, that all Starts of a call carry its size.
- **Connector.** The operations of a registered callback are *secured*: indexed, given
  up, or still in the bulk (`NotifySecured`); what the client has added so far is too
  (`AddedSecured`); and while a bulk is split, the chunks that remain cover what is
  not through yet (`ChunksCover`). When the bulk is cleared after a success, secured
  means through; without the failures of `Reliable` nothing is ever given up. The
  same invariant carries the refinement of `BulkConnector`: each step takes a session,
  adds an operation, registers a callback, moves a part of what is pending (`Moves`),
  acknowledges, gives up, or is not seen. `AddedSecured` is what lets a callback be
  registered although parts of its session are already through, and `ChunksCover` what
  lets the callbacks run after the last half.
- **End to end.** `IInv` follows session ids. A session is granted to one batch
  (`GrantsAgree`), whose Starts all announce one size (`StartsAgree`); the agent uses
  only sessions granted to its current batch (`AgentGranted`), so all data kept
  under an id belong to its batch (`DataGranted`, `StoreGranted`). A session that is
  complete therefore has every item of its batch in the store, and this cover is
  followed from the store to the bulk to the indexer (`AddingCovered`,
  `NotifyCovered`, `AckCovered`). The hard case is a session queued twice, whose data
  the first callback deletes while the second is being added: then the data are
  indexed already. There is one lemma per action, and the connector enters only
  through the operations of `BulkConnector`.
- **End to end, the contract.** What is in the store, the bulk or the indexer was
  announced under its batch (`AppliedInv`), because the agent sends Data only once it
  has a session, which was granted for a Start of the same batch and size. With it, each
  step that executes operations is an `Apply`; the step at which the agent returns
  success is a `Succeed` by `AckCovered`; the other steps of the manager and of the
  transport are not seen.
- **End to end, the types.** `TypeOK` holds of late StartAcks too, so its invariant is
  one of its own: the ranges of a ReqRet come from a session within the bounds of a
  batch, which needs that the sizes of all Starts are.
- **Buffer.** The arithmetic of the ring is reduced to a window of slots from `j` up to
  `i`, which a store extends and a take shortens by one. The message in flight left
  the slot just behind `j` (`Flight`), which is never the slot that a store fills,
  because a ring with that slot in its window would be full. `Queued` changes by
  exactly the event stored or taken, from which the accounts, the order and the
  refinement follow.
- **Asynchronous connector.** The database holds the last `m_size` of the documents
  that arrived, under consecutive keys (`QueueHolds`), so the counters that a start
  finds are those that a crash lost. The bulk is the head of it, also half-way through
  `popBulk` (`BulkHolds`), the documents that were processed are a prefix of those that
  arrived (`PrefixProcessed`), and one still in the queue was indexed once per fault
  (`Redelivery`).

Only model-checked: the liveness properties (`Convergence`, `Returns`, `Answered`,
`Stops`, `Recovers`, `Drains`), which are out of the prover's reach. Every invariant and
every action property of the runs that pass is proved.

## What is not modelled

- The contents of documents, their encoding, and the mode a synchronization runs in
  beyond the delete-by-query of Full.
- In `InventorySync`, the order in which two sessions of the same documents reach the
  indexer: `indexed` is a set. `QueueSync`, which has the contents, has late items replace
  newer ones, but not a second execution of an acknowledged session after a newer one.
- What two unsynchronized accesses of the session map do to it.
- Of the agent's buffer: the alerts about its level, the pause that limits the events
  per second, and a reload that disables or enables the buffer. With a dispatch
  thread between two of its steps such a reload frees memory in use, of which nothing
  can be said.
- Of the asynchronous connector: the start of the dispatcher's thread before
  `m_dispatcher` is assigned, and the repair of a corrupt database. Its queue has no
  maximum as the connector opens it.
- The connection of the agent to its managers, remoted's table of agents, the task
  manager, the queues of the C library, logcollector and the cluster: they have state
  worth a model, which is not built. The rest of the repository is input, output and
  data; `PROJECT.json` gives the reason for each part.
