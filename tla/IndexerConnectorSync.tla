----------------------- MODULE IndexerConnectorSync -----------------------
(***************************************************************************)
(* The manager's last leg to the indexer                                   *)
(* (src/src/shared_modules/indexer_connector/src/                          *)
(* indexerConnectorSyncImpl.hpp) with its one client, the indexer queue of *)
(* inventorySyncFacade.hpp, whose single thread adds the items of one      *)
(* finished session after the other to the bulk and registers a callback   *)
(* that acknowledges the session.  A bulk thread sends what has gathered.  *)
(*                                                                         *)
(* m_mutex is held by the client while it adds a session and by the bulk   *)
(* thread while it sends; deleteByQuery is called without it.  One step is *)
(* one request to the indexer or one call of the client.  Seen from the    *)
(* indexer queue it is BulkConnector.                                      *)
(*                                                                         *)
(* An operation counts one unit of size.  The indexer refuses a request of *)
(* more than limit operations with 413, and Failures says how else it may  *)
(* fail: "retry" is 409 or 429, "fatal" any other status; "deleteRetry"    *)
(* and "deleteFatal" are the same for a delete-by-query; "item" is an      *)
(* operation that fails in a request answered with 200; "invalid" is a     *)
(* stored message that the client rejects.                                 *)
(*                                                                         *)
(* lost, leftover and fatals are not in the code: they record what         *)
(* failures have done, for the properties.                                 *)
(***************************************************************************)
EXTENDS Naturals, Sequences

CONSTANTS
    Sessions,   \* finished sessions
    Items,      \* number of items of a session
    Full,       \* the sessions of mode Full
    MaxBulk,    \* MaxBulkSize
    Limits,     \* values of http.max_content_length of the indexer
    Failures,   \* how requests and items may fail
    MaxFatals,  \* bound on the failures for good
    MaxPushes   \* bound on how often a session is in the indexer queue

None == 0       \* no session

ASSUME ConnectorAssumption ==
    /\ MaxPushes \in Nat /\ MaxFatals \in Nat
    /\ Items \in Nat /\ MaxBulk \in Nat \ {0} /\ Limits \subseteq Nat
    /\ None \notin Sessions
    /\ Full \subseteq Sessions
    /\ Failures \subseteq {"retry", "fatal", "deleteRetry", "deleteFatal", "item",
                     "invalid"}

VARIABLES
    limit,          \* http.max_content_length
    bulkData,       \* m_bulkData: the operations, <<session, item>>
    boundaries,     \* m_boundaries: where each operation ends
    deletes,        \* m_deleteByQuery: the sessions that asked for one
    notify,         \* m_notify: the sessions whose callbacks are registered
    stopping,       \* "no", "wanted" (the destructor waits for m_mutex), "yes"
    holder,         \* who holds m_mutex: "none", "bulk" or "client"
    step,           \* where processBulk stands, if the holder runs it
    needToRetry,    \* the local variable of processBulk
    chunks,         \* the calls of processBulkChunk that remain
    current,        \* the session the client is at, or None
    next,           \* the next item it adds
    taken,          \* how often each session was taken from the queue
    indexed,        \* the operations the indexer has executed
    cleared,        \* the sessions whose delete-by-query it has executed
    acked,          \* the sessions acknowledged with status Ok
    failed,         \* the sessions acknowledged with status Error
    lost,           \* the operations given up: refused or thrown away
    leftover,       \* the boundaries that a failed delete-by-query left behind
    fatals          \* the failures for good so far

bulk == <<bulkData, boundaries, deletes, notify>>
client == <<current, next, taken, failed>>
sending == <<step, needToRetry, chunks>>
outside == <<indexed, cleared, acked>>
faults == <<lost, leftover, fatals>>
vars == <<bulk, client, sending, outside, faults, holder, stopping, limit>>

Op == Sessions \X (1 .. Items)

\* A view of m_bulkData, from (exclusive) .. to, with its span first .. last of
\* m_boundaries.
Chunk == [from : Nat, to : Nat, first : Nat, last : Nat]

Init ==
    /\ limit \in Limits
    /\ bulkData = <<>> /\ boundaries = <<>> /\ deletes = {} /\ notify = <<>>
    /\ stopping = "no" /\ holder = "none"
    /\ step = "none" /\ needToRetry = FALSE /\ chunks = <<>>
    /\ current = None /\ next = 1 /\ failed = {}
    /\ taken = [s \in Sessions |-> 0]
    /\ indexed = {} /\ cleared = {} /\ acked = {}
    /\ lost = {} /\ leftover = 0 /\ fatals = 0

Elements(seq) == {seq[k] : k \in DOMAIN seq}

-----------------------------------------------------------------------------
(* How processBulk ends *)

\* Faulty: the boundaries are kept.
clearData == bulkData' = <<>> /\ leftover' = 0 /\ UNCHANGED boundaries

clearBulk == bulkData' = <<>> /\ boundaries' = <<>> /\ leftover' = 0

Idle == step' = "none" /\ needToRetry' = FALSE /\ chunks' = <<>>

\* It returns: the bulk thread releases the mutex, the client goes on to add
\* the operation that did not fit.
Done ==
    /\ Idle
    /\ holder' = IF holder = "bulk" THEN "none" ELSE holder
    /\ UNCHANGED client

\* Faulty: the mutex is not released.
ThrowLocked ==
    /\ Idle
    /\ IF holder = "client"
       THEN /\ failed' = failed \cup {current}
            /\ current' = None
            /\ next' = 1
            /\ UNCHANGED taken
       ELSE UNCHANGED client
    /\ UNCHANGED holder

\* An exception leaves it.  The bulk thread logs it; the client gives up its
\* session: EndAck with status Error, its data and the session are deleted.
Throw ==
    /\ Idle
    /\ holder' = "none"
    /\ IF holder = "client"
       THEN /\ failed' = failed \cup {current}
            /\ current' = None
            /\ next' = 1
            /\ UNCHANGED taken
       ELSE UNCHANGED client

\* Every callback sends EndAck with status Ok and deletes data and session.
fireNotify ==
    /\ acked' = acked \cup Elements(notify)
    /\ notify' = <<>>

\* The indexer fails for good.
FailsForGood(failure) ==
    /\ failure \in Failures
    /\ fatals < MaxFatals
    /\ fatals' = fatals + 1

\* Every operation of the bulk that is thrown away.
LoseBulk == lost' = lost \cup Elements(bulkData)

\* A request with these operations is answered with 200.  One of them may have
\* failed: that is in the answer, which is only logged.
Executed(operations) ==
    \E refused \in {{}} \cup {{op} : op \in operations} :
        /\ refused # {} => "item" \in Failures
        /\ indexed' = indexed \cup (operations \ refused)
        /\ lost' = lost \cup refused

-----------------------------------------------------------------------------
(* processBulk *)

Begin(who) ==
    /\ holder' = who
    /\ step' = "deletes"
    /\ needToRetry' = FALSE

postDeletes ==
    /\ step = "deletes"
    /\ \/ /\ cleared' = cleared \cup deletes
          /\ step' = "post"
          /\ UNCHANGED <<bulkData, client, needToRetry, chunks, holder, faults>>
       \/ /\ "deleteRetry" \in Failures /\ deletes # {}
          /\ step' = "post"
          /\ UNCHANGED <<bulkData, client, cleared, needToRetry, chunks, holder, faults>>
       \/ /\ FailsForGood("deleteFatal") /\ deletes # {}
          /\ bulkData' = <<>>
          /\ leftover' = Len(boundaries)
          /\ LoseBulk
          /\ Throw
          /\ UNCHANGED cleared
    /\ UNCHANGED <<boundaries, deletes, notify, indexed, acked, stopping, limit>>

Accepted ==
    /\ Executed(Elements(bulkData))
    /\ fireNotify
    /\ clearBulk
    /\ deletes' = {}
    /\ Done
    /\ UNCHANGED fatals

Retry ==
    /\ "retry" \in Failures
    /\ needToRetry' = TRUE
    /\ step' = "sleep"
    /\ UNCHANGED <<bulk, client, chunks, indexed, acked, holder, faults>>

\* An empty body is sent only when a split follows a retry; the indexer refuses
\* it like any other bad request.
Fatal ==
    /\ \/ FailsForGood("fatal")
       \/ bulkData = <<>> /\ UNCHANGED fatals
    /\ LoseBulk
    /\ clearBulk
    /\ Throw
    /\ UNCHANGED <<deletes, notify, indexed, acked>>

\* Faulty: the second half begins one operation late.
splitWithGap ==
    /\ LET mid == Len(boundaries) \div 2
       IN  chunks' = << [from |-> 0, to |-> boundaries[mid],
                         first |-> 1, last |-> mid],
                        [from |-> boundaries[mid + 1], to |-> Len(bulkData),
                         first |-> mid + 1, last |-> Len(boundaries)] >>
    /\ step' = "split"
    /\ UNCHANGED <<bulk, client, needToRetry, indexed, acked, holder, faults>>

\* With boundaries left over the second half may be empty, and is then not sent.
splitAndProcessBulk ==
    /\ LET mid == Len(boundaries) \div 2
           firstHalf == [from |-> 0, to |-> boundaries[mid], first |-> 1, last |-> mid]
           secondHalf == [from |-> boundaries[mid], to |-> Len(bulkData),
                          first |-> mid + 1, last |-> Len(boundaries)]
       IN  chunks' = IF boundaries[mid] = Len(bulkData) THEN <<firstHalf>>
                     ELSE <<firstHalf, secondHalf>>
    /\ step' = "split"
    /\ UNCHANGED <<bulk, client, needToRetry, indexed, acked, holder, faults>>

TooLarge ==
    /\ LoseBulk
    /\ clearBulk
    /\ Throw
    /\ UNCHANGED <<deletes, notify, indexed, acked, fatals>>

postBulk ==
    /\ step = "post"
    /\ stopping # "yes"
    /\ bulkData # <<>> \/ needToRetry
    /\ \/ Len(bulkData) \in 1 .. limit /\ Accepted
       \/ Retry
       \/ Fatal
       \/ Len(bulkData) > limit /\ Len(boundaries) > 1 /\ splitAndProcessBulk
       \/ Len(bulkData) > limit /\ Len(boundaries) <= 1 /\ TooLarge
    /\ UNCHANGED <<cleared, stopping, limit>>

\* flush, called when only a delete-by-query waits, sends no bulk.
noBulk ==
    /\ step = "post"
    /\ bulkData = <<>> /\ ~needToRetry
    /\ clearBulk
    /\ deletes' = {}
    /\ Done
    /\ UNCHANGED <<notify, outside, stopping, limit, lost, fatals>>

\* The check of m_stopping before a request: everything stays as it is, and the
\* bulk thread ends.
stopPosting ==
    /\ step = "post"
    /\ stopping = "yes"
    /\ Done
    /\ stopping' = "joined"
    /\ UNCHANGED <<bulk, outside, faults, limit>>

\* RetryDelay has passed.
wake ==
    /\ step \in {"sleep", "chunkSleep"}
    /\ step' = IF step = "sleep" THEN "post" ELSE "split"
    /\ UNCHANGED <<bulk, client, outside, needToRetry, chunks, holder,
                   stopping, limit, faults>>

-----------------------------------------------------------------------------
(* processBulkChunk, called in the order of chunks *)

Size(chunk) == chunk.to - chunk.from

\* The operations in the chunk.
Within(chunk) == {k \in DOMAIN bulkData : chunk.from < k /\ k <= chunk.to}

\* With boundaries left over a view may be empty or reach past the end of the
\* bulk (its size is then taken modulo 2^64): any answer is possible.
Astray(chunk) == ~(chunk.from < chunk.to /\ chunk.to <= Len(bulkData))

chunkAccepted(chunk) ==
    /\ Size(chunk) <= limit \/ Astray(chunk)
    /\ Executed({bulkData[k] : k \in Within(chunk)})
    /\ chunks' = Tail(chunks)
    /\ UNCHANGED <<client, step, needToRetry, holder, leftover, fatals>>

chunkRetry ==
    /\ "retry" \in Failures
    /\ step' = "chunkSleep"
    /\ UNCHANGED <<client, needToRetry, chunks, indexed, holder, faults>>

\* Neither here nor in splitAndProcessBulk is the bulk cleared.
chunkFatal(chunk) ==
    /\ FailsForGood("fatal") \/ (Astray(chunk) /\ UNCHANGED fatals)
    /\ Throw
    /\ UNCHANGED <<indexed, lost, leftover>>

\* Both halves are taken from the whole of m_bulkData, not from the chunk.
chunkSplit(chunk) ==
    /\ Size(chunk) > limit \/ Astray(chunk)
    /\ chunk.first < chunk.last
    /\ LET mid == chunk.first + (chunk.last - chunk.first + 1) \div 2 - 1
       IN  chunks' = << [from |-> 0, to |-> boundaries[mid],
                         first |-> chunk.first, last |-> mid],
                        [from |-> boundaries[mid], to |-> Len(bulkData),
                         first |-> mid + 1, last |-> chunk.last] >> \o Tail(chunks)
    /\ UNCHANGED <<client, step, needToRetry, indexed, holder, faults>>

chunkTooLarge(chunk) ==
    /\ Size(chunk) > limit \/ Astray(chunk)
    /\ chunk.first = chunk.last
    /\ Throw
    /\ UNCHANGED <<indexed, faults>>

processBulkChunk ==
    /\ step = "split"
    /\ chunks # <<>>
    /\ LET chunk == Head(chunks) IN
       \/ chunkAccepted(chunk)
       \/ chunkRetry
       \/ chunkFatal(chunk)
       \/ chunkSplit(chunk)
       \/ chunkTooLarge(chunk)
    /\ UNCHANGED <<bulk, cleared, acked, stopping, limit>>

\* Faulty: the callbacks are not run.
endSplitSilent ==
    /\ step = "split"
    /\ chunks = <<>>
    /\ clearBulk
    /\ IF needToRetry
       THEN step' = "post" /\ UNCHANGED <<deletes, client, needToRetry, chunks, holder>>
       ELSE deletes' = {} /\ Done
    /\ UNCHANGED <<notify, outside, stopping, limit, lost, fatals>>

\* Both halves are through.  A retry before the split is still remembered.
endSplit ==
    /\ step = "split"
    /\ chunks = <<>>
    /\ fireNotify
    /\ clearBulk
    /\ IF needToRetry
       THEN step' = "post" /\ UNCHANGED <<deletes, client, needToRetry, chunks, holder>>
       ELSE deletes' = {} /\ Done
    /\ UNCHANGED <<indexed, cleared, stopping, limit, lost, fatals>>

processBulk ==
    \/ postDeletes \/ postBulk \/ noBulk \/ stopPosting \/ wake
    \/ processBulkChunk \/ endSplit

-----------------------------------------------------------------------------
(* The bulk thread, flush and the destructor *)

bulkThread ==
    /\ holder = "none"
    /\ stopping # "joined"
    /\ bulkData # <<>>
    /\ Begin("bulk")
    /\ UNCHANGED <<bulk, client, outside, chunks, stopping, limit, faults>>

flush ==
    /\ holder = "none"
    /\ stopping = "no"
    /\ bulkData # <<>> \/ deletes # {}
    /\ Begin("bulk")
    /\ UNCHANGED <<bulk, client, outside, chunks, stopping, limit, faults>>

\* InventorySyncFacade::stop ends the client first.
destroy ==
    /\ current = None
    /\ stopping = "no"
    /\ stopping' = "wanted"
    /\ UNCHANGED <<bulk, client, outside, sending, holder, faults, limit>>

setStopping ==
    /\ stopping = "wanted"
    /\ holder = "none"
    /\ stopping' = "yes"
    /\ UNCHANGED <<bulk, client, outside, sending, holder, faults, limit>>

\* Faulty: m_stopping is looked at only when there was something to send.
endAfterSending ==
    /\ stopping = "yes"
    /\ holder = "none"
    /\ bulkData # <<>>
    /\ stopping' = "joined"
    /\ UNCHANGED <<bulk, client, outside, sending, holder, faults, limit>>

\* With nothing to send the bulk thread ends at once.
endBulkThread ==
    /\ stopping = "yes"
    /\ holder = "none"
    /\ bulkData = <<>>
    /\ stopping' = "joined"
    /\ UNCHANGED <<bulk, client, outside, sending, holder, faults, limit>>

-----------------------------------------------------------------------------
(* The client: the action of the indexer queue *)

\* A session that was acknowledged is no longer found.  One whose last Data
\* message came twice is in the queue twice, so it may be taken again until then.
takeSession(s) ==
    /\ current = None
    /\ stopping = "no"
    /\ s \notin acked \cup failed
    /\ taken[s] < MaxPushes
    /\ taken' = [taken EXCEPT ![s] = @ + 1]
    /\ current' = s
    /\ deletes' = IF s \in Full THEN deletes \cup {s} ELSE deletes
    /\ UNCHANGED <<bulkData, boundaries, notify, next, failed, sending, outside,
                   holder, stopping, limit, faults>>

\* The items are read from the store under the lock: none are left if the
\* session was acknowledged in the meantime.
scopeLock ==
    /\ current # None
    /\ holder = "none"
    /\ holder' = "client"
    /\ next' = IF current \in acked THEN Items + 1 ELSE 1
    /\ UNCHANGED <<bulk, current, taken, failed, sending, outside, stopping, limit, faults>>

Adding == holder = "client" /\ step = "none"

\* Faulty: the size is compared with >= in place of >.
bulkIndexLate ==
    /\ Adding
    /\ next <= Items
    /\ Len(bulkData) <= MaxBulk
    /\ bulkData' = Append(bulkData, <<current, next>>)
    /\ boundaries' = Append(boundaries, Len(bulkData) + 1)
    /\ next' = next + 1
    /\ UNCHANGED <<deletes, notify, current, taken, failed, sending, outside,
                   holder, stopping, limit, faults>>

\* bulkDelete does the same.
bulkIndex ==
    /\ Adding
    /\ next <= Items
    /\ Len(bulkData) < MaxBulk
    /\ bulkData' = Append(bulkData, <<current, next>>)
    /\ boundaries' = Append(boundaries, Len(bulkData) + 1)
    /\ next' = next + 1
    /\ UNCHANGED <<deletes, notify, current, taken, failed, sending, outside,
                   holder, stopping, limit, faults>>

bulkFull ==
    /\ Adding
    /\ next <= Items
    /\ Len(bulkData) >= MaxBulk
    /\ Begin("client")
    /\ UNCHANGED <<bulk, client, outside, chunks, stopping, limit, faults>>

rejectItem ==
    /\ "invalid" \in Failures
    /\ Adding
    /\ next <= Items
    /\ Throw
    /\ UNCHANGED <<bulk, outside, stopping, limit, faults>>

registerNotify ==
    /\ Adding
    /\ next > Items
    /\ notify' = Append(notify, current)
    /\ current' = None
    /\ next' = 1
    /\ holder' = "none"
    /\ UNCHANGED <<bulkData, boundaries, deletes, taken, failed, sending, outside,
                   stopping, limit, faults>>

Client == scopeLock \/ bulkIndex \/ bulkFull \/ rejectItem \/ registerNotify

Next ==
    \/ \E s \in Sessions : takeSession(s)
    \/ Client
    \/ processBulk
    \/ bulkThread \/ flush
    \/ destroy \/ setStopping \/ endBulkThread

Spec == Init /\ [][Next]_vars

\* The threads go on: requests are answered, the bulk thread wakes up every
\* FlushInterval, and the mutex is granted to whoever waits for it.
ThreadFairness ==
    /\ WF_vars(processBulk)
    /\ WF_vars(bulkThread)
    /\ SF_vars(scopeLock)
    /\ WF_vars(Client)
    /\ SF_vars(setStopping)
    /\ WF_vars(endBulkThread)

FairSpec == Spec /\ ThreadFairness

\* The indexer does not answer "retry" for ever.
LiveSpec ==
    /\ FairSpec
    /\ SF_vars(postBulk /\ step' # "sleep")
    /\ SF_vars(processBulkChunk /\ step' # "chunkSleep")

-----------------------------------------------------------------------------
TypeOK ==
    /\ bulkData \in Seq(Op) /\ boundaries \in Seq(Nat)
    /\ deletes \subseteq Full /\ notify \in Seq(Sessions)
    /\ stopping \in {"no", "wanted", "yes", "joined"}
    /\ holder \in {"none", "bulk", "client"}
    /\ step \in {"none", "deletes", "post", "sleep", "split", "chunkSleep"}
    /\ step # "none" => holder # "none"
    /\ holder = "client" => current # None
    /\ needToRetry \in BOOLEAN
    /\ chunks \in Seq(Chunk)
    /\ current \in Sessions \cup {None}
    /\ next \in 1 .. Items + 1
    /\ taken \in [Sessions -> 0 .. MaxPushes]
    /\ failed \subseteq Sessions /\ acked \subseteq Sessions
    /\ cleared \subseteq Full /\ indexed \subseteq Op /\ lost \subseteq Op
    /\ leftover \in Nat /\ fatals \in Nat /\ limit \in Limits

\* A session is acknowledged with Ok only when the indexer has executed every one
\* of its operations, however the bulk was filled, flushed half-way, retried and
\* split: the module "guarantees reliable, persistent storage in the Indexer"
\* (registerNotify, onSuccess, splitAndProcessBulk).
AckedIsIndexed ==
    \A s \in acked : {s} \X (1 .. Items) \subseteq indexed

\* The callbacks in m_notify never run before the data they stand for are through:
\* an acknowledged operation is executed, or it was given up with a request that
\* failed for good or refused alone in one that did not (onSuccess, onError,
\* splitAndProcessBulk).
AckedIsSettled ==
    \A s \in acked : {s} \X (1 .. Items) \subseteq indexed \cup lost

\* Each boundary is the end of its operation, so that a split cuts the bulk
\* between two operations, except for what a delete-by-query that failed for good
\* has left in front of them (bulkIndex, clear, onErrorDeleteByQuery).
BoundariesExact ==
    /\ Len(boundaries) = leftover + Len(bulkData)
    /\ \A k \in 1 .. Len(bulkData) : boundaries[leftover + k] = k

\* The bulk stays within MaxBulkSize whichever requests fail, also when a failed
\* split leaves it as it was (bulkIndex).
BulkBounded == Len(bulkData) <= MaxBulk

\* Every session that the client takes is answered, with Ok or Error, unless the
\* connector is stopped, operations of it are given up, or boundaries are left
\* over: no callback is left behind in m_notify for any other reason.  The half of
\* a bulk must not be too large in its turn, for processBulkChunk then sends more
\* than before and the bulk is never through.
Answered ==
    \A s \in Sessions :
        current = s /\ limit >= MaxBulk - 1 ~>
                       \/ s \in acked \cup failed \/ stopping # "no"
                       \/ leftover > 0 \/ \E i \in 1 .. Items : <<s, i>> \in lost

\* The destructor always comes to its end: it is given the mutex between two runs
\* of processBulk, and the bulk thread then sends nothing more and ends, whatever
\* is left in the bulk (~IndexerConnectorSyncImpl).
Stops == stopping = "wanted" ~> stopping = "joined"

\* The documentation of the Full mode: it replaces the inventory by a delete by
\* query before the new data are indexed.
FullReplaces == \A s \in acked \cap Full : s \in cleared

-----------------------------------------------------------------------------
(* The contract with the indexer queue *)

Ops(s) == {s} \X (1 .. Items)

\* What is behind the connector: indexed or given up.
Through == indexed \cup lost

Contract == INSTANCE BulkConnector
                WITH adding <- current,
                     bulk <- Elements(bulkData) \ Through,
                     notify <- Elements(notify),
                     indexed <- Through

ContractStep ==
    \/ /\ \/ \E s \in Sessions : Contract!Take(s)
          \/ Contract!AddItem(Ops(current))
          \/ Contract!Register(Ops(current))
          \/ Contract!Request
       /\ UNCHANGED <<acked, failed>>
    \/ /\ Contract!GiveUp
       /\ failed' = failed \cup {current}
       /\ UNCHANGED acked
    \/ \E ids \in SUBSET Elements(notify) :
          /\ Contract!Acknowledge(ids)
          /\ acked' = acked \cup ids
          /\ UNCHANGED failed

\* The connector implements BulkConnector, which the facade is built on: however
\* the bulk is filled, flushed half-way, retried and split, a callback is
\* registered only when all operations of its session are handed over, callbacks
\* run only with the request after which none handed over before is left, and a
\* session is failed only while it is being added.  An operation given up with a
\* request that failed for good, or refused alone, counts as executed: the code
\* answers for it in the same way (registerNotify, onSuccess, onError,
\* splitAndProcessBulk).
KeepsContract ==
    /\ Contract!ConnectorInit
    /\ [][ContractStep]_<<Contract!connectorVars, acked, failed>>

=============================================================================
