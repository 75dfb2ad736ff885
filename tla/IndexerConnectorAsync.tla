------------------------ MODULE IndexerConnectorAsync ------------------------
(***************************************************************************)
(* The asynchronous indexer connector, with which the engine indexes its   *)
(* alerts: bulkIndex pushes a document into a queue kept in RocksDB        *)
(* (rocksDBQueue.hpp, behind threadSafeQueue.h), and the thread of a       *)
(* TThreadEventDispatcher reads a bulk from its head, posts it to the      *)
(* indexer (indexerConnectorAsyncImpl.hpp) and only then pops it.          *)
(*                                                                         *)
(* The database survives the process; the indices of its first and last    *)
(* element and its size are counted anew when it is opened.                *)
(*                                                                         *)
(* Documents are numbered as they are stored.  A document that is not      *)
(* stored (the connector is stopping, or RocksDB fails) changes nothing.   *)
(***************************************************************************)
EXTENDS Integers, Sequences, FiniteSets

CONSTANTS
    ElementsPerBulk,    \* the largest bulk
    MaxSuccessCount,    \* posts before the bulk size is restored
    MaxEvents,          \* bound on the documents
    MaxFaults,          \* bound on the crashes and the failed deletions
    MaxStops            \* bound on the orderly stops

ASSUME AsyncAssumption ==
    /\ ElementsPerBulk \in Nat \ {0}
    /\ MaxSuccessCount \in Nat
    /\ MaxEvents \in Nat
    /\ MaxFaults \in Nat
    /\ MaxStops \in Nat

VARIABLES
    db,                 \* the database: key -> document
    m_legacyKeyMode, m_first, m_last, m_size,   \* RocksDBQueue
    m_running, m_canceled,                      \* dispatcher, TSafeQueue
    m_bulkSize, m_successCount,
    worker,             \* "idle", "post", "pop" (the mutex is held) or "ended"
    data,               \* the bulk being posted or popped
    left,               \* how many of it are still to be popped
    limit,              \* http.max_content_length, in documents
    arrived,            \* the number of documents stored
    indexed,            \* how often each document was indexed
    givenUp,            \* the documents whose indexing failed for good
    faults, stops

queue == <<db, m_legacyKeyMode, m_first, m_last, m_size>>
flags == <<m_running, m_canceled>>
sizes == <<m_bulkSize, m_successCount>>
bulk == <<worker, data, left>>
outcome == <<indexed, givenUp>>
counts == <<faults, stops>>
vars == <<queue, flags, sizes, bulk, limit, arrived, outcome, counts>>

-----------------------------------------------------------------------------
(* RocksDBQueue *)

\* Keys are padded to 20 digits, but for the databases of older versions.
paddedKey(k) == <<m_legacyKeyMode, k>>

Stored(k) == paddedKey(k) \in DOMAIN db

Numbers == {key[2] : key \in DOMAIN db}

Least(S) == CHOOSE m \in S : \A n \in S : m <= n

Greatest(S) == CHOOSE m \in S : \A n \in S : n <= m

\* Faulty: the last index is not recovered.
forgetLast ==
    /\ m_legacyKeyMode' = \E key \in DOMAIN db : key[1]
    /\ m_size' = Cardinality(DOMAIN db)
    /\ IF DOMAIN db = {}
       THEN m_first' = 1 /\ m_last' = 0
       ELSE m_first' = Least(Numbers) /\ m_last' = Least(Numbers)
    /\ UNCHANGED db

\* The constructor counts the elements of the database it opens.
RocksDBQueue ==
    /\ m_legacyKeyMode' = \E key \in DOMAIN db : key[1]
    /\ m_size' = Cardinality(DOMAIN db)
    /\ IF DOMAIN db = {}
       THEN m_first' = 1 /\ m_last' = 0
       ELSE m_first' = Least(Numbers) /\ m_last' = Greatest(Numbers)
    /\ UNCHANGED db

\* The keys of the first n elements; a missing key is skipped.
Heads(n) ==
    {ks \in [1 .. n -> {k \in Numbers : Stored(k) /\ m_first <= k}] :
        /\ \A a, b \in 1 .. n : a < b => ks[a] < ks[b]
        /\ \A k \in Numbers : m_first <= k /\ k <= ks[n] =>
              \E a \in 1 .. n : ks[a] = k}

frontQueue(n) ==
    IF \A k \in 1 .. n : Stored(m_first + k - 1)
    THEN {[k \in 1 .. n |-> db[paddedKey(m_first + k - 1)]]}
    ELSE {[k \in 1 .. n |-> db[paddedKey(ks[k])]] : ks \in Heads(n)}

\* The key that pop deletes: the first one from m_first on.
index ==
    IF Stored(m_first) THEN m_first
    ELSE Least({k \in Numbers : Stored(k) /\ m_first <= k})

pop ==
    /\ db' = [key \in DOMAIN db \ {paddedKey(index)} |-> db[key]]
    /\ m_size' = m_size - 1
    /\ IF m_size = 1
       THEN m_first' = 1 /\ m_last' = 0
       ELSE m_first' = m_first + 1 /\ UNCHANGED m_last
    /\ UNCHANGED m_legacyKeyMode

-----------------------------------------------------------------------------
(* A database of an older version may be found. *)

Init ==
    /\ arrived \in 0 .. MaxEvents
    /\ m_legacyKeyMode = (arrived > 0)
    /\ db = [key \in {<<TRUE, k>> : k \in 1 .. arrived} |-> key[2]]
    /\ m_first = 1 /\ m_last = arrived /\ m_size = arrived
    /\ m_running = TRUE /\ m_canceled = FALSE
    /\ m_bulkSize = ElementsPerBulk /\ m_successCount = 0
    /\ worker = "idle" /\ data = <<>> /\ left = 0
    /\ limit \in 0 .. ElementsPerBulk
    /\ indexed = [e \in 1 .. MaxEvents |-> 0] /\ givenUp = {}
    /\ faults = 0 /\ stops = 0

-----------------------------------------------------------------------------
(* The producers.  m_running was read before the queue was locked. *)

push ==
    /\ ~m_canceled
    /\ worker # "pop"
    /\ arrived < MaxEvents
    /\ arrived' = arrived + 1
    /\ db' = [key \in DOMAIN db \cup {paddedKey(m_last + 1)} |->
                 IF key = paddedKey(m_last + 1) THEN arrived + 1 ELSE db[key]]
    /\ m_last' = m_last + 1 /\ m_size' = m_size + 1
    /\ UNCHANGED <<m_legacyKeyMode, m_first, flags, sizes, bulk, limit,
                   outcome, counts>>

-----------------------------------------------------------------------------
(* The thread of the dispatcher *)

\* The wait for a full bulk ends after the flush interval at the latest.
getBulk ==
    /\ worker = "idle"
    /\ ~m_canceled
    /\ m_size > 0
    /\ data' \in frontQueue(IF m_size > m_bulkSize THEN m_bulkSize ELSE m_size)
    /\ worker' = "post"
    /\ UNCHANGED <<queue, flags, sizes, left, limit, arrived, outcome, counts>>

Documents == {data[k] : k \in DOMAIN data}

\* An exception in the functor: the bulk stays in the queue.
retry ==
    /\ worker' = "idle" /\ data' = <<>>
    /\ UNCHANGED <<queue, flags, left, limit, arrived, outcome, counts>>

\* Faulty: as many elements are popped as a bulk may have.
popBulkSize ==
    /\ worker' = "pop" /\ left' = m_bulkSize
    /\ UNCHANGED <<queue, flags, data, limit, arrived, counts>>

\* The functor returns.
popBulk ==
    /\ worker' = "pop" /\ left' = Len(data)
    /\ UNCHANGED <<queue, flags, data, limit, arrived, counts>>

Indexed(docs) == [e \in 1 .. MaxEvents |->
                     IF e \in docs THEN indexed[e] + 1 ELSE indexed[e]]

\* The documents that the indexer rejects one by one are only logged.
onSuccess ==
    /\ worker = "post"
    /\ Len(data) <= limit
    /\ \E rejected \in SUBSET Documents :
          /\ indexed' = Indexed(Documents \ rejected)
          /\ givenUp' = givenUp \cup rejected
    /\ m_bulkSize' = IF m_successCount = MaxSuccessCount THEN ElementsPerBulk
                     ELSE m_bulkSize
    /\ m_successCount' = IF m_successCount < MaxSuccessCount
                         THEN m_successCount + 1 ELSE m_successCount
    /\ popBulk

\* Faulty: nothing stops the halving.
halveAlways ==
    /\ worker = "post"
    /\ Len(data) > limit
    /\ m_bulkSize' = Len(data) \div 2 /\ m_successCount' = 0
    /\ retry

\* Faulty: the bulk stays as large as it was.
neverHalve ==
    /\ worker = "post"
    /\ Len(data) > limit
    /\ UNCHANGED sizes
    /\ retry

\* Faulty: a document that is too large is skipped.
skipTooLarge ==
    /\ worker = "post"
    /\ Len(data) > limit
    /\ IF Len(data) \div 2 < 1
       THEN popBulk /\ UNCHANGED <<sizes, outcome>>
       ELSE m_bulkSize' = Len(data) \div 2 /\ m_successCount' = 0 /\ retry

\* 413: half of this bulk, or, if it is a single document, the same once more
\* until the limit is raised.  (The code's other branch, bulkData.size() <= 1,
\* counts bytes; a document has more.)
onTooLarge ==
    /\ worker = "post"
    /\ Len(data) > limit
    /\ IF Len(data) \div 2 < 1
       THEN UNCHANGED sizes
       ELSE m_bulkSize' = Len(data) \div 2 /\ m_successCount' = 0
    /\ retry

\* 409, 429, or no server to choose.
onRetriable ==
    /\ worker = "post"
    /\ UNCHANGED sizes
    /\ retry

\* Faulty: a bulk whose answer was lost is posted again.
retryAnyError ==
    /\ worker = "post"
    /\ \E docs \in {{}, Documents} : indexed' = Indexed(docs)
    /\ worker' = "idle" /\ data' = <<>>
    /\ UNCHANGED <<queue, flags, sizes, left, limit, arrived, givenUp, counts>>

\* Any other error is logged, whether or not the indexer received the bulk.
onOtherError ==
    /\ worker = "post"
    /\ \E docs \in {{}, Documents} : indexed' = Indexed(docs)
    /\ givenUp' = givenUp \cup Documents
    /\ UNCHANGED sizes
    /\ popBulk

\* The loop of popBulk, with the mutex held.
popNext ==
    /\ worker = "pop"
    /\ left > 0 /\ m_size > 0
    /\ pop
    /\ left' = left - 1
    /\ UNCHANGED <<flags, sizes, worker, data, limit, arrived, outcome, counts>>

popEnd ==
    /\ worker = "pop"
    /\ left = 0 \/ m_size = 0
    /\ worker' = "idle" /\ data' = <<>> /\ left' = 0
    /\ UNCHANGED <<queue, flags, sizes, limit, arrived, outcome, counts>>

\* RocksDB cannot delete the element: what is left is read again.
popFails ==
    /\ worker = "pop"
    /\ left > 0 /\ m_size > 0
    /\ faults < MaxFaults /\ faults' = faults + 1
    /\ worker' = "idle" /\ data' = <<>> /\ left' = 0
    /\ UNCHANGED <<queue, flags, sizes, limit, arrived, outcome, stops>>

dispatchEnd ==
    /\ worker = "idle"
    /\ ~m_running
    /\ worker' = "ended"
    /\ UNCHANGED <<queue, flags, sizes, data, left, limit, arrived, outcome, counts>>

-----------------------------------------------------------------------------
(* The destructor, a crash and the next start *)

stop ==
    /\ m_running
    /\ stops < MaxStops /\ stops' = stops + 1
    /\ m_running' = FALSE
    /\ UNCHANGED <<queue, m_canceled, sizes, bulk, limit, arrived, outcome, faults>>

cancel ==
    /\ ~m_running /\ ~m_canceled
    /\ worker # "pop"
    /\ m_canceled' = TRUE
    /\ UNCHANGED <<queue, m_running, sizes, bulk, limit, arrived, outcome, counts>>

open ==
    /\ RocksDBQueue
    /\ m_running' = TRUE /\ m_canceled' = FALSE
    /\ m_bulkSize' = ElementsPerBulk /\ m_successCount' = 0
    /\ worker' = "idle" /\ data' = <<>> /\ left' = 0
    /\ UNCHANGED <<limit, arrived, outcome, stops>>

startAgain == m_canceled /\ worker = "ended" /\ open /\ UNCHANGED faults

crash == faults < MaxFaults /\ faults' = faults + 1 /\ open

\* The user raises http.max_content_length.
raiseLimit ==
    /\ limit < ElementsPerBulk
    /\ limit' = limit + 1
    /\ UNCHANGED <<queue, flags, sizes, bulk, arrived, outcome, counts>>

-----------------------------------------------------------------------------
functor == onSuccess \/ onTooLarge \/ onRetriable \/ onOtherError

dispatch == getBulk \/ functor \/ popNext \/ popEnd \/ popFails \/ dispatchEnd

Next == push \/ dispatch \/ stop \/ cancel \/ startAgain \/ crash \/ raiseLimit

Spec == Init /\ [][Next]_vars

\* The thread runs on, the daemon is started again, the indexer is not busy for
\* ever, and a limit below a single document is raised.
FairSpec ==
    /\ Spec
    /\ WF_vars(getBulk \/ popNext \/ popEnd \/ dispatchEnd)
    /\ SF_vars(onSuccess \/ onTooLarge \/ onOtherError)
    /\ WF_vars(cancel) /\ WF_vars(startAgain)
    /\ WF_vars(limit = 0 /\ raiseLimit)

-----------------------------------------------------------------------------
TypeOK ==
    /\ arrived \in 0 .. MaxEvents
    /\ m_legacyKeyMode \in BOOLEAN
    /\ DOMAIN db \subseteq BOOLEAN \X Nat
    /\ m_first \in Nat \ {0} /\ m_last \in Nat /\ m_size \in Nat
    /\ m_running \in BOOLEAN /\ m_canceled \in BOOLEAN
    /\ m_bulkSize \in 1 .. ElementsPerBulk /\ m_successCount \in 0 .. MaxSuccessCount
    /\ worker \in {"idle", "post", "pop", "ended"}
    /\ data \in Seq(1 .. MaxEvents) /\ left \in Nat
    /\ limit \in 0 .. ElementsPerBulk
    /\ indexed \in [1 .. MaxEvents -> Nat] /\ givenUp \subseteq 1 .. MaxEvents
    /\ faults \in 0 .. MaxFaults /\ stops \in 0 .. MaxStops

waiting == {db[key] : key \in DOMAIN db}

processed == {e \in 1 .. MaxEvents : indexed[e] > 0} \cup givenUp

\* The keys have no holes and the counters agree with the database, through pops,
\* failed deletions, crashes between two of them and the return to 1 and 0 when the
\* queue runs empty: frontQueue, whose search has no end of its own, and pop, which
\* trusts KeyMayExist, rely on it.
QueueContiguous ==
    /\ DOMAIN db = {paddedKey(k) : k \in m_first .. m_last}
    /\ m_size = m_last - m_first + 1

\* What is popped is what was posted: while the bulk is out of the lock, and after
\* some of it is gone, the rest of it is the head of the queue (getBulk, popBulk).
BulkIsHead ==
    LET remaining == IF worker = "pop" THEN left ELSE Len(data)
    IN  /\ remaining <= m_size
        /\ \A k \in 1 .. remaining :
              data[Len(data) - remaining + k] = db[paddedKey(m_first + k - 1)]

\* Only a crash, or a deletion that fails, lets a document be indexed again, and
\* each of them once only (dispatch, popBulk).
RedeliveryBounded ==
    \A e \in 1 .. MaxEvents : indexed[e] <= 1 + faults

Abstract == INSTANCE EventDelivery

\* Nothing that was stored is forgotten: it waits, was indexed or was given up with
\* an error; and the documents are worked off in the order in which they were
\* stored, across restarts (RocksDBQueue, dispatch).
Delivers == Abstract!Spec

\* Once the restarts cease, everything that was stored is indexed or given up, however
\* small the bulks must become (dispatch, onError).
Drains ==
    \A e \in 1 .. MaxEvents : (arrived >= e) ~> (e \in processed /\ e \notin waiting)
=============================================================================
