----------------------- MODULE IndexerConnectorProofs -----------------------
(***************************************************************************)
(* An acknowledged operation is indexed or was given up, for any number of *)
(* sessions and items, any limits and whichever requests fail; and nothing *)
(* is given up if no request fails for good (Reliable).  Without that it   *)
(* is: a request that fails for good drops the data and keeps the          *)
(* callbacks.  The connector implements BulkConnector, the contract that   *)
(* InventorySyncFacade is built on.                                        *)
(***************************************************************************)
EXTENDS IndexerConnectorSync, TLAPS

Reliable == Failures \cap {"fatal", "deleteFatal", "item"} = {} /\ 0 \notin Limits

Splitting == step \in {"split", "chunkSleep"}

\* What is, or will be when the bulk is accepted.
Secured == Through \cup Elements(bulkData)

\* A chunk is a stretch of the bulk with at least one boundary.
ChunkShape(chunk) ==
    /\ 1 <= chunk.first /\ chunk.first <= chunk.last
    /\ chunk.last <= Len(boundaries)

ChunksShaped ==
    /\ \A j \in DOMAIN chunks : ChunkShape(chunks[j])
    /\ ~Splitting => chunks = <<>>

\* The chunks that remain cover what is not through yet.
ChunksCover ==
    Splitting => \A k \in DOMAIN bulkData :
        \/ bulkData[k] \in Through
        \/ \E j \in DOMAIN chunks : k \in Within(chunks[j])

\* The callbacks registered stand for data that are secured.
NotifySecured == \A k \in DOMAIN notify : Ops(notify[k]) \subseteq Secured

\* What the client has added of its session is secured.
AddedSecured ==
    holder = "client" => \A i \in 1 .. next - 1 : <<current, i>> \in Secured

Safe ==
    /\ BoundariesExact
    /\ ChunksCover
    /\ NotifySecured
    /\ AddedSecured
    /\ AckedIsSettled

IInv == TypeOK /\ ChunksShaped /\ Safe

-----------------------------------------------------------------------------
(* Type correctness *)

TypeInv == TypeOK /\ ChunksShaped

\* The members of a concatenation and of a tail come from its parts.
LEMMA ConcatMembers ==
    ASSUME NEW S, NEW a \in Seq(S), NEW b \in Seq(S)
    PROVE  /\ a \o b \in Seq(S)
           /\ \A j \in DOMAIN (a \o b) :
                 \/ \E i \in DOMAIN a : (a \o b)[j] = a[i]
                 \/ \E i \in DOMAIN b : (a \o b)[j] = b[i]
  <1>1. ASSUME NEW j \in DOMAIN (a \o b), j <= Len(a)
        PROVE  \E i \in DOMAIN a : (a \o b)[j] = a[i]
    BY <1>1
  <1>2. ASSUME NEW j \in DOMAIN (a \o b), j > Len(a)
        PROVE  \E i \in DOMAIN b : (a \o b)[j] = b[i]
    <2>1. j - Len(a) \in DOMAIN b /\ (a \o b)[j] = b[j - Len(a)]
      BY <1>2
    <2> QED BY <2>1
  <1> QED
    BY <1>1, <1>2

\* What Head and Tail return.
LEMMA TailMembers ==
    ASSUME NEW S, NEW s \in Seq(S), s # <<>>
    PROVE  /\ Head(s) \in S /\ Head(s) = s[1] /\ 1 \in DOMAIN s
           /\ Tail(s) \in Seq(S)
           /\ \A j \in DOMAIN Tail(s) : j + 1 \in DOMAIN s /\ Tail(s)[j] = s[j + 1]
           /\ \A j \in DOMAIN s : j = 1 \/ (j - 1 \in DOMAIN Tail(s) /\ s[j] = Tail(s)[j - 1])
  OBVIOUS

\* The bulk holds operations.
LEMMA BulkElements ==
    ASSUME TypeOK
    PROVE  Elements(bulkData) \subseteq Op
  BY DEF TypeOK, Elements

\* The two elements in front of a sequence.
LEMMA TwoInFront ==
    ASSUME NEW S, NEW rest \in Seq(S), NEW x, NEW y
    PROVE  /\ 1 \in DOMAIN (<<x, y>> \o rest) /\ (<<x, y>> \o rest)[1] = x
           /\ 2 \in DOMAIN (<<x, y>> \o rest) /\ (<<x, y>> \o rest)[2] = y
  OBVIOUS

\* The halves that a first split makes are chunks.
LEMMA SplitShape ==
    ASSUME TypeOK, Len(boundaries) > 1, splitAndProcessBulk
    PROVE  /\ chunks' \in Seq(Chunk)
           /\ \A j \in DOMAIN chunks' : ChunkShape(chunks'[j])
  <1> USE DEF TypeOK, Chunk, ChunkShape
  <1> DEFINE mid == Len(boundaries) \div 2
  <1>1. mid \in 1 .. Len(boundaries) - 1
    OBVIOUS
  <1>2. boundaries[mid] \in Nat /\ Len(bulkData) \in Nat /\ Len(boundaries) \in Nat
    BY <1>1
  <1> DEFINE a == [from |-> 0, to |-> boundaries[mid], first |-> 1, last |-> mid]
             b == [from |-> boundaries[mid], to |-> Len(bulkData),
                   first |-> mid + 1, last |-> Len(boundaries)]
  <1> HIDE DEF mid
  <1>3. chunks' = <<a>> \/ chunks' = <<a, b>>
    BY ONLY splitAndProcessBulk, Zenon DEF splitAndProcessBulk, mid, a, b
  <1>4. mid \in Nat /\ 1 <= mid /\ mid + 1 \in Nat /\ mid <= Len(boundaries) - 1
    BY ONLY <1>1, <1>2
  <1>7. a \in Chunk /\ b \in Chunk
    BY ONLY <1>2, <1>4 DEF Chunk
  <1>8. ChunkShape(a) /\ ChunkShape(b)
    BY ONLY <1>2, <1>4 DEF ChunkShape
  <1> HIDE DEF a, b
  <1>5. chunks' \in Seq(Chunk)
    <2> HIDE DEF Chunk
    <2>1. <<a>> \in Seq(Chunk) /\ <<a, b>> \in Seq(Chunk)
      BY ONLY <1>7
    <2> QED
      BY ONLY <1>3, <2>1, Zenon
  <1>6. \A j \in DOMAIN chunks' : ChunkShape(chunks'[j])
    <2> HIDE DEF ChunkShape
    <2> QED BY ONLY <1>3, <1>8
  <1> QED
    BY ONLY <1>5, <1>6

\* The middle that processBulkChunk computes from the number of boundaries.
LEMMA Middle ==
    ASSUME NEW f \in Nat, NEW l \in Nat, f < l
    PROVE  LET mid == f + (l - f + 1) \div 2 - 1
           IN  mid \in Nat /\ f <= mid /\ mid < l
  OBVIOUS

\* So are the halves that replace a chunk.
LEMMA ChunkSplitShape ==
    ASSUME TypeOK, chunks # <<>>, chunkSplit(Head(chunks)),
           \A j \in DOMAIN chunks : ChunkShape(chunks[j])
    PROVE  /\ chunks' \in Seq(Chunk)
           /\ \A j \in DOMAIN chunks' : ChunkShape(chunks'[j])
  <1> USE DEF TypeOK, Chunk, ChunkShape
  <1> DEFINE chunk == Head(chunks)
             mid == chunk.first + (chunk.last - chunk.first + 1) \div 2 - 1
             halves == << [from |-> 0, to |-> boundaries[mid],
                           first |-> chunk.first, last |-> mid],
                          [from |-> boundaries[mid], to |-> Len(bulkData),
                           first |-> mid + 1, last |-> chunk.last] >>
  <1>0. chunks \in Seq(Chunk) /\ boundaries \in Seq(Nat) /\ bulkData \in Seq(Op)
    OBVIOUS
  <1>1. chunk \in Chunk /\ ChunkShape(chunk) /\ chunk.first < chunk.last
    <2>1. chunk \in Chunk /\ chunk = chunks[1] /\ 1 \in DOMAIN chunks
      BY ONLY <1>0, chunks # <<>>, TailMembers, Zenon DEF chunk
    <2> QED
      BY <2>1 DEF chunkSplit
  <1>2. mid \in 1 .. Len(boundaries) /\ chunk.first <= mid /\ mid < chunk.last
    <2> HIDE DEF chunk
    <2>1. /\ chunk.first \in Nat /\ chunk.last \in Nat /\ Len(boundaries) \in Nat
          /\ 1 <= chunk.first /\ chunk.first < chunk.last
          /\ chunk.last <= Len(boundaries)
      BY <1>1
    <2> QED BY ONLY <2>1, Middle DEF mid
  <1> HIDE DEF mid, chunk
  <1>3. boundaries[mid] \in Nat /\ Len(bulkData) \in Nat /\ Len(boundaries) \in Nat
    BY ONLY <1>0, <1>2
  <1>4. chunks' = halves \o Tail(chunks)
    BY ONLY chunkSplit(Head(chunks)) DEF chunkSplit, halves, mid, chunk
  <1>5. halves \in Seq(Chunk) /\ \A j \in DOMAIN halves : ChunkShape(halves[j])
    <2>1. /\ chunk.first \in Nat /\ chunk.last \in Nat /\ mid \in Nat
          /\ 1 <= chunk.first /\ chunk.last <= Len(boundaries)
      BY <1>1, <1>2
    <2> QED
      BY ONLY <1>2, <1>3, <2>1 DEF halves, Chunk, ChunkShape
  <1> HIDE DEF halves, ChunkShape, Chunk
  <1>6. /\ Tail(chunks) \in Seq(Chunk)
        /\ \A j \in DOMAIN Tail(chunks) : ChunkShape(Tail(chunks)[j])
    BY ONLY <1>0, chunks # <<>>, TailMembers,
            \A j \in DOMAIN chunks : ChunkShape(chunks[j])
  <1>7. /\ halves \o Tail(chunks) \in Seq(Chunk)
        /\ \A j \in DOMAIN (halves \o Tail(chunks)) :
              ChunkShape((halves \o Tail(chunks))[j])
    BY ONLY <1>5, <1>6, ConcatMembers
  <1> QED
    BY ONLY <1>4, <1>7

\* The types hold initially.
LEMMA TypeInit == Init => TypeInv
  <1>1. Init => needToRetry \in BOOLEAN
    BY Zenon DEF Init
  <1> QED
    BY <1>1, ConnectorAssumption
       DEF Init, TypeInv, TypeOK, ChunksShaped, Splitting

\* needToRetry stays a Boolean.
LEMMA FlagStep ==
    ASSUME TypeOK, [Next]_vars
    PROVE  needToRetry' \in BOOLEAN
  <1>0. needToRetry \in BOOLEAN
    BY DEF TypeOK
  <1>1. UNCHANGED needToRetry \/ needToRetry' = FALSE \/ needToRetry' = TRUE
    <2> USE DEF vars, bulk, client, sending, outside, Idle, Done, Throw, Begin
    <2>1. ASSUME NEW s \in Sessions, takeSession(s) PROVE UNCHANGED needToRetry
      BY <2>1 DEF takeSession
    <2>2. Client => UNCHANGED needToRetry \/ needToRetry' = FALSE
      BY Zenon DEF Client, scopeLock, bulkIndex, bulkFull, rejectItem, registerNotify
    <2>3. postDeletes \/ noBulk \/ stopPosting \/ wake \/ endSplit =>
            UNCHANGED needToRetry \/ needToRetry' = FALSE
      BY Zenon DEF postDeletes, noBulk, stopPosting, wake, endSplit
    <2>4. postBulk => UNCHANGED needToRetry \/ needToRetry' = FALSE \/ needToRetry' = TRUE
      BY Zenon DEF postBulk, Accepted, Retry, Fatal, splitAndProcessBulk, TooLarge
    <2>5. processBulkChunk => UNCHANGED needToRetry \/ needToRetry' = FALSE
      BY Zenon DEF processBulkChunk, chunkAccepted, chunkRetry, chunkFatal,
                   chunkSplit, chunkTooLarge
    <2>6. bulkThread \/ flush \/ destroy \/ setStopping \/ endBulkThread =>
            UNCHANGED needToRetry \/ needToRetry' = FALSE
      BY Zenon DEF bulkThread, flush, destroy, setStopping, endBulkThread
    <2> QED
      BY <2>1, <2>2, <2>3, <2>4, <2>5, <2>6, Zenon DEF Next, processBulk
  <1> QED
    BY ONLY <1>0, <1>1, Zenon

\* Each step keeps the types and the shape of the chunks.
LEMMA TypeStep == TypeInv /\ [Next]_vars => TypeInv'
  <1> SUFFICES ASSUME TypeInv, [Next]_vars PROVE TypeInv'
    OBVIOUS
  <1>0. needToRetry' \in BOOLEAN
    BY FlagStep DEF TypeInv
  <1> USE <1>0, ConnectorAssumption
      DEF TypeInv, TypeOK, ChunksShaped, ChunkShape, Splitting, bulk, client,
          sending, outside, faults
  <1>1. ASSUME NEW s \in Sessions, takeSession(s) PROVE TypeInv'
    BY <1>1 DEF takeSession
  <1>2. CASE scopeLock
    BY <1>2 DEF scopeLock
  <1>3. CASE bulkIndex
    <2>1. <<current, next>> \in Op
      BY <1>3 DEF bulkIndex, Adding, Op
    <2>2. bulkData' \in Seq(Op) /\ boundaries' \in Seq(Nat) /\ next' \in 1 .. Items + 1
      BY <1>3, <2>1 DEF bulkIndex
    <2>3. ~Splitting'
      BY <1>3 DEF bulkIndex, Adding
    <2> QED
      BY <1>3, <2>2, <2>3 DEF bulkIndex
  <1>4. CASE bulkFull
    BY <1>4 DEF bulkFull, Adding, Begin
  <1>5. CASE rejectItem
    BY <1>5 DEF rejectItem, Adding, Throw, Idle
  <1>6. CASE registerNotify
    BY <1>6 DEF registerNotify, Adding
  <1>7. CASE postDeletes
    <2>1. CASE /\ bulkData' = <<>> /\ Throw /\ UNCHANGED cleared /\ LoseBulk
               /\ leftover' = Len(boundaries) /\ FailsForGood("deleteFatal")
      <3>1. lost' \subseteq Op /\ leftover' \in Nat /\ fatals' \in Nat
        BY <2>1 DEF LoseBulk, Elements, FailsForGood
      <3> QED
        BY <1>7, <2>1, <3>1 DEF postDeletes, Throw, Idle
    <2>2. CASE /\ cleared' \in {cleared, cleared \cup deletes} /\ step' = "post"
               /\ UNCHANGED <<bulkData, client, needToRetry, chunks, holder, faults>>
      BY <1>7, <2>2 DEF postDeletes
    <2> QED
      BY <1>7, <2>1, <2>2, Zenon DEF postDeletes
  <1>8. CASE postBulk
    <2>1. CASE Accepted
      <3>1. Elements(bulkData) \subseteq Op /\ Elements(notify) \subseteq Sessions
        BY DEF Elements
      <3>2. indexed' \subseteq Op /\ lost' \subseteq Op
        BY <2>1, <3>1 DEF Accepted, Executed
      <3> QED
        BY <1>8, <2>1, <3>1, <3>2 DEF postBulk, Accepted, fireNotify, clearBulk, Done, Idle
    <2>2. CASE Retry
      BY <1>8, <2>2 DEF postBulk, Retry
    <2>3. CASE Fatal
      <3>1. lost' \subseteq Op
        BY ONLY <2>3, TypeOK, BulkElements DEF Fatal, LoseBulk, TypeOK
      <3>2. fatals \in Nat
        OBVIOUS
      <3>3. fatals' \in Nat
        BY ONLY <2>3, <3>2 DEF Fatal, FailsForGood
      <3> QED
        BY <1>8, <2>3, <3>1, <3>3 DEF postBulk, Fatal, clearBulk, Throw, Idle
    <2>4. CASE Len(boundaries) > 1 /\ splitAndProcessBulk
      <3>1. /\ chunks' \in Seq(Chunk)
            /\ \A j \in DOMAIN chunks' : ChunkShape(chunks'[j])
        BY <2>4, SplitShape
      <3>2. boundaries' = boundaries /\ step' = "split"
        BY <2>4 DEF splitAndProcessBulk
      <3>3. \A j \in DOMAIN chunks' : ChunkShape(chunks[j])'
        BY <3>1, <3>2 DEF ChunkShape
      <3> QED
        BY <1>8, <2>4, <3>1, <3>3, Zenon DEF postBulk, splitAndProcessBulk
    <2>5. CASE TooLarge
      <3>1. lost' \subseteq Op
        BY ONLY <2>5, TypeOK, BulkElements DEF TooLarge, LoseBulk, TypeOK
      <3> QED
        BY <1>8, <2>5, <3>1 DEF postBulk, TooLarge, clearBulk, Throw, Idle
    <2> QED
      BY ONLY <1>8, <2>1, <2>2, <2>3, <2>4, <2>5, Zenon DEF postBulk
  <1>9. CASE noBulk
    BY <1>9 DEF noBulk, clearBulk, Done, Idle
  <1>10. CASE stopPosting
    BY <1>10 DEF stopPosting, Done, Idle
  <1>11. CASE wake
    BY <1>11 DEF wake, ChunkShape
  <1>12. CASE processBulkChunk
    <2> DEFINE chunk == Head(chunks)
    <2>1. CASE chunkAccepted(chunk)
      <3>1. {bulkData[k] : k \in Within(chunk)} \subseteq Op
        BY DEF Within
      <3>2. indexed' \subseteq Op /\ lost' \subseteq Op
        BY <2>1, <3>1 DEF chunkAccepted, Executed
      <3>3. /\ chunks' \in Seq(Chunk) /\ boundaries' = boundaries
            /\ \A j \in DOMAIN chunks' : ChunkShape(chunks'[j])
        <4>1. chunks # <<>> /\ chunks' = Tail(chunks) /\ boundaries' = boundaries
          BY <1>12, <2>1 DEF processBulkChunk, chunkAccepted
        <4>2. chunks \in Seq(Chunk) /\ \A j \in DOMAIN chunks : ChunkShape(chunks[j])
          OBVIOUS
        <4> HIDE DEF ChunkShape
        <4> QED
          BY ONLY <4>1, <4>2, TailMembers
      <3>4. \A j \in DOMAIN chunks' : ChunkShape(chunks[j])'
        BY ONLY <3>3 DEF ChunkShape
      <3> QED
        BY <1>12, <2>1, <3>2, <3>3, <3>4 DEF processBulkChunk, chunkAccepted
    <2>2. CASE chunkRetry
      BY <1>12, <2>2 DEF processBulkChunk, chunkRetry, ChunkShape
    <2>3. CASE chunkFatal(chunk)
      <3>0. fatals \in Nat
        OBVIOUS
      <3>1. fatals' \in Nat
        BY ONLY <2>3, <3>0 DEF chunkFatal, FailsForGood
      <3> QED
        <4>1. /\ Throw /\ fatals' \in Nat /\ UNCHANGED <<indexed, lost, leftover>>
              /\ UNCHANGED <<bulk, cleared, acked, stopping, limit>>
          BY ONLY <1>12, <2>3, <3>1, Zenon DEF processBulkChunk, chunkFatal
        <4> QED
          BY <4>1 DEF Throw, Idle
    <2>4. CASE chunkSplit(chunk)
      <3>1. /\ chunks' \in Seq(Chunk)
            /\ \A j \in DOMAIN chunks' : ChunkShape(chunks'[j])
        BY <1>12, <2>4, ChunkSplitShape DEF processBulkChunk
      <3>2. boundaries' = boundaries /\ step' = step /\ step = "split"
        BY <1>12, <2>4 DEF processBulkChunk, chunkSplit
      <3>3. \A j \in DOMAIN chunks' : ChunkShape(chunks[j])'
        BY <3>1, <3>2 DEF ChunkShape
      <3> QED
        BY <1>12, <2>4, <3>1, <3>3, Zenon DEF processBulkChunk, chunkSplit
    <2>5. CASE chunkTooLarge(chunk)
      BY <1>12, <2>5 DEF processBulkChunk, chunkTooLarge, Throw, Idle
    <2> QED
      BY ONLY <1>12, <2>1, <2>2, <2>3, <2>4, <2>5, Zenon DEF processBulkChunk, chunk
  <1>13. CASE endSplit
    <2>1. /\ acked' = acked \cup Elements(notify) /\ notify' = <<>>
          /\ bulkData' = <<>> /\ boundaries' = <<>> /\ leftover' = 0
          /\ UNCHANGED <<indexed, cleared, stopping, client, lost, fatals, limit>>
          /\ \/ /\ step' = "post" /\ step = "split"
                /\ UNCHANGED <<deletes, holder, chunks>> /\ chunks = <<>>
             \/ /\ deletes' = {} /\ step' = "none" /\ chunks' = <<>>
                /\ holder' = IF holder = "bulk" THEN "none" ELSE holder
      BY <1>13, Zenon DEF endSplit, fireNotify, clearBulk, Done, Idle
    <2>2. Elements(notify) \subseteq Sessions
      BY DEF Elements
    <2>3. CASE step' = "post"
      BY <1>13, <2>1, <2>2, <2>3 DEF endSplit
    <2>4. CASE step' = "none"
      BY <2>1, <2>2, <2>4
    <2> QED
      BY <2>1, <2>3, <2>4
  <1>14. CASE bulkThread \/ flush
    <2>1. /\ holder = "none" /\ holder' = "bulk" /\ step' = "deletes"
          /\ UNCHANGED <<bulk, client, outside, chunks, stopping, limit, faults>>
      BY ONLY <1>14, Zenon DEF bulkThread, flush, Begin
    <2> QED
      BY <2>1
  <1>15. CASE destroy \/ setStopping \/ endBulkThread
    BY <1>15, Zenon DEF destroy, setStopping, endBulkThread, ChunkShape
  <1>16. CASE UNCHANGED vars
    BY <1>16 DEF vars, ChunkShape
  <1> QED
    BY <1>1, <1>2, <1>3, <1>4, <1>5, <1>6, <1>7, <1>8, <1>9, <1>10, <1>11,
       <1>12, <1>13, <1>14, <1>15, <1>16, Zenon DEF Next, Client, processBulk

\* The threads that share the connector keep its state in its type, whichever
\* requests fail: the mutex is held by whoever runs processBulk, the client
\* adds only under it, and the views of the bulk lie within the boundaries.
THEOREM TypeCorrect == Spec => []TypeOK
  BY TypeInit, TypeStep, PTL DEF Spec, TypeInv

\* The bulk is kept, emptied, or grows by one operation for which there is room.
LEMMA BulkStep ==
    ASSUME [Next]_vars
    PROVE  \/ bulkData' = bulkData
           \/ bulkData' = <<>>
           \/ Len(bulkData) < MaxBulk /\ bulkData' = Append(bulkData, <<current, next>>)
  <1>1. CASE \E s \in Sessions : takeSession(s)
    BY <1>1, Zenon DEF takeSession
  <1>2. CASE scopeLock \/ bulkFull \/ rejectItem \/ registerNotify
    BY <1>2, Zenon DEF scopeLock, bulkFull, rejectItem, registerNotify, bulk
  <1>3. CASE bulkIndex
    BY <1>3, Zenon DEF bulkIndex
  <1>4. CASE postDeletes
    BY <1>4, Zenon DEF postDeletes
  <1>5. CASE postBulk
    BY <1>5, Zenon DEF postBulk, Accepted, Retry, Fatal, splitAndProcessBulk, TooLarge,
       clearBulk, bulk
  <1>6. CASE noBulk \/ stopPosting \/ wake \/ endSplit
    BY <1>6, Zenon DEF noBulk, stopPosting, wake, endSplit, clearBulk, bulk
  <1>7. CASE processBulkChunk
    BY <1>7, Zenon DEF processBulkChunk, bulk
  <1>8. CASE bulkThread \/ flush \/ destroy \/ setStopping \/ endBulkThread
    BY <1>8, Zenon DEF bulkThread, flush, destroy, setStopping, endBulkThread, bulk
  <1>9. CASE UNCHANGED vars
    BY <1>9, Zenon DEF vars, bulk
  <1> QED
    BY <1>1, <1>2, <1>3, <1>4, <1>5, <1>6, <1>7, <1>8, <1>9 DEF Next, Client, processBulk

\* The bulk never exceeds its maximum, whichever requests fail and also when a
\* failed split leaves it full: bulkIndex and bulkDelete send it before they add.
THEOREM BulkIsBounded == Spec => []BulkBounded
  <1>1. Init => BulkBounded
    BY ConnectorAssumption DEF Init, BulkBounded
  <1>2. TypeOK /\ BulkBounded /\ [Next]_vars => BulkBounded'
    <2> SUFFICES ASSUME TypeOK, BulkBounded, [Next]_vars PROVE BulkBounded'
      OBVIOUS
    <2>1. bulkData \in Seq(Op) /\ MaxBulk \in Nat
      BY ConnectorAssumption DEF TypeOK
    <2>2. CASE bulkData' = bulkData \/ bulkData' = <<>>
      BY <2>1, <2>2 DEF BulkBounded
    <2>3. CASE /\ Len(bulkData) < MaxBulk
               /\ bulkData' = Append(bulkData, <<current, next>>)
      BY ONLY <2>1, <2>3 DEF BulkBounded
    <2> QED
      BY <2>2, <2>3, BulkStep
  <1> QED
    BY <1>1, <1>2, TypeCorrect, PTL DEF Spec

-----------------------------------------------------------------------------
(* Acknowledged sessions are indexed *)

\* Steps that leave the bulk, the callbacks and the indexer alone.
Quiet ==
    /\ UNCHANGED <<bulkData, boundaries, notify, acked, indexed, lost, leftover>>
    /\ Splitting' => Splitting /\ chunks' = chunks
    /\ holder' = "client" => holder = "client" /\ UNCHANGED <<current, next>>

\* They keep Safe.
LEMMA QuietStep ==
    ASSUME Safe, Quiet
    PROVE  Safe'
  <1> USE DEF Safe, Quiet
  <1>1. Secured' = Secured
    BY DEF Secured, Through, Elements
  <1>2. BoundariesExact' /\ AckedIsSettled'
    BY DEF BoundariesExact, AckedIsSettled
  <1>3. ChunksCover'
    BY DEF ChunksCover, Through, Within
  <1>4. NotifySecured'
    BY <1>1 DEF NotifySecured, Ops
  <1>5. AddedSecured'
    BY <1>1 DEF AddedSecured
  <1> QED
    BY <1>2, <1>3, <1>4, <1>5

\* What a bulk holds after an operation was added.
LEMMA AppendElements ==
    ASSUME NEW S, NEW q \in Seq(S), NEW e \in S
    PROVE  Elements(Append(q, e)) = Elements(q) \cup {e}
  <1>1. DOMAIN Append(q, e) = DOMAIN q \cup {Len(q) + 1}
    OBVIOUS
  <1>2. /\ \A k \in DOMAIN q : Append(q, e)[k] = q[k]
        /\ Append(q, e)[Len(q) + 1] = e
    OBVIOUS
  <1> HIDE DEF Elements
  <1>3. ASSUME NEW x PROVE x \in Elements(Append(q, e)) <=> x \in Elements(q) \cup {e}
    BY ONLY <1>1, <1>2 DEF Elements
  <1> QED
    BY <1>3

\* All of a session is secured when the client has come to its end.
LEMMA AllSecured ==
    ASSUME IInv, holder = "client", next > Items
    PROVE  Ops(current) \subseteq Secured
  <1>1. \A i \in 1 .. next - 1 : <<current, i>> \in Secured
    BY DEF IInv, Safe, AddedSecured
  <1>2. 1 .. Items \subseteq 1 .. next - 1
    BY ConnectorAssumption DEF IInv, TypeOK
  <1> QED
    BY ONLY <1>1, <1>2 DEF Ops

\* The client adds an operation with its boundary, and a callback once all of
\* its session is secured.
LEMMA ClientStep ==
    ASSUME IInv, \/ Client \/ \E s \in Sessions : takeSession(s)
    PROVE  Safe'
  <1> USE DEF IInv
  <1>1. ASSUME NEW s \in Sessions, takeSession(s) PROVE Safe'
    <2>1. holder # "client"
      BY <1>1 DEF TypeOK, takeSession
    <2>2. Quiet
      BY <1>1, <2>1 DEF Quiet, takeSession, sending, outside, faults, Splitting
    <2> QED BY <2>2, QuietStep
  <1>2. CASE scopeLock
    <2>1. /\ UNCHANGED <<bulkData, boundaries, notify, acked, indexed, current>>
          /\ UNCHANGED <<lost, leftover>>
          /\ UNCHANGED <<step, chunks>>
          /\ next' = IF current \in acked THEN Items + 1 ELSE 1
      BY <1>2 DEF scopeLock, bulk, sending, outside, faults
    <2>2. Secured' = Secured
      BY <2>1 DEF Secured, Through, Elements
    <2>3. AddedSecured'
      <3>1. CASE current \in acked
        <4>1. \A i \in 1 .. Items : <<current, i>> \in Through
          BY <3>1 DEF Safe, AckedIsSettled, Through
        <4> QED
          BY <2>1, <2>2, <3>1, <4>1, ConnectorAssumption DEF AddedSecured, Secured
      <3>2. CASE current \notin acked
        BY <2>1, <3>2 DEF AddedSecured
      <3> QED BY <3>1, <3>2
    <2> QED
      BY <2>1, <2>2, <2>3
         DEF Safe, BoundariesExact, ChunksCover, Through, Within, Splitting,
             NotifySecured, Ops, AckedIsSettled
  <1>3. CASE bulkIndex
    <2>1. /\ bulkData' = Append(bulkData, <<current, next>>)
          /\ boundaries' = Append(boundaries, Len(bulkData) + 1)
          /\ next' = next + 1
          /\ holder = "client" /\ step = "none"
          /\ UNCHANGED <<notify, acked, indexed, current, step, chunks, lost, leftover>>
      BY <1>3 DEF bulkIndex, Adding, sending, outside, faults
    <2>2. Elements(bulkData') = Elements(bulkData) \cup {<<current, next>>}
      <3>1. <<current, next>> \in Op
        BY <1>3 DEF bulkIndex, Adding, Op, TypeOK
      <3>2. bulkData \in Seq(Op)
        BY DEF TypeOK
      <3>3. Elements(Append(bulkData, <<current, next>>))
              = Elements(bulkData) \cup {<<current, next>>}
        BY ONLY <3>1, <3>2, AppendElements
      <3> QED
        BY ONLY <2>1, <3>3, Zenon
    <2>3. Secured' = Secured \cup {<<current, next>>}
      BY <2>1, <2>2, Zenon DEF Secured, Through, Elements
    <2>4. BoundariesExact'
      <3>1. /\ Len(boundaries) = leftover + Len(bulkData) /\ Len(bulkData) \in Nat
            /\ leftover \in Nat /\ boundaries \in Seq(Nat)
        BY DEF Safe, BoundariesExact, TypeOK
      <3>2. Len(bulkData') = Len(bulkData) + 1
        BY <2>1 DEF TypeOK
      <3>3. \A k \in 1 .. Len(bulkData) : boundaries[leftover + k] = k
        BY DEF Safe, BoundariesExact
      <3>4. \A k \in 1 .. Len(bulkData) : boundaries'[leftover + k] = k
        BY <2>1, <3>1, <3>3
      <3>5. /\ boundaries'[leftover + Len(bulkData) + 1] = Len(bulkData) + 1
            /\ Len(boundaries') = leftover + Len(bulkData) + 1
        BY <2>1, <3>1
      <3> QED
        BY <2>1, <3>1, <3>2, <3>4, <3>5 DEF BoundariesExact
    <2>5. AddedSecured'
      BY <2>1, <2>3 DEF Safe, AddedSecured, TypeOK
    <2> QED
      BY <2>1, <2>3, <2>4, <2>5
         DEF Safe, ChunksCover, Splitting, NotifySecured, Ops, AckedIsSettled
  <1>4. CASE bulkFull
    <2>1. Quiet
      BY <1>4 DEF Quiet, bulkFull, Adding, Begin, Splitting, bulk, client, outside, faults
    <2> QED BY <2>1, QuietStep
  <1>5. CASE rejectItem
    <2>1. Quiet
      BY <1>5 DEF Quiet, rejectItem, Adding, Throw, Idle, Splitting, bulk, outside, faults
    <2> QED BY <2>1, QuietStep
  <1>6. CASE registerNotify
    <2>1. /\ notify' = Append(notify, current) /\ holder' = "none"
          /\ next > Items /\ holder = "client"
          /\ UNCHANGED <<bulkData, boundaries, acked, indexed, step, chunks, lost, leftover>>
      BY <1>6 DEF registerNotify, Adding, sending, outside, faults
    <2>2. Secured' = Secured
      BY <2>1 DEF Secured, Through, Elements
    <2>3. Ops(current) \subseteq Secured
      BY <2>1, AllSecured
    <2>4. NotifySecured'
      <3> SUFFICES ASSUME NEW k \in DOMAIN notify' PROVE Ops(notify'[k]) \subseteq Secured
        BY <2>2 DEF NotifySecured, Ops
      <3>0. notify \in Seq(Sessions) /\ notify' = Append(notify, current)
        BY <2>1 DEF TypeOK
      <3>1. notify'[k] = current \/ (k \in DOMAIN notify /\ notify'[k] = notify[k])
        BY ONLY <3>0
      <3> QED
        BY <2>3, <3>1 DEF Safe, NotifySecured
    <2> QED
      BY <2>1, <2>4
         DEF Safe, BoundariesExact, ChunksCover, Through, Within, Splitting, AddedSecured,
             AckedIsSettled
  <1> QED
    BY <1>1, <1>2, <1>3, <1>4, <1>5, <1>6 DEF Client

\* The bulk is through, at once or in halves, and the callbacks run.
LEMMA SentStep ==
    ASSUME IInv, Secured \subseteq Through',
           fireNotify, clearBulk, ~Splitting',
           holder' = "client" => holder = "client" /\ UNCHANGED <<current, next>>
    PROVE  Safe'
  <1>1. /\ acked' = acked \cup Elements(notify) /\ notify' = <<>>
        /\ bulkData' = <<>> /\ boundaries' = <<>> /\ leftover' = 0
    BY DEF fireNotify, clearBulk
  <1>2. BoundariesExact' /\ NotifySecured' /\ ChunksCover'
    BY <1>1 DEF BoundariesExact, NotifySecured, ChunksCover
  <1>3. AckedIsSettled'
    <2>1. ASSUME NEW s \in Elements(notify) PROVE Ops(s) \subseteq Through'
      BY DEF IInv, Safe, NotifySecured, Elements
    <2> QED
      BY <1>1, <2>1 DEF IInv, Safe, AckedIsSettled, Ops, Secured, Through
  <1>4. AddedSecured'
    <2> SUFFICES ASSUME holder' = "client", NEW i \in 1 .. next' - 1
                 PROVE  <<current', i>> \in Through'
      BY DEF AddedSecured, Secured
    <2> QED
      BY DEF IInv, Safe, AddedSecured
  <1> QED
    BY <1>2, <1>3, <1>4 DEF Safe

\* The bulk is thrown away, with its boundaries or without.
LEMMA LoseStep ==
    ASSUME IInv, LoseBulk, bulkData' = <<>>, UNCHANGED <<notify, acked, indexed>>,
           Throw,
           \/ boundaries' = <<>> /\ leftover' = 0
           \/ boundaries' = boundaries /\ leftover' = Len(boundaries)
    PROVE  Safe'
  <1>1. Through' = Secured /\ Secured' = Secured
    BY DEF LoseBulk, Secured, Through, Elements
  <1>2. step' = "none" /\ holder' = "none"
    BY DEF Throw, Idle
  <1>3. BoundariesExact'
    BY DEF BoundariesExact, IInv, TypeOK
  <1>4. ChunksCover' /\ AddedSecured'
    BY <1>2 DEF ChunksCover, AddedSecured, Splitting
  <1>5. NotifySecured'
    BY <1>1 DEF NotifySecured, Ops, IInv, Safe
  <1>6. AckedIsSettled'
    BY <1>1 DEF AckedIsSettled, Through, Secured, IInv, Safe
  <1> QED
    BY <1>3, <1>4, <1>5, <1>6 DEF Safe

\* A cut at any boundary leaves no operation out.
LEMMA CutCovers ==
    ASSUME TypeOK, NEW mid \in 1 .. Len(boundaries)
    PROVE  \A k \in DOMAIN bulkData :
              k <= boundaries[mid] \/ (boundaries[mid] < k /\ k <= Len(bulkData))
  BY DEF TypeOK

\* A bulk request leaves the data, moves them to the indexer or cuts them up.
LEMMA PostStep ==
    ASSUME IInv, postBulk
    PROVE  Safe'
  <1> USE DEF IInv
  <1>1. CASE Accepted
    <2>1. /\ Executed(Elements(bulkData)) /\ step' = "none"
          /\ fireNotify /\ clearBulk /\ UNCHANGED <<current, next>>
          /\ holder' = IF holder = "bulk" THEN "none" ELSE holder
      BY <1>1 DEF Accepted, Done, Idle, client
    <2>2. Secured \subseteq Through'
      BY <2>1 DEF Executed, Secured, Through
    <2> QED
      BY <2>1, <2>2, SentStep DEF Splitting
  <1>2. CASE Retry
    <2>1. Quiet
      BY <1>2 DEF Quiet, Retry, Splitting, bulk, client, faults
    <2> QED BY <2>1, QuietStep
  <1>3. CASE Fatal \/ TooLarge
    BY <1>3, LoseStep DEF Fatal, TooLarge, clearBulk
  <1>4. CASE Len(boundaries) > 1 /\ splitAndProcessBulk
    <2> DEFINE mid == Len(boundaries) \div 2
    <2>1. mid \in 1 .. Len(boundaries)
      BY <1>4 DEF TypeOK
    <2>2. /\ UNCHANGED <<bulkData, boundaries, notify, acked, indexed, holder>>
          /\ UNCHANGED <<current, next, lost, leftover>>
          /\ LET a == [from |-> 0, to |-> boundaries[mid], first |-> 1, last |-> mid]
                 b == [from |-> boundaries[mid], to |-> Len(bulkData),
                       first |-> mid + 1, last |-> Len(boundaries)]
             IN  chunks' = IF boundaries[mid] = Len(bulkData) THEN <<a>> ELSE <<a, b>>
      BY <1>4 DEF splitAndProcessBulk, bulk, client, faults
    <2> HIDE DEF mid
    <2>3. ChunksCover'
      <3> SUFFICES ASSUME NEW k \in DOMAIN bulkData
                   PROVE  \E j \in DOMAIN chunks' : k \in Within(chunks[j])'
        BY <2>2 DEF ChunksCover
      <3>1. k \in Nat /\ 0 < k /\ k \in DOMAIN bulkData'
        BY <2>2 DEF TypeOK
      <3>2. CASE k <= boundaries[mid]
        <4>1. 1 \in DOMAIN chunks' /\ chunks'[1].from = 0
              /\ chunks'[1].to = boundaries[mid]
          BY <2>2
        <4> QED BY <3>1, <3>2, <4>1 DEF Within
      <3>3. CASE boundaries[mid] < k /\ k <= Len(bulkData)
        <4>0. boundaries[mid] # Len(bulkData)
          BY <2>1, <3>1, <3>3 DEF TypeOK
        <4>1. 2 \in DOMAIN chunks' /\ chunks'[2].from = boundaries[mid]
              /\ chunks'[2].to = Len(bulkData)
          BY <2>2, <4>0
        <4> QED BY <3>1, <3>3, <4>1 DEF Within
      <3> QED
        BY <2>1, <3>2, <3>3, CutCovers DEF Safe
    <2>4. Secured' = Secured
      BY <2>2 DEF Secured, Through, Elements
    <2> QED
      BY <2>2, <2>3, <2>4
         DEF Safe, BoundariesExact, NotifySecured, Ops, AddedSecured, AckedIsSettled
  <1> QED
    BY <1>1, <1>2, <1>3, <1>4 DEF postBulk

\* So does the request of a chunk, for the part of the bulk it stands for.
LEMMA ChunkStep ==
    ASSUME IInv, processBulkChunk
    PROVE  Safe'
  <1> USE DEF IInv
  <1> DEFINE chunk == Head(chunks)
  <1>0. /\ step = "split" /\ chunks # <<>> /\ chunks \in Seq(Chunk)
        /\ chunk \in Chunk /\ chunk = chunks[1] /\ 1 \in DOMAIN chunks
        /\ UNCHANGED <<bulkData, boundaries, notify, acked>>
    <2>1. step = "split" /\ chunks # <<>> /\ chunks \in Seq(Chunk)
      BY DEF processBulkChunk, TypeOK
    <2>2. UNCHANGED <<bulkData, boundaries, notify, acked>>
      BY DEF processBulkChunk, bulk
    <2> QED BY ONLY <2>1, <2>2, TailMembers
  <1>1. CASE chunkAccepted(chunk)
    <2>1. /\ Through' = Through \cup {bulkData[k] : k \in Within(chunk)}
          /\ chunks' = Tail(chunks)
          /\ UNCHANGED <<current, next, holder, leftover>>
      BY <1>1 DEF chunkAccepted, client, Executed, Through
    <2>2. ChunksCover'
      <3> SUFFICES ASSUME NEW k \in DOMAIN bulkData, bulkData[k] \notin Through'
                   PROVE  \E j \in DOMAIN chunks' : k \in Within(chunks[j])'
        BY <1>0 DEF ChunksCover
      <3>1. PICK j \in DOMAIN chunks : k \in Within(chunks[j])
        BY <1>0, <2>1 DEF Safe, ChunksCover, Splitting
      <3>2. j # 1
        BY <1>0, <2>1, <3>1
      <3>3. j - 1 \in DOMAIN Tail(chunks) /\ chunks[j] = Tail(chunks)[j - 1]
        BY ONLY <1>0, <3>2, TailMembers
      <3> QED
        BY <1>0, <2>1, <3>1, <3>3 DEF Within
    <2>3. Secured \subseteq Secured'
      BY <1>0, <2>1 DEF Secured, Elements
    <2>4. AckedIsSettled'
      BY <1>0, <2>1 DEF Safe, AckedIsSettled, Through
    <2> QED
      BY <1>0, <2>1, <2>2, <2>3, <2>4
         DEF Safe, BoundariesExact, NotifySecured, Ops, AddedSecured
  <1>2. CASE chunkRetry
    <2>1. Quiet
      BY <1>0, <1>2 DEF Quiet, chunkRetry, Splitting, client, faults
    <2> QED BY <2>1, QuietStep
  <1>3. CASE chunkFatal(chunk)
    <2>1. Quiet
      BY <1>0, <1>3 DEF Quiet, chunkFatal, Throw, Idle, Splitting
    <2> QED BY <2>1, QuietStep
  <1>4. CASE chunkSplit(chunk)
    <2> DEFINE mid == chunk.first + (chunk.last - chunk.first + 1) \div 2 - 1
               halves == << [from |-> 0, to |-> boundaries[mid],
                             first |-> chunk.first, last |-> mid],
                            [from |-> boundaries[mid], to |-> Len(bulkData),
                             first |-> mid + 1, last |-> chunk.last] >>
    <2>1. /\ chunks' = halves \o Tail(chunks)
          /\ chunk.first < chunk.last
          /\ UNCHANGED <<indexed, current, next, holder, lost, leftover>>
      BY <1>4 DEF chunkSplit, client, faults
    <2>2. mid \in 1 .. Len(boundaries)
      <3>1. ChunkShape(chunk)
        BY <1>0 DEF ChunksShaped
      <3>2. /\ chunk.first \in Nat /\ chunk.last \in Nat /\ Len(boundaries) \in Nat
            /\ 1 <= chunk.first /\ chunk.last <= Len(boundaries)
        BY <1>0, <3>1 DEF Chunk, ChunkShape, TypeOK
      <3> HIDE DEF chunk
      <3>3. mid \in Nat /\ chunk.first <= mid /\ mid < chunk.last
        BY ONLY <2>1, <3>2, Middle DEF mid
      <3> HIDE DEF mid
      <3> QED BY ONLY <3>2, <3>3
    <2> HIDE DEF mid, chunk, halves
    <2>3. /\ 1 \in DOMAIN chunks' /\ 2 \in DOMAIN chunks'
          /\ chunks'[1].from = 0 /\ chunks'[1].to = boundaries[mid]
          /\ chunks'[2].from = boundaries[mid] /\ chunks'[2].to = Len(bulkData)
      <3>1. Tail(chunks) \in Seq(Chunk)
        BY ONLY <1>0, TailMembers
      <3>2. /\ 1 \in DOMAIN chunks' /\ 2 \in DOMAIN chunks'
            /\ chunks'[1] = [from |-> 0, to |-> boundaries[mid],
                             first |-> chunk.first, last |-> mid]
            /\ chunks'[2] = [from |-> boundaries[mid], to |-> Len(bulkData),
                             first |-> mid + 1, last |-> chunk.last]
        BY ONLY <2>1, <3>1, TwoInFront DEF halves
      <3>3. chunks'[1].from = 0 /\ chunks'[1].to = boundaries[mid]
        BY ONLY <3>2
      <3>4. chunks'[2].from = boundaries[mid] /\ chunks'[2].to = Len(bulkData)
        BY ONLY <3>2
      <3> QED
        BY ONLY <3>2, <3>3, <3>4, Zenon
    <2>4. ChunksCover'
      <3> SUFFICES ASSUME NEW k \in DOMAIN bulkData
                   PROVE  \E j \in DOMAIN chunks' : k \in Within(chunks[j])'
        BY <1>0 DEF ChunksCover
      <3>1. k \in Nat /\ 0 < k /\ k \in DOMAIN bulkData'
        BY <1>0 DEF TypeOK
      <3>2. CASE k <= boundaries[mid]
        BY ONLY <2>3, <3>1, <3>2 DEF Within
      <3>3. CASE boundaries[mid] < k /\ k <= Len(bulkData)
        BY ONLY <2>3, <3>1, <3>3 DEF Within
      <3>4. k <= boundaries[mid] \/ (boundaries[mid] < k /\ k <= Len(bulkData))
        BY <2>2, CutCovers
      <3> QED
        BY <3>2, <3>3, <3>4
    <2>5. Secured' = Secured
      BY <1>0, <2>1 DEF Secured, Through, Elements
    <2> QED
      BY <1>0, <2>1, <2>4, <2>5
         DEF Safe, BoundariesExact, NotifySecured, Ops, AddedSecured, AckedIsSettled
  <1>5. CASE chunkTooLarge(chunk)
    <2>1. Quiet
      BY <1>0, <1>5 DEF Quiet, chunkTooLarge, Throw, Idle, Splitting, faults
    <2> QED BY <2>1, QuietStep
  <1> QED
    BY <1>1, <1>2, <1>3, <1>4, <1>5 DEF processBulkChunk

\* Every step keeps Safe.
LEMMA SafeStep == IInv /\ [Next]_vars => Safe'
  <1> SUFFICES ASSUME IInv, [Next]_vars PROVE Safe'
    OBVIOUS
  <1> USE DEF IInv
  <1>1. CASE Client \/ \E s \in Sessions : takeSession(s)
    BY <1>1, ClientStep
  <1>2. CASE postDeletes
    <2>1. CASE bulkData' # bulkData \/ leftover' # leftover \/ step' = "none"
      <3>1. /\ LoseBulk /\ bulkData' = <<>> /\ Throw /\ leftover' = Len(boundaries)
            /\ UNCHANGED <<notify, acked, indexed, boundaries>>
        BY <1>2, <2>1 DEF postDeletes, faults
      <3> QED
        BY <3>1, LoseStep
    <2>2. CASE ~(bulkData' # bulkData \/ leftover' # leftover \/ step' = "none")
      <3>1. UNCHANGED <<client, chunks, holder, faults>> /\ step' = "post"
        BY <1>2, <2>2 DEF postDeletes, Throw, Idle
      <3>2. Quiet
        BY <1>2, <2>2, <3>1 DEF Quiet, postDeletes, Splitting, client, faults
      <3> QED
        BY <3>2, QuietStep
    <2> QED
      BY <2>1, <2>2
  <1>3. CASE postBulk
    BY <1>3, PostStep
  <1>4. CASE noBulk
    <2>1. /\ bulkData = <<>> /\ bulkData' = <<>> /\ boundaries' = <<>> /\ leftover' = 0
          /\ UNCHANGED <<notify, acked, indexed, lost, current, next>> /\ step' = "none"
          /\ holder' = "client" => holder = "client"
      BY <1>4 DEF noBulk, clearBulk, Done, Idle, client, outside
    <2>2. Through' = Through /\ Secured' = Secured
      BY <2>1 DEF Secured, Through, Elements
    <2>3. BoundariesExact' /\ ChunksCover'
      BY <2>1 DEF BoundariesExact, ChunksCover, Splitting
    <2> QED
      BY <2>1, <2>2, <2>3
         DEF Safe, NotifySecured, Ops, AddedSecured, AckedIsSettled
  <1>5. CASE stopPosting
    <2>1. Quiet
      BY <1>5 DEF Quiet, stopPosting, Done, Idle, Splitting, bulk, client, outside, faults
    <2> QED BY <2>1, QuietStep
  <1>6. CASE wake
    <2>1. Quiet
      BY <1>6 DEF Quiet, wake, Splitting, bulk, client, outside, faults
    <2> QED BY <2>1, QuietStep
  <1>7. CASE processBulkChunk
    BY <1>7, ChunkStep
  <1>8. CASE endSplit
    <2>1. Elements(bulkData) \subseteq Through
      BY <1>8 DEF endSplit, Safe, ChunksCover, Splitting, Elements
    <2>2. /\ Through' = Through /\ fireNotify /\ clearBulk
          /\ UNCHANGED <<current, next>>
          /\ step' \in {"none", "post"}
          /\ holder' = "client" => holder = "client"
      BY <1>8 DEF endSplit, Done, Idle, client, Through
    <2> QED
      BY <2>1, <2>2, SentStep DEF Secured, Splitting
  <1>9. CASE bulkThread \/ flush
    <2>1. Quiet
      BY <1>9 DEF Quiet, bulkThread, flush, Begin, Splitting, bulk, client, outside, faults
    <2> QED BY <2>1, QuietStep
  <1>10. CASE destroy \/ setStopping \/ endBulkThread
    <2>1. Quiet
      BY <1>10 DEF Quiet, destroy, setStopping, endBulkThread, Splitting, bulk, client,
                   sending, outside, faults
    <2> QED BY <2>1, QuietStep
  <1>11. CASE UNCHANGED vars
    <2>1. Quiet
      BY <1>11 DEF Quiet, vars, Splitting, bulk, client, sending, outside, faults
    <2> QED BY <2>1, QuietStep
  <1> QED
    BY <1>1, <1>2, <1>3, <1>4, <1>5, <1>6, <1>7, <1>8, <1>9, <1>10, <1>11
       DEF Next, processBulk

\* An acknowledged operation is executed or was given up, and the boundaries cut
\* the bulk between two operations but for those left over: for any number of
\* sessions and items, any maximum of the bulk, and any sequence of flushes,
\* retries, failures and splits, the broken nested ones included.
THEOREM AcknowledgedIsSettled == Spec => [](AckedIsSettled /\ BoundariesExact)
  <1>1. Init => Safe
    BY DEF Init, Safe, BoundariesExact, ChunksCover, Splitting, NotifySecured,
           AddedSecured, AckedIsSettled
  <1>2. Init => TypeInv
    BY TypeInit
  <1>3. TypeInv /\ Safe /\ [Next]_vars => Safe'
    BY SafeStep DEF TypeInv, IInv
  <1>4. Safe => AckedIsSettled /\ BoundariesExact
    BY DEF Safe
  <1> QED
    BY <1>1, <1>2, <1>3, <1>4, TypeStep, PTL DEF Spec

\* Nothing is given up if no request fails for good.
LEMMA NothingGivenUp ==
    ASSUME Reliable, TypeOK, BoundariesExact, lost = {}, [Next]_vars
    PROVE  lost' = {}
  <1>1. CASE postDeletes
    BY <1>1 DEF postDeletes, Reliable, FailsForGood, faults
  <1>2. CASE postBulk
    <2>1. CASE Accepted
      BY <2>1 DEF Accepted, Executed, Reliable
    <2>2. CASE Fatal
      <3>1. bulkData = <<>>
        BY <2>2 DEF Fatal, Reliable, FailsForGood
      <3> QED
        <4>1. lost' = lost \cup Elements(bulkData)
          BY ONLY <2>2, Zenon DEF Fatal, LoseBulk
        <4>2. Elements(bulkData) = {}
          BY ONLY <3>1 DEF Elements
        <4> QED
          BY ONLY <4>1, <4>2, lost = {}
    <2>3. ~(Len(bulkData) > limit /\ Len(boundaries) <= 1)
      <3>1. limit \in Nat \ {0} /\ Len(bulkData) \in Nat /\ leftover \in Nat
        BY ConnectorAssumption DEF Reliable, TypeOK
      <3>2. Len(boundaries) = leftover + Len(bulkData)
        BY DEF BoundariesExact
      <3> QED
        BY ONLY <3>1, <3>2
    <2> QED
      BY <1>2, <2>1, <2>2, <2>3 DEF postBulk, Retry, splitAndProcessBulk, faults
  <1>3. CASE processBulkChunk
    <2>1. CASE chunkAccepted(Head(chunks))
      BY <2>1 DEF chunkAccepted, Executed, Reliable
    <2> QED
      BY <1>3, <2>1, Zenon
         DEF processBulkChunk, chunkRetry, chunkFatal, chunkSplit, chunkTooLarge, faults
  <1>4. CASE noBulk \/ stopPosting \/ wake \/ endSplit
    BY <1>4 DEF noBulk, stopPosting, wake, endSplit, faults
  <1>5. CASE Client \/ \E s \in Sessions : takeSession(s)
    BY <1>5 DEF Client, scopeLock, bulkIndex, bulkFull, rejectItem, registerNotify,
                takeSession, faults
  <1>6. CASE \/ bulkThread \/ flush \/ destroy \/ setStopping \/ endBulkThread
             \/ UNCHANGED vars
    BY <1>6 DEF bulkThread, flush, destroy, setStopping, endBulkThread, vars, faults
  <1> QED
    BY <1>1, <1>2, <1>3, <1>4, <1>5, <1>6 DEF Next, processBulk

\* If no request fails for good, no operation is refused alone and none is too
\* large by itself, a session is acknowledged with Ok only when the indexer has
\* executed all its operations.
THEOREM AcknowledgedIsIndexed ==
    ASSUME Reliable
    PROVE  Spec => []AckedIsIndexed
  <1>1. Init => lost = {}
    BY DEF Init
  <1>2. TypeOK /\ BoundariesExact /\ lost = {} /\ [Next]_vars => (lost = {})'
    BY NothingGivenUp
  <1>3. AckedIsSettled /\ lost = {} => AckedIsIndexed
    BY DEF AckedIsSettled, AckedIsIndexed
  <1> QED
    BY <1>1, <1>2, <1>3, TypeCorrect, AcknowledgedIsSettled, PTL DEF Spec

-----------------------------------------------------------------------------
(* The connector keeps the contract *)

\* What is handed over and not through.
Pending == Elements(bulkData) \ Through

\* A part of it goes through, or nothing.
Moves ==
    \E part \in SUBSET Pending :
        /\ Through' = Through \cup part
        /\ Pending' = Pending \ part

Contracted == [ContractStep]_<<Contract!connectorVars, acked, failed>>

\* Nothing goes through if the bulk and the indexer are left alone.
LEMMA QuietMoves ==
    ASSUME UNCHANGED <<bulkData, indexed, lost>>
    PROVE  Moves
  <1>1. Through' = Through /\ Pending' = Pending
    BY DEF Through, Pending, Elements
  <1> QED
    BY ONLY <1>1, Zenon DEF Moves

\* All goes through if the bulk is emptied once it is.
LEMMA AllMoves ==
    ASSUME bulkData' = <<>>, Through' = Secured
    PROVE  Moves
  <1>1. Pending' = {}
    BY DEF Pending, Elements
  <1>2. Through' = Through \cup Pending
    BY DEF Pending, Secured
  <1>3. /\ Pending \in SUBSET Pending
        /\ Pending' = Pending \ Pending
    BY ONLY <1>1
  <1> QED
    BY ONLY <1>2, <1>3, Zenon DEF Moves

\* A request for what is pending or a part of it, or nothing that is seen.
LEMMA RequestContracted ==
    ASSUME UNCHANGED <<current, Elements(notify), acked, failed>>, Moves
    PROVE  Contracted
  <1>1. PICK part \in SUBSET Pending : Through' = Through \cup part /\ Pending' = Pending \ part
    BY DEF Moves
  <1>2. CASE part = {}
    BY <1>1, <1>2 DEF Contracted, Contract!connectorVars, Pending
  <1>3. CASE part # {}
    <2>1. Contract!Request
      BY <1>1, <1>3 DEF Contract!Request, Contract!Execute, Pending
    <2> QED
      BY <2>1 DEF Contracted, ContractStep
  <1> QED
    BY <1>2, <1>3

\* A step that the queue does not see.
LEMMA QuietContracted ==
    ASSUME UNCHANGED <<bulkData, notify, indexed, lost, current, acked, failed>>
    PROVE  Contracted
  <1>1. Elements(notify)' = Elements(notify)
    BY DEF Elements
  <1> QED
    BY <1>1, QuietMoves, RequestContracted

\* An exception that leaves processBulk or the client: the client fails its session.
LEMMA ThrowContracted ==
    ASSUME TypeOK, Throw, UNCHANGED <<notify, acked>>, Moves
    PROVE  Contracted
  <1>1. Elements(notify)' = Elements(notify)
    BY DEF Elements
  <1>2. CASE holder = "client"
    <2>1. current # None /\ current' = None /\ failed' = failed \cup {current}
      BY <1>2 DEF Throw, TypeOK
    <2>2. Contract!GiveUp
      BY <1>1, <2>1 DEF Contract!GiveUp, Contract!Execute, Moves, Pending, None
    <2> QED
      BY <2>1, <2>2 DEF Contracted, ContractStep
  <1>3. CASE holder # "client"
    <2>1. UNCHANGED <<current, failed>>
      BY <1>3 DEF Throw, client
    <2> QED
      BY <1>1, <2>1, RequestContracted
  <1> QED
    BY <1>2, <1>3

\* It may throw the bulk away, which is then through as a whole.
LEMMA LoseContracted ==
    ASSUME TypeOK, LoseBulk, bulkData' = <<>>, UNCHANGED <<notify, acked, indexed>>, Throw
    PROVE  Contracted
  <1>1. Through' = Secured
    BY DEF LoseBulk, Through, Secured
  <1> QED
    BY <1>1, AllMoves, ThrowContracted

\* The bulk is through and all callbacks run.
LEMMA FireContracted ==
    ASSUME fireNotify, bulkData' = <<>>, Through' = Secured,
           UNCHANGED <<current, failed>>
    PROVE  Contracted
  <1>1. Elements(notify)' = {} /\ acked' = acked \cup Elements(notify)
    BY DEF fireNotify, Elements
  <1>2. CASE Elements(notify) # {}
    <2>1. Through' = Through \cup Pending /\ Pending' = {}
      BY DEF Secured, Pending, Elements
    <2>2. Contract!Acknowledge(Elements(notify))
      BY <1>1, <1>2, <2>1 DEF Contract!Acknowledge, Contract!Execute, Pending
    <2> QED
      BY <1>1, <2>2 DEF Contracted, ContractStep
  <1>3. CASE Elements(notify) = {}
    BY <1>1, <1>3, AllMoves, RequestContracted
  <1> QED
    BY <1>2, <1>3

\* The client takes a session, adds its items and registers the callback when
\* all are secured.
LEMMA ClientContracted ==
    ASSUME IInv, Client \/ \E s \in Sessions : takeSession(s)
    PROVE  Contracted
  <1> USE DEF IInv
  <1>1. ASSUME NEW s \in Sessions, takeSession(s) PROVE Contracted
    <2>1. /\ current = None /\ current' = s
          /\ UNCHANGED <<bulkData, notify, indexed, lost, acked, failed>>
      BY <1>1 DEF takeSession, outside, faults
    <2>2. Contract!Take(s)
      BY <2>1 DEF Contract!Take, None, Through, Elements
    <2> QED
      BY <2>1, <2>2 DEF Contracted, ContractStep
  <1>2. CASE scopeLock \/ bulkFull
    <2>1. UNCHANGED <<bulkData, notify, indexed, lost, current, acked, failed>>
      BY <1>2 DEF scopeLock, bulkFull, bulk, client, outside, faults
    <2> QED
      BY <2>1, QuietContracted
  <1>3. CASE bulkIndex
    <2> DEFINE op == <<current, next>>
    <2>1. /\ bulkData' = Append(bulkData, op) /\ current # None
          /\ UNCHANGED <<notify, indexed, lost, current, acked, failed>>
      BY <1>3 DEF bulkIndex, Adding, TypeOK, outside, faults
    <2>2. op \in Op /\ op \in Ops(current)
      BY <1>3, <2>1 DEF bulkIndex, TypeOK, Op, Ops
    <2>3. Elements(bulkData') = Elements(bulkData) \cup {op}
      <3>1. bulkData \in Seq(Op) /\ op \in Op
        BY <2>2 DEF TypeOK
      <3> HIDE DEF op
      <3>2. Elements(Append(bulkData, op)) = Elements(bulkData) \cup {op}
        BY ONLY <3>1, AppendElements
      <3> QED
        BY ONLY <2>1, <3>2, Zenon
    <2> HIDE DEF op
    <2>4. /\ Elements(bulkData)' = Elements(bulkData) \cup {op}
          /\ Through' = Through /\ Elements(notify)' = Elements(notify)
      BY <2>1, <2>3 DEF Through, Elements
    <2>5. CASE op \in Secured
      <3>1. Through' = Through /\ Pending' = Pending
        BY <2>4, <2>5 DEF Secured, Pending
      <3>2. Moves
        BY ONLY <3>1, Zenon DEF Moves
      <3> QED
        BY <2>1, <2>4, <3>2, RequestContracted
    <2>6. CASE op \notin Secured
      <3>1. /\ op \in Ops(current) \ (Pending \cup Through)
            /\ Pending' = Pending \cup {op}
        BY <2>2, <2>4, <2>6 DEF Secured, Pending
      <3>2. Contract!AddItem(Ops(current))
        BY <2>1, <2>4, <3>1 DEF Contract!AddItem, Pending, None
      <3> QED
        BY <2>1, <3>2 DEF Contracted, ContractStep
    <2> QED
      BY <2>5, <2>6
  <1>4. CASE rejectItem
    <2>1. Throw /\ UNCHANGED <<bulkData, notify, indexed, lost, acked>>
      BY <1>4 DEF rejectItem, bulk, outside, faults
    <2> QED
      BY <2>1, QuietMoves, ThrowContracted
  <1>5. CASE registerNotify
    <2>1. /\ notify' = Append(notify, current) /\ holder = "client" /\ next > Items
          /\ current # None /\ current' = None
          /\ UNCHANGED <<bulkData, indexed, lost, acked, failed>>
      BY <1>5 DEF registerNotify, Adding, TypeOK, outside, faults
    <2>2. Elements(notify)' = Elements(notify) \cup {current}
      <3>1. notify \in Seq(Sessions) /\ current \in Sessions
        BY <2>1 DEF TypeOK
      <3>2. Elements(Append(notify, current)) = Elements(notify) \cup {current}
        BY ONLY <3>1, AppendElements
      <3>3. Elements(notify)' = Elements(Append(notify, current))
        BY <2>1 DEF Elements
      <3> QED
        BY ONLY <3>2, <3>3, Zenon
    <2>3. Ops(current) \subseteq Secured
      BY <2>1, AllSecured
    <2>4. Through' = Through /\ Pending' = Pending
      BY ONLY <2>1, Zenon DEF Through, Pending, Elements
    <2>6. Secured = Pending \cup Through
      BY ONLY DEF Secured, Pending
    <2>5. Contract!Register(Ops(current))
      BY <2>1, <2>2, <2>3, <2>4, <2>6 DEF Contract!Register, Pending, None
    <2> QED
      BY <2>1, <2>5 DEF Contracted, ContractStep
  <1> QED
    BY <1>1, <1>2, <1>3, <1>4, <1>5 DEF Client

\* A request for the bulk.
LEMMA PostContracted ==
    ASSUME IInv, postBulk
    PROVE  Contracted
  <1> USE DEF IInv
  <1>1. CASE Accepted
    <2>1. /\ Executed(Elements(bulkData)) /\ fireNotify /\ bulkData' = <<>>
          /\ UNCHANGED <<current, failed>>
      BY <1>1 DEF Accepted, clearBulk, Done, client
    <2>2. Through' = Secured
      BY <2>1 DEF Executed, Through, Secured
    <2> QED
      BY <2>1, <2>2, FireContracted
  <1>2. CASE Retry \/ splitAndProcessBulk
    <2>1. UNCHANGED <<bulkData, notify, indexed, lost, current, acked, failed>>
      BY <1>2 DEF Retry, splitAndProcessBulk, bulk, client, faults
    <2> QED
      BY <2>1, QuietContracted
  <1>3. CASE Fatal \/ TooLarge
    BY <1>3, LoseContracted DEF Fatal, TooLarge, clearBulk
  <1> QED
    BY <1>1, <1>2, <1>3 DEF postBulk

\* A request for a chunk of it.
LEMMA ChunkContracted ==
    ASSUME IInv, processBulkChunk
    PROVE  Contracted
  <1> USE DEF IInv
  <1> DEFINE chunk == Head(chunks)
  <1>0. UNCHANGED <<bulkData, notify, acked>>
    BY DEF processBulkChunk, bulk
  <1>1. CASE chunkAccepted(chunk)
    <2> DEFINE part == {bulkData[k] : k \in Within(chunk)} \ Through
    <2>1. Through' = Through \cup part /\ UNCHANGED <<current, failed>>
      BY <1>1 DEF chunkAccepted, client, Executed, Through
    <2>2. part \in SUBSET Pending
      BY DEF Pending, Elements, Within
    <2> HIDE DEF part
    <2>3. Elements(bulkData)' = Elements(bulkData) /\ Elements(notify)' = Elements(notify)
      BY <1>0 DEF Elements
    <2>4. Pending' = Pending \ part
      BY <2>1, <2>3 DEF Pending
    <2>5. Moves
      BY <2>1, <2>2, <2>4 DEF Moves
    <2>6. UNCHANGED <<current, Elements(notify), acked, failed>>
      BY ONLY <1>0, <2>1, <2>3
    <2> QED
      BY ONLY <2>5, <2>6, RequestContracted, Zenon
  <1>2. CASE chunkRetry \/ chunkSplit(chunk)
    <2>1. UNCHANGED <<indexed, lost, current, failed>>
      BY <1>2, Zenon DEF chunkRetry, chunkSplit, client, faults
    <2> QED
      BY ONLY <1>0, <2>1, QuietContracted, Zenon
  <1>3. CASE chunkFatal(chunk) \/ chunkTooLarge(chunk)
    <2>1. Throw /\ UNCHANGED <<indexed, lost>>
      BY <1>3 DEF chunkFatal, chunkTooLarge, faults
    <2> QED
      BY <1>0, <2>1, QuietMoves, ThrowContracted
  <1> QED
    BY <1>1, <1>2, <1>3 DEF processBulkChunk

\* Every step of the connector is one of the contract, or is not seen.
LEMMA StepContracted == IInv /\ [Next]_vars => Contracted
  <1> SUFFICES ASSUME IInv, [Next]_vars PROVE Contracted
    OBVIOUS
  <1> USE DEF IInv
  <1>1. CASE postDeletes
    <2>1. CASE LoseBulk /\ bulkData' = <<>> /\ Throw
      BY <1>1, <2>1, LoseContracted DEF postDeletes
    <2>2. CASE UNCHANGED <<bulkData, client, holder, faults>>
      <3>1. UNCHANGED <<bulkData, notify, indexed, lost, current, acked, failed>>
        BY <1>1, <2>2 DEF postDeletes, client, faults
      <3> QED
        BY <3>1, QuietContracted
    <2> QED
      BY <1>1, <2>1, <2>2 DEF postDeletes
  <1>2. CASE noBulk
    <2>1. UNCHANGED <<bulkData, notify, indexed, lost, current, acked, failed>>
      BY <1>2 DEF noBulk, clearBulk, Done, client, outside
    <2> QED
      BY <2>1, QuietContracted
  <1>3. CASE endSplit
    <2>1. fireNotify /\ bulkData' = <<>> /\ UNCHANGED <<indexed, lost, current, failed>>
      BY <1>3 DEF endSplit, clearBulk, Done, client
    <2>2. Elements(bulkData) \subseteq Through
      BY <1>3 DEF endSplit, Safe, ChunksCover, Splitting, Elements
    <2>3. Through' = Secured
      BY <2>1, <2>2 DEF Through, Secured
    <2> QED
      BY <2>1, <2>3, FireContracted
  <1>4. CASE stopPosting \/ wake \/ bulkThread \/ flush
    <2>1. UNCHANGED <<bulk, client, outside, faults>>
      BY ONLY <1>4, Zenon DEF stopPosting, wake, bulkThread, flush, Done
    <2>2. UNCHANGED <<bulkData, notify, indexed, lost, current, acked, failed>>
      BY ONLY <2>1 DEF bulk, client, outside, faults
    <2> QED
      BY <2>2, QuietContracted
  <1>5. CASE destroy \/ setStopping \/ endBulkThread \/ UNCHANGED vars
    <2>1. UNCHANGED <<bulkData, notify, indexed, lost, current, acked, failed>>
      BY <1>5 DEF destroy, setStopping, endBulkThread, vars, bulk, client, outside, faults
    <2> QED
      BY <2>1, QuietContracted
  <1> QED
    BY <1>1, <1>2, <1>3, <1>4, <1>5, ClientContracted, PostContracted, ChunkContracted
       DEF Next, processBulk

\* The connector implements the contract that the facade is built on, for any
\* number of sessions and items, any maximum of the bulk, and any sequence of
\* flushes, retries, failures and splits; an operation that is given up counts as
\* executed in it.
THEOREM ConnectorKeepsContract == Spec => KeepsContract
  <1>1. Init => Contract!ConnectorInit
    BY DEF Init, Contract!ConnectorInit, Through, Elements, None
  <1>2. Init => TypeInv /\ Safe
    BY TypeInit DEF Init, Safe, BoundariesExact, ChunksCover, Splitting, NotifySecured,
       AddedSecured, AckedIsSettled
  <1>3. TypeInv /\ Safe /\ [Next]_vars => TypeInv' /\ Safe'
    BY TypeStep, SafeStep DEF TypeInv, IInv
  <1>4. TypeInv /\ Safe /\ [Next]_vars
          => [ContractStep]_<<Contract!connectorVars, acked, failed>>
    BY StepContracted DEF TypeInv, IInv, Contracted
  <1> QED
    BY <1>1, <1>2, <1>3, <1>4, PTL DEF Spec, KeepsContract

\* If no request fails for good, no operation is refused alone and none is too
\* large by itself, what counts as executed in the contract is what the indexer
\* has executed.
THEOREM ReliableConnector ==
    ASSUME Reliable
    PROVE  Spec => KeepsContract /\ [](Through = indexed)
  <1>1. Init => lost = {}
    BY DEF Init
  <1>2. TypeOK /\ BoundariesExact /\ lost = {} /\ [Next]_vars => (lost = {})'
    BY NothingGivenUp
  <1>3. lost = {} => Through = indexed
    BY DEF Through
  <1> QED
    BY <1>1, <1>2, <1>3, TypeCorrect, AcknowledgedIsSettled, ConnectorKeepsContract, PTL
       DEF Spec

=============================================================================
