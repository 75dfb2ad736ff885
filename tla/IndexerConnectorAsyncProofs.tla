--------------------- MODULE IndexerConnectorAsyncProofs ---------------------
(***************************************************************************)
(* The asynchronous connector of IndexerConnectorAsync, for every bulk     *)
(* size and any number of documents, faults and stops.                     *)
(***************************************************************************)
EXTENDS IndexerConnectorAsync, FiniteSetTheorems, FunctionTheorems, SequenceTheorems,
        TLAPS

\* The database d, with keys of mode m from f to l, holds the last s of the n
\* documents, in their order.
Holds(d, m, f, l, s, n) ==
    /\ f \in Nat \ {0} /\ l \in Nat /\ s \in Nat /\ n \in Nat
    /\ s = l - f + 1 /\ s <= n
    /\ DOMAIN d = {<<m, k>> : k \in f .. l}
    /\ \A k \in f .. l : d[<<m, k>>] = n - l + k

QueueHolds == Holds(db, m_legacyKeyMode, m_first, m_last, m_size, arrived)

\* The documents that have left the queue are 1 .. popped.
popped == arrived - m_size

remaining == IF worker = "pop" THEN left ELSE Len(data)

\* The bulk consists of consecutive documents; what remains of it is the head.
BulkHolds ==
    /\ remaining <= m_size /\ remaining <= Len(data) /\ remaining \in Nat
    /\ \A k \in 1 .. Len(data) : data[k] = popped - (Len(data) - remaining) + k
    /\ worker = "post" => Len(data) > 0
    /\ Len(data) <= ElementsPerBulk
    /\ worker \in {"idle", "ended"} => data = <<>>
    /\ worker # "pop" => left = 0

\* The processed documents are the first h, among them those that left and those
\* that are being popped.
PrefixUpTo(h) ==
    /\ processed = 1 .. h
    /\ popped <= h
    /\ worker = "pop" => popped + left <= h

PrefixProcessed == \E h \in 0 .. arrived : PrefixUpTo(h)

\* A document that is in the queue was indexed at most once per fault, and once more
\* if it is being popped.
Redelivery ==
    \A e \in 1 .. MaxEvents :
        /\ indexed[e] <= 1 + faults
        /\ e > popped /\ ~(worker = "pop" /\ e <= popped + left) =>
              indexed[e] <= faults

Inv == TypeOK /\ QueueHolds /\ BulkHolds /\ PrefixProcessed /\ Redelivery

-----------------------------------------------------------------------------
(* The database *)

LEMMA KeysEqual ==
    ASSUME NEW m, NEW k, NEW l, <<m, k>> = <<m, l>>
    PROVE  k = l
  OBVIOUS

Keys(m, S) == {<<m, k>> : k \in S}

LEMMA KeyNumbers ==
    ASSUME NEW m, NEW S
    PROVE  {key[2] : key \in Keys(m, S)} = S
  <1>1. ASSUME NEW key \in Keys(m, S) PROVE key[2] \in S
    BY DEF Keys
  <1>2. ASSUME NEW k \in S PROVE \E key \in Keys(m, S) : key[2] = k
    <2>1. <<m, k>> \in Keys(m, S) /\ <<m, k>>[2] = k
      BY DEF Keys
    <2>. QED  BY <2>1
  <1>. QED  BY <1>1, <1>2

LEMMA KeyCount ==
    ASSUME NEW m, NEW S, IsFiniteSet(S)
    PROVE  Cardinality(Keys(m, S)) = Cardinality(S)
  <1>. DEFINE f == [k \in S |-> <<m, k>>]
  <1>1. f \in [S -> Keys(m, S)]
    BY DEF Keys
  <1>2. \A a, b \in S : f[a] = f[b] => a = b
    BY KeysEqual
  <1>3. \A t \in Keys(m, S) : \E k \in S : f[k] = t
    BY DEF Keys
  <1>. HIDE DEF f
  <1>4. f \in Bijection(S, Keys(m, S))
    BY <1>1, <1>2, <1>3, Fun_IsBij
  <1>5. ExistsBijection(S, Keys(m, S))
    BY <1>4 DEF ExistsBijection
  <1>. QED  BY <1>5, FS_Bijection

LEMMA HoldsPush ==
    ASSUME NEW d, NEW m, NEW f, NEW l, NEW s, NEW n, Holds(d, m, f, l, s, n),
           NEW e, e = [key \in DOMAIN d \cup {<<m, l + 1>>} |->
                          IF key = <<m, l + 1>> THEN n + 1 ELSE d[key]]
    PROVE  Holds(e, m, f, l + 1, s + 1, n + 1)
  <1>1. f \in Nat \ {0} /\ l \in Nat /\ s \in Nat /\ n \in Nat /\ s = l - f + 1 /\ s <= n
    BY DEF Holds
  <1>2. f .. l + 1 = (f .. l) \cup {l + 1} /\ l + 1 \notin f .. l
    BY <1>1
  <1>3. DOMAIN e = {<<m, k>> : k \in f .. l + 1}
    BY <1>2 DEF Holds
  <1>4. \A k \in f .. l : e[<<m, k>>] = d[<<m, k>>]
    BY <1>2, <1>3, KeysEqual
  <1>5. e[<<m, l + 1>>] = n + 1
    BY <1>2, <1>3
  <1>6. ASSUME NEW k \in f .. l + 1
        PROVE  e[<<m, k>>] = (n + 1) - (l + 1) + k
    <2>1. \A j \in f .. l : e[<<m, j>>] = n - l + j
      BY <1>4 DEF Holds
    <2>2. CASE k \in f .. l
      BY <1>1, <2>1, <2>2
    <2>3. CASE k = l + 1
      BY <1>1, <1>5, <2>3
    <2>. QED  BY <1>2, <2>2, <2>3
  <1>. QED  BY <1>1, <1>3, <1>6 DEF Holds

LEMMA HoldsPop ==
    ASSUME NEW d, NEW m, NEW f, NEW l, NEW s, NEW n, Holds(d, m, f, l, s, n), s > 0,
           NEW e, e = [key \in DOMAIN d \ {<<m, f>>} |-> d[key]]
    PROVE  /\ s > 1 => Holds(e, m, f + 1, l, s - 1, n)
           /\ s = 1 => Holds(e, m, 1, 0, 0, n)
  <1>1. f \in Nat \ {0} /\ l \in Nat /\ s \in Nat /\ n \in Nat /\ s = l - f + 1 /\ s <= n
    BY DEF Holds
  <1>2. f .. l = (f + 1 .. l) \cup {f} /\ f \notin f + 1 .. l
    BY <1>1
  <1>3. DOMAIN e = {<<m, k>> : k \in f + 1 .. l}
    BY <1>2, KeysEqual DEF Holds
  <1>4. \A k \in f + 1 .. l : e[<<m, k>>] = n - l + k
    BY <1>2, <1>3 DEF Holds
  <1>5. s = 1 => f + 1 .. l = {} /\ 1 .. 0 = {}
    BY <1>1
  <1>6. s > 1 => Holds(e, m, f + 1, l, s - 1, n)
    BY <1>1, <1>3, <1>4 DEF Holds
  <1>7. s = 1 => Holds(e, m, 1, 0, 0, n)
    BY <1>1, <1>3, <1>5 DEF Holds
  <1>. QED  BY <1>6, <1>7

\* What the constructor counts is what the database holds.
LEMMA HoldsOpen ==
    ASSUME QueueHolds, m_legacyKeyMode \in BOOLEAN, RocksDBQueue, arrived' = arrived
    PROVE  QueueHolds' /\ m_size' = m_size
  <1>1. /\ m_first \in Nat \ {0} /\ m_last \in Nat /\ m_size \in Nat /\ arrived \in Nat
        /\ m_size = m_last - m_first + 1 /\ m_size <= arrived
        /\ DOMAIN db = {<<m_legacyKeyMode, k>> : k \in m_first .. m_last}
    BY DEF QueueHolds, Holds
  <1>2. /\ m_legacyKeyMode' = (\E key \in DOMAIN db : key[1])
        /\ m_size' = Cardinality(DOMAIN db) /\ db' = db
    BY DEF RocksDBQueue
  <1>6. DOMAIN db = Keys(m_legacyKeyMode, m_first .. m_last)
    BY <1>1 DEF Keys
  <1>3. Cardinality(DOMAIN db) = m_size
    <2>1. IsFiniteSet(m_first .. m_last) /\ Cardinality(m_first .. m_last) = m_size
      <3>1. m_first \in Int /\ m_last \in Int
        BY <1>1
      <3>2. /\ IsFiniteSet(m_first .. m_last)
            /\ Cardinality(m_first .. m_last)
                 = IF m_first > m_last THEN 0 ELSE m_last - m_first + 1
        BY <3>1, FS_Interval
      <3>. QED  BY <1>1, <3>2
    <2>. QED  BY <1>6, <2>1, KeyCount
  <1>4. CASE m_size = 0
    <2>1. DOMAIN db = {}
      BY <1>1, <1>4
    <2>2. m_first' = 1 /\ m_last' = 0
      BY <2>1 DEF RocksDBQueue
    <2>3. 1 .. 0 = {}
      OBVIOUS
    <2>. QED  BY <1>1, <1>2, <1>3, <1>4, <2>1, <2>2, <2>3 DEF QueueHolds, Holds
  <1>5. CASE m_size > 0
    <2>1. m_first \in m_first .. m_last /\ m_last \in m_first .. m_last
      BY <1>1, <1>5
    <2>2. DOMAIN db # {} /\ m_legacyKeyMode' = m_legacyKeyMode
      <3>1. <<m_legacyKeyMode, m_first>> \in DOMAIN db
        BY <1>1, <2>1
      <3>2. \A key \in DOMAIN db : key[1] = m_legacyKeyMode
        BY <1>1
      <3>3. (\E key \in DOMAIN db : key[1]) = m_legacyKeyMode
        <4>1. CASE m_legacyKeyMode = TRUE
          BY <3>1, <3>2, <4>1
        <4>2. CASE m_legacyKeyMode = FALSE
          BY <3>2, <4>2
        <4>. QED  BY <4>1, <4>2
      <3>. QED  BY <1>2, <3>1, <3>3
    <2>3. Numbers = m_first .. m_last
      BY <1>6, KeyNumbers DEF Numbers
    <2>4. Least(Numbers) = m_first
      BY <1>1, <2>1, <2>3 DEF Least
    <2>5. Greatest(Numbers) = m_last
      BY <1>1, <2>1, <2>3 DEF Greatest
    <2>6. m_first' = m_first /\ m_last' = m_last
      BY <2>2, <2>4, <2>5 DEF RocksDBQueue
    <2>. QED  BY <1>2, <1>3, <2>2, <2>6 DEF QueueHolds
  <1>. QED  BY <1>1, <1>4, <1>5

LEMMA HoldsKeys ==
    ASSUME QueueHolds, m_legacyKeyMode \in BOOLEAN
    PROVE  DOMAIN db \subseteq BOOLEAN \X Nat
  <1>1. /\ DOMAIN db = {<<m_legacyKeyMode, k>> : k \in m_first .. m_last}
        /\ m_first .. m_last \subseteq Nat
    BY DEF QueueHolds, Holds
  <1>. QED  BY <1>1

LEMMA Sizes ==
    ASSUME QueueHolds
    PROVE  /\ m_first \in Nat \ {0} /\ m_last \in Nat /\ m_size \in Nat
           /\ arrived \in Nat /\ m_size <= arrived /\ popped \in Nat
           /\ m_size = m_last - m_first + 1
  BY DEF QueueHolds, Holds, popped

\* The document at place k of the queue.
LEMMA HeadIs ==
    ASSUME QueueHolds, NEW k \in 1 .. m_size
    PROVE  /\ paddedKey(m_first + k - 1) \in DOMAIN db
           /\ db[paddedKey(m_first + k - 1)] = popped + k
  <1>1. m_first + k - 1 \in m_first .. m_last
    BY Sizes
  <1>2. db[paddedKey(m_first + k - 1)] = arrived - m_last + (m_first + k - 1)
    BY <1>1 DEF QueueHolds, Holds, paddedKey
  <1>3. paddedKey(m_first + k - 1) \in DOMAIN db
    BY <1>1 DEF QueueHolds, Holds, paddedKey
  <1>. QED  BY <1>2, <1>3, Sizes DEF popped

-----------------------------------------------------------------------------
(* The queue under every step *)

LEMMA QueueStep ==
    ASSUME TypeOK, QueueHolds, [Next]_vars
    PROVE  QueueHolds'
  <1>. USE DEF QueueHolds
  <1>1. CASE push
    <2>1. Holds(db', m_legacyKeyMode, m_first, m_last + 1, m_size + 1, arrived + 1)
      BY <1>1, HoldsPush DEF push, paddedKey
    <2>. QED  BY <1>1, <2>1 DEF push
  <1>2. CASE popNext
    <2>1. m_size > 0 /\ pop /\ arrived' = arrived /\ m_size \in Nat
      BY <1>2, Sizes DEF popNext
    <2>2. index = m_first
      <3>1. 1 \in 1 .. m_size /\ m_first + 1 - 1 = m_first
        BY <2>1, Sizes
      <3>. QED  BY <3>1, HeadIs DEF index, Stored
    <2>3. db' = [key \in DOMAIN db \ {<<m_legacyKeyMode, m_first>>} |-> db[key]]
      BY <2>1, <2>2 DEF pop, paddedKey
    <2>4. /\ m_size > 1 => Holds(db', m_legacyKeyMode, m_first + 1, m_last, m_size - 1,
                                 arrived)
          /\ m_size = 1 => Holds(db', m_legacyKeyMode, 1, 0, 0, arrived)
      BY ONLY QueueHolds, <2>1, <2>3, HoldsPop
    <2>5. CASE m_size = 1
      BY <2>1, <2>4, <2>5 DEF pop
    <2>6. CASE m_size > 1
      BY <2>1, <2>4, <2>6 DEF pop
    <2>. QED  BY <2>1, <2>5, <2>6
  <1>3. CASE startAgain \/ crash
    BY <1>3, HoldsOpen DEF startAgain, crash, open, TypeOK
  <1>4. CASE UNCHANGED <<queue, arrived>>
    BY <1>4 DEF queue
  <1>5. CASE functor
    <2>1. UNCHANGED <<queue, arrived>>
      BY <1>5 DEF functor, onSuccess, onTooLarge, onRetriable, onOtherError, retry, popBulk
    <2>. QED  BY <1>4, <2>1
  <1>6. CASE getBulk \/ popEnd \/ popFails \/ dispatchEnd
    BY <1>4, <1>6 DEF getBulk, popEnd, popFails, dispatchEnd
  <1>7. CASE stop \/ cancel \/ raiseLimit \/ UNCHANGED vars
    BY <1>4, <1>7 DEF stop, cancel, raiseLimit, vars
  <1>. QED  BY <1>1, <1>2, <1>3, <1>5, <1>6, <1>7 DEF Next, dispatch

-----------------------------------------------------------------------------
(* The bulk and the outcome *)

Rest == BulkHolds /\ PrefixProcessed /\ Redelivery

LEMMA QuietKeeps ==
    ASSUME Inv, UNCHANGED <<bulk, outcome, arrived, m_size, faults>>
    PROVE  Rest'
  <1>1. BulkHolds'
    BY DEF Inv, bulk, BulkHolds, remaining, popped
  <1>2. PrefixProcessed'
    BY DEF Inv, bulk, outcome, PrefixProcessed, PrefixUpTo, processed, popped
  <1>3. Redelivery'
    BY DEF Inv, bulk, outcome, Redelivery, popped
  <1>. QED  BY <1>1, <1>2, <1>3 DEF Rest

\* The bulk is let go; what it has left in the queue may be indexed once more if it
\* was being popped, which takes a fault.
LEMMA IdleKeeps ==
    ASSUME Inv, UNCHANGED <<outcome, arrived, m_size>>,
           worker' \in {"idle", "ended"}, data' = <<>>, left' = 0,
           faults' \in Nat, faults' >= faults,
           worker = "pop" /\ left > 0 => faults' >= faults + 1
    PROVE  Rest'
  <1>0. TypeOK /\ QueueHolds
    BY DEF Inv
  <1>1. BulkHolds'
    <2>1. remaining' = 0 /\ Len(data') = 0 /\ 1 .. Len(data') = {}
      BY DEF remaining
    <2>. QED  BY <1>0, <2>1, Sizes, AsyncAssumption DEF BulkHolds
  <1>2. PrefixProcessed'
    BY DEF Inv, outcome, PrefixProcessed, PrefixUpTo, processed, popped
  <1>3. Redelivery'
    <2>. SUFFICES ASSUME NEW e \in 1 .. MaxEvents
                  PROVE  /\ indexed[e] <= 1 + faults'
                         /\ e > popped => indexed[e] <= faults'
      BY DEF Redelivery, outcome, popped
    <2>1. indexed[e] \in Nat /\ faults \in Nat /\ left \in Nat
      BY <1>0, AsyncAssumption DEF TypeOK
    <2>2. popped \in Nat
      BY <1>0, Sizes
    <2>3. /\ indexed[e] <= 1 + faults
          /\ e > popped /\ ~(worker = "pop" /\ e <= popped + left) => indexed[e] <= faults
      BY DEF Inv, Redelivery
    <2>4. CASE worker = "pop" /\ left > 0
      BY <2>1, <2>3, <2>4
    <2>5. CASE ~(worker = "pop" /\ left > 0)
      BY <2>1, <2>2, <2>3, <2>5
    <2>. QED  BY <2>4, <2>5
  <1>. QED  BY <1>1, <1>2, <1>3 DEF Rest

\* The documents of a bulk that is being posted.
LEMMA DocumentsAre ==
    ASSUME QueueHolds, BulkHolds, data \in Seq(1 .. MaxEvents), worker = "post"
    PROVE  /\ Documents = popped + 1 .. popped + Len(data)
           /\ Len(data) \in Nat \ {0} /\ Len(data) <= m_size
  <1>1. Len(data) \in Nat /\ DOMAIN data = 1 .. Len(data)
    OBVIOUS
  <1>2. /\ remaining = Len(data) /\ Len(data) <= m_size /\ Len(data) > 0
        /\ \A k \in 1 .. Len(data) : data[k] = popped - (Len(data) - Len(data)) + k
    BY DEF BulkHolds, remaining
  <1>3. popped \in Nat
    BY Sizes
  <1>4. \A k \in 1 .. Len(data) : data[k] = popped + k
    BY <1>1, <1>2, <1>3
  <1>5. ASSUME NEW e \in popped + 1 .. popped + Len(data) PROVE e \in Documents
    <2>1. e - popped \in 1 .. Len(data) /\ popped + (e - popped) = e
      BY <1>1, <1>3
    <2>. QED  BY <1>1, <1>4, <2>1 DEF Documents
  <1>6. ASSUME NEW k \in 1 .. Len(data)
        PROVE  data[k] \in popped + 1 .. popped + Len(data)
    BY <1>1, <1>3, <1>4
  <1>. QED  BY <1>1, <1>2, <1>5, <1>6 DEF Documents

LEMMA ProcessedKeeps ==
    ASSUME Inv, worker = "post", worker' = "pop", left' = Len(data),
           UNCHANGED <<data, arrived, m_size, faults>>,
           processed' = processed \cup Documents,
           \A e \in 1 .. MaxEvents : indexed'[e] = indexed[e]
                  \/ (e \in Documents /\ indexed'[e] = indexed[e] + 1)
    PROVE  Rest'
  <1>0. TypeOK /\ QueueHolds /\ BulkHolds /\ Redelivery /\ PrefixProcessed
    BY DEF Inv
  <1>1. /\ Documents = popped + 1 .. popped + Len(data)
        /\ Len(data) \in Nat \ {0} /\ Len(data) <= m_size
    BY <1>0, DocumentsAre DEF TypeOK
  <1>2. popped' = popped /\ popped \in Nat /\ m_size \in Nat /\ arrived \in Nat
        /\ popped + m_size = arrived
    BY <1>0, Sizes DEF popped
  <1>3. BulkHolds'
    <2>1. remaining = Len(data) /\ remaining' = Len(data)
      BY DEF remaining
    <2>. QED  BY <1>0, <1>1, <1>2, <2>1 DEF BulkHolds
  <1>4. PrefixProcessed'
    <2>1. PICK h \in 0 .. arrived : PrefixUpTo(h)
      BY <1>0 DEF PrefixProcessed
    <2>2. PICK g \in 0 .. arrived :
                g = IF h >= popped + Len(data) THEN h ELSE popped + Len(data)
      <3>1. popped + Len(data) \in 0 .. arrived
        BY <1>1, <1>2
      <3>. QED  BY <3>1
    <2>3. processed' = 1 .. g
      <3>1. processed = 1 .. h /\ popped <= h
        BY <2>1 DEF PrefixUpTo
      <3>2. processed' = (1 .. h) \cup (popped + 1 .. popped + Len(data))
        BY <1>1, <3>1
      <3>3. CASE h >= popped + Len(data)
        BY <1>1, <1>2, <2>2, <3>2, <3>3
      <3>4. CASE h < popped + Len(data)
        BY <1>1, <1>2, <2>2, <3>1, <3>2, <3>4
      <3>5. h \in Nat /\ popped + Len(data) \in Nat
        BY <1>1, <1>2
      <3>. QED  BY <2>2, <3>3, <3>4, <3>5
    <2>4. PrefixUpTo(g)'
      BY <1>1, <1>2, <2>2, <2>3 DEF PrefixUpTo
    <2>. QED  BY <2>4 DEF PrefixProcessed
  <1>5. Redelivery'
    <2>. SUFFICES ASSUME NEW e \in 1 .. MaxEvents
                  PROVE  /\ indexed'[e] <= 1 + faults
                         /\ e > popped /\ ~(e <= popped + Len(data)) =>
                               indexed'[e] <= faults
      BY <1>2 DEF Redelivery
    <2>1. indexed[e] \in Nat /\ faults \in Nat
      BY <1>0, AsyncAssumption DEF TypeOK
    <2>2. /\ indexed[e] <= 1 + faults
          /\ e > popped => indexed[e] <= faults
      BY <1>0 DEF Redelivery
    <2>3. CASE e \in Documents /\ indexed'[e] = indexed[e] + 1
      BY <1>1, <1>2, <2>1, <2>2, <2>3
    <2>4. CASE indexed'[e] = indexed[e]
      BY <2>1, <2>2, <2>4
    <2>. QED  BY <2>3, <2>4
  <1>. QED  BY <1>3, <1>4, <1>5 DEF Rest

\* A document that is indexed counts as processed, and so does one that is given up.
LEMMA ProcessedIs ==
    ASSUME TypeOK, NEW docs \in SUBSET Documents, indexed' = Indexed(docs),
           givenUp' = givenUp \cup (Documents \ docs) \/ givenUp' = givenUp \cup Documents,
           Documents \subseteq 1 .. MaxEvents
    PROVE  /\ processed' = processed \cup Documents
           /\ \A e \in 1 .. MaxEvents : indexed'[e] = indexed[e]
                  \/ (e \in Documents /\ indexed'[e] = indexed[e] + 1)
           /\ indexed' \in [1 .. MaxEvents -> Nat]
           /\ givenUp' \subseteq 1 .. MaxEvents
  <1>1. \A e \in 1 .. MaxEvents : indexed[e] \in Nat
                /\ indexed'[e] = IF e \in docs THEN indexed[e] + 1 ELSE indexed[e]
    BY DEF Indexed, TypeOK
  <1>2. {e \in 1 .. MaxEvents : indexed'[e] > 0}
            = {e \in 1 .. MaxEvents : indexed[e] > 0} \cup docs
    <2>1. docs \subseteq 1 .. MaxEvents
      OBVIOUS
    <2>2. \A e \in 1 .. MaxEvents : indexed'[e] > 0 <=> indexed[e] > 0 \/ e \in docs
      BY <1>1
    <2>. QED  BY <2>1, <2>2
  <1>3. processed' = processed \cup Documents
    BY <1>2 DEF processed
  <1>4. indexed' \in [1 .. MaxEvents -> Nat]
    BY <1>1 DEF Indexed
  <1>5. givenUp' \subseteq 1 .. MaxEvents
    BY DEF TypeOK
  <1>. QED  BY <1>1, <1>3, <1>4, <1>5

LEMMA DocumentsTyped ==
    ASSUME TypeOK
    PROVE  Documents \subseteq 1 .. MaxEvents
  <1>1. \A k \in DOMAIN data : data[k] \in 1 .. MaxEvents
    BY ElementOfSeq, LenProperties DEF TypeOK
  <1>. QED  BY <1>1 DEF Documents

LEMMA PushKeeps ==
    ASSUME Inv, push
    PROVE  Rest'
  <1>0. TypeOK /\ QueueHolds /\ BulkHolds /\ Redelivery /\ PrefixProcessed
    BY DEF Inv
  <1>1. /\ arrived' = arrived + 1 /\ m_size' = m_size + 1 /\ worker' = worker
        /\ data' = data /\ left' = left /\ indexed' = indexed /\ givenUp' = givenUp
        /\ faults' = faults
    BY DEF push, bulk, outcome, counts
  <1>2. popped' = popped /\ m_size \in Nat /\ arrived \in Nat
    BY <1>0, <1>1, Sizes DEF popped
  <1>3. BulkHolds'
    <2>1. remaining' = remaining
      BY <1>1 DEF remaining
    <2>. QED  BY <1>0, <1>1, <1>2, <2>1 DEF BulkHolds
  <1>4. PrefixProcessed'
    <2>1. PICK h \in 0 .. arrived : PrefixUpTo(h)
      BY <1>0 DEF PrefixProcessed
    <2>2. PrefixUpTo(h)'
      BY <1>1, <1>2, <2>1 DEF PrefixUpTo, processed
    <2>3. h \in 0 .. arrived'
      BY <1>1, <1>2
    <2>. QED  BY <2>2, <2>3 DEF PrefixProcessed
  <1>5. Redelivery'
    BY <1>0, <1>1, <1>2 DEF Redelivery
  <1>. QED  BY <1>3, <1>4, <1>5 DEF Rest

\* The bulk that is read is the head of the queue.
LEMMA GetKeeps ==
    ASSUME Inv, getBulk
    PROVE  Rest' /\ data' \in Seq(1 .. MaxEvents)
  <1>0. TypeOK /\ QueueHolds /\ Redelivery /\ PrefixProcessed
    BY DEF Inv
  <1>1. /\ arrived' = arrived /\ m_size' = m_size /\ worker = "idle" /\ worker' = "post"
        /\ left' = left /\ indexed' = indexed /\ givenUp' = givenUp
        /\ faults' = faults /\ m_size > 0
    BY DEF getBulk, queue, outcome, counts
  <1>2. popped' = popped /\ m_size \in Nat /\ arrived \in Nat /\ popped \in Nat
        /\ popped + m_size = arrived
    BY <1>0, <1>1, Sizes DEF popped
  <1>. DEFINE n == IF m_size > m_bulkSize THEN m_bulkSize ELSE m_size
  <1>3. n \in Nat \ {0} /\ n <= m_size /\ n <= ElementsPerBulk
    BY <1>0, <1>1, <1>2, AsyncAssumption DEF TypeOK
  <1>4. data' \in frontQueue(n)
    BY DEF getBulk
  <1>. HIDE DEF n
  <1>5. \A k \in 1 .. n : Stored(m_first + k - 1)
                          /\ db[paddedKey(m_first + k - 1)] = popped + k
    <2>. SUFFICES ASSUME NEW k \in 1 .. n
                  PROVE  Stored(m_first + k - 1)
                         /\ db[paddedKey(m_first + k - 1)] = popped + k
      OBVIOUS
    <2>1. k \in 1 .. m_size
      BY <1>2, <1>3
    <2>. QED  BY <1>0, <2>1, HeadIs DEF Stored
  <1>6. data' = [k \in 1 .. n |-> db[paddedKey(m_first + k - 1)]]
    BY <1>4, <1>5 DEF frontQueue
  <1>7. \A k \in 1 .. n : data'[k] = popped + k
    BY <1>5, <1>6
  <1>8. data' \in Seq(1 .. MaxEvents) /\ Len(data') = n
    <2>1. \A k \in 1 .. n : popped + k \in 1 .. MaxEvents
      BY <1>0, <1>2, <1>3, AsyncAssumption DEF TypeOK
    <2>2. data' \in [1 .. n -> 1 .. MaxEvents]
      BY <1>6, <1>5, <2>1
    <2>3. data' \in Seq(1 .. MaxEvents)
      BY <1>3, <2>2, SeqDef
    <2>. QED  BY <1>3, <2>2, <2>3, LenProperties
  <1>9. BulkHolds'
    <2>1. remaining' = n
      BY <1>1, <1>8 DEF remaining
    <2>2. left' = 0
      BY <1>1 DEF Inv, BulkHolds
    <2>. QED  BY <1>1, <1>2, <1>3, <1>7, <1>8, <2>1, <2>2 DEF BulkHolds
  <1>10. PrefixProcessed'
    BY <1>0, <1>1, <1>2 DEF PrefixProcessed, PrefixUpTo, processed
  <1>11. Redelivery'
    BY <1>0, <1>1, <1>2 DEF Redelivery
  <1>. QED  BY <1>8, <1>9, <1>10, <1>11 DEF Rest

LEMMA PopKeeps ==
    ASSUME Inv, popNext
    PROVE  Rest'
  <1>0. TypeOK /\ QueueHolds /\ BulkHolds /\ Redelivery /\ PrefixProcessed
    BY DEF Inv
  <1>1. /\ arrived' = arrived /\ m_size' = m_size - 1 /\ worker = "pop" /\ worker' = "pop"
        /\ left' = left - 1 /\ data' = data /\ indexed' = indexed /\ givenUp' = givenUp
        /\ faults' = faults /\ m_size > 0 /\ left > 0
    BY DEF popNext, pop, outcome, counts
  <1>2. popped' = popped + 1 /\ m_size \in Nat /\ arrived \in Nat /\ popped \in Nat
        /\ left \in Nat /\ Len(data) \in Nat
    BY <1>0, <1>1, Sizes DEF popped, TypeOK
  <1>3. BulkHolds'
    <2>1. remaining = left /\ remaining' = left - 1
      BY <1>1 DEF remaining
    <2>. QED  BY <1>0, <1>1, <1>2, <2>1 DEF BulkHolds
  <1>4. PrefixProcessed'
    <2>1. PICK h \in 0 .. arrived : PrefixUpTo(h)
      BY <1>0 DEF PrefixProcessed
    <2>2. PrefixUpTo(h)'
      BY <1>1, <1>2, <2>1 DEF PrefixUpTo, processed
    <2>. QED  BY <1>1, <2>2 DEF PrefixProcessed
  <1>5. Redelivery'
    <2>. SUFFICES ASSUME NEW e \in 1 .. MaxEvents
                  PROVE  /\ indexed[e] <= 1 + faults
                         /\ e > popped + 1 /\ ~(e <= popped + 1 + (left - 1)) =>
                               indexed[e] <= faults
      BY <1>1, <1>2 DEF Redelivery
    <2>. QED  BY <1>0, <1>1, <1>2 DEF Redelivery
  <1>. QED  BY <1>3, <1>4, <1>5 DEF Rest

-----------------------------------------------------------------------------
(* The inductive invariant *)

LEMMA InvInit == Init => Inv
  <1>. SUFFICES ASSUME Init PROVE Inv
    OBVIOUS
  <1>1. /\ arrived \in Nat /\ m_first = 1 /\ m_last = arrived /\ m_size = arrived
        /\ arrived > 0 => m_legacyKeyMode = TRUE
        /\ m_legacyKeyMode \in BOOLEAN
    <2>1. arrived \in 0 .. MaxEvents /\ m_legacyKeyMode = (arrived > 0)
      BY DEF Init
    <2>2. m_legacyKeyMode \in BOOLEAN /\ (arrived > 0 => m_legacyKeyMode = TRUE)
      <3>1. CASE arrived > 0
        BY <2>1, <3>1
      <3>2. CASE ~(arrived > 0)
        BY <2>1, <3>2
      <3>. QED  BY <3>1, <3>2
    <2>. QED  BY <2>1, <2>2, AsyncAssumption DEF Init
  <1>2. db = [key \in {<<TRUE, k>> : k \in 1 .. arrived} |-> key[2]]
    BY DEF Init
  <1>3. {<<m_legacyKeyMode, k>> : k \in 1 .. arrived} = {<<TRUE, k>> : k \in 1 .. arrived}
    <2>1. CASE arrived > 0
      BY <1>1, <2>1
    <2>2. CASE arrived = 0
      <3>1. 1 .. arrived = {}
        BY <2>2
      <3>2. ASSUME NEW m PROVE {<<m, k>> : k \in 1 .. arrived} = {}
        BY <3>1
      <3>. QED  BY <3>2
    <2>3. arrived > 0 \/ arrived = 0
      BY <1>1
    <2>. QED  BY <2>1, <2>2, <2>3, Zenon
  <1>4. DOMAIN db = {<<m_legacyKeyMode, k>> : k \in 1 .. arrived}
    BY <1>2, <1>3
  <1>5. \A k \in 1 .. arrived : db[<<m_legacyKeyMode, k>>] = k
    <2>. SUFFICES ASSUME NEW k \in 1 .. arrived
                  PROVE  db[<<m_legacyKeyMode, k>>] = k
      OBVIOUS
    <2>1. m_legacyKeyMode = TRUE
      BY <1>1
    <2>2. <<TRUE, k>> \in DOMAIN db /\ <<TRUE, k>>[2] = k
      BY <1>2
    <2>. QED  BY <1>2, <2>1, <2>2
  <1>6. QueueHolds
    BY <1>1, <1>4, <1>5 DEF QueueHolds, Holds
  <1>7. TypeOK
    <2>1. DOMAIN db \subseteq BOOLEAN \X Nat
      BY <1>1, <1>6, HoldsKeys
    <2>2. /\ arrived \in 0 .. MaxEvents /\ limit \in 0 .. ElementsPerBulk
          /\ m_running \in BOOLEAN /\ m_canceled \in BOOLEAN
          /\ worker = "idle" /\ data \in Seq(1 .. MaxEvents) /\ left \in Nat
          /\ givenUp \subseteq 1 .. MaxEvents
      BY EmptySeq DEF Init
    <2>3. /\ m_bulkSize \in 1 .. ElementsPerBulk
          /\ m_successCount \in 0 .. MaxSuccessCount
          /\ indexed \in [1 .. MaxEvents -> Nat]
          /\ faults \in 0 .. MaxFaults /\ stops \in 0 .. MaxStops
      BY AsyncAssumption DEF Init
    <2>. QED  BY <1>1, <2>1, <2>2, <2>3 DEF TypeOK
  <1>8. popped = 0 /\ remaining = 0 /\ Len(data) = 0 /\ 1 .. Len(data) = {}
    BY <1>1 DEF Init, popped, remaining
  <1>9. BulkHolds
    BY <1>1, <1>8, AsyncAssumption DEF Init, BulkHolds
  <1>10. PrefixProcessed
    <2>1. processed = {} /\ 1 .. 0 = {}
      BY DEF Init, processed
    <2>2. PrefixUpTo(0) /\ 0 \in 0 .. arrived
      BY <1>1, <1>8, <2>1 DEF PrefixUpTo, Init
    <2>. QED  BY <2>2 DEF PrefixProcessed
  <1>11. Redelivery
    BY DEF Init, Redelivery
  <1>. QED  BY <1>6, <1>7, <1>9, <1>10, <1>11 DEF Inv

\* The two answers after which the bulk is popped.
LEMMA AnswerProcesses ==
    ASSUME TypeOK, onSuccess \/ onOtherError
    PROVE  /\ worker = "post" /\ worker' = "pop" /\ left' = Len(data)
           /\ UNCHANGED <<data, arrived, m_size, faults>>
           /\ processed' = processed \cup Documents
           /\ \A e \in 1 .. MaxEvents : indexed'[e] = indexed[e]
                  \/ (e \in Documents /\ indexed'[e] = indexed[e] + 1)
           /\ indexed' \in [1 .. MaxEvents -> Nat]
           /\ givenUp' \subseteq 1 .. MaxEvents
  <1>0. Documents \subseteq 1 .. MaxEvents
    BY DocumentsTyped
  <1>1. /\ worker = "post" /\ worker' = "pop" /\ left' = Len(data)
        /\ UNCHANGED <<data, arrived, m_size, faults>>
    BY DEF onSuccess, onOtherError, popBulk, queue, counts
  <1>2. \E docs \in SUBSET Documents :
            /\ indexed' = Indexed(docs)
            /\ \/ givenUp' = givenUp \cup (Documents \ docs)
               \/ givenUp' = givenUp \cup Documents
    <2>1. CASE onSuccess
      <3>1. PICK rejected \in SUBSET Documents :
                /\ indexed' = Indexed(Documents \ rejected)
                /\ givenUp' = givenUp \cup rejected
        BY <2>1 DEF onSuccess
      <3>2. Documents \ rejected \in SUBSET Documents
            /\ Documents \ (Documents \ rejected) = rejected
        OBVIOUS
      <3>. QED  BY <3>1, <3>2
    <2>2. CASE onOtherError
      <3>1. PICK docs \in {{}, Documents} : indexed' = Indexed(docs)
        BY <2>2 DEF onOtherError
      <3>2. givenUp' = givenUp \cup Documents
        BY <2>2 DEF onOtherError
      <3>. QED  BY <3>1, <3>2
    <2>. QED  BY <2>1, <2>2
  <1>3. /\ processed' = processed \cup Documents
        /\ \A e \in 1 .. MaxEvents : indexed'[e] = indexed[e]
               \/ (e \in Documents /\ indexed'[e] = indexed[e] + 1)
        /\ indexed' \in [1 .. MaxEvents -> Nat]
        /\ givenUp' \subseteq 1 .. MaxEvents
    BY <1>0, <1>2, ProcessedIs
  <1>. QED  BY <1>1, <1>3

LEMMA AnswerKeeps ==
    ASSUME Inv, onSuccess \/ onOtherError
    PROVE  /\ Rest' /\ indexed' \in [1 .. MaxEvents -> Nat]
           /\ givenUp' \subseteq 1 .. MaxEvents
  BY AnswerProcesses, ProcessedKeeps DEF Inv

LEMMA RestNext ==
    ASSUME Inv, [Next]_vars
    PROVE  Rest'
  <1>0. TypeOK /\ QueueHolds /\ BulkHolds /\ faults \in Nat /\ left \in Nat
    BY AsyncAssumption DEF Inv, TypeOK
  <1>1. CASE push
    BY <1>1, PushKeeps
  <1>2. CASE getBulk
    BY <1>2, GetKeeps
  <1>3. CASE onSuccess \/ onOtherError
    BY <1>3, AnswerKeeps
  <1>4. CASE onTooLarge \/ onRetriable
    <2>1. retry /\ worker = "post" /\ left = 0
      BY <1>0, <1>4 DEF onTooLarge, onRetriable, BulkHolds
    <2>. QED  BY <1>0, <2>1, IdleKeeps DEF retry, queue, counts
  <1>5. CASE popNext
    BY <1>5, PopKeeps
  <1>6. CASE popEnd
    <2>1. left <= m_size /\ m_size \in Nat
      BY <1>0, <1>6, Sizes DEF popEnd, BulkHolds, remaining
    <2>2. left = 0
      BY <1>0, <1>6, <2>1 DEF popEnd
    <2>. QED  BY <1>0, <1>6, <2>2, IdleKeeps DEF popEnd, queue, counts
  <1>7. CASE popFails
    BY <1>0, <1>7, IdleKeeps DEF popFails, queue
  <1>8. CASE dispatchEnd
    <2>1. data = <<>> /\ left = 0
      BY <1>0, <1>8 DEF dispatchEnd, BulkHolds
    <2>. QED  BY <1>0, <1>8, <2>1, IdleKeeps DEF dispatchEnd, queue, counts
  <1>9. CASE startAgain \/ crash
    <2>1. open /\ m_size' = m_size /\ arrived' = arrived
      BY <1>0, <1>9, HoldsOpen DEF startAgain, crash, open, TypeOK
    <2>2. /\ worker' = "idle" /\ data' = <<>> /\ left' = 0 /\ UNCHANGED outcome
      BY <2>1 DEF open
    <2>3. faults' \in Nat /\ faults' >= faults /\ (worker = "pop" => faults' >= faults + 1)
      BY <1>0, <1>9 DEF startAgain, crash
    <2>. QED  BY <2>1, <2>2, <2>3, IdleKeeps
  <1>10. CASE stop \/ cancel \/ raiseLimit \/ UNCHANGED vars
    BY <1>10, QuietKeeps DEF stop, cancel, raiseLimit, vars, queue, counts
  <1>. QED  BY <1>1, <1>2, <1>3, <1>4, <1>5, <1>6, <1>7, <1>8, <1>9, <1>10
            DEF Next, dispatch, functor

LEMMA TypeNext ==
    ASSUME Inv, [Next]_vars, QueueHolds'
    PROVE  TypeOK'
  <1>0. TypeOK
    BY DEF Inv
  <1>1. m_legacyKeyMode' \in BOOLEAN
    <2>1. CASE startAgain \/ crash
      BY <2>1 DEF startAgain, crash, open, RocksDBQueue
    <2>2. CASE push \/ getBulk \/ functor \/ popEnd \/ popFails \/ dispatchEnd
      BY <1>0, <2>2 DEF push, getBulk, functor, onSuccess, onTooLarge, onRetriable,
            onOtherError, retry, popBulk, popEnd, popFails, dispatchEnd, queue, TypeOK
    <2>3. CASE popNext \/ stop \/ cancel \/ raiseLimit \/ UNCHANGED vars
      BY <1>0, <2>3 DEF popNext, pop, stop, cancel, raiseLimit, vars, queue, TypeOK
    <2>. QED  BY <2>1, <2>2, <2>3 DEF Next, dispatch
  <1>2. /\ DOMAIN db' \subseteq BOOLEAN \X Nat
        /\ m_first' \in Nat \ {0} /\ m_last' \in Nat /\ m_size' \in Nat
    <2>1. /\ DOMAIN db' = {<<m_legacyKeyMode', k>> : k \in m_first' .. m_last'}
          /\ m_first' \in Nat \ {0} /\ m_last' \in Nat /\ m_size' \in Nat
      BY DEF QueueHolds, Holds
    <2>2. m_first' .. m_last' \subseteq Nat
      BY <2>1
    <2>. QED  BY <1>1, <2>1, <2>2
  <1>. DEFINE T ==
        /\ arrived' \in 0 .. MaxEvents
        /\ m_running' \in BOOLEAN /\ m_canceled' \in BOOLEAN
        /\ m_bulkSize' \in 1 .. ElementsPerBulk /\ m_successCount' \in 0 .. MaxSuccessCount
        /\ worker' \in {"idle", "post", "pop", "ended"}
        /\ data' \in Seq(1 .. MaxEvents) /\ left' \in Nat
        /\ limit' \in 0 .. ElementsPerBulk
        /\ indexed' \in [1 .. MaxEvents -> Nat] /\ givenUp' \subseteq 1 .. MaxEvents
        /\ faults' \in 0 .. MaxFaults /\ stops' \in 0 .. MaxStops
  <1>. SUFFICES T
    BY <1>1, <1>2 DEF TypeOK
  <1>. USE AsyncAssumption
  <1>3. CASE push
    BY <1>0, <1>3 DEF push, flags, sizes, bulk, outcome, counts, TypeOK
  <1>4. CASE getBulk
    <2>1. data' \in Seq(1 .. MaxEvents)
      BY <1>4, GetKeeps
    <2>. QED  BY <1>0, <1>4, <2>1 DEF getBulk, flags, sizes, outcome, counts, TypeOK
  <1>5. CASE onSuccess \/ onOtherError
    <2>1. indexed' \in [1 .. MaxEvents -> Nat] /\ givenUp' \subseteq 1 .. MaxEvents
      BY <1>5, AnswerKeeps
    <2>2. popBulk
      BY <1>5 DEF onSuccess, onOtherError
    <2>3. m_bulkSize' \in 1 .. ElementsPerBulk /\ m_successCount' \in 0 .. MaxSuccessCount
      BY <1>0, <1>5 DEF onSuccess, onOtherError, sizes, TypeOK
    <2>4. Len(data) \in Nat
      BY <1>0, LenProperties DEF TypeOK
    <2>. QED  BY <1>0, <2>1, <2>2, <2>3, <2>4 DEF popBulk, flags, counts, TypeOK
  <1>6. CASE onTooLarge \/ onRetriable
    <2>1. retry
      BY <1>6 DEF onTooLarge, onRetriable
    <2>2. m_bulkSize' \in 1 .. ElementsPerBulk /\ m_successCount' \in 0 .. MaxSuccessCount
      <3>1. CASE UNCHANGED sizes
        BY <1>0, <3>1 DEF sizes, TypeOK
      <3>2. CASE onTooLarge /\ m_bulkSize' = Len(data) \div 2 /\ m_successCount' = 0
                 /\ ~(Len(data) \div 2 < 1)
        <4>1. Len(data) \in Nat /\ Len(data) <= ElementsPerBulk
          BY <1>0, LenProperties DEF Inv, TypeOK, BulkHolds
        <4>2. Len(data) \div 2 \in Nat /\ Len(data) \div 2 <= Len(data)
          BY <4>1
        <4>. QED  BY <1>0, <3>2, <4>1, <4>2 DEF TypeOK
      <3>. QED  BY <1>6, <3>1, <3>2 DEF onTooLarge, onRetriable
    <2>. QED  BY <1>0, <2>1, <2>2 DEF retry, flags, outcome, counts, TypeOK
  <1>7. CASE popNext
    BY <1>0, <1>7 DEF popNext, flags, sizes, outcome, counts, TypeOK
  <1>8. <<>> \in Seq(1 .. MaxEvents)
    BY EmptySeq
  <1>9. CASE popEnd
    BY <1>0, <1>8, <1>9 DEF popEnd, flags, sizes, outcome, counts, TypeOK
  <1>10. CASE popFails
    BY <1>0, <1>8, <1>10 DEF popFails, flags, sizes, outcome, TypeOK
  <1>11. CASE dispatchEnd
    BY <1>0, <1>11 DEF dispatchEnd, flags, sizes, outcome, counts, TypeOK
  <1>12. CASE stop
    <2>1. m_running' \in BOOLEAN
      BY <1>12, Zenon DEF stop
    <2>2. stops' \in 0 .. MaxStops
      BY <1>0, <1>12 DEF stop, TypeOK
    <2>3. UNCHANGED <<m_canceled, sizes, bulk, limit, arrived, outcome, faults>>
      BY <1>12 DEF stop
    <2>. QED  BY <1>0, <2>1, <2>2, <2>3 DEF sizes, bulk, outcome, TypeOK
  <1>13. CASE cancel
    BY <1>0, <1>13 DEF cancel, sizes, bulk, outcome, counts, TypeOK
  <1>14. CASE startAgain \/ crash
    <2>1. faults' \in 0 .. MaxFaults
      BY <1>0, <1>14 DEF startAgain, crash, TypeOK
    <2>2. open
      BY <1>14 DEF startAgain, crash
    <2>3. m_running' \in BOOLEAN /\ m_canceled' \in BOOLEAN
      BY <2>2, Zenon DEF open
    <2>4. /\ m_bulkSize' = ElementsPerBulk /\ m_successCount' = 0
          /\ worker' = "idle" /\ data' = <<>> /\ left' = 0
          /\ UNCHANGED <<limit, arrived, outcome, stops>>
      BY <2>2 DEF open
    <2>. QED  BY <1>0, <1>8, <2>1, <2>3, <2>4 DEF outcome, TypeOK
  <1>15. CASE raiseLimit
    BY <1>0, <1>15 DEF raiseLimit, flags, sizes, bulk, outcome, counts, TypeOK
  <1>16. CASE UNCHANGED vars
    BY <1>0, <1>16 DEF vars, flags, sizes, bulk, outcome, counts, TypeOK
  <1>. QED  BY <1>3, <1>4, <1>5, <1>6, <1>7, <1>9, <1>10, <1>11, <1>12, <1>13, <1>14,
               <1>15, <1>16
            DEF Next, dispatch, functor

LEMMA InvNext == Inv /\ [Next]_vars => Inv'
  <1>. SUFFICES ASSUME Inv, [Next]_vars PROVE Inv'
    OBVIOUS
  <1>1. QueueHolds'
    BY QueueStep DEF Inv
  <1>2. TypeOK' /\ Rest'
    BY <1>1, TypeNext, RestNext
  <1>. QED  BY <1>1, <1>2 DEF Inv, Rest

-----------------------------------------------------------------------------
(* The properties *)

\* indexerConnectorAsyncImpl.hpp: the halving stops at one and the indices stay
\* natural numbers.
THEOREM SizesBounded == Spec => []TypeOK
  <1>1. Inv => TypeOK
    BY DEF Inv
  <1>. QED  BY <1>1, InvInit, InvNext, PTL DEF Spec

\* rocksDBQueue.hpp: the counters and the keys agree, through every crash.
THEOREM QueueStaysContiguous == Spec => []QueueContiguous
  <1>1. Inv => QueueContiguous
    BY DEF Inv, QueueHolds, Holds, QueueContiguous, paddedKey
  <1>. QED  BY <1>1, InvInit, InvNext, PTL DEF Spec

\* threadEventDispatcher.hpp: popBulk removes the elements that the functor was given.
THEOREM PoppedIsPosted == Spec => []BulkIsHead
  <1>1. Inv => BulkIsHead
    <2>. SUFFICES ASSUME Inv PROVE BulkIsHead
      OBVIOUS
    <2>0. QueueHolds /\ BulkHolds /\ Len(data) \in Nat
      BY LenProperties DEF Inv, TypeOK
    <2>1. remaining <= m_size /\ remaining \in Nat /\ remaining <= Len(data)
          /\ m_size \in Nat /\ popped \in Nat
      BY <2>0, Sizes DEF BulkHolds
    <2>2. ASSUME NEW k \in 1 .. remaining
          PROVE  data[Len(data) - remaining + k] = db[paddedKey(m_first + k - 1)]
      <3>1. k \in 1 .. m_size /\ Len(data) - remaining + k \in 1 .. Len(data)
        BY <2>0, <2>1
      <3>2. data[Len(data) - remaining + k] = popped + k
        BY <2>0, <2>1, <3>1 DEF BulkHolds
      <3>3. db[paddedKey(m_first + k - 1)] = popped + k
        BY <2>0, <3>1, HeadIs
      <3>. QED  BY <3>2, <3>3
    <2>. QED  BY <2>1, <2>2 DEF BulkIsHead, remaining
  <1>. QED  BY <1>1, InvInit, InvNext, PTL DEF Spec

\* threadEventDispatcher.hpp: a document is indexed again only after a fault.
THEOREM FewRedeliveries == Spec => []RedeliveryBounded
  <1>1. Inv => RedeliveryBounded
    BY DEF Inv, Redelivery, RedeliveryBounded
  <1>. QED  BY <1>1, InvInit, InvNext, PTL DEF Spec

-----------------------------------------------------------------------------
(* The connector implements EventDelivery *)

LEMMA Contents ==
    ASSUME NEW d, NEW m, NEW f, NEW l, NEW s, NEW n, Holds(d, m, f, l, s, n)
    PROVE  {d[key] : key \in DOMAIN d} = n - s + 1 .. n
  <1>1. s \in Nat /\ n \in Nat /\ f \in Nat /\ l \in Nat /\ s = l - f + 1
    BY DEF Holds
  <1>2. /\ DOMAIN d = {<<m, k>> : k \in f .. l}
        /\ \A k \in f .. l : d[<<m, k>>] = n - l + k
    BY DEF Holds
  <1>3. {d[key] : key \in DOMAIN d} = {n - l + k : k \in f .. l}
    BY <1>2
  <1>4. ASSUME NEW e \in n - s + 1 .. n
        PROVE  \E k \in f .. l : n - l + k = e
    <2>1. e - n + l \in f .. l /\ n - l + (e - n + l) = e
      BY <1>1
    <2>. QED  BY <2>1
  <1>5. ASSUME NEW k \in f .. l
        PROVE  n - l + k \in n - s + 1 .. n
    BY <1>1
  <1>. QED  BY <1>3, <1>4, <1>5

LEMMA WaitingIs ==
    ASSUME QueueHolds
    PROVE  waiting = popped + 1 .. arrived
  <1>1. Holds(db, m_legacyKeyMode, m_first, m_last, m_size, arrived)
    BY DEF QueueHolds
  <1>. QED  BY ONLY <1>1, Contents DEF waiting, popped

LEMMA NextWaitingIs ==
    ASSUME QueueHolds'
    PROVE  waiting' = popped' + 1 .. arrived'
  <1>1. Holds(db', m_legacyKeyMode', m_first', m_last', m_size', arrived')
    BY DEF QueueHolds
  <1>. QED  BY ONLY <1>1, Contents DEF waiting, popped

LEMMA StepDelivers ==
    ASSUME Inv, Inv', [Next]_vars
    PROVE  [Abstract!Next]_(Abstract!vars)
  <1>0. TypeOK /\ QueueHolds /\ BulkHolds /\ PrefixProcessed /\ QueueHolds'
    BY DEF Inv
  <1>1. /\ waiting = popped + 1 .. arrived
        /\ waiting' = popped' + 1 .. arrived'
        /\ popped \in Nat /\ arrived \in Nat /\ m_size \in Nat /\ popped + m_size = arrived
    BY <1>0, WaitingIs, NextWaitingIs, Sizes DEF popped
  <1>2. ASSUME UNCHANGED <<popped, arrived, outcome>>
        PROVE  UNCHANGED Abstract!vars
    BY <1>1, <1>2 DEF Abstract!vars, processed, outcome
  <1>3. CASE push
    <2>1. arrived' = arrived + 1 /\ popped' = popped /\ processed' = processed
      BY <1>1, <1>3 DEF push, popped, processed, outcome
    <2>2. waiting' = waiting \cup {arrived + 1}
      BY <1>1, <2>1
    <2>. QED  BY <2>1, <2>2 DEF Abstract!Next, Abstract!Store
  <1>4. CASE onSuccess \/ onOtherError
    <2>1. /\ worker = "post" /\ UNCHANGED <<data, arrived, m_size>>
          /\ processed' = processed \cup Documents
      BY <1>4, AnswerProcesses DEF Inv
    <2>2. /\ Documents = popped + 1 .. popped + Len(data)
          /\ Len(data) \in Nat \ {0} /\ Len(data) <= m_size
      BY <1>0, <2>1, DocumentsAre DEF TypeOK
    <2>3. waiting' = waiting
      BY <1>1, <2>1 DEF popped
    <2>4. /\ popped + Len(data) \in waiting
          /\ Documents = {w \in waiting : w <= popped + Len(data)}
      BY <1>1, <2>2
    <2>. QED  BY <2>1, <2>3, <2>4 DEF Abstract!Next, Abstract!Process
  <1>5. CASE popNext
    <2>1. /\ arrived' = arrived /\ m_size' = m_size - 1 /\ worker = "pop" /\ left > 0
          /\ m_size > 0 /\ processed' = processed
      BY <1>5 DEF popNext, pop, processed, outcome
    <2>2. popped' = popped + 1
      BY <1>1, <2>1 DEF popped
    <2>3. /\ popped + 1 \in waiting /\ \A w \in waiting : popped + 1 <= w
          /\ waiting' = waiting \ {popped + 1}
      BY <1>1, <2>1, <2>2
    <2>4. popped + 1 \in processed
      <3>1. PICK h \in 0 .. arrived : PrefixUpTo(h)
        BY <1>0 DEF PrefixProcessed
      <3>2. processed = 1 .. h /\ popped + left <= h /\ left \in Nat
        BY <1>0, <2>1, <3>1 DEF PrefixUpTo, TypeOK
      <3>. QED  BY <1>1, <2>1, <3>2
    <2>. QED  BY <2>1, <2>3, <2>4 DEF Abstract!Next, Abstract!Remove
  <1>6. CASE startAgain \/ crash
    <2>1. m_size' = m_size /\ arrived' = arrived /\ UNCHANGED outcome
      BY <1>0, <1>6, HoldsOpen DEF startAgain, crash, open, TypeOK
    <2>. QED  BY <1>2, <2>1 DEF popped
  <1>7. CASE onTooLarge \/ onRetriable
    BY <1>2, <1>7 DEF onTooLarge, onRetriable, retry, queue, popped
  <1>8. CASE getBulk \/ popEnd \/ popFails \/ dispatchEnd
    BY <1>2, <1>8 DEF getBulk, popEnd, popFails, dispatchEnd, queue, popped
  <1>9. CASE stop \/ cancel \/ raiseLimit \/ UNCHANGED vars
    BY <1>2, <1>9 DEF stop, cancel, raiseLimit, vars, queue, popped
  <1>. QED  BY <1>3, <1>4, <1>5, <1>6, <1>7, <1>8, <1>9 DEF Next, dispatch, functor

\* indexerConnectorAsyncImpl.hpp: for every bulk size, and across crashes, the
\* connector is an implementation of EventDelivery: it processes in order and at
\* least once.
THEOREM ConnectorDelivers == Spec => Delivers
  <1>1. Init => Abstract!Init
    <2>. SUFFICES ASSUME Init PROVE Abstract!Init
      OBVIOUS
    <2>1. Inv
      BY InvInit
    <2>2. arrived \in Nat /\ popped = 0
      BY <2>1, Sizes DEF Init, Inv, popped
    <2>3. waiting = 1 .. arrived
      BY <2>1, <2>2, WaitingIs DEF Inv
    <2>4. processed = {}
      BY DEF Init, processed
    <2>. QED  BY <2>2, <2>3, <2>4 DEF Abstract!Init
  <1>. QED  BY <1>1, InvInit, InvNext, StepDelivers, PTL DEF Spec, Delivers, Abstract!Spec
=============================================================================
