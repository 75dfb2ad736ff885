------------------------- MODULE ClientBufferProofs -------------------------
(***************************************************************************)
(* The event buffer of ClientBuffer, for every queue size, every pair of   *)
(* levels and any number of events.                                        *)
(***************************************************************************)
EXTENDS ClientBuffer, TLAPS

\* The message being sent is the one that was in the slot just behind j; without
\* the buffer the ring stays empty.
Flight ==
    /\ dispatcher # "empty" => msg_to_dispatch # NULL /\ j = forward(original_j)
    /\ dispatcher = "empty" => msg_to_dispatch = NULL
    /\ ~enabled => i = j /\ dispatcher = "empty" /\ state = "NORMAL"

\* At most one message is past os_wait when the lock is set.
Outage == waiting => attempts = 0 \/ (attempts = 1 /\ dispatcher # "send")

RingInv == TypeOK /\ Flight /\ RingIntact

Inv == RingInv /\ EveryEventOnce /\ SentInOrder

USE DEF NULL

-----------------------------------------------------------------------------
(* The arithmetic of the ring *)

LEMMA ModSmall ==
    ASSUME NEW n \in Nat \ {0}, NEW x \in 0 .. n - 1
    PROVE  x % n = x
  OBVIOUS

LEMMA ModNegative ==
    ASSUME NEW n \in Nat \ {0}, NEW x \in (-n) .. (-1)
    PROVE  x % n = x + n
  OBVIOUS

LEMMA ModSelf ==
    ASSUME NEW n \in Nat \ {0}
    PROVE  n % n = 0
  OBVIOUS

LEMMA Size == QueueSize \in Nat \ {0}
  BY BufferAssumption

\* The next slot of a ring of queue_size + 1 slots, the distance from slot l to
\* slot k, and the slots from b up to a.
Successor(k) == IF k = QueueSize THEN 0 ELSE k + 1

Distance(k, l) == IF k >= l THEN k - l ELSE k - l + QueueSize + 1

Window(a, b) == {k \in 0 .. QueueSize : Distance(k, b) < Distance(a, b)}

LEMMA SuccessorIs ==
    ASSUME NEW k \in 0 .. QueueSize
    PROVE  (k + 1) % (QueueSize + 1) = Successor(k)
  <1>1. QueueSize + 1 \in Nat \ {0}
    BY Size
  <1>2. CASE k = QueueSize
    BY <1>1, <1>2, ModSelf DEF Successor
  <1>3. CASE k # QueueSize
    <2>1. k + 1 \in 0 .. (QueueSize + 1) - 1
      BY <1>3, Size
    <2>. QED  BY <1>1, <1>3, <2>1, ModSmall DEF Successor
  <1>. QED  BY <1>2, <1>3

LEMMA DistanceIs ==
    ASSUME NEW k \in 0 .. QueueSize, NEW l \in 0 .. QueueSize
    PROVE  (k - l) % (QueueSize + 1) = Distance(k, l)
  <1>1. QueueSize + 1 \in Nat \ {0}
    BY Size
  <1>2. CASE k >= l
    <2>1. k - l \in 0 .. (QueueSize + 1) - 1
      BY <1>2, Size
    <2>. QED  BY <1>1, <1>2, <2>1, ModSmall DEF Distance
  <1>3. CASE ~(k >= l)
    <2>1. k - l \in (-(QueueSize + 1)) .. (-1)
      BY <1>3, Size
    <2>2. (k - l) % (QueueSize + 1) = (k - l) + (QueueSize + 1)
      BY <1>1, <2>1, ModNegative
    <2>. QED  BY <1>3, <2>2, Size DEF Distance
  <1>. QED  BY <1>2, <1>3

LEMMA DistanceBounded ==
    ASSUME NEW k \in 0 .. QueueSize, NEW l \in 0 .. QueueSize
    PROVE  Distance(k, l) \in 0 .. QueueSize
  BY Size DEF Distance

\* Storing at a adds slot a, if the next slot is not the oldest one.
LEMMA WindowGrows ==
    ASSUME NEW a \in 0 .. QueueSize, NEW b \in 0 .. QueueSize, Successor(a) # b
    PROVE  /\ a \notin Window(a, b)
           /\ Window(Successor(a), b) = Window(a, b) \cup {a}
           /\ \A k \in Window(a, b) : Distance(k, b) < Distance(a, b)
           /\ Distance(Successor(a), b) = Distance(a, b) + 1
  <1>1. Successor(a) \in 0 .. QueueSize
    BY Size DEF Successor
  <1>2. Distance(Successor(a), b) = Distance(a, b) + 1
    BY Size DEF Successor, Distance
  <1>3. \A k \in 0 .. QueueSize : Distance(k, b) = Distance(a, b) => k = a
    BY Size DEF Distance
  <1>4. \A k \in 0 .. QueueSize : Distance(k, b) \in Int
    BY DistanceBounded
  <1>5. \A k \in 0 .. QueueSize :
           Distance(k, b) < Distance(Successor(a), b)
             <=> Distance(k, b) < Distance(a, b) \/ k = a
    BY <1>2, <1>3, <1>4
  <1>. QED  BY <1>2, <1>4, <1>5 DEF Window

\* Taking from b removes slot b and brings the others one nearer.
LEMMA WindowShrinks ==
    ASSUME NEW a \in 0 .. QueueSize, NEW b \in 0 .. QueueSize, a # b
    PROVE  /\ b \in Window(a, b)
           /\ Distance(b, b) = 0
           /\ Window(a, Successor(b)) = Window(a, b) \ {b}
           /\ \A k \in Window(a, Successor(b)) :
                 Distance(k, Successor(b)) = Distance(k, b) - 1
           /\ Distance(a, Successor(b)) = Distance(a, b) - 1
  <1>1. Distance(b, b) = 0 /\ Distance(a, b) > 0
    BY Size DEF Distance
  <1>2. \A k \in 0 .. QueueSize : k # b =>
           Distance(k, Successor(b)) = Distance(k, b) - 1
    BY Size DEF Distance, Successor
  <1>3. Distance(b, Successor(b)) = QueueSize
    BY Size DEF Distance, Successor
  <1>4. \A k \in 0 .. QueueSize : Distance(k, b) \in 0 .. QueueSize
    BY DistanceBounded
  <1>5. \A k \in 0 .. QueueSize :
           Distance(k, Successor(b)) < Distance(a, Successor(b))
             <=> Distance(k, b) < Distance(a, b) /\ k # b
    BY <1>1, <1>2, <1>3, <1>4, Size
  <1>. QED  BY <1>1, <1>2, <1>3, <1>4, <1>5, Size DEF Window

\* The slot just behind b is never in the window.
LEMMA WindowBehind ==
    ASSUME NEW a \in 0 .. QueueSize, NEW o \in 0 .. QueueSize
    PROVE  o \notin Window(a, Successor(o))
  <1>1. Successor(o) \in 0 .. QueueSize
    BY Size DEF Successor
  <1>2. Distance(o, Successor(o)) = QueueSize
    BY Size DEF Distance, Successor
  <1>3. Distance(a, Successor(o)) \in 0 .. QueueSize
    BY <1>1, DistanceBounded
  <1>. QED  BY <1>2, <1>3, Size DEF Window

LEMMA WindowEmpty ==
    ASSUME NEW a \in 0 .. QueueSize
    PROVE  Window(a, a) = {}
  <1>1. Distance(a, a) = 0
    BY DEF Distance
  <1>2. \A k \in 0 .. QueueSize : Distance(k, a) \in Nat
    BY Size, DistanceBounded
  <1>. QED  BY <1>1, <1>2 DEF Window

-----------------------------------------------------------------------------
(* The contents of the ring *)

Slots == [0 .. QueueSize -> Nat]

Contents(b, w) == {b[k] : k \in w}

\* RingIntact of the slots c, from b up to a, with the thread at d and its slot o.
Intact(c, a, b, d, o) ==
    /\ \A k \in Window(a, b) : c[k] # NULL
    /\ \A k, l \in Window(a, b) : Distance(k, b) < Distance(l, b) => c[k] < c[l]
    /\ d # "empty" => o \notin Window(a, b)
    /\ \A k \in (0 .. QueueSize) \ Window(a, b) : c[k] # NULL => d # "empty" /\ k = o

LEMMA StoreIntact ==
    ASSUME NEW c \in Slots, NEW a \in 0 .. QueueSize, NEW b \in 0 .. QueueSize,
           NEW d, NEW o \in 0 .. QueueSize, NEW m \in Nat \ {0},
           Intact(c, a, b, d, o), Successor(a) # b,
           d # "empty" => b = Successor(o),
           \A k \in Window(a, b) : c[k] < m,
           NEW e, e[a] = m, \A k \in 0 .. QueueSize : k # a => e[k] = c[k]
    PROVE  /\ Intact(e, Successor(a), b, d, o)
           /\ Contents(e, Window(Successor(a), b)) = Contents(c, Window(a, b)) \cup {m}
  <1>1. /\ a \notin Window(a, b)
        /\ Window(Successor(a), b) = Window(a, b) \cup {a}
        /\ \A k \in Window(a, b) : Distance(k, b) < Distance(a, b)
    BY WindowGrows
  <1>2. /\ e[a] = m
        /\ \A k \in 0 .. QueueSize : k # a => e[k] = c[k]
    OBVIOUS
  <1>3. Window(a, b) \subseteq 0 .. QueueSize
    BY DEF Window
  <1>4. \A k \in Window(a, b) : e[k] = c[k]
    BY <1>1, <1>2, <1>3
  <1>5. \A k \in Window(Successor(a), b) : e[k] # NULL
    BY <1>1, <1>2, <1>4 DEF Intact
  <1>6. ASSUME NEW k \in Window(Successor(a), b), NEW l \in Window(Successor(a), b),
               Distance(k, b) < Distance(l, b)
        PROVE  e[k] < e[l]
    <2>0. k \in 0 .. QueueSize /\ l \in 0 .. QueueSize
      BY <1>1, <1>3
    <2>1. /\ Distance(k, b) \in 0 .. QueueSize
          /\ Distance(a, b) \in 0 .. QueueSize
          /\ Distance(l, b) \in 0 .. QueueSize
      BY <2>0, DistanceBounded
    <2>2. k \in Window(a, b)
      BY <1>1, <1>6, <2>1, Size
    <2>3. CASE l = a
      BY <1>2, <1>3, <1>4, <2>2, <2>3
    <2>4. CASE l \in Window(a, b)
      BY <1>4, <1>6, <2>2, <2>4 DEF Intact
    <2>. QED  BY <1>1, <2>3, <2>4
  <1>7. d # "empty" => o \notin Window(Successor(a), b)
    <2>1. Successor(a) \in 0 .. QueueSize
      BY Size DEF Successor
    <2>. QED  BY <2>1, WindowBehind
  <1>8. ASSUME NEW k \in (0 .. QueueSize) \ Window(Successor(a), b), e[k] # NULL
        PROVE  d # "empty" /\ k = o
    BY <1>1, <1>2, <1>8 DEF Intact
  <1>9. Contents(e, Window(Successor(a), b)) = Contents(c, Window(a, b)) \cup {m}
    BY <1>1, <1>2, <1>4 DEF Contents
  <1>. QED  BY <1>5, <1>6, <1>7, <1>8, <1>9 DEF Intact

LEMMA TakeIntact ==
    ASSUME NEW c \in Slots, NEW a \in 0 .. QueueSize, NEW b \in 0 .. QueueSize,
           NEW o, Intact(c, a, b, "empty", o), a # b
    PROVE  /\ Intact(c, a, Successor(b), "wait", b)
           /\ c[b] # NULL
           /\ c[b] \in Contents(c, Window(a, b))
           /\ Contents(c, Window(a, Successor(b))) = Contents(c, Window(a, b)) \ {c[b]}
           /\ \A m \in Contents(c, Window(a, Successor(b))) : c[b] < m
  <1>1. /\ b \in Window(a, b)
        /\ Distance(b, b) = 0
        /\ Window(a, Successor(b)) = Window(a, b) \ {b}
        /\ \A k \in Window(a, Successor(b)) :
              Distance(k, Successor(b)) = Distance(k, b) - 1
    BY WindowShrinks
  <1>2. Window(a, b) \subseteq 0 .. QueueSize
    BY DEF Window
  <1>3. \A k \in Window(a, b) : Distance(k, b) \in 0 .. QueueSize
    BY <1>2, DistanceBounded
  <1>4. \A k \in Window(a, b) : k # b => Distance(b, b) < Distance(k, b)
    BY <1>2, Size DEF Distance
  <1>5. \A k \in Window(a, Successor(b)) : c[b] < c[k]
    BY <1>1, <1>4 DEF Intact
  <1>6. \A k \in 0 .. QueueSize : c[k] \in Nat
    BY DEF Slots
  <1>7. \A k \in Window(a, Successor(b)) : c[k] # c[b]
    BY <1>1, <1>2, <1>5, <1>6
  <1>8. ASSUME NEW k \in Window(a, Successor(b)), NEW l \in Window(a, Successor(b)),
               Distance(k, Successor(b)) < Distance(l, Successor(b))
        PROVE  c[k] < c[l]
    <2>1. Distance(k, b) < Distance(l, b)
      BY <1>1, <1>3, <1>8
    <2>. QED  BY <1>1, <2>1 DEF Intact
  <1>9. b \notin Window(a, Successor(b))
    BY <1>1
  <1>10. \A k \in (0 .. QueueSize) \ Window(a, Successor(b)) : c[k] # NULL => k = b
    BY <1>1 DEF Intact
  <1>11. Intact(c, a, Successor(b), "wait", b)
    BY <1>1, <1>8, <1>9, <1>10 DEF Intact
  <1>12. Contents(c, Window(a, Successor(b))) = Contents(c, Window(a, b)) \ {c[b]}
    BY <1>1, <1>7 DEF Contents
  <1>. QED  BY <1>1, <1>5, <1>11, <1>12 DEF Contents, Intact

LEMMA ClearIntact ==
    ASSUME NEW c \in Slots, NEW a \in 0 .. QueueSize, NEW b \in 0 .. QueueSize,
           NEW d, NEW o, Intact(c, a, b, d, o), d # "empty", NEW p
    PROVE  LET e == [k \in 0 .. QueueSize |-> IF k = o THEN NULL ELSE c[k]]
           IN  /\ Intact(e, a, b, "empty", p)
               /\ Contents(e, Window(a, b)) = Contents(c, Window(a, b))
  <1>. DEFINE e == [k \in 0 .. QueueSize |-> IF k = o THEN NULL ELSE c[k]]
  <1>1. Window(a, b) \subseteq 0 .. QueueSize
    BY DEF Window
  <1>2. \A k \in Window(a, b) : e[k] = c[k]
    BY <1>1 DEF Intact
  <1>3. \A k \in (0 .. QueueSize) \ Window(a, b) : e[k] = NULL
    BY DEF Intact
  <1>4. Intact(e, a, b, "empty", p)
    BY <1>2, <1>3 DEF Intact
  <1>5. Contents(e, Window(a, b)) = Contents(c, Window(a, b))
    BY <1>2 DEF Contents
  <1>. QED  BY <1>4, <1>5

-----------------------------------------------------------------------------
(* The state in these terms *)

LEMMA View ==
    ASSUME TypeOK
    PROVE  /\ Used = Distance(i, j)
           /\ Live = Window(i, j)
           /\ Queued = Contents(buffer, Window(i, j))
           /\ RingIntact <=> Intact(buffer, i, j, dispatcher, original_j)
           /\ \A k \in 0 .. QueueSize : forward(k) = Successor(k)
  <1>1. buflength = QueueSize /\ i \in 0 .. QueueSize /\ j \in 0 .. QueueSize
        /\ DOMAIN buffer = 0 .. QueueSize
    BY DEF TypeOK
  <1>2. Used = Distance(i, j)
    BY <1>1, DistanceIs DEF Used
  <1>3. \A k \in 0 .. QueueSize : Place(k) = Distance(k, j)
    BY <1>1, DistanceIs DEF Place
  <1>4. Live = Window(i, j)
    BY <1>1, <1>2, <1>3 DEF Live, Window
  <1>5. Queued = Contents(buffer, Window(i, j))
    BY <1>4 DEF Queued, Contents
  <1>6. Window(i, j) \subseteq 0 .. QueueSize
    BY DEF Window
  <1>7. RingIntact <=> Intact(buffer, i, j, dispatcher, original_j)
    BY <1>1, <1>3, <1>4, <1>6 DEF RingIntact, Intact
  <1>8. \A k \in 0 .. QueueSize : forward(k) = Successor(k)
    BY <1>1, SuccessorIs DEF forward
  <1>. QED  BY <1>2, <1>4, <1>5, <1>7, <1>8

LEMMA NextView ==
    ASSUME TypeOK'
    PROVE  /\ Used' = Distance(i', j')
           /\ Queued' = Contents(buffer', Window(i', j'))
           /\ RingIntact' <=> Intact(buffer', i', j', dispatcher', original_j')
           /\ \A k \in 0 .. QueueSize : (k + 1) % (buflength' + 1) = Successor(k)
  <1>1. buflength' = QueueSize /\ i' \in 0 .. QueueSize /\ j' \in 0 .. QueueSize
        /\ DOMAIN buffer' = 0 .. QueueSize
    BY DEF TypeOK
  <1>2. Used' = Distance(i', j')
    BY <1>1, DistanceIs DEF Used
  <1>3. \A k \in 0 .. QueueSize : (k - j') % (buflength' + 1) = Distance(k, j')
    BY <1>1, DistanceIs
  <1>4. Live' = Window(i', j')
    BY <1>1, <1>2, <1>3 DEF Live, Window, Place
  <1>5. Queued' = Contents(buffer', Window(i', j'))
    BY <1>4 DEF Queued, Contents
  <1>6. Window(i', j') \subseteq 0 .. QueueSize
    BY DEF Window
  <1>7. RingIntact' <=> Intact(buffer', i', j', dispatcher', original_j')
    BY <1>1, <1>3, <1>4, <1>6 DEF RingIntact, Intact, Place
  <1>8. \A k \in 0 .. QueueSize : (k + 1) % (buflength' + 1) = Successor(k)
    BY <1>1, SuccessorIs
  <1>. QED  BY <1>2, <1>5, <1>7, <1>8

LEMMA SuccessorIn ==
    ASSUME NEW k \in 0 .. QueueSize
    PROVE  Successor(k) \in 0 .. QueueSize
  BY Size DEF Successor

LEMMA RaisedIn ==
    ASSUME state \in Levels, NEW s \in Raised
    PROVE  s \in Levels
  BY DEF Raised, Levels

LEMMA LoweredIn ==
    ASSUME state \in Levels
    PROVE  Lowered \in Levels
  BY DEF Lowered, Levels

LEMMA SendType ==
    ASSUME sent \in Seq(1 .. MaxEvents), unsent \subseteq 1 .. MaxEvents,
           NEW m \in 1 .. MaxEvents, send_msg(m)
    PROVE  sent' \in Seq(1 .. MaxEvents) /\ unsent' \subseteq 1 .. MaxEvents
  <1>1. CASE sent' = Append(sent, m) /\ UNCHANGED unsent
    <2>1. sent' \in Seq(1 .. MaxEvents)
      BY <1>1
    <2>. QED  BY <1>1, <2>1
  <1>2. CASE unsent' = unsent \cup {m} /\ UNCHANGED sent
    BY <1>2
  <1>. QED  BY <1>1, <1>2 DEF send_msg

LEMMA TypeInit == Init => TypeOK
  BY BufferAssumption DEF Init, TypeOK, Levels

LEMMA TypeNext == TypeOK /\ [Next]_vars => TypeOK'
  <1>. SUFFICES ASSUME TypeOK, [Next]_vars PROVE TypeOK'
    OBVIOUS
  <1>0. \A k \in 0 .. QueueSize : forward(k) \in 0 .. QueueSize
    BY View, SuccessorIn
  <1>1. CASE EventForward
    <2>1. arrived' \in 0 .. MaxEvents /\ arrived + 1 \in 1 .. MaxEvents
      BY <1>1, BufferAssumption DEF EventForward, TypeOK
    <2>2. CASE enabled /\ buffer_append(arrived + 1)
      <3>1. state' \in Levels
        BY <2>2, RaisedIn DEF buffer_append, TypeOK
      <3>2. /\ buffer' \in [0 .. QueueSize -> 0 .. MaxEvents]
            /\ i' \in 0 .. QueueSize
        <4>1. CASE full
          BY <2>2, <4>1 DEF buffer_append, TypeOK
        <4>2. CASE ~full
          <5>1. buffer' = [buffer EXCEPT ![i] = arrived + 1] /\ i' = forward(i)
            BY <2>2, <4>2 DEF buffer_append
          <5>2. arrived + 1 \in 0 .. MaxEvents
            BY <2>1
          <5>. QED  BY <1>0, <5>1, <5>2 DEF TypeOK
        <4>. QED  BY <4>1, <4>2
      <3>3. sent' = sent /\ unsent' = unsent
        BY <2>2 DEF buffer_append
      <3>4. dropped' \subseteq dropped \cup {arrived + 1}
        BY <2>2 DEF buffer_append
      <3>5. dropped' \subseteq 1 .. MaxEvents
        BY <2>1, <3>4 DEF TypeOK
      <3>. QED  BY <1>1, <2>1, <3>1, <3>2, <3>3, <3>5 DEF EventForward, thread, TypeOK
    <2>3. CASE /\ ~enabled
               /\ send_msg(arrived + 1)
               /\ UNCHANGED <<buffer, i, state, dropped>>
      <3>1. sent' \in Seq(1 .. MaxEvents) /\ unsent' \subseteq 1 .. MaxEvents
        BY <2>1, <2>3, SendType DEF TypeOK
      <3>. QED  BY <1>1, <2>1, <2>3, <3>1 DEF EventForward, thread, TypeOK
    <2>. QED  BY <1>1, <2>2, <2>3 DEF EventForward
  <1>2. CASE os_setwait
    BY <1>2 DEF os_setwait, ring, thread, events, TypeOK
  <1>3. CASE os_delwait
    BY <1>3 DEF os_delwait, ring, thread, events, TypeOK
  <1>4. CASE takeMessage
    <2>1. msg_to_dispatch' = buffer[j]
      BY <1>4 DEF takeMessage, Read, TypeOK
    <2>2. msg_to_dispatch' \in 0 .. MaxEvents /\ j' \in 0 .. QueueSize
      BY <1>0, <1>4, <2>1 DEF takeMessage, TypeOK
    <2>3. state' \in Levels
      BY <1>4, LoweredIn DEF takeMessage, TypeOK
    <2>. QED  BY <1>4, <2>2, <2>3 DEF takeMessage, events, TypeOK
  <1>5. CASE os_wait
    BY <1>5 DEF os_wait, ring, events, TypeOK
  <1>6. CASE sendMessage
    <2>1. /\ attempts' \in Nat /\ original_j' \in 0 .. QueueSize
          /\ msg_to_dispatch' \in 0 .. MaxEvents /\ arrived' \in 0 .. MaxEvents
      BY <1>6, Size, BufferAssumption DEF sendMessage, TypeOK
    <2>2. CASE msg_to_dispatch # NULL
      <3>1. msg_to_dispatch \in 1 .. MaxEvents
        BY <2>2, BufferAssumption DEF TypeOK
      <3>2. sent' \in Seq(1 .. MaxEvents) /\ unsent' \subseteq 1 .. MaxEvents
        BY <1>6, <2>2, <3>1, SendType DEF sendMessage, TypeOK
      <3>3. buffer' = [k \in 0 .. QueueSize |->
                          IF k = original_j THEN NULL ELSE buffer[k]]
        BY <1>6, <2>2 DEF sendMessage, TypeOK
      <3>4. buffer' \in [0 .. QueueSize -> 0 .. MaxEvents]
        BY <3>3, BufferAssumption DEF TypeOK
      <3>. QED  BY <1>6, <2>1, <3>2, <3>4 DEF sendMessage, TypeOK
    <2>3. CASE msg_to_dispatch = NULL
      BY <1>6, <2>1, <2>3 DEF sendMessage, TypeOK
    <2>. QED  BY <2>2, <2>3
  <1>7. CASE UNCHANGED vars
    BY <1>7 DEF vars, ring, thread, events, TypeOK
  <1>. QED  BY <1>1, <1>2, <1>3, <1>4, <1>5, <1>6, <1>7 DEF Next, dispatch_buffer

-----------------------------------------------------------------------------
(* The ring and the events *)

LEMMA SlotsOK ==
    ASSUME TypeOK
    PROVE  buffer \in Slots /\ arrived \in Nat
  BY BufferAssumption DEF TypeOK, Slots

\* Every event that is anywhere is one of those that have arrived.
LEMMA Arrived ==
    ASSUME EveryEventOnce
    PROVE  /\ Queued \subseteq 1 .. arrived /\ InFlight \subseteq 1 .. arrived
           /\ Given \subseteq 1 .. arrived /\ dropped \subseteq 1 .. arrived
           /\ unsent \subseteq 1 .. arrived
  BY DEF EveryEventOnce

LEMMA GivenAppend ==
    ASSUME TypeOK, NEW m, sent' = Append(sent, m)
    PROVE  Given' = Given \cup {m}
  <1>1. Len(sent) \in Nat /\ DOMAIN sent = 1 .. Len(sent)
    BY DEF TypeOK
  <1>2. /\ DOMAIN sent' = 1 .. Len(sent) + 1
        /\ \A k \in 1 .. Len(sent) : sent'[k] = sent[k]
        /\ sent'[Len(sent) + 1] = m
    BY DEF TypeOK
  <1>3. DOMAIN sent' = DOMAIN sent \cup {Len(sent) + 1}
    BY <1>1, <1>2
  <1>. QED  BY <1>1, <1>2, <1>3 DEF Given

\* What is sent is in order if it comes after everything sent before.
LEMMA SentAppend ==
    ASSUME TypeOK, NEW m \in Nat, sent' = Append(sent, m),
           \A k, l \in DOMAIN sent : k < l => sent[k] < sent[l],
           \A n \in Given : n < m
    PROVE  \A k, l \in DOMAIN sent' : k < l => sent'[k] < sent'[l]
  <1>1. Len(sent) \in Nat /\ DOMAIN sent = 1 .. Len(sent)
    BY DEF TypeOK
  <1>2. /\ DOMAIN sent' = 1 .. Len(sent) + 1
        /\ \A k \in 1 .. Len(sent) : sent'[k] = sent[k]
        /\ sent'[Len(sent) + 1] = m
    BY DEF TypeOK
  <1>3. \A k \in 1 .. Len(sent) : sent[k] < m
    BY <1>1 DEF Given
  <1>. SUFFICES ASSUME NEW k \in DOMAIN sent', NEW l \in DOMAIN sent', k < l
                PROVE  sent'[k] < sent'[l]
    OBVIOUS
  <1>4. k \in 1 .. Len(sent)
    BY <1>1, <1>2
  <1>5. CASE l = Len(sent) + 1
    BY <1>2, <1>3, <1>4, <1>5
  <1>6. CASE l \in 1 .. Len(sent)
    BY <1>1, <1>2, <1>4, <1>6
  <1>. QED  BY <1>1, <1>2, <1>5, <1>6

LEMMA InvInit == Init => Inv
  <1>. SUFFICES ASSUME Init PROVE Inv
    OBVIOUS
  <1>1. TypeOK
    BY TypeInit
  <1>2. Flight
    BY DEF Init, Flight
  <1>3. Window(0, 0) = {}
    BY Size DEF Window, Distance
  <1>4. Intact(buffer, i, j, dispatcher, original_j)
    BY <1>3 DEF Init, Intact
  <1>5. Queued = {} /\ InFlight = {} /\ Given = {}
    BY <1>1, <1>3, View DEF Init, Contents, InFlight, Given
  <1>6. EveryEventOnce
    BY <1>5 DEF Init, EveryEventOnce
  <1>7. SentInOrder
    BY <1>5 DEF Init, SentInOrder
  <1>. QED  BY <1>1, <1>2, <1>4, <1>6, <1>7, View DEF Inv, RingInv

LEMMA AppendKeeps ==
    ASSUME Inv, EventForward, enabled, buffer_append(arrived + 1), TypeOK'
    PROVE  Inv'
  <1>0. TypeOK /\ Flight /\ RingIntact /\ EveryEventOnce /\ SentInOrder
    BY DEF Inv, RingInv
  <1>1. /\ arrived' = arrived + 1 /\ enabled' = enabled /\ buflength' = buflength
        /\ j' = j /\ dispatcher' = dispatcher /\ msg_to_dispatch' = msg_to_dispatch
        /\ original_j' = original_j /\ sent' = sent /\ unsent' = unsent
    BY DEF EventForward, buffer_append, thread
  <1>2. InFlight' = InFlight /\ Given' = Given /\ arrived \in Nat
    BY <1>0, <1>1, SlotsOK DEF InFlight, Given
  <1>3. i \in 0 .. QueueSize /\ j \in 0 .. QueueSize /\ original_j \in 0 .. QueueSize
    BY <1>0 DEF TypeOK
  <1>4. Flight'
    BY <1>0, <1>1 DEF Flight, forward
  <1>5. CASE full
    <2>1. buffer' = buffer /\ i' = i /\ dropped' = dropped \cup {arrived + 1}
      BY <1>5 DEF buffer_append
    <2>2. Queued' = Queued /\ RingIntact'
      BY <1>0, <1>1, <2>1, View, NextView
    <2>3. EveryEventOnce'
      BY <1>0, <1>1, <1>2, <2>1, <2>2, Arrived DEF EveryEventOnce
    <2>4. SentInOrder'
      BY <1>0, <1>1, <1>2, <2>2 DEF SentInOrder
    <2>. QED  BY <1>4, <2>2, <2>3, <2>4 DEF Inv, RingInv
  <1>6. CASE ~full
    <2>1. buffer' = [buffer EXCEPT ![i] = arrived + 1] /\ i' = forward(i)
          /\ dropped' = dropped
      BY <1>6 DEF buffer_append
    <2>2. i' = Successor(i) /\ Successor(i) # j
      BY <1>0, <1>3, <1>6, <2>1, View DEF full
    <2>3. dispatcher # "empty" => j = Successor(original_j)
      BY <1>0, <1>3, View DEF Flight
    <2>4. Queued = Contents(buffer, Window(i, j))
          /\ Intact(buffer, i, j, dispatcher, original_j)
      BY <1>0, View
    <2>5. \A k \in Window(i, j) : buffer[k] < arrived + 1
      BY <1>0, <1>2, <2>4, Arrived DEF Contents
    <2>6. /\ Intact(buffer', i', j', dispatcher', original_j')
          /\ Contents(buffer', Window(i', j')) = Queued \cup {arrived + 1}
      <3>1. arrived + 1 \in Nat \ {0} /\ buffer \in Slots
        BY <1>0, <1>2, SlotsOK
      <3>2. /\ Intact(buffer', Successor(i), j, dispatcher, original_j)
            /\ Contents(buffer', Window(Successor(i), j))
                 = Contents(buffer, Window(i, j)) \cup {arrived + 1}
        <4>1. /\ buffer'[i] = arrived + 1
              /\ \A k \in 0 .. QueueSize : k # i => buffer'[k] = buffer[k]
          BY <1>3, <2>1, <3>1 DEF Slots
        <4>. QED  BY ONLY <1>3, <2>2, <2>3, <2>4, <2>5, <3>1, <4>1, StoreIntact
      <3>. QED  BY <1>1, <2>2, <2>4, <3>2
    <2>7. Queued' = Queued \cup {arrived + 1} /\ RingIntact'
      BY <2>6, NextView
    <2>8. EveryEventOnce'
      BY <1>0, <1>1, <1>2, <2>1, <2>7, Arrived DEF EveryEventOnce
    <2>9. \A m \in Given \cup InFlight : m < arrived + 1
      BY <1>0, <1>2, Arrived
    <2>10. SentInOrder'
      BY <1>0, <1>1, <1>2, <2>7, <2>9 DEF SentInOrder
    <2>. QED  BY <1>4, <2>7, <2>8, <2>10 DEF Inv, RingInv
  <1>. QED  BY <1>5, <1>6

LEMMA DirectKeeps ==
    ASSUME Inv, EventForward, ~enabled, send_msg(arrived + 1),
           UNCHANGED <<buffer, i, state, dropped>>, TypeOK'
    PROVE  Inv'
  <1>0. TypeOK /\ Flight /\ RingIntact /\ EveryEventOnce /\ SentInOrder
    BY DEF Inv, RingInv
  <1>1. /\ arrived' = arrived + 1 /\ enabled' = enabled /\ buflength' = buflength
        /\ i' = i /\ j' = j /\ buffer' = buffer /\ dropped' = dropped /\ state' = state
        /\ dispatcher' = dispatcher /\ msg_to_dispatch' = msg_to_dispatch
        /\ original_j' = original_j
    BY DEF EventForward, thread
  <1>2. InFlight' = InFlight /\ arrived \in Nat
    BY <1>0, <1>1, SlotsOK DEF InFlight
  <1>3. Flight'
    BY <1>0, <1>1 DEF Flight, forward
  <1>4. Queued' = Queued /\ RingIntact'
    BY <1>0, <1>1, View, NextView
  <1>5. Queued = {} /\ InFlight = {}
    <2>1. i = j /\ dispatcher = "empty"
      BY <1>0 DEF Flight
    <2>2. Window(i, j) = {}
      BY <1>0, <2>1, WindowEmpty DEF TypeOK
    <2>. QED  BY <1>0, <2>1, <2>2, View DEF Contents, InFlight
  <1>6. CASE sent' = Append(sent, arrived + 1) /\ UNCHANGED unsent
    <2>1. Given' = Given \cup {arrived + 1}
      BY <1>0, <1>6, GivenAppend
    <2>2. EveryEventOnce'
      BY <1>0, <1>1, <1>2, <1>4, <1>6, <2>1, Arrived DEF EveryEventOnce
    <2>3. \A k, l \in DOMAIN sent' : k < l => sent'[k] < sent'[l]
      <3>1. \A n \in Given : n < arrived + 1
        BY <1>0, <1>2, Arrived
      <3>. QED  BY <1>0, <1>2, <1>6, <3>1, SentAppend DEF SentInOrder
    <2>4. SentInOrder'
      BY <1>2, <1>4, <1>5, <2>3 DEF SentInOrder
    <2>. QED  BY <1>3, <1>4, <2>2, <2>4 DEF Inv, RingInv
  <1>7. CASE unsent' = unsent \cup {arrived + 1} /\ UNCHANGED sent
    <2>1. Given' = Given
      BY <1>7 DEF Given
    <2>2. EveryEventOnce'
      BY <1>0, <1>1, <1>2, <1>4, <1>7, <2>1, Arrived DEF EveryEventOnce
    <2>3. SentInOrder'
      BY <1>0, <1>2, <1>4, <1>7, <2>1 DEF SentInOrder
    <2>. QED  BY <1>3, <1>4, <2>2, <2>3 DEF Inv, RingInv
  <1>. QED  BY <1>6, <1>7 DEF send_msg

LEMMA TakeKeeps ==
    ASSUME Inv, takeMessage, TypeOK'
    PROVE  Inv'
  <1>0. TypeOK /\ Flight /\ RingIntact /\ EveryEventOnce /\ SentInOrder
    BY DEF Inv, RingInv
  <1>1. /\ arrived' = arrived /\ enabled' = enabled /\ buflength' = buflength
        /\ i' = i /\ buffer' = buffer /\ dropped' = dropped /\ unsent' = unsent
        /\ sent' = sent /\ dispatcher' = "wait" /\ original_j' = j /\ j' = forward(j)
        /\ enabled /\ dispatcher = "empty" /\ i # j
    BY DEF takeMessage, events
  <1>2. i \in 0 .. QueueSize /\ j \in 0 .. QueueSize /\ buffer \in Slots
    BY <1>0, SlotsOK DEF TypeOK
  <1>3. msg_to_dispatch' = buffer[j]
    BY <1>0 DEF takeMessage, Read, TypeOK
  <1>4. j' = Successor(j)
    BY <1>0, <1>1, <1>2, View
  <1>5. Intact(buffer, i, j, "empty", original_j)
        /\ Queued = Contents(buffer, Window(i, j))
    BY <1>0, <1>1, View
  <1>6. /\ Intact(buffer, i, Successor(j), "wait", j)
        /\ buffer[j] # NULL /\ buffer[j] \in Queued
        /\ Contents(buffer, Window(i, Successor(j))) = Queued \ {buffer[j]}
        /\ \A m \in Contents(buffer, Window(i, Successor(j))) : buffer[j] < m
    BY <1>1, <1>2, <1>5, TakeIntact
  <1>7. RingIntact' /\ Queued' = Queued \ {buffer[j]}
    BY <1>1, <1>4, <1>6, NextView
  <1>8. Flight'
    <2>1. j' = Successor(original_j')
      BY <1>1, <1>4
    <2>2. forward(original_j)' = Successor(original_j')
      BY <1>1, <1>2, NextView DEF forward
    <2>. QED  BY <1>1, <1>3, <1>6, <2>1, <2>2 DEF Flight
  <1>9. InFlight = {} /\ InFlight' = {buffer[j]} /\ Given' = Given
    BY <1>1, <1>3 DEF InFlight, Given
  <1>10. EveryEventOnce'
    <2>1. EveryEventOnce /\ buffer[j] \in Queued /\ Queued' = Queued \ {buffer[j]}
      BY ONLY <1>0, <1>6, <1>7
    <2>2. arrived' = arrived /\ dropped' = dropped /\ unsent' = unsent
      BY ONLY <1>1
    <2>. QED  BY ONLY <1>9, <2>1, <2>2 DEF EveryEventOnce
  <1>11. SentInOrder'
    <2>1. \A m \in Given, n \in Queued : m < n
      BY <1>0 DEF SentInOrder
    <2>2. \A n \in Queued' : buffer[j] < n
      BY <1>6, <1>7
    <2>3. \A m \in Given', n \in InFlight' \cup Queued' : m < n
      BY <1>6, <1>7, <1>9, <2>1
    <2>4. \A k, l \in DOMAIN sent' : k < l => sent'[k] < sent'[l]
      BY <1>0, <1>1 DEF SentInOrder
    <2>. QED  BY <1>9, <2>2, <2>3, <2>4 DEF SentInOrder
  <1>. QED  BY <1>7, <1>8, <1>10, <1>11 DEF Inv, RingInv

LEMMA SendKeeps ==
    ASSUME Inv, sendMessage, TypeOK'
    PROVE  Inv'
  <1>0. TypeOK /\ Flight /\ RingIntact /\ EveryEventOnce /\ SentInOrder
    BY DEF Inv, RingInv
  <1>1. /\ arrived' = arrived /\ enabled' = enabled /\ buflength' = buflength
        /\ i' = i /\ j' = j /\ dropped' = dropped /\ dispatcher' = "empty"
        /\ msg_to_dispatch' = NULL /\ original_j' = 0 /\ dispatcher = "send"
        /\ state' = state
    BY DEF sendMessage
  <1>2. msg_to_dispatch # NULL /\ enabled
    BY <1>0, <1>1 DEF Flight
  <1>3. /\ send_msg(msg_to_dispatch)
        /\ buffer' = [k \in 0 .. QueueSize |->
                          IF k = original_j THEN NULL ELSE buffer[k]]
    BY <1>0, <1>2 DEF sendMessage, TypeOK
  <1>4. i \in 0 .. QueueSize /\ j \in 0 .. QueueSize /\ buffer \in Slots
    BY <1>0, SlotsOK DEF TypeOK
  <1>5. Intact(buffer, i, j, dispatcher, original_j)
        /\ Queued = Contents(buffer, Window(i, j))
    BY <1>0, View
  <1>6. Intact(buffer', i, j, "empty", 0)
        /\ Contents(buffer', Window(i, j)) = Contents(buffer, Window(i, j))
    BY <1>1, <1>3, <1>4, <1>5, ClearIntact
  <1>7. RingIntact' /\ Queued' = Queued
    BY <1>1, <1>5, <1>6, NextView
  <1>8. Flight'
    BY <1>1, <1>2 DEF Flight
  <1>9. InFlight = {msg_to_dispatch} /\ InFlight' = {} /\ msg_to_dispatch \in Nat
    BY <1>0, <1>1, BufferAssumption DEF InFlight, TypeOK
  <1>10. CASE sent' = Append(sent, msg_to_dispatch) /\ UNCHANGED unsent
    <2>1. Given' = Given \cup {msg_to_dispatch}
      BY <1>0, <1>10, GivenAppend
    <2>2. EveryEventOnce'
      BY <1>0, <1>1, <1>7, <1>9, <1>10, <2>1 DEF EveryEventOnce
    <2>3. \A k, l \in DOMAIN sent' : k < l => sent'[k] < sent'[l]
      <3>1. \A n \in Given : n < msg_to_dispatch
        BY <1>0, <1>9 DEF SentInOrder
      <3>. QED  BY <1>0, <1>9, <1>10, <3>1, SentAppend DEF SentInOrder
    <2>4. SentInOrder'
      BY <1>0, <1>7, <1>9, <2>1, <2>3 DEF SentInOrder
    <2>. QED  BY <1>7, <1>8, <2>2, <2>4 DEF Inv, RingInv
  <1>11. CASE unsent' = unsent \cup {msg_to_dispatch} /\ UNCHANGED sent
    <2>1. Given' = Given
      BY <1>11 DEF Given
    <2>2. EveryEventOnce'
      BY <1>0, <1>1, <1>7, <1>9, <1>11, <2>1 DEF EveryEventOnce
    <2>3. SentInOrder'
      BY <1>0, <1>7, <1>9, <1>11, <2>1 DEF SentInOrder
    <2>. QED  BY <1>7, <1>8, <2>2, <2>3 DEF Inv, RingInv
  <1>. QED  BY <1>3, <1>10, <1>11 DEF send_msg

\* Steps that touch neither the ring nor the events.
LEMMA QuietKeeps ==
    ASSUME Inv, TypeOK', enabled' = enabled, buflength' = buflength,
           UNCHANGED ring, UNCHANGED events, UNCHANGED state,
           UNCHANGED <<msg_to_dispatch, original_j>>,
           dispatcher' = "empty" <=> dispatcher = "empty"
    PROVE  Inv'
  <1>0. TypeOK /\ Flight /\ RingIntact /\ EveryEventOnce /\ SentInOrder
    BY DEF Inv, RingInv
  <1>1. Queued' = Queued /\ InFlight' = InFlight /\ Given' = Given
    BY <1>0, View, NextView DEF ring, events, InFlight, Given
  <1>2. RingIntact'
    BY <1>0, View, NextView DEF ring, Intact
  <1>3. Flight'
    BY <1>0 DEF Flight, ring, forward
  <1>4. EveryEventOnce'
    BY <1>0, <1>1 DEF EveryEventOnce, events
  <1>5. SentInOrder'
    BY <1>0, <1>1 DEF SentInOrder, events
  <1>. QED  BY <1>2, <1>3, <1>4, <1>5 DEF Inv, RingInv

LEMMA InvNext == Inv /\ [Next]_vars => Inv'
  <1>. SUFFICES ASSUME Inv, [Next]_vars PROVE Inv'
    OBVIOUS
  <1>0. TypeOK'
    BY TypeNext DEF Inv, RingInv
  <1>1. CASE EventForward
    BY <1>0, <1>1, AppendKeeps, DirectKeeps DEF EventForward
  <1>2. CASE os_setwait
    BY <1>0, <1>2, QuietKeeps DEF os_setwait, thread
  <1>3. CASE os_delwait
    BY <1>0, <1>3, QuietKeeps DEF os_delwait, thread
  <1>4. CASE takeMessage
    BY <1>0, <1>4, TakeKeeps
  <1>5. CASE os_wait
    BY <1>0, <1>5, QuietKeeps DEF os_wait
  <1>6. CASE sendMessage
    BY <1>0, <1>6, SendKeeps
  <1>7. CASE UNCHANGED vars
    BY <1>0, <1>7, QuietKeeps DEF vars, thread
  <1>. QED  BY <1>1, <1>2, <1>3, <1>4, <1>5, <1>6, <1>7 DEF Next, dispatch_buffer

\* buffer.c: i and j never leave the allocation, whatever wraps around.
THEOREM IndicesStayInside == Spec => []TypeOK
  BY TypeInit, TypeNext, PTL DEF Spec

\* buffer.c: the ring is never corrupted, neither by the append nor by the
\* unprotected clearing of the dispatched slot.
THEOREM RingStaysIntact == Spec => []RingIntact
  <1>1. Inv => RingIntact
    BY DEF Inv, RingInv
  <1>. QED  BY <1>1, InvInit, InvNext, PTL DEF Spec

\* buffer.c, event-forward.c: no event is lost or repeated between the main thread
\* and the dispatch thread; it is dropped by a full ring or by a failed send only.
THEOREM EventsAccounted == Spec => []EveryEventOnce
  <1>1. Inv => EveryEventOnce
    BY DEF Inv
  <1>. QED  BY <1>1, InvInit, InvNext, PTL DEF Spec

\* dispatch_buffer: the manager receives events in the order of their arrival.
THEOREM EventsInOrder == Spec => []SentInOrder
  <1>1. Inv => SentInOrder
    BY DEF Inv
  <1>. QED  BY <1>1, InvInit, InvNext, PTL DEF Spec

-----------------------------------------------------------------------------
(* The buffer implements EventDelivery *)

InQueue == Queued \cup InFlight

Done == Given \cup unsent

\* The queue is what arrived and is neither done nor dropped.
LEMMA InQueueIs ==
    ASSUME EveryEventOnce
    PROVE  InQueue = (1 .. arrived) \ (Done \cup dropped)
  BY DEF EveryEventOnce, InQueue, Done

LEMMA NextInQueueIs ==
    ASSUME EveryEventOnce'
    PROVE  InQueue' = (1 .. arrived') \ (Done' \cup dropped')
  BY DEF EveryEventOnce, InQueue, Done

LEMMA OneMore ==
    ASSUME NEW n \in Nat
    PROVE  1 .. n + 1 = (1 .. n) \cup {n + 1} /\ n + 1 \notin 1 .. n
  OBVIOUS

LEMMA SendDone ==
    ASSUME TypeOK, NEW m, send_msg(m)
    PROVE  Done' = Done \cup {m}
  <1>1. CASE sent' = Append(sent, m) /\ UNCHANGED unsent
    BY <1>1, GivenAppend DEF Done
  <1>2. CASE unsent' = unsent \cup {m} /\ UNCHANGED sent
    BY <1>2 DEF Done, Given
  <1>. QED  BY <1>1, <1>2 DEF send_msg

LEMMA StepDelivers ==
    ASSUME Inv, Inv', [Next]_vars
    PROVE  [Abstract!Next]_(Abstract!vars)
  <1>0. TypeOK /\ Flight /\ EveryEventOnce /\ SentInOrder /\ EveryEventOnce'
    BY DEF Inv, RingInv
  <1>. DEFINE D == (1 .. arrived) \ (Done \cup dropped)
  <1>1. InQueue = D /\ InQueue' = (1 .. arrived') \ (Done' \cup dropped')
    BY <1>0, InQueueIs, NextInQueueIs
  <1>2. arrived \in Nat /\ Done \subseteq 1 .. arrived /\ dropped \subseteq 1 .. arrived
    BY <1>0, SlotsOK, Arrived DEF Done
  <1>3. ASSUME arrived' = arrived, Done' = Done, dropped' = dropped
        PROVE  UNCHANGED <<arrived, InQueue, Done>>
    BY <1>1, <1>3
  <1>4. CASE EventForward
    <2>1. arrived' = arrived + 1
      BY <1>4 DEF EventForward
    <2>2. CASE enabled /\ buffer_append(arrived + 1)
      <3>1. Done' = Done
        BY <2>2 DEF buffer_append, Done, Given
      <3>2. CASE dropped' = dropped \cup {arrived + 1}
        <4>1. InQueue' = InQueue
          BY <1>1, <1>2, <2>1, <3>1, <3>2, OneMore
        <4>. QED  BY <2>1, <3>1, <4>1 DEF Abstract!Next, Abstract!Refuse, InQueue, Done
      <3>3. CASE dropped' = dropped
        <4>1. InQueue' = InQueue \cup {arrived + 1}
          BY <1>1, <1>2, <2>1, <3>1, <3>3, OneMore
        <4>. QED  BY <2>1, <3>1, <4>1 DEF Abstract!Next, Abstract!Store, InQueue, Done
      <3>. QED  BY <2>2, <3>2, <3>3 DEF buffer_append
    <2>3. CASE ~enabled /\ send_msg(arrived + 1) /\ dropped' = dropped
      <3>1. Done' = Done \cup {arrived + 1}
        BY <1>0, <2>3, SendDone
      <3>2. InQueue' = InQueue
        BY <1>1, <1>2, <2>1, <2>3, <3>1, OneMore
      <3>3. InQueue = {}
        <4>1. i = j /\ dispatcher = "empty"
          BY <1>0, <2>3 DEF Flight
        <4>2. Window(i, j) = {}
          BY <1>0, <4>1, WindowEmpty DEF TypeOK
        <4>. QED  BY <1>0, <4>1, <4>2, View DEF Contents, InFlight, InQueue, Inv, RingInv
      <3>. QED  BY <2>1, <3>1, <3>2, <3>3 DEF Abstract!Next, Abstract!Pass, InQueue, Done
    <2>. QED  BY <1>4, <2>2, <2>3 DEF EventForward
  <1>5. CASE sendMessage
    <2>1. arrived' = arrived /\ dropped' = dropped /\ dispatcher # "empty"
      BY <1>5 DEF sendMessage
    <2>2. msg_to_dispatch # NULL /\ InFlight = {msg_to_dispatch}
      BY <1>0, <2>1 DEF Flight, InFlight
    <2>3. Done' = Done \cup {msg_to_dispatch}
      BY <1>0, <1>5, <2>2, SendDone DEF sendMessage
    <2>4. msg_to_dispatch \in InQueue /\ InQueue' = InQueue \ {msg_to_dispatch}
      BY <1>1, <2>1, <2>2, <2>3 DEF InQueue
    <2>5. \A w \in InQueue : msg_to_dispatch <= w
      BY <1>0, <1>1, <1>2, <2>2 DEF InQueue, SentInOrder
    <2>. QED  BY <2>1, <2>3, <2>4, <2>5 DEF Abstract!Next, Abstract!Remove, InQueue, Done
  <1>6. CASE os_setwait \/ os_delwait \/ takeMessage \/ os_wait \/ UNCHANGED vars
    <2>1. UNCHANGED events
      BY <1>6 DEF os_setwait, os_delwait, takeMessage, os_wait, vars
    <2>2. UNCHANGED <<arrived, InQueue, Done>>
      BY <1>3, <2>1 DEF events, Done, Given
    <2>. QED  BY <2>2 DEF Abstract!vars, InQueue, Done
  <1>. QED  BY <1>4, <1>5, <1>6 DEF Next, dispatch_buffer

\* buffer.c: for every size the ring is an implementation of EventDelivery that
\* processes an event at most once.
THEOREM BufferDelivers == Spec => Delivers
  <1>1. Init => Abstract!Init
    <2>. SUFFICES ASSUME Init PROVE Abstract!Init
      OBVIOUS
    <2>1. Inv
      BY InvInit
    <2>2. Given = {} /\ InFlight = {} /\ unsent = {} /\ arrived = 0
      BY DEF Init, Given, InFlight
    <2>3. Queued = {}
      BY <2>1, <2>2 DEF Inv, EveryEventOnce
    <2>. QED  BY <2>2, <2>3 DEF Abstract!Init
  <1>. QED  BY <1>1, InvInit, InvNext, StepDelivers, PTL DEF Spec, Delivers, Abstract!Spec

-----------------------------------------------------------------------------
(* The level *)

Warn == WarnLevel * QueueSize

Normal == NormalLevel * QueueSize

LEMMA LevelsOrdered ==
    /\ Warn \in Int /\ Normal \in Int
    /\ Normal <= Warn /\ Warn <= 100 * QueueSize
  <1>1. WarnLevel \in Nat /\ WarnLevel <= 100 /\ NormalLevel \in Nat
        /\ NormalLevel <= WarnLevel /\ QueueSize \in Nat
    BY BufferAssumption
  <1>2. Warn \in Int /\ Normal \in Int
    BY <1>1 DEF Warn, Normal
  <1>3. NormalLevel * QueueSize <= WarnLevel * QueueSize
    BY <1>1
  <1>4. WarnLevel * QueueSize <= 100 * QueueSize
    BY <1>1
  <1>. QED  BY <1>2, <1>3, <1>4 DEF Warn, Normal

\* LevelLagsByOne of the level s and the number u of messages.
Lags(s, u) ==
    /\ s = "NORMAL" => 100 * (u - 1) < Warn
    /\ s # "NORMAL" => 100 * (u + 1) > Normal
    /\ s \in {"FULL", "FLOOD"} => 100 * (u + 1) > Warn

LEMMA LevelLagsIs ==
    ASSUME TypeOK
    PROVE  LevelLagsByOne <=> Lags(state, Used)
  BY DEF TypeOK, LevelLagsByOne, Lags, Warn, Normal

LEMMA NextLevelLagsIs ==
    ASSUME TypeOK'
    PROVE  LevelLagsByOne' <=> Lags(state', Used')
  BY DEF TypeOK, LevelLagsByOne, Lags, Warn, Normal

LEMMA UsedBounded ==
    ASSUME TypeOK
    PROVE  Used \in 0 .. QueueSize
  BY View, DistanceBounded DEF TypeOK

LEMMA FullIs ==
    ASSUME TypeOK
    PROVE  full <=> Used = QueueSize
  <1>1. full <=> Successor(i) = j
    BY View DEF full, TypeOK
  <1>2. Successor(i) = j <=> Distance(i, j) = QueueSize
    BY Size DEF Successor, Distance, TypeOK
  <1>. QED  BY <1>1, <1>2, View

LEMMA LevelAppend ==
    ASSUME TypeOK, TypeOK', LevelLagsByOne, EventForward, enabled,
           buffer_append(arrived + 1)
    PROVE  LevelLagsByOne'
  <1>. DEFINE u == Used
  <1>1. Lags(state, u) /\ u \in 0 .. QueueSize /\ (full <=> u = QueueSize)
    BY LevelLagsIs, UsedBounded, FullIs
  <1>2. (warn <=> 100 * u >= Warn) /\ state \in Levels /\ state' \in Raised
    BY DEF warn, Warn, TypeOK, buffer_append
  <1>3. Used' = IF full THEN u ELSE u + 1
    <2>1. j' = j
      BY DEF EventForward
    <2>2. CASE full
      <3>1. i' = i
        BY <2>2 DEF buffer_append
      <3>. QED  BY <2>1, <2>2, <3>1, View, NextView
    <2>3. CASE ~full
      <3>1. i' = Successor(i) /\ Successor(i) # j
        BY <2>3, View DEF buffer_append, full, TypeOK
      <3>2. Distance(Successor(i), j) = Distance(i, j) + 1
        BY <3>1, WindowGrows DEF TypeOK
      <3>. QED  BY <2>1, <2>3, <3>1, <3>2, View, NextView
    <2>. QED  BY <2>2, <2>3
  <1>. HIDE DEF u
  <1>4. Lags(state', Used')
    <2>. USE <1>1, <1>2, <1>3, LevelsOrdered, Size DEF Lags
    <2>1. CASE state' = "NORMAL"
      <3>1. ~full /\ ~warn
        BY <2>1 DEF Raised, Levels
      <3>. QED  BY <2>1, <3>1
    <2>2. CASE state' = "WARNING"
      <3>1. ~full /\ ((state = "NORMAL" /\ warn) \/ state = "WARNING")
        BY <2>2 DEF Raised, Levels
      <3>. QED  BY <2>2, <3>1
    <2>3. CASE state' \in {"FULL", "FLOOD"}
      <3>1. full \/ state \in {"FULL", "FLOOD"}
        BY <2>3 DEF Raised, Levels
      <3>. QED  BY <2>3, <3>1
    <2>4. state' \in Levels
      BY DEF TypeOK
    <2>. QED  BY <2>1, <2>2, <2>3, <2>4 DEF Levels
  <1>. QED  BY <1>4, NextLevelLagsIs

LEMMA LevelTake ==
    ASSUME TypeOK, TypeOK', LevelLagsByOne, takeMessage
    PROVE  LevelLagsByOne'
  <1>. DEFINE u == Used
  <1>1. Lags(state, u) /\ u \in 0 .. QueueSize
    BY LevelLagsIs, UsedBounded
  <1>2. (nowarn <=> 100 * u <= Warn) /\ (normal <=> 100 * u <= Normal)
        /\ state \in Levels /\ state' = Lowered
    BY DEF nowarn, normal, Warn, Normal, TypeOK, takeMessage
  <1>3. Used' = u - 1
    <2>1. i' = i /\ j' = Successor(j) /\ i # j
      BY View DEF takeMessage, TypeOK
    <2>2. Distance(i, Successor(j)) = Distance(i, j) - 1
      BY <2>1, WindowShrinks DEF TypeOK
    <2>. QED  BY <2>1, <2>2, View, NextView
  <1>. HIDE DEF u
  <1>4. Lags(state', Used')
    <2>. USE <1>1, <1>2, <1>3, LevelsOrdered, Size DEF Lags
    <2>1. CASE state' = "NORMAL"
      <3>1. state = "NORMAL" \/ normal
        BY <2>1 DEF Lowered, Levels
      <3>. QED  BY <2>1, <3>1
    <2>2. CASE state' = "WARNING"
      <3>1. ~normal
        BY <2>2 DEF Lowered, Levels
      <3>. QED  BY <2>2, <3>1
    <2>3. CASE state' \in {"FULL", "FLOOD"}
      <3>1. ~normal /\ ~nowarn
        BY <2>3 DEF Lowered, Levels
      <3>. QED  BY <2>3, <3>1
    <2>4. state' \in Levels
      BY DEF TypeOK
    <2>. QED  BY <2>1, <2>2, <2>3, <2>4 DEF Levels
  <1>. QED  BY <1>4, NextLevelLagsIs

LEMMA LevelNext ==
    TypeOK /\ Flight /\ LevelLagsByOne /\ [Next]_vars => LevelLagsByOne'
  <1>. SUFFICES ASSUME TypeOK, Flight, LevelLagsByOne, [Next]_vars
                PROVE  LevelLagsByOne'
    OBVIOUS
  <1>0. TypeOK'
    BY TypeNext
  <1>1. CASE EventForward /\ enabled /\ buffer_append(arrived + 1)
    BY <1>0, <1>1, LevelAppend
  <1>2. CASE takeMessage
    BY <1>0, <1>2, LevelTake
  <1>3. CASE UNCHANGED <<buflength, i, j, state>>
    BY <1>3 DEF LevelLagsByOne, Used
  <1>. QED
    BY <1>1, <1>2, <1>3 DEF Next, EventForward, os_setwait, os_delwait,
       dispatch_buffer, os_wait, sendMessage, ring, vars

\* buffer.c, agentd.h: the level is never more than one message behind the ring.
THEOREM LevelFollows == Spec => []LevelLagsByOne
  <1>1. Init => LevelLagsByOne
    <2>. SUFFICES ASSUME Init PROVE LevelLagsByOne
      OBVIOUS
    <2>1. TypeOK /\ state = "NORMAL"
      BY TypeInit DEF Init
    <2>2. Used = 0
      BY <2>1, View DEF Init, Distance
    <2>3. Warn > 0
      BY BufferAssumption DEF Warn
    <2>. QED  BY <2>1, <2>2, <2>3, LevelLagsIs, LevelsOrdered DEF Lags
  <1>2. Inv => TypeOK /\ Flight
    BY DEF Inv, RingInv
  <1>. QED  BY <1>1, <1>2, InvInit, InvNext, LevelNext, PTL DEF Spec

-----------------------------------------------------------------------------
(* The connection *)

\* dispatch_buffer, wait_op.c: an outage costs at most the one message that had
\* passed os_wait.
THEOREM OutageIsCheap == Spec => []OutageCostsOne
  <1>1. Init => Outage
    BY DEF Init, Outage
  <1>2. TypeOK /\ Outage /\ [Next]_vars => Outage'
    <2>. SUFFICES ASSUME TypeOK, Outage, [Next]_vars PROVE Outage'
      OBVIOUS
    <2>. USE DEF Outage, TypeOK
    <2>1. CASE EventForward
      BY <2>1 DEF EventForward, thread
    <2>2. CASE os_setwait
      BY <2>2 DEF os_setwait
    <2>3. CASE os_delwait
      BY <2>3 DEF os_delwait
    <2>4. CASE takeMessage
      BY <2>4 DEF takeMessage
    <2>5. CASE os_wait
      BY <2>5 DEF os_wait
    <2>6. CASE sendMessage
      BY <2>6 DEF sendMessage
    <2>7. CASE UNCHANGED vars
      BY <2>7 DEF vars, thread
    <2>. QED  BY <2>1, <2>2, <2>3, <2>4, <2>5, <2>6, <2>7 DEF Next, dispatch_buffer
  <1>3. Outage => OutageCostsOne
    BY DEF Outage, OutageCostsOne
  <1>. QED  BY <1>1, <1>2, <1>3, TypeInit, TypeNext, PTL DEF Spec

=============================================================================
