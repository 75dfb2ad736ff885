---------------------------- MODULE ClientBuffer ----------------------------
(***************************************************************************)
(* The event buffer of the agent daemon (src/src/client-agent/buffer.c).   *)
(* The main thread (agentd.c, event-forward.c) reads the events of the     *)
(* local daemons and appends them to a ring; the dispatch thread takes one *)
(* after the other out of it and sends it to the manager.  A level, from   *)
(* NORMAL to FLOOD, follows how full the ring is.                          *)
(*                                                                         *)
(* The ring's indices and slots are read and written under mutex_lock,     *)
(* with one exception: the dispatch thread clears the slot of the message  *)
(* it has taken only after it was sent, long after the mutex was released. *)
(* While the main thread reconnects to the manager it appends nothing, and *)
(* the dispatch thread is held up in os_wait.                              *)
(*                                                                         *)
(* Events are numbered in the order in which they arrive.  The alerts      *)
(* about changes of the level, and the sleep that limits the events per    *)
(* second, are left out.  The levels are compared exactly; the code        *)
(* divides in single precision.                                            *)
(***************************************************************************)
EXTENDS Integers, Sequences

CONSTANTS
    QueueSize,      \* queue_size of the configuration
    WarnLevel,      \* agent.warn_level, in percent
    NormalLevel,    \* agent.normal_level, in percent
    MaxEvents       \* bound on the number of events that arrive

NULL == 0           \* no message in a slot

ASSUME BufferAssumption ==
    /\ QueueSize \in Nat \ {0}
    /\ WarnLevel \in 1 .. 100
    /\ NormalLevel \in 0 .. WarnLevel - 1
    /\ MaxEvents \in Nat

VARIABLES
    enabled,            \* agt->buffer
    buflength,          \* agt->buflength
    buffer,             \* the slots, 0 .. the allocated capacity
    i,                  \* where the next message is stored
    j,                  \* where the oldest message is
    state,              \* the level
    dispatcher,         \* "empty" (at the top of its loop), "wait", "send"
    msg_to_dispatch,    \* the message it has taken
    original_j,         \* original_j_for_nulling: the slot it was in
    waiting,            \* is the wait lock set?
    arrived,            \* the number of events that have arrived
    sent,               \* the events given to the connection, in this order
    dropped,            \* the events that found the ring full
    unsent,             \* the events whose sending failed
    attempts            \* the dispatch thread's sends while the lock is set

ring == <<buffer, i, j>>
thread == <<dispatcher, msg_to_dispatch, original_j>>
events == <<arrived, sent, dropped, unsent>>
vars == <<enabled, buflength, ring, state, thread, waiting, events, attempts>>

\* The daemon starts with the wait lock set, and starts a dispatch thread only
\* if the buffer is enabled.
Init ==
    /\ enabled \in BOOLEAN
    /\ buflength = QueueSize
    /\ buffer = [k \in 0 .. QueueSize |-> NULL]
    /\ i = 0 /\ j = 0 /\ state = "NORMAL"
    /\ dispatcher = "empty" /\ msg_to_dispatch = NULL /\ original_j = 0
    /\ waiting = TRUE
    /\ arrived = 0 /\ sent = <<>> /\ dropped = {} /\ unsent = {} /\ attempts = 0

-----------------------------------------------------------------------------
(* The macros of agentd.h *)

\* Faulty: one slot too many.
forwardTooFar(x) == (x + 1) % (buflength + 2)

forward(x) == (x + 1) % (buflength + 1)

full == forward(i) = j

\* w_agentd_get_buffer_lenght: C's remainder, made positive.
Used == (i - j) % (buflength + 1)

warn == 100 * Used >= WarnLevel * buflength

nowarn == 100 * Used <= WarnLevel * buflength

normal == 100 * Used <= NormalLevel * buflength

\* What a read of a slot yields; outside the allocation, anything.
Read(k) == IF k \in DOMAIN buffer THEN {buffer[k]} ELSE 0 .. arrived

-----------------------------------------------------------------------------
(* send_msg: it fails if the message cannot be encrypted or written *)

send_msg(m) ==
    \/ sent' = Append(sent, m) /\ UNCHANGED unsent
    \/ unsent' = unsent \cup {m} /\ UNCHANGED sent

-----------------------------------------------------------------------------
(* The main thread *)

\* The level never falls here; FULL becomes FLOOD after tolerance seconds.
Raised ==
    CASE state = "NORMAL" /\ ~full /\ ~warn -> {"NORMAL"}
      [] state = "NORMAL" /\ ~full /\ warn  -> {"WARNING"}
      [] state = "WARNING" /\ ~full         -> {"WARNING"}
      [] state \in {"NORMAL", "WARNING"} /\ full -> {"FULL"}
      [] state = "FULL"                     -> {"FULL", "FLOOD"}
      [] state = "FLOOD"                    -> {"FLOOD"}

\* Faulty: no slot is kept free, the ring is full when the indices meet again.
appendToLast(m) ==
    /\ state' \in Raised
    /\ IF i = j /\ buffer[i] # NULL
       THEN dropped' = dropped \cup {m} /\ UNCHANGED <<buffer, i>>
       ELSE /\ buffer' = [buffer EXCEPT ![i] = m]
            /\ i' = forward(i)
            /\ UNCHANGED dropped
    /\ UNCHANGED <<sent, unsent>>

\* Faulty: an event that finds the ring full is sent at once.
appendOrSend(m) ==
    /\ state' \in Raised
    /\ IF full
       THEN send_msg(m) /\ UNCHANGED <<buffer, i>>
       ELSE /\ buffer' = [buffer EXCEPT ![i] = m]
            /\ i' = forward(i)
            /\ UNCHANGED <<sent, unsent>>
    /\ UNCHANGED dropped

\* Faulty: when the ring is full the newest message gives way.
overwriteNewest(m) ==
    /\ state' \in Raised
    /\ IF full
       THEN \E k \in DOMAIN buffer :
              /\ forward(k) = i
              /\ dropped' = dropped \cup {buffer[k]}
              /\ buffer' = [buffer EXCEPT ![k] = m]
              /\ UNCHANGED i
       ELSE /\ buffer' = [buffer EXCEPT ![i] = m]
            /\ i' = forward(i)
            /\ UNCHANGED dropped
    /\ UNCHANGED <<sent, unsent>>

buffer_append(m) ==
    /\ state' \in Raised
    /\ IF full
       THEN dropped' = dropped \cup {m} /\ UNCHANGED <<buffer, i>>
       ELSE /\ buffer' = [buffer EXCEPT ![i] = m]
            /\ i' = forward(i)
            /\ UNCHANGED dropped
    /\ UNCHANGED <<sent, unsent>>

\* Without the buffer the main thread sends the event itself.
EventForward ==
    /\ ~waiting
    /\ arrived < MaxEvents
    /\ arrived' = arrived + 1
    /\ \/ enabled /\ buffer_append(arrived + 1)
       \/ /\ ~enabled
          /\ send_msg(arrived + 1)
          /\ UNCHANGED <<buffer, i, state, dropped>>
    /\ UNCHANGED <<enabled, buflength, j, thread, waiting, attempts>>

\* The connection is lost, or the manager has not answered for too long.
os_setwait ==
    /\ ~waiting
    /\ waiting' = TRUE
    /\ attempts' = 0
    /\ UNCHANGED <<enabled, buflength, ring, state, thread, events>>

\* start_agent returns once a manager has acknowledged the handshake.
os_delwait ==
    /\ waiting
    /\ waiting' = FALSE
    /\ UNCHANGED <<enabled, buflength, ring, state, thread, events, attempts>>

-----------------------------------------------------------------------------
(* The dispatch thread *)

\* Faulty: a full buffer is lowered to WARNING only.
LoweredOnce ==
    CASE state = "NORMAL" -> "NORMAL"
      [] state = "WARNING" -> IF normal THEN "NORMAL" ELSE "WARNING"
      [] state \in {"FULL", "FLOOD"} -> IF normal THEN "WARNING" ELSE state

Lowered ==
    CASE state # "NORMAL" /\ normal -> "NORMAL"
      [] state \in {"FULL", "FLOOD"} /\ nowarn /\ ~normal -> "WARNING"
      [] OTHER -> state

\* Faulty: the index is moved before the message is copied.
takeAfterForward ==
    /\ enabled
    /\ dispatcher = "empty"
    /\ i # j
    /\ state' = Lowered
    /\ msg_to_dispatch' \in Read(forward(j))
    /\ original_j' = j
    /\ j' = forward(j)
    /\ dispatcher' = "wait"
    /\ UNCHANGED <<enabled, buflength, buffer, i, waiting, events, attempts>>

\* Faulty: a single message is left in the ring.
takeAllButOne ==
    /\ enabled
    /\ dispatcher = "empty"
    /\ i # j /\ i # forward(j)
    /\ state' = Lowered
    /\ msg_to_dispatch' \in Read(j)
    /\ original_j' = j
    /\ j' = forward(j)
    /\ dispatcher' = "wait"
    /\ UNCHANGED <<enabled, buflength, buffer, i, waiting, events, attempts>>

\* Under the mutex: the loop up to w_mutex_unlock.
takeMessage ==
    /\ enabled
    /\ dispatcher = "empty"
    /\ i # j
    /\ state' = Lowered
    /\ msg_to_dispatch' \in Read(j)
    /\ original_j' = j
    /\ j' = forward(j)
    /\ dispatcher' = "wait"
    /\ UNCHANGED <<enabled, buflength, buffer, i, waiting, events, attempts>>

\* Faulty: the wait lock is not looked at.
noWait ==
    /\ dispatcher = "wait"
    /\ dispatcher' = "send"
    /\ UNCHANGED <<enabled, buflength, ring, state, msg_to_dispatch, original_j,
                   waiting, events, attempts>>

os_wait ==
    /\ dispatcher = "wait"
    /\ ~waiting
    /\ dispatcher' = "send"
    /\ UNCHANGED <<enabled, buflength, ring, state, msg_to_dispatch, original_j,
                   waiting, events, attempts>>

\* A message is sent and freed, whether or not it could be sent, and its slot is
\* cleared without the mutex.  A slot that was empty is skipped.
sendMessage ==
    /\ dispatcher = "send"
    /\ IF msg_to_dispatch # NULL
       THEN /\ send_msg(msg_to_dispatch)
            /\ buffer' = [k \in DOMAIN buffer |->
                              IF k = original_j THEN NULL ELSE buffer[k]]
       ELSE UNCHANGED <<sent, unsent, buffer>>
    /\ attempts' = IF waiting THEN attempts + 1 ELSE attempts
    /\ dispatcher' = "empty" /\ msg_to_dispatch' = NULL /\ original_j' = 0
    /\ UNCHANGED <<enabled, buflength, i, j, state, waiting, arrived, dropped>>

dispatch_buffer == takeMessage \/ os_wait \/ sendMessage

Next == EventForward \/ os_setwait \/ os_delwait \/ dispatch_buffer

Spec == Init /\ [][Next]_vars

\* The dispatch thread runs on.  The manager is reached again, and not lost each
\* time between the dispatch thread's checks of the lock.
FairSpec ==
    /\ Spec
    /\ WF_vars(takeMessage \/ sendMessage)
    /\ SF_vars(os_wait)
    /\ WF_vars(os_delwait)

-----------------------------------------------------------------------------
Levels == {"NORMAL", "WARNING", "FULL", "FLOOD"}

TypeOK ==
    /\ enabled \in BOOLEAN
    /\ buflength = QueueSize
    /\ buffer \in [0 .. QueueSize -> 0 .. MaxEvents]
    /\ i \in 0 .. QueueSize /\ j \in 0 .. QueueSize
    /\ state \in Levels
    /\ dispatcher \in {"empty", "wait", "send"}
    /\ msg_to_dispatch \in 0 .. MaxEvents /\ original_j \in 0 .. QueueSize
    /\ waiting \in BOOLEAN
    /\ arrived \in 0 .. MaxEvents
    /\ sent \in Seq(1 .. MaxEvents)
    /\ dropped \subseteq 1 .. MaxEvents /\ unsent \subseteq 1 .. MaxEvents
    /\ attempts \in Nat

\* How far slot k is from the oldest message.
Place(k) == (k - j) % (buflength + 1)

\* The slots of the messages that wait, from j up to i.
Live == {k \in 0 .. buflength : Place(k) < Used}

Queued == {buffer[k] : k \in Live}

InFlight == IF dispatcher = "empty" THEN {} ELSE {msg_to_dispatch}

Given == {sent[k] : k \in DOMAIN sent}

\* The ring keeps its messages in the order of their arrival, and the slot that the
\* dispatch thread clears without the mutex never holds one of them: it is the one
\* slot that buffer_append leaves free (full, dispatch_buffer).
RingIntact ==
    /\ \A k \in Live : buffer[k] # NULL
    /\ \A k, l \in Live : Place(k) < Place(l) => buffer[k] < buffer[l]
    /\ dispatcher # "empty" => original_j \notin Live
    /\ \A k \in DOMAIN buffer \ Live :
          buffer[k] # NULL => dispatcher # "empty" /\ k = original_j

\* Every event that arrived is at exactly one place: it waits, it is being sent, it
\* was sent, it found the ring full or its sending failed.  None is lost between the
\* two threads, and none is sent again (buffer_append, dispatch_buffer).
EveryEventOnce ==
    /\ 1 .. arrived = Queued \cup InFlight \cup Given \cup dropped \cup unsent
    /\ Queued \cap (InFlight \cup Given \cup dropped \cup unsent) = {}
    /\ InFlight \cap (Given \cup dropped \cup unsent) = {}
    /\ Given \cap (dropped \cup unsent) = {}
    /\ dropped \cap unsent = {}

\* Events reach the manager in the order in which they arrived, whatever was
\* dropped or failed in between: what was sent is in order, and older than what is
\* being sent, which is older than what waits.
SentInOrder ==
    /\ \A k, l \in DOMAIN sent : k < l => sent[k] < sent[l]
    /\ \A m \in Given, n \in InFlight \cup Queued : m < n
    /\ \A m \in InFlight, n \in Queued : m < n

Abstract == INSTANCE EventDelivery WITH
    waiting <- Queued \cup InFlight,
    processed <- Given \cup unsent

\* The buffer is a queue that delivers at most once: an event may be refused when it
\* arrives, but one that was stored leaves only by being sent, the oldest first
\* (buffer_append, dispatch_buffer).
Delivers == Abstract!Spec

\* The level is checked before a message is stored and before one is taken, so it
\* may lag behind the ring, but by one message only: an agent that is NORMAL has not
\* passed the warning level, one that is FULL or FLOOD has not fallen below it, and
\* one that is not NORMAL has not fallen below the normal level.
LevelLagsByOne ==
    /\ state = "NORMAL" => 100 * (Used - 1) < WarnLevel * buflength
    /\ state # "NORMAL" => 100 * (Used + 1) > NormalLevel * buflength
    /\ state \in {"FULL", "FLOOD"} => 100 * (Used + 1) > WarnLevel * buflength

\* While the main thread reconnects, the dispatch thread sends at most one message:
\* the one for which it had passed os_wait when the lock was set.  The others wait
\* in the ring for the connection.
OutageCostsOne == waiting => attempts <= 1

\* Once events cease the buffer empties, and the level returns to NORMAL if one
\* message is within the normal level: the dispatch thread checks the level only
\* with a message at hand, the last chance is the last message.
Recovers ==
    100 <= NormalLevel * QueueSize =>
        <>[](i = j /\ dispatcher = "empty" /\ state = "NORMAL")

=============================================================================
