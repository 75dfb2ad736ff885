------------------------- MODULE ClientBufferResize -------------------------
(***************************************************************************)
(* ClientBuffer with the reload of the configuration (agentd.c) for a      *)
(* buffer that was enabled and stays enabled: ReadConfig stores the new    *)
(* queue_size in agt->buflength, w_agentd_buffer_resize then counts the    *)
(* messages under the mutex, releases it, takes it again and moves the     *)
(* messages to a new allocation.  The main thread does all this, so no     *)
(* event arrives meanwhile; the dispatch thread goes on between the steps. *)
(***************************************************************************)
EXTENDS ClientBuffer

CONSTANT QueueSizes     \* the values of queue_size that a reload may find

VARIABLES
    reload,             \* "no", "read" (the configuration), "counted"
    current_capacity,   \* the capacity before the reload
    agent_msg_count,    \* the messages that w_agentd_buffer_resize counted
    gone                \* messages a resize removed, though among the oldest

resizing == <<reload, current_capacity, agent_msg_count, gone>>

ResizeInit ==
    /\ Init
    /\ enabled
    /\ reload = "no" /\ current_capacity = 0 /\ agent_msg_count = 0 /\ gone = {}

\* An unchanged queue_size changes nothing.
ReadConfig(size) ==
    /\ ~waiting
    /\ reload = "no"
    /\ size # buflength
    /\ current_capacity' = buflength
    /\ buflength' = size
    /\ reload' = "read"
    /\ UNCHANGED <<enabled, ring, state, thread, waiting, events, attempts,
                   agent_msg_count, gone>>

\* It counts with the new agt->buflength.  An impossible count ends the resize.
countMessages ==
    /\ reload = "read"
    /\ agent_msg_count' = Used
    /\ reload' = IF Used > current_capacity + 1 THEN "no" ELSE "counted"
    /\ UNCHANGED <<vars, current_capacity, gone>>

\* A slot of the old buffer; what lies outside of it is no message.
Old(k) == IF k \in DOMAIN buffer THEN buffer[k] ELSE NULL

\* The number of slots up to the end of the old ring.
FirstPart == current_capacity - j + 1

\* Two copies if the messages wrap around, or if there are none.
Grown ==
    [k \in 0 .. buflength |->
        CASE j < i /\ k < agent_msg_count -> Old(j + k)
          [] j >= i /\ k < FirstPart -> Old(j + k)
          [] j >= i /\ FirstPart <= k /\ k < FirstPart + i -> Old(k - FirstPart)
          [] OTHER -> NULL]

Retained == IF agent_msg_count < buflength THEN agent_msg_count ELSE buflength

Shrunk ==
    [k \in 0 .. buflength |->
        IF k < Retained THEN Old((j + k) % (current_capacity + 1)) ELSE NULL]

\* Of the messages that wait in the old ring, the oldest ones that fit the new.
Oldest ==
    {Old((j + k) % (current_capacity + 1)) :
        k \in {k \in 0 .. buflength - 1 : k < (i - j) % (current_capacity + 1)}}

w_agentd_buffer_resize ==
    /\ reload = "counted"
    /\ reload' = "no"
    /\ buffer' = IF buflength > current_capacity THEN Grown ELSE Shrunk
    /\ j' = 0
    /\ i' = IF buflength > current_capacity THEN agent_msg_count ELSE Retained
    /\ gone' = gone \cup {m \in Oldest : \A k \in 0 .. i' - 1 : buffer'[k] # m}
    /\ UNCHANGED <<enabled, buflength, state, thread, waiting, events, attempts,
                   current_capacity, agent_msg_count>>

MainThread == reload = "no" /\ (EventForward \/ os_setwait \/ os_delwait)

ResizeNext ==
    \/ (MainThread \/ dispatch_buffer) /\ UNCHANGED resizing
    \/ \E size \in QueueSizes : ReadConfig(size)
    \/ countMessages
    \/ w_agentd_buffer_resize

ResizeSpec == ResizeInit /\ [][ResizeNext]_<<vars, resizing>>

\* The documentation of w_agentd_buffer_resize: "If the desired capacity is smaller
\* than the current number of messages, the buffer will truncate the newest messages
\* to preserve the oldest ones", so of the messages that wait the oldest stay, as
\* many as fit (agentd.c, w_agentd_buffer_resize).
OldestPreserved == gone = {}

=============================================================================
