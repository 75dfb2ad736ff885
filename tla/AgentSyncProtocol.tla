------------------------- MODULE AgentSyncProtocol -------------------------
(***************************************************************************)
(* The agent's side of the synchronization protocol                        *)
(* (src/src/shared_modules/sync_protocol/src/agent_sync_protocol.cpp): the *)
(* thread that runs synchronizeModule, and parseResponseBuffer, which the  *)
(* thread receiving the manager's messages calls at any time.              *)
(*                                                                         *)
(* The two share syncState, guarded by its mutex, except that              *)
(* synchronizeModule reads the session without it.  One step is what runs  *)
(* under one hold of the mutex, or one call of sendFlatBufferMessageAsString. *)
(* The manager is left open: module AgentSync has it answer anything at    *)
(* any time, module InventorySync is the real one.                         *)
(***************************************************************************)
EXTENDS Naturals, Sequences

CONSTANTS
    Sessions,   \* the session ids the manager may hand out (0 means none)
    RangeLists, \* the lists of ranges a ReqRet may carry
    MaxSize,    \* bound on the number of items of a batch
    Retries,    \* the parameter retries of synchronizeModule
    MaxSyncs    \* bound on the number of calls of synchronizeModule

ASSUME AgentAssumption ==
    /\ Sessions \subseteq Nat \ {0}
    /\ RangeLists \subseteq Seq([begin : Nat, end : Nat])
    /\ MaxSize \in Nat
    /\ Retries \in Nat
    /\ MaxSyncs \in Nat

VARIABLES
    syncState,  \* m_syncState
    pc,         \* where synchronizeModule stands
    batch,      \* the number of this call of synchronizeModule
    size,       \* dataToSync.size(); its items have seq 0 .. size - 1
    attempt,    \* attempt of the loop it is in
    session,    \* the parameter of sendDataMessages and sendEndAndWaitAck
    toSend,     \* the sequence numbers sendDataMessages has still to send
    sendEnd,    \* the local variable of sendEndAndWaitAck
    toManager,  \* the messages sent so far
    succeeded   \* the calls that returned success

locals == <<batch, size, attempt, session, toSend, sendEnd>>

agentVars == <<syncState, pc, locals, toManager, succeeded>>

SyncState == [phase            : {"Idle", "WaitingStartAck", "WaitingEndAck"},
              session          : Sessions \cup {0},
              startAckReceived : BOOLEAN,
              endAckReceived   : BOOLEAN,
              reqRetReceived   : BOOLEAN,
              syncFailed       : BOOLEAN,
              reqRetRanges     : RangeLists \cup {<<>>}]

\* SyncState::reset
reset == [phase            |-> "Idle",
          session          |-> 0,
          startAckReceived |-> FALSE,
          endAckReceived   |-> FALSE,
          reqRetReceived   |-> FALSE,
          syncFailed       |-> FALSE,
          reqRetRanges     |-> <<>>]

\* Faulty: the last item is not counted.
StartMessageShort == [type |-> "Start", batch |-> batch, size |-> size - 1]

\* The batch of a message is not on the wire: it says which contents the message
\* stands for.
StartMessage == [type |-> "Start", batch |-> batch, size |-> size]

DataMessage(seq) ==
    [type |-> "Data", batch |-> batch, session |-> session, seq |-> seq]

EndMessage == [type |-> "End", batch |-> batch, session |-> session]

AgentInit ==
    /\ syncState = reset
    /\ pc = "idle"
    /\ batch = 0
    /\ size = 0
    /\ attempt = 0
    /\ session = 0
    /\ toSend = {}
    /\ sendEnd = TRUE
    /\ toManager = {}
    /\ succeeded = {}

-----------------------------------------------------------------------------
(* Steps shared by the loops *)

\* The end of synchronizeModule: the rows are settled in the queue (module
\* QueueSync) and the state is cleared.
Return(success) ==
    /\ succeeded' = IF success THEN succeeded \cup {batch} ELSE succeeded
    /\ syncState' = reset
    /\ pc' = "idle"
    /\ size' = 0
    /\ attempt' = 0
    /\ session' = 0
    /\ toSend' = {}
    /\ sendEnd' = TRUE
    /\ UNCHANGED batch

\* Faulty: one attempt too many.
ContinueOnceMore(label, endNext) ==
    IF attempt <= Retries
    THEN /\ attempt' = attempt + 1
         /\ sendEnd' = endNext
         /\ pc' = label
         /\ UNCHANGED <<syncState, batch, size, session, toSend, succeeded>>
    ELSE Return(FALSE)

\* continue, in the loop that begins at label
Continue(label, endNext) ==
    IF attempt < Retries
    THEN /\ attempt' = attempt + 1
         /\ sendEnd' = endNext
         /\ pc' = label
         /\ UNCHANGED <<syncState, batch, size, session, toSend, succeeded>>
    ELSE Return(FALSE)

Send(message) == toManager' = toManager \cup {message}

-----------------------------------------------------------------------------
(* synchronizeModule and sendStartAndWaitAck *)

\* With nothing pending the call returns before any message is sent.
synchronizeModule ==
    /\ pc = "idle"
    /\ batch < MaxSyncs
    /\ batch' = batch + 1
    /\ size' \in 1 .. MaxSize
    /\ syncState' = [reset EXCEPT !.phase = "WaitingStartAck"]
    /\ attempt' = 0
    /\ pc' = "sendStart"
    /\ UNCHANGED <<session, toSend, sendEnd, toManager, succeeded>>

sendStart ==
    /\ pc = "sendStart"
    /\ \/ /\ Send(StartMessage)
          /\ pc' = "waitStart"
          /\ UNCHANGED <<syncState, locals, succeeded>>
       \/ /\ Continue("sendStart", sendEnd)      \* the send failed
          /\ UNCHANGED toManager

StartAnswered == syncState.startAckReceived \/ syncState.syncFailed

\* Faulty: the last item of the batch is left out.
receiveStartAckShort ==
    /\ pc = "waitStart"
    /\ StartAnswered
    /\ IF syncState.syncFailed
       THEN Return(FALSE)
       ELSE /\ session' = syncState.session
            /\ toSend' = {seq \in 0 .. size - 1 : seq + 1 < size}
            /\ pc' = "sendData"
            /\ UNCHANGED <<syncState, batch, size, attempt, sendEnd, succeeded>>
    /\ UNCHANGED toManager

\* The flags only ever go up while the thread waits, so the check that follows
\* the wait, and the read of the session after it, are part of this step.
receiveStartAck ==
    /\ pc = "waitStart"
    /\ StartAnswered
    /\ IF syncState.syncFailed
       THEN Return(FALSE)
       ELSE /\ session' = syncState.session
            /\ toSend' = 0 .. size - 1
            /\ pc' = "sendData"
            /\ UNCHANGED <<syncState, batch, size, attempt, sendEnd, succeeded>>
    /\ UNCHANGED toManager

startAckTimeout ==
    /\ pc = "waitStart"
    /\ ~StartAnswered
    /\ Continue("sendStart", sendEnd)
    /\ UNCHANGED toManager

-----------------------------------------------------------------------------
(* sendDataMessages: all items, or those of a ReqRet *)

NextSeq == CHOOSE n \in toSend : \A m \in toSend : n <= m

sendDataMessages ==
    /\ pc \in {"sendData", "resend"}
    /\ toSend # {}
    /\ \/ /\ Send(DataMessage(NextSeq))
          /\ toSend' = toSend \ {NextSeq}
          /\ UNCHANGED <<syncState, pc, batch, size, attempt, session, sendEnd,
                         succeeded>>
       \/ /\ Return(FALSE)              \* the send failed
          /\ UNCHANGED toManager

\* The argument of sendEndAndWaitAck is read again from the shared state.
readSession ==
    /\ pc = "sendData"
    /\ toSend = {}
    /\ session' = syncState.session
    /\ pc' = "enterEnd"
    /\ UNCHANGED <<syncState, batch, size, attempt, toSend, sendEnd, toManager,
                   succeeded>>

-----------------------------------------------------------------------------
(* sendEndAndWaitAck *)

enterEnd ==
    /\ pc = "enterEnd"
    /\ syncState' = [syncState EXCEPT !.phase = "WaitingEndAck"]
    /\ attempt' = 0
    /\ sendEnd' = TRUE
    /\ pc' = "sendEnd"
    /\ UNCHANGED <<batch, size, session, toSend, toManager, succeeded>>

sendEndMessage ==
    /\ pc = "sendEnd"
    /\ \/ /\ sendEnd
          /\ Send(EndMessage)
          /\ pc' = "waitEnd"
          /\ UNCHANGED <<syncState, locals, succeeded>>
       \/ /\ sendEnd                    \* the send failed
          /\ Continue("sendEnd", sendEnd)
          /\ UNCHANGED toManager
       \/ /\ ~sendEnd
          /\ pc' = "waitEnd"
          /\ UNCHANGED <<syncState, locals, toManager, succeeded>>

EndAnswered ==
    syncState.endAckReceived \/ syncState.reqRetReceived \/ syncState.syncFailed

receiveEndAck ==
    /\ pc = "waitEnd"
    /\ EndAnswered
    /\ IF syncState.syncFailed
       THEN Return(FALSE)
       ELSE /\ pc' = "takeReqRet"
            /\ UNCHANGED <<syncState, locals, succeeded>>
    /\ UNCHANGED toManager

endAckTimeout ==
    /\ pc = "waitEnd"
    /\ ~EndAnswered
    /\ Continue("sendEnd", sendEnd)
    /\ UNCHANGED toManager

InRange(seq, range) == range.begin <= seq /\ seq <= range.end

\* Some item is compared with a malformed range, none before it having matched.
Malformed(ranges) ==
    \E seq \in 0 .. size - 1, k \in DOMAIN ranges :
        /\ ranges[k].end < ranges[k].begin
        /\ \A j \in 1 .. k - 1 : ~InRange(seq, ranges[j])

filterDataByRanges(ranges) ==
    {seq \in 0 .. size - 1 : /\ ~Malformed(ranges)
                             /\ \E k \in DOMAIN ranges : InRange(seq, ranges[k])}

\* A request that yields no data, an empty one included, ends the call.
takeReqRet ==
    /\ pc = "takeReqRet"
    /\ LET rangeData == filterDataByRanges(syncState.reqRetRanges) IN
       \/ /\ ~syncState.reqRetReceived
          /\ pc' = "checkEndAck"
          /\ UNCHANGED <<syncState, locals, succeeded>>
       \/ /\ syncState.reqRetReceived
          /\ rangeData = {}
          /\ Return(FALSE)
       \/ /\ syncState.reqRetReceived
          /\ rangeData # {}
          /\ syncState' = [syncState EXCEPT !.reqRetReceived = FALSE,
                                            !.reqRetRanges = <<>>]
          /\ toSend' = rangeData
          /\ pc' = "resend"
          /\ UNCHANGED <<batch, size, attempt, session, sendEnd, succeeded>>
    /\ UNCHANGED toManager

\* Faulty: a retransmission does not count as an attempt.
resentUncounted ==
    /\ pc = "resend"
    /\ toSend = {}
    /\ sendEnd' = FALSE
    /\ pc' = "sendEnd"
    /\ UNCHANGED <<syncState, batch, size, attempt, session, toSend, toManager,
                   succeeded>>

resent ==
    /\ pc = "resend"
    /\ toSend = {}
    /\ Continue("sendEnd", FALSE)
    /\ UNCHANGED toManager

checkEndAck ==
    /\ pc = "checkEndAck"
    /\ IF syncState.endAckReceived
       THEN Return(TRUE)
       ELSE Continue("sendEnd", sendEnd)
    /\ UNCHANGED toManager

\* The steps of the thread that runs synchronizeModule, once it was called.
SyncThread ==
    \/ sendStart \/ receiveStartAck \/ startAckTimeout
    \/ sendDataMessages \/ readSession
    \/ enterEnd \/ sendEndMessage \/ receiveEndAck \/ endAckTimeout
    \/ takeReqRet \/ resent \/ checkEndAck

\* The agent stops in the middle of a synchronization and is started again: its
\* rows go back to PENDING, as after a failure.
Restart ==
    /\ pc # "idle"
    /\ Return(FALSE)
    /\ UNCHANGED toManager

-----------------------------------------------------------------------------
(* parseResponseBuffer *)

StartAckAccepted(status, incoming) ==
    IF status = "Ok"
    THEN [syncState EXCEPT !.session = incoming, !.startAckReceived = TRUE]
    ELSE [syncState EXCEPT !.syncFailed = TRUE]

\* Faulty: the phase is not compared.
validateSession(incoming) == syncState.session = incoming

validatePhaseAndSession(incoming) ==
    /\ syncState.phase = "WaitingEndAck"
    /\ syncState.session = incoming

EndAckAccepted(status) ==
    IF status = "Ok" THEN [syncState EXCEPT !.endAckReceived = TRUE]
                     ELSE [syncState EXCEPT !.syncFailed = TRUE]

\* A ReqRet replaces the one that the thread has not taken yet.
ReqRetAccepted(ranges) ==
    [syncState EXCEPT !.reqRetReceived = TRUE, !.reqRetRanges = ranges]

\* A message that is not accepted is logged and changes nothing.
parseResponseBuffer(message) ==
    /\ syncState' =
         CASE message.type = "StartAck" /\ syncState.phase = "WaitingStartAck" ->
                StartAckAccepted(message.status, message.session)
           [] message.type = "EndAck" /\ validatePhaseAndSession(message.session) ->
                EndAckAccepted(message.status)
           [] message.type = "ReqRet" /\ validatePhaseAndSession(message.session) ->
                ReqRetAccepted(message.ranges)
           [] OTHER -> syncState
    /\ UNCHANGED <<pc, locals, toManager, succeeded>>

-----------------------------------------------------------------------------
InEndLoop == pc \in {"sendEnd", "waitEnd", "takeReqRet", "resend", "checkEndAck"}

InDataOrEnd == pc \in {"sendData", "enterEnd"} \/ InEndLoop

AgentTypeOK ==
    /\ syncState \in SyncState
    /\ pc \in {"idle", "sendStart", "waitStart"} \/ InDataOrEnd
    /\ batch \in 0 .. MaxSyncs
    /\ size \in 0 .. MaxSize
    /\ attempt \in 0 .. Retries
    /\ session \in Sessions \cup {0}
    /\ toSend \subseteq 0 .. size - 1
    /\ sendEnd \in BOOLEAN
    /\ succeeded \subseteq 1 .. (IF pc = "idle" THEN batch ELSE batch - 1)

\* What the flags mean when the thread tests them: an answer to End is recorded
\* only once the thread is in the loop that waits for it, so that no answer to an
\* earlier call of synchronizeModule, and none to Start, can end this one;
\* between two calls nothing is recorded at all (clearSyncState,
\* validatePhaseAndSession).
FlagsAreFresh ==
    /\ pc = "idle" => syncState = reset
    /\ InEndLoop <=> syncState.phase = "WaitingEndAck"
    /\ syncState.endAckReceived \/ syncState.reqRetReceived => InEndLoop
    /\ syncState.reqRetRanges # <<>> => syncState.reqRetReceived
    /\ InDataOrEnd => syncState.startAckReceived

=============================================================================
