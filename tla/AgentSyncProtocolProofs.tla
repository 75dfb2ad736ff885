---------------------- MODULE AgentSyncProtocolProofs ----------------------
(***************************************************************************)
(* The steps of the agent's protocol keep its types and the meaning of its *)
(* flags, whatever manager it runs with: the facts that AgentSyncProofs    *)
(* (any manager) and InventorySyncProofs (the real one) share.             *)
(***************************************************************************)
EXTENDS AgentSyncProtocol, WellFoundedInduction, TLAPS

\* Between two calls nothing is left to be sent; a call has a number and items.
CallShape ==
    /\ pc = "idle" => toSend = {}
    /\ pc # "idle" => batch # 0 /\ size # 0

\* What holds of the agent whatever it has sent.
StateInv == AgentTypeOK /\ CallShape /\ FlagsAreFresh

\* A call that ends leaves the state as it was before the first.
LEMMA ReturnKeeps ==
    ASSUME StateInv, pc # "idle", NEW success \in BOOLEAN, Return(success)
    PROVE  StateInv'
  <1>1. reset \in SyncState
    BY DEF reset, SyncState
  <1>2. batch \in Nat /\ batch >= 1 /\ MaxSyncs \in Nat
    BY AgentAssumption DEF StateInv, AgentTypeOK, CallShape
  <1>3. succeeded' \subseteq 1 .. batch
    BY <1>2 DEF StateInv, AgentTypeOK, Return
  <1>4. AgentTypeOK'
    BY <1>1, <1>2, <1>3, AgentAssumption
       DEF StateInv, AgentTypeOK, Return, InDataOrEnd, InEndLoop
  <1>5. CallShape'
    BY DEF Return, CallShape
  <1>6. FlagsAreFresh'
    BY DEF Return, FlagsAreFresh, reset, InDataOrEnd, InEndLoop
  <1>. QED  BY <1>4, <1>5, <1>6 DEF StateInv

\* A further attempt changes none of what the other steps rely on.
LEMMA ContinueKeeps ==
    ASSUME StateInv, pc # "idle", NEW label, NEW endNext \in BOOLEAN,
           \/ pc \in {"sendStart", "waitStart"} /\ label = "sendStart"
           \/ InEndLoop /\ label = "sendEnd",
           Continue(label, endNext)
    PROVE  StateInv'
  <1>1. CASE attempt < Retries
    <2>1. /\ attempt' = attempt + 1 /\ sendEnd' = endNext /\ pc' = label
          /\ UNCHANGED <<syncState, batch, size, session, toSend, succeeded>>
      BY <1>1 DEF Continue
    <2>2. AgentTypeOK'
      BY <1>1, <2>1, AgentAssumption DEF StateInv, AgentTypeOK, InDataOrEnd, InEndLoop
    <2>3. CallShape'
      BY <2>1 DEF StateInv, CallShape, InEndLoop
    <2>4. FlagsAreFresh'
      BY <2>1 DEF StateInv, FlagsAreFresh, InDataOrEnd, InEndLoop
    <2>. QED  BY <2>2, <2>3, <2>4 DEF StateInv
  <1>2. CASE ~(attempt < Retries)
    BY <1>2, ReturnKeeps DEF Continue
  <1>. QED  BY <1>1, <1>2

\* The least of the sequence numbers that are left to send is one of them.
LEMMA NextSeqIsLeft ==
    ASSUME StateInv, toSend # {}
    PROVE  NextSeq \in toSend /\ NextSeq \in 0 .. size - 1
  <1>. DEFINE R == OpToRel(<, Nat)
  <1>1. IsWellFoundedOn(R, Nat)
    BY NatLessThanWellFounded
  <1>2. \A n, m \in Nat : <<m, n>> \in R <=> m < n
    BY DEF OpToRel
  <1>3. toSend \subseteq Nat /\ toSend \subseteq 0 .. size - 1
    BY AgentAssumption DEF StateInv, AgentTypeOK
  <1>. HIDE DEF R
  <1>4. \E n \in toSend : \A m \in toSend : ~(<<m, n>> \in R)
    BY ONLY <1>1, <1>3, toSend # {}, WFMin
  <1>5. PICK n \in toSend : \A m \in toSend : ~(<<m, n>> \in R)
    BY ONLY <1>4
  <1>6. \A m \in toSend : n <= m
    <2>. SUFFICES ASSUME NEW m \in toSend PROVE n <= m
      OBVIOUS
    <2>1. n \in Nat /\ m \in Nat
      BY ONLY <1>3, n \in toSend, m \in toSend
    <2>2. ~(m < n)
      BY ONLY <1>2, <1>5, <2>1, m \in toSend, Zenon
    <2>. QED  BY ONLY <2>1, <2>2
  <1>7. NextSeq \in toSend
    BY ONLY <1>5, <1>6 DEF NextSeq
  <1>. QED  BY ONLY <1>3, <1>7

\* One step of the thread that runs synchronizeModule.
LEMMA ThreadKeeps ==
    ASSUME StateInv, synchronizeModule \/ SyncThread \/ Restart
    PROVE  StateInv'
  <1>. USE AgentAssumption
  <1>1. sendEnd \in BOOLEAN
    BY DEF StateInv, AgentTypeOK
  <1>2. CASE synchronizeModule
    <2>1. toSend = {} /\ batch \in Nat
      BY <1>2 DEF StateInv, CallShape, AgentTypeOK, synchronizeModule
    <2>2. syncState' \in SyncState
      BY <1>2 DEF synchronizeModule, reset, SyncState
    <2>3. AgentTypeOK'
      BY <1>2, <2>1, <2>2 DEF StateInv, AgentTypeOK, synchronizeModule
    <2>4. CallShape'
      BY <1>2, <2>1 DEF CallShape, synchronizeModule
    <2>5. FlagsAreFresh'
      BY <1>2 DEF FlagsAreFresh, synchronizeModule, reset, InDataOrEnd, InEndLoop
    <2>. QED  BY <2>3, <2>4, <2>5 DEF StateInv
  <1>3. CASE sendStart
    <2>1. CASE /\ Send(StartMessage) /\ pc' = "waitStart"
               /\ UNCHANGED <<syncState, locals, succeeded>>
      BY <1>3, <2>1 DEF StateInv, AgentTypeOK, CallShape, FlagsAreFresh, sendStart,
         locals, InDataOrEnd, InEndLoop
    <2>2. CASE Continue("sendStart", sendEnd)
      BY <1>1, <1>3, <2>2, ContinueKeeps DEF sendStart
    <2>. QED  BY <1>3, <2>1, <2>2 DEF sendStart
  <1>4. CASE receiveStartAck
    <2>1. CASE syncState.syncFailed
      BY <1>4, <2>1, ReturnKeeps DEF receiveStartAck
    <2>2. CASE ~syncState.syncFailed
      <3>1. /\ session' = syncState.session /\ toSend' = 0 .. size - 1
            /\ pc' = "sendData" /\ pc = "waitStart"
            /\ UNCHANGED <<syncState, batch, size, attempt, sendEnd, succeeded>>
        BY <1>4, <2>2 DEF receiveStartAck
      <3>2. syncState.startAckReceived
        BY <1>4, <2>2 DEF receiveStartAck, StartAnswered
      <3>3. AgentTypeOK'
        BY <3>1 DEF StateInv, AgentTypeOK, SyncState, InDataOrEnd
      <3>4. CallShape'
        BY <3>1 DEF StateInv, CallShape
      <3>5. FlagsAreFresh'
        BY <3>1, <3>2 DEF StateInv, FlagsAreFresh, InDataOrEnd, InEndLoop
      <3>. QED  BY <3>3, <3>4, <3>5 DEF StateInv
    <2>. QED  BY <2>1, <2>2
  <1>5. CASE startAckTimeout
    BY <1>1, <1>5, ContinueKeeps DEF startAckTimeout
  <1>6. CASE sendDataMessages
    <2>1. CASE Return(FALSE)
      BY <1>6, <2>1, ReturnKeeps DEF sendDataMessages
    <2>2. CASE /\ toSend' = toSend \ {NextSeq}
               /\ UNCHANGED <<syncState, pc, batch, size, attempt, session, sendEnd,
                              succeeded>>
      BY <1>6, <2>2 DEF StateInv, AgentTypeOK, CallShape, FlagsAreFresh,
         sendDataMessages, InDataOrEnd, InEndLoop
    <2>. QED  BY <1>6, <2>1, <2>2 DEF sendDataMessages
  <1>7. CASE readSession
    BY <1>7 DEF StateInv, AgentTypeOK, SyncState, CallShape, FlagsAreFresh,
       readSession, InDataOrEnd, InEndLoop
  <1>8. CASE enterEnd
    <2>1. syncState' \in SyncState /\ syncState \in SyncState
      BY <1>8 DEF StateInv, AgentTypeOK, SyncState, enterEnd
    <2>2. AgentTypeOK'
      BY <1>8, <2>1 DEF StateInv, AgentTypeOK, enterEnd, InDataOrEnd, InEndLoop
    <2>3. CallShape'
      BY <1>8 DEF StateInv, CallShape, enterEnd
    <2>4. FlagsAreFresh'
      BY <1>8, <2>1 DEF StateInv, FlagsAreFresh, SyncState, enterEnd, InDataOrEnd,
         InEndLoop
    <2>. QED  BY <2>2, <2>3, <2>4 DEF StateInv
  <1>9. CASE sendEndMessage
    <2>1. CASE Continue("sendEnd", sendEnd)
      BY <1>1, <1>9, <2>1, ContinueKeeps DEF sendEndMessage, InEndLoop
    <2>2. CASE pc' = "waitEnd" /\ UNCHANGED <<syncState, locals, succeeded>>
      BY <1>9, <2>2 DEF StateInv, AgentTypeOK, CallShape, FlagsAreFresh,
         sendEndMessage, locals, InDataOrEnd, InEndLoop
    <2>. QED  BY <1>9, <2>1, <2>2 DEF sendEndMessage
  <1>10. CASE receiveEndAck
    <2>1. CASE Return(FALSE)
      BY <1>10, <2>1, ReturnKeeps DEF receiveEndAck
    <2>2. CASE pc' = "takeReqRet" /\ UNCHANGED <<syncState, locals, succeeded>>
      BY <1>10, <2>2 DEF StateInv, AgentTypeOK, CallShape, FlagsAreFresh,
         receiveEndAck, locals, InDataOrEnd, InEndLoop
    <2>. QED  BY <1>10, <2>1, <2>2 DEF receiveEndAck
  <1>11. CASE endAckTimeout
    BY <1>1, <1>11, ContinueKeeps DEF endAckTimeout, InEndLoop
  <1>12. CASE takeReqRet
    <2>1. CASE Return(FALSE)
      BY <1>12, <2>1, ReturnKeeps DEF takeReqRet
    <2>2. CASE pc' = "checkEndAck" /\ UNCHANGED <<syncState, locals, succeeded>>
      BY <1>12, <2>2 DEF StateInv, AgentTypeOK, CallShape, FlagsAreFresh,
         takeReqRet, locals, InDataOrEnd, InEndLoop
    <2>3. CASE /\ syncState' = [syncState EXCEPT !.reqRetReceived = FALSE,
                                                 !.reqRetRanges = <<>>]
               /\ toSend' = filterDataByRanges(syncState.reqRetRanges)
               /\ pc' = "resend"
               /\ UNCHANGED <<batch, size, attempt, session, sendEnd, succeeded>>
      <3>1. toSend' \subseteq 0 .. size - 1
        BY <2>3 DEF filterDataByRanges
      <3>2. syncState \in SyncState /\ syncState' \in SyncState
        BY <2>3 DEF StateInv, AgentTypeOK, SyncState
      <3>3. AgentTypeOK'
        BY <1>12, <2>3, <3>1, <3>2 DEF StateInv, AgentTypeOK, takeReqRet, InDataOrEnd,
           InEndLoop
      <3>4. CallShape'
        BY <1>12, <2>3 DEF StateInv, CallShape, takeReqRet
      <3>5. FlagsAreFresh'
        BY <1>12, <2>3, <3>2 DEF StateInv, FlagsAreFresh, SyncState, takeReqRet,
           InDataOrEnd, InEndLoop
      <3>. QED  BY <3>3, <3>4, <3>5 DEF StateInv
    <2>. QED  BY <1>12, <2>1, <2>2, <2>3 DEF takeReqRet
  <1>13. CASE resent
    BY <1>13, ContinueKeeps DEF resent, InEndLoop
  <1>14. CASE checkEndAck
    <2>1. CASE Return(TRUE)
      BY <1>14, <2>1, ReturnKeeps DEF checkEndAck
    <2>2. CASE Continue("sendEnd", sendEnd)
      BY <1>1, <1>14, <2>2, ContinueKeeps DEF checkEndAck, InEndLoop
    <2>. QED  BY <1>14, <2>1, <2>2 DEF checkEndAck
  <1>15. CASE Restart
    BY <1>15, ReturnKeeps DEF Restart
  <1>. QED
    BY <1>2, <1>3, <1>4, <1>5, <1>6, <1>7, <1>8, <1>9, <1>10, <1>11, <1>12, <1>13,
       <1>14, <1>15 DEF SyncThread

\* A call begins, ends or goes on.
Begins ==
    /\ pc = "idle" /\ pc' # "idle"
    /\ batch' = batch + 1 /\ size' \in 1 .. MaxSize
    /\ UNCHANGED <<toManager, succeeded>>

Ends ==
    /\ pc # "idle" /\ pc' = "idle"
    /\ \/ UNCHANGED succeeded
       \/ /\ InEndLoop /\ syncState.endAckReceived
          /\ succeeded' = succeeded \cup {batch}
    /\ UNCHANGED <<batch, toManager>>

GoesOn ==
    /\ pc # "idle" /\ pc' # "idle"
    /\ UNCHANGED <<batch, size, succeeded>>
    /\ \/ UNCHANGED toManager
       \/ pc = "sendStart" /\ Send(StartMessage)
       \/ InDataOrEnd /\ \E seq \in 0 .. size - 1 : Send(DataMessage(seq))
       \/ InDataOrEnd /\ Send(EndMessage)

\* A failure ends the call.
LEMMA FailureEnds ==
    ASSUME pc # "idle", Return(FALSE), UNCHANGED toManager
    PROVE  Ends
  BY DEF Return, Ends

\* A loop goes on, or has used up its attempts.
LEMMA ContinueGoesOn ==
    ASSUME pc # "idle", UNCHANGED toManager, NEW label \in {"sendStart", "sendEnd"},
           NEW endNext, Continue(label, endNext)
    PROVE  Ends \/ GoesOn
  <1>1. CASE attempt < Retries
    BY <1>1 DEF Continue, GoesOn
  <1>2. CASE ~(attempt < Retries)
    BY <1>2, FailureEnds DEF Continue
  <1>. QED  BY <1>1, <1>2

\* Every step of that thread does one of the three.
LEMMA ThreadShape ==
    ASSUME StateInv, synchronizeModule \/ SyncThread \/ Restart
    PROVE  Begins \/ Ends \/ GoesOn
  <1>1. CASE synchronizeModule
    BY <1>1 DEF synchronizeModule, Begins
  <1>2. CASE sendStart
    <2>1. CASE Continue("sendStart", sendEnd) /\ UNCHANGED toManager
      BY <1>2, <2>1, ContinueGoesOn DEF sendStart
    <2>2. CASE ~(Continue("sendStart", sendEnd) /\ UNCHANGED toManager)
      BY <1>2, <2>2 DEF sendStart, GoesOn, locals
    <2>. QED  BY <2>1, <2>2
  <1>3. CASE receiveStartAck
    <2>1. CASE syncState.syncFailed
      BY <1>3, <2>1, FailureEnds DEF receiveStartAck
    <2>2. CASE ~syncState.syncFailed
      BY <1>3, <2>2 DEF receiveStartAck, GoesOn
    <2>. QED  BY <2>1, <2>2
  <1>4. CASE startAckTimeout
    BY <1>4, ContinueGoesOn DEF startAckTimeout
  <1>5. CASE sendDataMessages
    <2>1. CASE Return(FALSE) /\ UNCHANGED toManager
      BY <1>5, <2>1, FailureEnds DEF sendDataMessages
    <2>2. CASE ~(Return(FALSE) /\ UNCHANGED toManager)
      <3>1. /\ pc \in {"sendData", "resend"} /\ toSend # {}
            /\ Send(DataMessage(NextSeq))
            /\ UNCHANGED <<pc, batch, size, succeeded>>
        BY <1>5, <2>2 DEF sendDataMessages
      <3>2. PICK n : n = NextSeq
        OBVIOUS
      <3>3. n \in 0 .. size - 1
        BY <3>1, <3>2, NextSeqIsLeft
      <3>4. InDataOrEnd
        BY ONLY <3>1 DEF InDataOrEnd, InEndLoop
      <3>5. Send(DataMessage(n))
        BY ONLY <3>1, <3>2
      <3>. QED  BY ONLY <3>1, <3>3, <3>4, <3>5 DEF GoesOn
    <2>. QED  BY <2>1, <2>2
  <1>6. CASE readSession \/ enterEnd
    BY <1>6 DEF readSession, enterEnd, GoesOn
  <1>7. CASE sendEndMessage
    <2>1. CASE Continue("sendEnd", sendEnd) /\ UNCHANGED toManager
      BY <1>7, <2>1, ContinueGoesOn DEF sendEndMessage
    <2>2. CASE ~(Continue("sendEnd", sendEnd) /\ UNCHANGED toManager)
      BY <1>7, <2>2 DEF sendEndMessage, GoesOn, locals, InDataOrEnd, InEndLoop
    <2>. QED  BY <2>1, <2>2
  <1>8. CASE receiveEndAck
    <2>1. CASE syncState.syncFailed
      BY <1>8, <2>1, FailureEnds DEF receiveEndAck
    <2>2. CASE ~syncState.syncFailed
      BY <1>8, <2>2 DEF receiveEndAck, GoesOn, locals
    <2>. QED  BY <2>1, <2>2
  <1>9. CASE endAckTimeout
    BY <1>9, ContinueGoesOn DEF endAckTimeout
  <1>10. CASE takeReqRet
    <2>1. CASE Return(FALSE)
      BY <1>10, <2>1, FailureEnds DEF takeReqRet
    <2>2. CASE ~Return(FALSE)
      <3>1. /\ pc = "takeReqRet" /\ pc' \in {"checkEndAck", "resend"}
            /\ UNCHANGED <<batch, size, succeeded, toManager>>
        BY ONLY <1>10, <2>2, Zenon DEF takeReqRet, locals
      <3>. QED  BY ONLY <3>1 DEF GoesOn
    <2>. QED  BY <2>1, <2>2
  <1>11. CASE resent
    BY <1>11, ContinueGoesOn DEF resent
  <1>12. CASE checkEndAck
    <2>1. CASE syncState.endAckReceived
      BY <1>12, <2>1 DEF checkEndAck, Return, Ends, InEndLoop
    <2>2. CASE ~syncState.endAckReceived
      BY <1>12, <2>2, ContinueGoesOn DEF checkEndAck
    <2>. QED  BY <2>1, <2>2
  <1>13. CASE Restart
    BY <1>13, FailureEnds DEF Restart
  <1>. QED
    BY <1>1, <1>2, <1>3, <1>4, <1>5, <1>6, <1>7, <1>8, <1>9, <1>10, <1>11, <1>12,
       <1>13 DEF SyncThread

\* What the proofs need of an answer: the session it grants and the ranges it asks
\* for are of their types.
Acceptable(message) ==
    /\ message.type = "StartAck" /\ message.status = "Ok" => message.session \in Sessions
    /\ message.type = "ReqRet" => message.ranges \in RangeLists

\* Whatever such answer arrives, at any time.
LEMMA MessageKeeps ==
    ASSUME StateInv, NEW message, Acceptable(message), parseResponseBuffer(message)
    PROVE  StateInv'
  <1>1. syncState \in SyncState
    BY DEF StateInv, AgentTypeOK
  <1>2. UNCHANGED <<pc, batch, size, attempt, session, toSend, sendEnd, succeeded>>
    BY DEF parseResponseBuffer, locals
  <1>3. CASE message.type = "StartAck" /\ syncState.phase = "WaitingStartAck"
    <2>1. syncState' = StartAckAccepted(message.status, message.session)
      BY <1>3 DEF parseResponseBuffer
    <2>2. message.status = "Ok" => message.session \in Sessions
      BY <1>3 DEF Acceptable
    <2>3. syncState' \in SyncState
      BY <1>1, <2>1, <2>2 DEF StartAckAccepted, SyncState
    <2>4. /\ syncState'.phase = syncState.phase
          /\ syncState'.endAckReceived = syncState.endAckReceived
          /\ syncState'.reqRetReceived = syncState.reqRetReceived
          /\ syncState'.reqRetRanges = syncState.reqRetRanges
          /\ syncState.startAckReceived => syncState'.startAckReceived
      BY <1>1, <2>1 DEF StartAckAccepted, SyncState
    <2>5. pc # "idle"
      BY <1>3 DEF StateInv, FlagsAreFresh, reset
    <2>. QED
      BY <1>2, <2>3, <2>4, <2>5 DEF StateInv, AgentTypeOK, CallShape, FlagsAreFresh,
         InDataOrEnd, InEndLoop
  <1>4. CASE message.type = "EndAck" /\ validatePhaseAndSession(message.session)
    <2>1. syncState' = EndAckAccepted(message.status)
      BY <1>4 DEF parseResponseBuffer
    <2>2. syncState' \in SyncState
      BY <1>1, <2>1 DEF EndAckAccepted, SyncState
    <2>3. /\ syncState'.phase = syncState.phase
          /\ syncState'.reqRetReceived = syncState.reqRetReceived
          /\ syncState'.reqRetRanges = syncState.reqRetRanges
          /\ syncState'.startAckReceived = syncState.startAckReceived
      BY <1>1, <2>1 DEF EndAckAccepted, SyncState
    <2>4. InEndLoop
      BY <1>4 DEF StateInv, FlagsAreFresh, validatePhaseAndSession
    <2>. QED
      BY <1>2, <2>2, <2>3, <2>4 DEF StateInv, AgentTypeOK, CallShape, FlagsAreFresh,
         InDataOrEnd, InEndLoop
  <1>5. CASE message.type = "ReqRet" /\ validatePhaseAndSession(message.session)
    <2>1. syncState' = ReqRetAccepted(message.ranges)
      BY <1>5 DEF parseResponseBuffer
    <2>2. message.ranges \in RangeLists
      BY <1>5 DEF Acceptable
    <2>3. syncState' \in SyncState
      BY <1>1, <2>1, <2>2 DEF ReqRetAccepted, SyncState
    <2>4. /\ syncState'.phase = syncState.phase
          /\ syncState'.reqRetReceived
          /\ syncState'.endAckReceived = syncState.endAckReceived
          /\ syncState'.startAckReceived = syncState.startAckReceived
      BY <1>1, <2>1 DEF ReqRetAccepted, SyncState
    <2>5. InEndLoop
      BY <1>5 DEF StateInv, FlagsAreFresh, validatePhaseAndSession
    <2>. QED
      BY <1>2, <2>3, <2>4, <2>5 DEF StateInv, AgentTypeOK, CallShape, FlagsAreFresh,
         InDataOrEnd, InEndLoop
  <1>6. CASE UNCHANGED syncState
    BY <1>2, <1>6 DEF StateInv, AgentTypeOK, CallShape, FlagsAreFresh, InDataOrEnd,
       InEndLoop
  <1>. QED  BY <1>3, <1>4, <1>5, <1>6 DEF parseResponseBuffer

=============================================================================
