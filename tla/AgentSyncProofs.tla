-------------------------- MODULE AgentSyncProofs --------------------------
(***************************************************************************)
(* The agent against any manager, for any number of sessions, items,       *)
(* retries and calls.  What a call that returns success has sent is        *)
(* followed through its steps (SentSoFar); that the answers it acts on are *)
(* answers to this call comes from FlagsAreFresh.                          *)
(***************************************************************************)
EXTENDS AgentSync, AgentSyncProtocolProofs

\* All Starts of a call carry its size, and no call but the current one or an
\* earlier one has sent any.
StartsOfCalls ==
    \A start \in toManager : start.type = "Start" =>
        /\ start.batch <= batch
        /\ start.batch \in Nat
        /\ start.batch = batch /\ pc # "idle" => start.size = size

DataSent(b, seq) ==
    \E data \in toManager : data.type = "Data" /\ data.batch = b /\ data.seq = seq

EndSent(b) == \E end \in toManager : end.type = "End" /\ end.batch = b

\* What the current call has sent: from the first send on, all items but those
\* that are still to be sent; from the wait for the EndAck on, an End.
SentSoFar ==
    /\ pc = "sendData" => \A seq \in (0 .. size - 1) \ toSend : DataSent(batch, seq)
    /\ pc = "enterEnd" \/ InEndLoop => \A seq \in 0 .. size - 1 : DataSent(batch, seq)
    /\ /\ InEndLoop
       /\ pc = "sendEnd" => ~sendEnd
       => EndSent(batch)

-----------------------------------------------------------------------------
(* Type correctness and the meaning of the flags *)

\* One step of the agent against any manager keeps what AgentSyncProtocolProofs
\* says of its state.
LEMMA StateHolds == Spec => []StateInv
  <1>1. AgentInit => StateInv
    <2>1. reset \in SyncState
      BY DEF reset, SyncState
    <2>. QED
      BY <2>1, AgentAssumption DEF AgentInit, StateInv, AgentTypeOK, CallShape,
         FlagsAreFresh, reset, InDataOrEnd, InEndLoop
  <1>2. StateInv /\ [Next]_agentVars => StateInv'
    <2>1. StateInv /\ UNCHANGED agentVars => StateInv'
      BY DEF agentVars, locals, StateInv, AgentTypeOK, CallShape, FlagsAreFresh,
         InDataOrEnd, InEndLoop
    <2>2. ASSUME NEW message \in Answers PROVE Acceptable(message)
      BY DEF Answers, Acceptable
    <2>. QED  BY <2>1, <2>2, ThreadKeeps, MessageKeeps DEF Next
  <1>. QED  BY <1>1, <1>2, PTL DEF Spec

\* Every variable of the agent stays in its type, whatever the manager answers.
THEOREM AgentTypeCorrect == Spec => []AgentTypeOK
  <1>1. StateInv => AgentTypeOK
    BY DEF StateInv
  <1>. QED  BY <1>1, StateHolds, PTL

\* The flags that synchronizeModule tests are those of the current exchange, for any
\* answers at any time (clearSyncState, validatePhaseAndSession).
THEOREM FlagsStayFresh == Spec => []FlagsAreFresh
  <1>1. StateInv => FlagsAreFresh
    BY DEF StateInv
  <1>. QED  BY <1>1, StateHolds, PTL

-----------------------------------------------------------------------------
(* What a successful call has sent *)

SentInv == StartsOfCalls /\ SentSoFar /\ SuccessMeansSent

\* What was sent stays sent.
LEMMA SentStays ==
    ASSUME toManager \subseteq toManager'
    PROVE  /\ \A b, seq : DataSent(b, seq) => DataSent(b, seq)'
           /\ \A b : EndSent(b) => EndSent(b)'
  BY DEF DataSent, EndSent

\* A call that is in progress is not among those that succeeded.
LEMMA CurrentIsOpen ==
    ASSUME StateInv, pc # "idle"
    PROVE  batch \in Nat /\ size \in Nat /\ batch \notin succeeded
  BY AgentAssumption DEF StateInv, AgentTypeOK

\* What was sent for the calls that succeeded is not affected by later messages,
\* which are of the current call.
LEMMA SuccessKept ==
    ASSUME StateInv, SuccessMeansSent, succeeded' = succeeded,
           toManager \subseteq toManager',
           \A m \in toManager' \ toManager : m.type = "Start" => m.batch \notin succeeded
    PROVE  SuccessMeansSent'
  <1>. SUFFICES ASSUME NEW start \in toManager', start.type = "Start",
                       start.batch \in succeeded
                PROVE  /\ \A seq \in 0 .. start.size - 1 : DataSent(start.batch, seq)'
                       /\ EndSent(start.batch)'
    BY DEF SuccessMeansSent, DataSent, EndSent
  <1>1. start \in toManager
    OBVIOUS
  <1>2. /\ \A seq \in 0 .. start.size - 1 : DataSent(start.batch, seq)
        /\ EndSent(start.batch)
    BY <1>1 DEF SuccessMeansSent, DataSent, EndSent
  <1>. QED  BY <1>2, SentStays

\* A call that returns with success is in the loop that waits for the EndAck.
LEMMA ReturnSent ==
    ASSUME StateInv, SentInv, pc # "idle", NEW success \in BOOLEAN, Return(success),
           success => pc = "checkEndAck", UNCHANGED toManager
    PROVE  SentInv'
  <1>1. StartsOfCalls'
    BY DEF SentInv, StartsOfCalls, Return
  <1>2. SentSoFar'
    BY DEF SentSoFar, Return, InEndLoop
  <1>3. SuccessMeansSent'
    <2>1. CASE ~success
      BY <2>1, SuccessKept DEF SentInv, Return
    <2>2. CASE success
      <3>1. /\ \A seq \in 0 .. size - 1 : DataSent(batch, seq)
            /\ EndSent(batch)
        BY <2>2 DEF SentInv, SentSoFar, InEndLoop
      <3>. SUFFICES ASSUME NEW start \in toManager, start.type = "Start",
                           start.batch \in succeeded \cup {batch}
                    PROVE  /\ \A seq \in 0 .. start.size - 1 : DataSent(start.batch, seq)
                           /\ EndSent(start.batch)
        BY DEF SuccessMeansSent, DataSent, EndSent, Return
      <3>2. CASE start.batch \in succeeded
        BY <3>2 DEF SentInv, SuccessMeansSent, DataSent, EndSent
      <3>3. CASE start.batch = batch
        <4>1. start.size = size
          BY <3>3 DEF SentInv, StartsOfCalls
        <4>. QED  BY <3>1, <3>3, <4>1
      <3>. QED  BY <3>2, <3>3
    <2>. QED  BY <2>1, <2>2
  <1>. QED  BY <1>1, <1>2, <1>3 DEF SentInv

\* A step inside the call that sends nothing, and after which no more counts as sent
\* than before.
LEMMA QuietSent ==
    ASSUME StateInv, SentInv, pc # "idle", pc' # "idle",
           UNCHANGED <<batch, size, toManager, succeeded>>, SentSoFar'
    PROVE  SentInv'
  <1>1. StartsOfCalls'
    BY DEF SentInv, StartsOfCalls
  <1>2. SuccessMeansSent'
    BY SuccessKept DEF SentInv
  <1>. QED  BY <1>1, <1>2 DEF SentInv

\* A further attempt in the loop.
LEMMA ContinueSent ==
    ASSUME StateInv, SentInv, pc # "idle", NEW label, NEW endNext \in BOOLEAN,
           \/ pc \in {"sendStart", "waitStart"} /\ label = "sendStart"
           \/ /\ InEndLoop /\ label = "sendEnd"
              /\ pc = "sendEnd" => endNext = sendEnd,
           Continue(label, endNext), UNCHANGED toManager
    PROVE  SentInv'
  <1>1. CASE attempt < Retries
    <2>1. /\ sendEnd' = endNext /\ pc' = label
          /\ UNCHANGED <<batch, size, toSend, succeeded>>
      BY <1>1 DEF Continue
    <2>2. \A b, seq : DataSent(b, seq) => DataSent(b, seq)'
      BY SentStays
    <2>3. \A b : EndSent(b) => EndSent(b)'
      BY SentStays
    <2>4. SentSoFar'
      BY <2>1, <2>2, <2>3 DEF SentInv, SentSoFar, InEndLoop
    <2>. QED  BY <2>1, <2>4, QuietSent, Zenon DEF InEndLoop
  <1>2. CASE ~(attempt < Retries)
    BY <1>2, ReturnSent DEF Continue
  <1>. QED  BY <1>1, <1>2

\* A message of the current call is sent.
LEMMA SendSent ==
    ASSUME StateInv, SentInv, pc # "idle", pc' # "idle",
           UNCHANGED <<batch, size, succeeded>>, SentSoFar',
           NEW message \in {StartMessage, DataMessage(NextSeq), EndMessage}, Send(message)
    PROVE  SentInv'
  <1>1. message.type = "Start" => message.batch = batch /\ message.size = size
    BY DEF StartMessage, DataMessage, EndMessage
  <1>2. batch \in Nat /\ batch \notin succeeded
    BY CurrentIsOpen
  <1>3. toManager' = toManager \cup {message}
    BY DEF Send
  <1>4. StartsOfCalls'
    BY <1>1, <1>2, <1>3 DEF SentInv, StartsOfCalls
  <1>5. SuccessMeansSent'
    BY <1>1, <1>2, <1>3, SuccessKept DEF SentInv
  <1>. QED  BY <1>4, <1>5 DEF SentInv

\* One step of the thread that runs synchronizeModule.
LEMMA ThreadSent ==
    ASSUME StateInv, SentInv, synchronizeModule \/ SyncThread \/ Restart
    PROVE  SentInv'
  <1>0. sendEnd \in BOOLEAN
    BY DEF StateInv, AgentTypeOK
  <1>1. toManager \subseteq toManager' =>
           /\ \A b, seq : DataSent(b, seq) => DataSent(b, seq)'
           /\ \A b : EndSent(b) => EndSent(b)'
    BY SentStays
  <1>2. CASE synchronizeModule
    <2>1. batch \in Nat
      BY AgentAssumption DEF StateInv, AgentTypeOK
    <2>2. StartsOfCalls'
      BY <1>2, <2>1 DEF SentInv, StartsOfCalls, synchronizeModule
    <2>3. SentSoFar'
      BY <1>2 DEF SentSoFar, InEndLoop, synchronizeModule
    <2>4. SuccessMeansSent'
      BY <1>2, SuccessKept DEF SentInv, synchronizeModule
    <2>. QED  BY <2>2, <2>3, <2>4 DEF SentInv
  <1>3. CASE sendStart
    <2>1. CASE Send(StartMessage) /\ pc' = "waitStart" /\ UNCHANGED <<locals, succeeded>>
      <3>1. SentSoFar'
        BY <2>1 DEF SentSoFar, InEndLoop
      <3>. QED  BY <1>3, <2>1, <3>1, SendSent DEF sendStart, locals
    <2>2. CASE Continue("sendStart", sendEnd) /\ UNCHANGED toManager
      BY <1>0, <1>3, <2>2, ContinueSent DEF sendStart
    <2>. QED  BY <1>3, <2>1, <2>2 DEF sendStart
  <1>4. CASE receiveStartAck
    <2>1. CASE Return(FALSE)
      BY <1>4, <2>1, ReturnSent DEF receiveStartAck
    <2>2. CASE /\ toSend' = 0 .. size - 1 /\ pc' = "sendData"
               /\ UNCHANGED <<batch, size, succeeded>>
      <3>1. SentSoFar'
        BY <2>2 DEF SentSoFar, InEndLoop
      <3>. QED  BY <1>4, <2>2, <3>1, QuietSent DEF receiveStartAck
    <2>. QED  BY <1>4, <2>1, <2>2 DEF receiveStartAck
  <1>5. CASE startAckTimeout
    BY <1>0, <1>5, ContinueSent DEF startAckTimeout
  <1>6. CASE sendDataMessages
    <2>1. CASE Return(FALSE) /\ UNCHANGED toManager
      BY <1>6, <2>1, ReturnSent DEF sendDataMessages
    <2>2. CASE /\ Send(DataMessage(NextSeq)) /\ toSend' = toSend \ {NextSeq}
               /\ UNCHANGED <<pc, batch, size, sendEnd, succeeded>>
      <3>0. PICK n : n = NextSeq
        OBVIOUS
      <3>1. batch' = batch /\ \E data \in toManager' :
               data.type = "Data" /\ data.batch = batch /\ data.seq = n
        <4>1. DataMessage(n) \in toManager'
          BY <2>2, <3>0 DEF Send
        <4>2. /\ DataMessage(n).type = "Data" /\ DataMessage(n).batch = batch
              /\ DataMessage(n).seq = n
          BY DEF DataMessage
        <4>. QED  BY <2>2, <4>1, <4>2
      <3>2. toManager \subseteq toManager'
        BY <2>2 DEF Send
      <3>3. SentSoFar'
        <4>1. ASSUME pc = "sendData", NEW seq \in (0 .. size - 1) \ toSend'
              PROVE  DataSent(batch, seq)'
          <5>1. CASE seq = n
            BY <3>1, <5>1 DEF DataSent
          <5>2. CASE seq # n
            <6>1. seq \in (0 .. size - 1) \ toSend
              BY <2>2, <3>0, <5>2
            <6>2. DataSent(batch, seq)
              BY <4>1, <6>1 DEF SentInv, SentSoFar
            <6>. QED  BY <2>2, <3>2, <6>2 DEF DataSent
          <5>. QED  BY <5>1, <5>2
        <4>2. pc # "sendData" => pc = "resend"
          BY <1>6 DEF sendDataMessages
        <4>3. CASE pc = "sendData"
          BY <2>2, <4>1, <4>3 DEF SentSoFar, InEndLoop
        <4>4. CASE pc = "resend"
          BY <1>1, <2>2, <3>2, <4>4 DEF SentInv, SentSoFar, InEndLoop
        <4>. QED  BY <4>2, <4>3, <4>4
      <3>. QED  BY <1>6, <2>2, <3>3, SendSent DEF sendDataMessages
    <2>. QED  BY <1>6, <2>1, <2>2 DEF sendDataMessages
  <1>7. CASE readSession
    <2>1. SentSoFar'
      BY <1>1, <1>7 DEF SentInv, SentSoFar, InEndLoop, readSession
    <2>. QED  BY <1>7, <2>1, QuietSent DEF readSession
  <1>8. CASE enterEnd
    <2>1. SentSoFar'
      BY <1>1, <1>8 DEF SentInv, SentSoFar, InEndLoop, enterEnd
    <2>. QED  BY <1>8, <2>1, QuietSent DEF enterEnd
  <1>9. CASE sendEndMessage
    <2>1. CASE Continue("sendEnd", sendEnd) /\ UNCHANGED toManager
      BY <1>0, <1>9, <2>1, ContinueSent DEF sendEndMessage, InEndLoop
    <2>2. CASE Send(EndMessage) /\ pc' = "waitEnd" /\ UNCHANGED <<locals, succeeded>>
      <3>1. EndSent(batch)'
        <4>1. EndMessage \in toManager' /\ EndMessage.type = "End"
              /\ EndMessage.batch = batch /\ batch' = batch
          BY <2>2 DEF Send, EndMessage, locals
        <4>. QED  BY <4>1 DEF EndSent
      <3>2. toManager \subseteq toManager'
        BY <2>2 DEF Send
      <3>3. SentSoFar'
        BY <1>1, <1>9, <2>2, <3>1, <3>2 DEF SentInv, SentSoFar, InEndLoop,
           sendEndMessage, locals
      <3>. QED  BY <1>9, <2>2, <3>3, SendSent DEF sendEndMessage, locals
    <2>3. CASE ~sendEnd /\ pc' = "waitEnd" /\ UNCHANGED <<locals, toManager, succeeded>>
      <3>1. SentSoFar'
        BY <1>1, <1>9, <2>3 DEF SentInv, SentSoFar, InEndLoop, sendEndMessage, locals
      <3>. QED  BY <1>9, <2>3, <3>1, QuietSent DEF sendEndMessage, locals
    <2>. QED  BY <1>9, <2>1, <2>2, <2>3 DEF sendEndMessage
  <1>10. CASE receiveEndAck
    <2>1. CASE Return(FALSE)
      BY <1>10, <2>1, ReturnSent DEF receiveEndAck
    <2>2. CASE pc' = "takeReqRet" /\ UNCHANGED <<locals, succeeded>>
      <3>1. SentSoFar'
        BY <1>1, <1>10, <2>2 DEF SentInv, SentSoFar, InEndLoop, receiveEndAck, locals
      <3>. QED  BY <1>10, <2>2, <3>1, QuietSent DEF receiveEndAck, locals
    <2>. QED  BY <1>10, <2>1, <2>2 DEF receiveEndAck
  <1>11. CASE endAckTimeout
    BY <1>0, <1>11, ContinueSent DEF endAckTimeout, InEndLoop
  <1>12. CASE takeReqRet
    <2>1. CASE Return(FALSE)
      BY <1>12, <2>1, ReturnSent DEF takeReqRet
    <2>2. CASE /\ pc' \in {"checkEndAck", "resend"}
               /\ UNCHANGED <<batch, size, sendEnd, succeeded>>
      <3>1. SentSoFar'
        BY <1>1, <1>12, <2>2 DEF SentInv, SentSoFar, InEndLoop, takeReqRet
      <3>. QED  BY <1>12, <2>2, <3>1, QuietSent DEF takeReqRet
    <2>. QED  BY <1>12, <2>1, <2>2 DEF takeReqRet, locals
  <1>13. CASE resent
    BY <1>13, ContinueSent DEF resent, InEndLoop
  <1>14. CASE checkEndAck
    <2>1. CASE Return(TRUE)
      BY <1>14, <2>1, ReturnSent DEF checkEndAck
    <2>2. CASE Continue("sendEnd", sendEnd)
      BY <1>0, <1>14, <2>2, ContinueSent DEF checkEndAck, InEndLoop
    <2>. QED  BY <1>14, <2>1, <2>2 DEF checkEndAck
  <1>15. CASE Restart
    BY <1>15, ReturnSent DEF Restart
  <1>. QED
    BY <1>2, <1>3, <1>4, <1>5, <1>6, <1>7, <1>8, <1>9, <1>10, <1>11, <1>12, <1>13,
       <1>14, <1>15 DEF SyncThread

\* A call of synchronizeModule that returns success has sent all items of its batch
\* and an End, for any sizes, retries and answers.
THEOREM SuccessfulHasSent == Spec => []SuccessMeansSent
  <1>1. AgentInit => SentInv
    BY DEF AgentInit, SentInv, StartsOfCalls, SentSoFar, SuccessMeansSent, InEndLoop
  <1>2. StateInv /\ SentInv /\ [Next]_agentVars => SentInv'
    <2>1. SentInv /\ UNCHANGED <<pc, batch, size, toSend, sendEnd, toManager, succeeded>>
          => SentInv'
      BY DEF SentInv, StartsOfCalls, SentSoFar, SuccessMeansSent, DataSent, EndSent,
         InEndLoop
    <2>2. ASSUME NEW message \in Answers, parseResponseBuffer(message)
          PROVE  UNCHANGED <<pc, batch, size, toSend, sendEnd, toManager, succeeded>>
      BY <2>2 DEF parseResponseBuffer, locals
    <2>3. UNCHANGED agentVars =>
             UNCHANGED <<pc, batch, size, toSend, sendEnd, toManager, succeeded>>
      BY DEF agentVars, locals
    <2>. QED  BY <2>1, <2>2, <2>3, ThreadSent DEF Next
  <1>3. SentInv => SuccessMeansSent
    BY DEF SentInv
  <1>. QED  BY <1>1, <1>2, <1>3, StateHolds, PTL DEF Spec
=============================================================================
