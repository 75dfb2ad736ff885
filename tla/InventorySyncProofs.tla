------------------------ MODULE InventorySyncProofs ------------------------
(***************************************************************************)
(* A successful synchronization is indexed, for any sizes of batches, any  *)
(* number of retries, synchronizations, sessions and restarts, and any     *)
(* loss, repetition and order of messages, if no StartAck outlives its     *)
(* synchronization (LateStartAcks = FALSE).                                *)
(*                                                                         *)
(* The argument follows the session ids.  A session is granted to one      *)
(* batch only; the agent uses only sessions granted to its current batch;  *)
(* so the data kept under an id are of its batch.  From there the data of  *)
(* a session are followed from the store to the bulk to the indexer, and   *)
(* an EndAck with status Ok exists only for a session at the end of it.    *)
(*                                                                         *)
(* Then the types, which hold with late StartAcks too, and the refinement  *)
(* of Synchronization.                                                     *)
(***************************************************************************)
EXTENDS InventorySync, AgentSyncProtocolProofs

Start(b, n) == [type |-> "Start", batch |-> b, size |-> n]

\* The manager opened session id for batch b.
Granted(id, b) == StartAck("Ok", id, b) \in toAgent

\* S holds everything that the batch of session id announced, according to the
\* given answers and messages.
Covers(S, id, answers, messages) ==
    \A b \in Nat, n \in Nat :
        StartAck("Ok", id, b) \in answers /\ Start(b, n) \in messages
        => \A seq \in 0 .. n - 1 : <<b, seq>> \in S

AgentBasics ==
    /\ DOMAIN syncState = DOMAIN reset
    /\ batch \in Nat /\ size \in Nat
    /\ \A b \in succeeded : b \in Nat /\ b <= batch /\ (pc # "idle" => b # batch)

ManagerBasics ==
    /\ created \in Nat
    /\ queue \in Seq(1 .. created)
    /\ adding \in 0 .. created
    /\ notify \subseteq 1 .. created
    /\ DOMAIN sessions \subseteq 1 .. created
    /\ \A id \in DOMAIN sessions :
          /\ DOMAIN sessions[id] = {"size", "observed", "endReceived", "endEnqueued"}
          /\ sessions[id].size \in Nat

\* All Starts of a batch announce the same size.
StartsAgree ==
    \A m \in toManager : m.type = "Start" =>
        /\ m.batch \in Nat /\ m.size \in Nat /\ m = Start(m.batch, m.size)
        /\ m.batch <= batch
        /\ m.batch = batch /\ pc # "idle" => m.size = size
        /\ \A n \in Nat : Start(m.batch, n) \in toManager => n = m.size

\* A session is granted to one batch, which was announced.
GrantsAgree ==
    \A a \in toAgent : a.type = "StartAck" /\ a.status = "Ok" =>
        /\ a.session \in 1 .. created /\ a.batch \in Nat
        /\ a = StartAck("Ok", a.session, a.batch)
        /\ \E n \in Nat : Start(a.batch, n) \in toManager
        /\ \A b \in Nat : Granted(a.session, b) => b = a.batch

\* A live session has the size its batch announced.
SessionsGranted ==
    \A id \in DOMAIN sessions : \E b \in Nat :
        Granted(id, b) /\ Start(b, sessions[id].size) \in toManager

\* The agent uses sessions of its current batch, for the data and for End, and
\* takes note only of answers to its End.
AgentGranted ==
    /\ syncState.startAckReceived => Granted(syncState.session, batch)
    /\ InDataOrEnd => syncState.startAckReceived /\ Granted(session, batch)
    /\ InEndLoop <=> syncState.phase = "WaitingEndAck"
    /\ syncState.endAckReceived =>
          /\ syncState.phase = "WaitingEndAck"
          /\ EndAck("Ok", syncState.session) \in toAgent

DataGranted ==
    \A m \in toManager : m.type = "Data" => m.batch \in Nat /\ Granted(m.session, m.batch)

StoreGranted == \A e \in store : e.batch \in Nat /\ Granted(e.session, e.batch)

AddingCovered ==
    adding # 0 => Covers(Stored(adding) \cup indexed, adding, toAgent, toManager)

NotifyCovered == \A id \in notify : Covers(bulk \cup indexed, id, toAgent, toManager)

AckCovered ==
    \A a \in toAgent : a.type = "EndAck" /\ a.status = "Ok" =>
        /\ a = EndAck("Ok", a.session) /\ a.session \in 1 .. created
        /\ Covers(indexed, a.session, toAgent, toManager)

AgentInv == AgentBasics /\ AgentGranted

ManagerInv ==
    /\ ManagerBasics
    /\ SessionsGranted
    /\ StoreGranted
    /\ QueuedIsStored
    /\ AddingCovered
    /\ NotifyCovered
    /\ AckCovered

WireInv == StartsAgree /\ GrantsAgree /\ DataGranted

IInv == AgentInv /\ ManagerInv /\ WireInv /\ SuccessIsIndexed

-----------------------------------------------------------------------------
\* What a session's batch announced stays covered as long as no session is
\* granted again and no Start of another size is sent for its batch.
LEMMA CoversMono ==
    ASSUME NEW S1, NEW S2, NEW id, NEW A1, NEW A2, NEW M1, NEW M2,
           Covers(S1, id, A1, M1),
           S1 \subseteq S2,
           \A b \in Nat : StartAck("Ok", id, b) \in A2 => StartAck("Ok", id, b) \in A1,
           \A b, n \in Nat : StartAck("Ok", id, b) \in A1 /\ Start(b, n) \in M2
                             => Start(b, n) \in M1
    PROVE  Covers(S2, id, A2, M2)
  BY DEF Covers

\* The fields of the messages.
LEMMA RecordFacts ==
    /\ \A b, n : Start(b, n).type = "Start" /\ Start(b, n).batch = b /\ Start(b, n).size = n
    /\ \A st, id, b : /\ StartAck(st, id, b).type = "StartAck"
                      /\ StartAck(st, id, b).status = st
                      /\ StartAck(st, id, b).session = id
                      /\ StartAck(st, id, b).batch = b
    /\ \A st, id : /\ EndAck(st, id).type = "EndAck"
                   /\ EndAck(st, id).status = st
                   /\ EndAck(st, id).session = id
    /\ \A id, r : ReqRet(id, r).type = "ReqRet"
  BY DEF Start, StartAck, EndAck, ReqRet

\* And of those the agent sends.
LEMMA SentFacts ==
    /\ StartMessage.type = "Start" /\ EndMessage.type = "End"
    /\ StartMessage.batch = batch /\ StartMessage.size = size
    /\ \A seq : /\ DataMessage(seq).type = "Data" /\ DataMessage(seq).batch = batch
                /\ DataMessage(seq).seq = seq
  BY DEF StartMessage, DataMessage, EndMessage

\* A session is granted to one batch.
LEMMA OneBatch ==
    ASSUME WireInv, NEW id, NEW b \in Nat, NEW c \in Nat,
           Granted(id, b), Granted(id, c)
    PROVE  b = c /\ id \in 1 .. created
  BY RecordFacts DEF WireInv, GrantsAgree, Granted

\* A batch announced one size.
LEMMA OneSize ==
    ASSUME WireInv, NEW b \in Nat, NEW n \in Nat, NEW k \in Nat,
           Start(b, n) \in toManager, Start(b, k) \in toManager
    PROVE  n = k
  BY RecordFacts DEF WireInv, StartsAgree

-----------------------------------------------------------------------------
(* The agent *)

\* How the agent's steps change what it sends and returns.
Sends ==
    \/ UNCHANGED toManager
    \/ pc = "sendStart" /\ Send(StartMessage) /\ pc' # "idle"
    \/ InDataOrEnd /\ \E seq : Send(DataMessage(seq))
    \/ Send(EndMessage)

Succeeds ==
    \/ UNCHANGED succeeded
    \/ /\ syncState.endAckReceived /\ InEndLoop
       /\ succeeded' = succeeded \cup {batch}
       /\ UNCHANGED toManager

Rounds ==
    \/ pc # "idle" /\ UNCHANGED <<batch, size>>
    \/ UNCHANGED batch /\ pc' = "idle"
    \/ pc = "idle" /\ batch' = batch + 1

AgentGoal == AgentInv' /\ Sends /\ Succeeds /\ Rounds

\* A call that fails leaves the agent idle and has sent nothing more.
LEMMA FailureStep ==
    ASSUME AgentInv, Return(FALSE), UNCHANGED <<toManager, toAgent>>
    PROVE  AgentGoal
  BY DEF AgentGoal, AgentInv, AgentBasics, AgentGranted, Sends, Succeeds, Rounds,
         Return, reset, InDataOrEnd, InEndLoop

\* So does a further attempt of a loop, without leaving the loop.
LEMMA ContinueStep ==
    ASSUME AgentInv, UNCHANGED <<toManager, toAgent>>, NEW label, NEW e,
           Continue(label, e),
           \/ label = "sendStart" /\ pc \in {"sendStart", "waitStart"}
           \/ label = "sendEnd" /\ InEndLoop
    PROVE  AgentGoal
  <1>1. CASE attempt < Retries
    BY <1>1 DEF Continue, AgentGoal, AgentInv, AgentBasics, AgentGranted, Granted,
       Sends, Succeeds, Rounds, InDataOrEnd, InEndLoop
  <1>2. CASE ~(attempt < Retries)
    BY <1>2, FailureStep, Zenon DEF Continue
  <1>. QED  BY <1>1, <1>2

\* The steps of the thread that runs synchronizeModule: what they send, what
\* they return and that the sessions it uses are those of its batch.
LEMMA AgentStep ==
    ASSUME AgentInv, UNCHANGED toAgent, synchronizeModule \/ SyncThread \/ Restart
    PROVE  AgentGoal
  <1>. USE DEF AgentInv, AgentBasics, AgentGranted, Granted, Sends, Succeeds, Rounds,
           InDataOrEnd, InEndLoop, AgentGoal, locals
  <1>1. CASE synchronizeModule
    BY <1>1, AgentAssumption DEF synchronizeModule, reset
  <1>2. CASE sendStart
    <2>1. CASE pc' = "waitStart" /\ Send(StartMessage)
      BY <1>2, <2>1 DEF sendStart, Continue, Return
    <2>2. CASE ~(pc' = "waitStart" /\ Send(StartMessage))
      BY <1>2, <2>2, ContinueStep DEF sendStart
    <2>. QED  BY <2>1, <2>2
  <1>3. CASE receiveStartAck
    <2>1. CASE syncState.syncFailed
      BY <1>3, <2>1, FailureStep DEF receiveStartAck
    <2>2. CASE ~syncState.syncFailed
      BY <1>3, <2>2 DEF receiveStartAck, StartAnswered
    <2>. QED  BY <2>1, <2>2
  <1>4. CASE startAckTimeout
    BY <1>4, ContinueStep DEF startAckTimeout
  <1>5. CASE sendDataMessages
    <2>1. CASE Return(FALSE) /\ UNCHANGED toManager
      BY <2>1, FailureStep
    <2>2. CASE ~(Return(FALSE) /\ UNCHANGED toManager)
      <3>1. /\ pc \in {"sendData", "resend"}
            /\ Send(DataMessage(NextSeq))
            /\ UNCHANGED <<syncState, pc, batch, size, attempt, session, sendEnd,
                           succeeded>>
        BY <1>5, <2>2, Zenon DEF sendDataMessages
      <3>. QED  BY ONLY <3>1, AgentInv, UNCHANGED toAgent
                DEF AgentInv, AgentBasics, AgentGranted, Granted, Sends, Succeeds,
                    Rounds, InDataOrEnd, InEndLoop, AgentGoal
    <2>. QED  BY <2>1, <2>2, Zenon
  <1>6. CASE readSession
    BY <1>6 DEF readSession
  <1>7. CASE enterEnd
    BY <1>7 DEF enterEnd
  <1>8. CASE sendEndMessage
    <2>1. CASE Continue("sendEnd", sendEnd) /\ UNCHANGED toManager
      BY <1>8, <2>1, ContinueStep DEF sendEndMessage
    <2>2. CASE ~(Continue("sendEnd", sendEnd) /\ UNCHANGED toManager)
      BY <1>8, <2>2 DEF sendEndMessage
    <2>. QED  BY <2>1, <2>2
  <1>9. CASE receiveEndAck
    <2>1. CASE syncState.syncFailed
      BY <1>9, <2>1, FailureStep DEF receiveEndAck
    <2>2. CASE ~syncState.syncFailed
      BY <1>9, <2>2 DEF receiveEndAck
    <2>. QED  BY <2>1, <2>2
  <1>10. CASE endAckTimeout
    BY <1>10, ContinueStep DEF endAckTimeout
  <1>11. CASE takeReqRet
    <2>1. CASE Return(FALSE)
      BY <1>11, <2>1, FailureStep DEF takeReqRet
    <2>2. CASE ~Return(FALSE)
      <3>1. /\ pc = "takeReqRet" /\ pc' \in {"checkEndAck", "resend"}
            /\ \/ UNCHANGED syncState
               \/ syncState' = [syncState EXCEPT !.reqRetReceived = FALSE,
                                                 !.reqRetRanges = <<>>]
            /\ UNCHANGED <<batch, size, session, succeeded, toManager>>
        BY ONLY <1>11, <2>2, Zenon DEF takeReqRet, locals
      <3>2. UNCHANGED <<syncState.phase, syncState.session,
                        syncState.startAckReceived, syncState.endAckReceived>>
        BY <3>1, Zenon DEF reset
      <3>3. (DOMAIN syncState = DOMAIN reset)'
        BY <3>1, Zenon DEF reset
      <3>. QED  BY ONLY <3>1, <3>2, <3>3, AgentInv, UNCHANGED toAgent
                DEF AgentInv, AgentBasics, AgentGranted, Granted, Sends, Succeeds,
                    Rounds, InDataOrEnd, InEndLoop, AgentGoal
    <2>. QED  BY <2>1, <2>2, Zenon
  <1>12. CASE resent
    BY <1>12, ContinueStep, Zenon DEF resent
  <1>13. CASE checkEndAck
    <2>1. CASE syncState.endAckReceived
      BY <1>13, <2>1 DEF checkEndAck, Return, reset
    <2>2. CASE ~syncState.endAckReceived
      BY <1>13, <2>2, ContinueStep DEF checkEndAck
    <2>. QED  BY <2>1, <2>2
  <1>14. CASE Restart
    BY <1>14, FailureStep DEF Restart
  <1>. QED
    BY <1>1, <1>2, <1>3, <1>4, <1>5, <1>6, <1>7, <1>8, <1>9, <1>10, <1>11, <1>12,
       <1>13, <1>14, Zenon DEF SyncThread

\* Every step of the agent keeps the invariant.  A new Start repeats the size of
\* those of its batch, so what was covered stays covered.
LEMMA AgentKeeps == IInv /\ Agent => IInv'
  <1>. SUFFICES ASSUME IInv, Agent PROVE IInv'
    OBVIOUS
  <1>1. AgentGoal /\ UNCHANGED facadeVars
    BY AgentStep DEF Agent, IInv, facadeVars
  <1>a. UNCHANGED <<sessions, store, queue, created, adding, bulk, notify, indexed,
                    toAgent>>
    BY <1>1 DEF facadeVars, sessionVars, connectorVars
  <1>m. /\ toManager \subseteq toManager'
        /\ \A m \in toManager' :
              \/ m \in toManager
              \/ m = Start(batch, size) /\ pc = "sendStart" /\ pc' # "idle"
              \/ m.type = "Data" /\ m.batch = batch /\ m.session = session /\ InDataOrEnd
              \/ m.type = "End"
    BY <1>1 DEF AgentGoal, Sends, Send, StartMessage, DataMessage, EndMessage, Start
  <1>2. \A id : \A b, n \in Nat :
            Granted(id, b) /\ Start(b, n) \in toManager' => Start(b, n) \in toManager
    <2>. SUFFICES ASSUME NEW id, NEW b \in Nat, NEW n \in Nat, Granted(id, b),
                         Start(b, n) \in toManager', Start(b, n) \notin toManager
                  PROVE  FALSE
      OBVIOUS
    <2>1. Start(b, n) = Start(batch, size) /\ pc = "sendStart"
      BY <1>m, RecordFacts
    <2>2. b = batch /\ n = size
      BY <2>1, RecordFacts
    <2>3. PICK k \in Nat : Start(b, k) \in toManager
      BY RecordFacts DEF IInv, WireInv, GrantsAgree, Granted
    <2>4. k = size
      BY <2>1, <2>2, <2>3, RecordFacts DEF IInv, WireInv, StartsAgree
    <2>. QED  BY <2>2, <2>3, <2>4
  <1>3. \A S, id : Covers(S, id, toAgent, toManager) => Covers(S, id, toAgent, toManager')
    <2>. SUFFICES ASSUME NEW S, NEW id, Covers(S, id, toAgent, toManager)
                  PROVE  Covers(S, id, toAgent, toManager')
      OBVIOUS
    <2>1. \A b, n \in Nat : StartAck("Ok", id, b) \in toAgent /\ Start(b, n) \in toManager'
                            => Start(b, n) \in toManager
      BY <1>2 DEF Granted
    <2>. QED  BY ONLY <2>1, Covers(S, id, toAgent, toManager) DEF Covers
  <1>4. StartsAgree'
    <2>. SUFFICES ASSUME NEW m \in toManager', m.type = "Start"
                  PROVE  /\ m.batch \in Nat /\ m.size \in Nat
                         /\ m = Start(m.batch, m.size)
                         /\ m.batch <= batch'
                         /\ m.batch = batch' /\ pc' # "idle" => m.size = size'
                         /\ \A n \in Nat : Start(m.batch, n) \in toManager' => n = m.size
      BY DEF StartsAgree, Start
    <2>0. batch \in Nat /\ size \in Nat /\ StartsAgree
      BY DEF IInv, AgentInv, AgentBasics, WireInv
    <2>1. CASE UNCHANGED toManager
      BY <2>0, <2>1, <1>1 DEF AgentGoal, Rounds, StartsAgree
    <2>2. CASE pc = "sendStart"
      <3>1. UNCHANGED batch /\ (UNCHANGED size \/ pc' = "idle")
        BY <2>2, <1>1 DEF AgentGoal, Rounds
      <3>2. m \in toManager \/ m = Start(batch, size)
        BY <1>m, RecordFacts, <2>2 DEF InDataOrEnd, InEndLoop
      <3>3. \A n \in Nat : Start(m.batch, n) \in toManager' =>
                Start(m.batch, n) \in toManager \/ (m.batch = batch /\ n = size)
        <4>. SUFFICES ASSUME NEW n \in Nat, Start(m.batch, n) \in toManager',
                             Start(m.batch, n) \notin toManager
                      PROVE  m.batch = batch /\ n = size
          OBVIOUS
        <4>1. Start(m.batch, n) = Start(batch, size)
          BY <1>m, RecordFacts
        <4>. QED  BY <4>1, RecordFacts
      <3>4. m.batch \in Nat /\ m.size \in Nat /\ m = Start(m.batch, m.size)
        BY <3>2, <2>0, RecordFacts DEF StartsAgree
      <3>5. m.batch <= batch /\ (m.batch = batch => m.size = size)
        BY <3>2, <2>0, <2>2, RecordFacts DEF StartsAgree
      <3>6. \A n \in Nat : Start(m.batch, n) \in toManager' => n = m.size
        BY <3>2, <3>3, <3>4, <3>5, <2>0, <2>2, RecordFacts DEF StartsAgree
      <3>. QED  BY <3>1, <3>4, <3>5, <3>6, <1>m, <3>2, RecordFacts
    <2>3. CASE pc # "sendStart"
      <3>1. m \in toManager /\ \A n : Start(m.batch, n) \in toManager' =>
                                        Start(m.batch, n) \in toManager
        BY <1>m, <2>3, RecordFacts
      <3>. QED  BY <2>0, <3>1, <1>1 DEF AgentGoal, Rounds, StartsAgree
    <2>. QED  BY <2>2, <2>3
  <1>5. GrantsAgree'
    BY <1>a, <1>m DEF IInv, WireInv, GrantsAgree, Granted
  <1>6. DataGranted'
    <2>. SUFFICES ASSUME NEW m \in toManager', m.type = "Data"
                  PROVE  m.batch \in Nat /\ Granted(m.session, m.batch)
      BY <1>a DEF DataGranted, Granted
    <2>. QED  BY <1>m, RecordFacts DEF IInv, WireInv, DataGranted, AgentInv,
                 AgentBasics, AgentGranted
  <1>7. ManagerInv'
    <2>1. ManagerBasics' /\ StoreGranted' /\ QueuedIsStored'
      BY <1>a DEF IInv, ManagerInv, ManagerBasics, StoreGranted, QueuedIsStored, Granted
    <2>2. SessionsGranted'
      BY <1>a, <1>m DEF IInv, ManagerInv, SessionsGranted, Granted
    <2>3. AddingCovered' /\ NotifyCovered' /\ AckCovered'
      BY <1>a, <1>3, Zenon DEF IInv, ManagerInv, AddingCovered, NotifyCovered, AckCovered,
         Stored
    <2>. QED  BY SMTT(30), <2>1, <2>2, <2>3 DEF ManagerInv
  <1>8. SuccessIsIndexed'
    <2>. SUFFICES ASSUME NEW m \in toManager', m.type = "Start", m.batch \in succeeded'
                  PROVE  \A seq \in 0 .. m.size - 1 : <<m.batch, seq>> \in indexed
      BY <1>a DEF SuccessIsIndexed
    <2>1. CASE m.batch \in succeeded
      <3>1. m \in toManager
        BY <1>m, <2>1, RecordFacts DEF IInv, AgentInv, AgentBasics
      <3>. QED  BY <2>1, <3>1 DEF IInv, SuccessIsIndexed
    <2>2. CASE m.batch \notin succeeded
      <3>1. /\ syncState.endAckReceived /\ InEndLoop /\ m.batch = batch
            /\ m \in toManager
        BY <2>2, <1>1 DEF AgentGoal, Succeeds
      <3>2. /\ EndAck("Ok", syncState.session) \in toAgent
            /\ Granted(syncState.session, batch)
        BY <3>1 DEF IInv, AgentInv, AgentGranted, InDataOrEnd
      <3>3. Covers(indexed, syncState.session, toAgent, toManager)
        BY <3>2, RecordFacts DEF IInv, ManagerInv, AckCovered
      <3>4. m = Start(batch, m.size) /\ m.size \in Nat /\ batch \in Nat
        BY <3>1 DEF IInv, WireInv, StartsAgree
      <3>. QED  BY <3>1, <3>2, <3>3, <3>4 DEF Covers, Granted
    <2>. QED  BY <2>1, <2>2
  <1>. QED  BY <1>1, <1>4, <1>5, <1>6, <1>7, <1>8 DEF IInv, WireInv, AgentGoal

\* The invariant reads nothing of the agent's state but what AgentInv says of it
\* and what it has sent.
AgentFrame == UNCHANGED <<pc, batch, size, session, toManager, succeeded>>

\* So a step that keeps both keeps the invariant.
LEMMA FrameKeeps ==
    ASSUME IInv, AgentFrame, UNCHANGED facadeVars, AgentInv'
    PROVE  IInv'
  <1>a. UNCHANGED <<sessions, store, queue, created, adding, bulk, notify, indexed,
                    toAgent>>
    BY DEF facadeVars, sessionVars, connectorVars
  <1>1. ManagerInv'
    <2>0. /\ ManagerBasics /\ StoreGranted /\ QueuedIsStored /\ SessionsGranted
          /\ UNCHANGED toManager
      BY DEF AgentFrame, IInv, ManagerInv
    <2>1. ManagerBasics' /\ QueuedIsStored'
      BY ONLY <1>a, <2>0 DEF ManagerBasics, QueuedIsStored
    <2>3. StoreGranted' /\ SessionsGranted'
      BY ONLY <1>a, <2>0 DEF StoreGranted, SessionsGranted, Granted
    <2>2. AddingCovered' /\ NotifyCovered' /\ AckCovered'
      BY <1>a, Zenon DEF AgentFrame, IInv, ManagerInv, AddingCovered, NotifyCovered,
         AckCovered, Stored
    <2>. QED  BY <2>1, <2>2, <2>3 DEF ManagerInv
  <1>2. WireInv'
    BY <1>a DEF AgentFrame, IInv, WireInv, StartsAgree, GrantsAgree,
       DataGranted, Granted
  <1>3. SuccessIsIndexed'
    BY <1>a DEF AgentFrame, IInv, SuccessIsIndexed
  <1>. QED  BY <1>1, <1>2, <1>3 DEF IInv

\* An answer sets the session only while the agent waits for one, and then, no
\* StartAck being late, to a session of its batch.
LEMMA DeliverKeeps ==
    ASSUME LateStartAcks = FALSE, IInv, Deliver
    PROVE  IInv'
  <1>1. AgentFrame /\ UNCHANGED facadeVars
    BY DEF Deliver, parseResponseBuffer, AgentFrame, locals
  <1>a. UNCHANGED <<sessions, store, queue, created, adding, bulk, notify, indexed,
                    toAgent>>
    BY <1>1 DEF facadeVars, sessionVars, connectorVars
  <1>2. PICK m \in toAgent :
          /\ m.type = "StartAck" => m.batch = batch
          /\ parseResponseBuffer(m)
    BY SMTT(30) DEF Deliver
  <1>3. AgentInv'
    <2>. USE DEF AgentInv, AgentBasics, AgentGranted, Granted, InDataOrEnd, InEndLoop, reset
    <2>0. AgentInv
      BY DEF IInv
    <2>1. CASE m.type = "StartAck" /\ syncState.phase = "WaitingStartAck"
      <3>1. syncState' = StartAckAccepted(m.status, m.session)
        BY SMTT(30), <1>2, <2>1 DEF parseResponseBuffer
      <3>2. ~syncState.endAckReceived
        BY SMTT(30), <2>0, <2>1
      <3>3. CASE m.status = "Ok"
        <4>1. Granted(m.session, batch)
          BY <1>2, <2>1, <3>3 DEF IInv, WireInv, GrantsAgree
        <4>2. syncState' = [syncState EXCEPT !.session = m.session, !.startAckReceived = TRUE]
          BY <3>1, <3>3 DEF StartAckAccepted
        <4>3. /\ syncState'.session = m.session /\ syncState'.startAckReceived
              /\ syncState'.phase = syncState.phase
              /\ syncState'.endAckReceived = syncState.endAckReceived
              /\ DOMAIN syncState' = DOMAIN reset
          BY <4>2, <2>0
        <4>. QED  BY SMTT(30), <4>1, <4>3, <3>2, <2>0, <1>1, <1>a DEF AgentFrame
      <3>4. CASE m.status # "Ok"
        <4>2. syncState' = [syncState EXCEPT !.syncFailed = TRUE]
          BY <3>1, <3>4 DEF StartAckAccepted
        <4>. QED  BY <4>2, <2>0, <1>1, <1>a DEF AgentFrame
      <3>. QED  BY <3>3, <3>4
    <2>2. CASE m.type = "EndAck" /\ validatePhaseAndSession(m.session)
      <3>1. syncState' = EndAckAccepted(m.status)
        BY <1>2, <2>2 DEF parseResponseBuffer
      <3>3. CASE m.status = "Ok"
        <4>1. EndAck("Ok", syncState.session) \in toAgent /\ syncState.phase = "WaitingEndAck"
          BY <2>2, <3>3, <1>2 DEF validatePhaseAndSession, IInv, ManagerInv, AckCovered
        <4>2. syncState' = [syncState EXCEPT !.endAckReceived = TRUE]
          BY <3>1, <3>3 DEF EndAckAccepted
        <4>. QED  BY SMTT(30), <4>1, <4>2, <2>0, <1>1, <1>a DEF AgentFrame
      <3>4. CASE m.status # "Ok"
        <4>2. syncState' = [syncState EXCEPT !.syncFailed = TRUE]
          BY SMTT(30), <3>1, <3>4 DEF EndAckAccepted
        <4>. QED  BY <4>2, <2>0, <1>1, <1>a DEF AgentFrame
      <3>. QED  BY <3>3, <3>4
    <2>3. CASE m.type = "ReqRet" /\ validatePhaseAndSession(m.session)
      <3>1. syncState' = [syncState EXCEPT !.reqRetReceived = TRUE, !.reqRetRanges = m.ranges]
        BY <1>2, <2>3 DEF parseResponseBuffer, ReqRetAccepted
      <3>2. /\ syncState'.session = syncState.session
            /\ syncState'.startAckReceived = syncState.startAckReceived
            /\ syncState'.phase = syncState.phase
            /\ syncState'.endAckReceived = syncState.endAckReceived
            /\ DOMAIN syncState' = DOMAIN reset
        BY SMTT(30), <3>1, <2>0
      <3>. QED  BY <3>2, <2>0, <1>1, <1>a DEF AgentFrame
    <2>4. CASE UNCHANGED syncState
      BY <2>4, <2>0, <1>1, <1>a DEF AgentFrame
    <2>. QED  BY SMTT(30), <1>2, <2>1, <2>2, <2>3, <2>4 DEF parseResponseBuffer
  <1>. QED  BY <1>1, <1>3, FrameKeeps

-----------------------------------------------------------------------------
(* The manager *)

\* What the steps of the manager leave alone.
LEMMA ManagerFrame ==
    ASSUME IInv, UNCHANGED agentVars, toAgent \subseteq toAgent', indexed \subseteq indexed'
    PROVE  AgentInv' /\ StartsAgree' /\ DataGranted' /\ SuccessIsIndexed' /\ UNCHANGED toManager
  <1>1. UNCHANGED <<syncState, pc, batch, size, session, toManager, succeeded>>
    BY SMTT(30) DEF agentVars, locals
  <1>2. AgentInv'
    BY <1>1 DEF IInv, AgentInv, AgentBasics, AgentGranted, Granted, InDataOrEnd,
       InEndLoop, reset
  <1>3. StartsAgree' /\ DataGranted'
    BY <1>1 DEF IInv, WireInv, StartsAgree, DataGranted, Granted
  <1>4. SuccessIsIndexed'
    BY <1>1 DEF IInv, SuccessIsIndexed
  <1>. QED  BY <1>1, <1>2, <1>3, <1>4

\* A step that creates no session.
NoGrant ==
    /\ UNCHANGED created
    /\ indexed \subseteq indexed'
    /\ toAgent \subseteq toAgent'
    /\ \A x \in toAgent' \ toAgent : ~(x.type = "StartAck" /\ x.status = "Ok")

SameGrants ==
    \A id : \A b : StartAck("Ok", id, b) \in toAgent' <=> StartAck("Ok", id, b) \in toAgent

CoversKept ==
    \A S, id : Covers(S, id, toAgent, toManager) => Covers(S, id, toAgent', toManager')

\* It leaves the invariant to be shown only of the manager's own state.
LEMMA QuietStep ==
    ASSUME IInv, UNCHANGED agentVars, NoGrant
    PROVE  /\ AgentInv' /\ WireInv' /\ SuccessIsIndexed'
           /\ SameGrants /\ CoversKept /\ UNCHANGED toManager
           /\ toAgent \subseteq toAgent'
  <1>1. toAgent \subseteq toAgent'
    BY DEF NoGrant
  <1>2. AgentInv' /\ StartsAgree' /\ DataGranted' /\ SuccessIsIndexed' /\ UNCHANGED toManager
    BY <1>1, ManagerFrame DEF NoGrant
  <1>3. SameGrants
    BY RecordFacts DEF NoGrant, SameGrants
  <1>4. GrantsAgree'
    <2>. SUFFICES ASSUME NEW a \in toAgent', a.type = "StartAck", a.status = "Ok"
                  PROVE  /\ a.session \in 1 .. created /\ a.batch \in Nat
                         /\ a = StartAck("Ok", a.session, a.batch)
                         /\ \E n \in Nat : Start(a.batch, n) \in toManager
                         /\ \A b \in Nat : Granted(a.session, b)' => b = a.batch
      BY <1>2 DEF GrantsAgree, NoGrant
    <2>1. a \in toAgent
      BY DEF NoGrant
    <2>. QED  BY <2>1, <1>3 DEF IInv, WireInv, GrantsAgree, Granted, SameGrants
  <1>5. CoversKept
    BY <1>2, <1>3 DEF CoversKept, Covers, SameGrants
  <1>. QED  BY <1>1, <1>2, <1>3, <1>4, <1>5 DEF WireInv

\* Covered sets may grow.
LEMMA CoversGrows ==
    ASSUME NEW S, NEW T, NEW id, NEW A, NEW M, Covers(S, id, A, M), S \subseteq T
    PROVE  Covers(T, id, A, M)
  BY DEF Covers

\* What was acknowledged stays covered by a step that acknowledges nothing.
LEMMA AckKept ==
    ASSUME IInv, UNCHANGED agentVars, NoGrant,
           \A a \in toAgent' : a.type = "EndAck" /\ a.status = "Ok" => a \in toAgent
    PROVE  AckCovered'
  <1>. SUFFICES ASSUME NEW a \in toAgent', a.type = "EndAck", a.status = "Ok"
                PROVE  /\ a = EndAck("Ok", a.session) /\ a.session \in 1 .. created'
                       /\ Covers(indexed', a.session, toAgent', toManager')
    BY DEF AckCovered
  <1>1. /\ a = EndAck("Ok", a.session) /\ a.session \in 1 .. created
        /\ Covers(indexed, a.session, toAgent, toManager)
    BY DEF IInv, ManagerInv, AckCovered
  <1>2. Covers(indexed, a.session, toAgent', toManager')
    BY <1>1, QuietStep DEF CoversKept
  <1>. QED  BY <1>1, <1>2, CoversGrows DEF NoGrant

\* What is handed over goes from the bulk to the indexer.
LEMMA HandoverKept ==
    ASSUME IInv, UNCHANGED agentVars, NoGrant, notify' \subseteq notify,
           bulk \cup indexed \subseteq bulk' \cup indexed'
    PROVE  NotifyCovered'
  <1>. SUFFICES ASSUME NEW id \in notify'
                PROVE  Covers(bulk' \cup indexed', id, toAgent', toManager')
    BY DEF NotifyCovered
  <1>1. Covers(bulk \cup indexed, id, toAgent, toManager)
    BY DEF IInv, ManagerInv, NotifyCovered
  <1>2. Covers(bulk' \cup indexed', id, toAgent, toManager)
    BY <1>1, CoversGrows
  <1>. QED  BY <1>2, QuietStep DEF CoversKept

\* Dropping sessions keeps what is said of the others.
LEMMA EraseStep ==
    ASSUME IInv, UNCHANGED agentVars, NoGrant, NEW ids, sessions' = erase(ids),
           UNCHANGED queue,
           \A e \in store : e.session \notin ids => e \in store'
    PROVE  /\ SessionsGranted' /\ QueuedIsStored'
           /\ DOMAIN sessions' \subseteq DOMAIN sessions
           /\ \A i \in DOMAIN sessions' : sessions'[i] = sessions[i]
  <1>1. /\ DOMAIN sessions' = DOMAIN sessions \ ids
        /\ \A i \in DOMAIN sessions' : sessions'[i] = sessions[i]
    BY DEF erase
  <1>2. SessionsGranted'
    BY <1>1, QuietStep DEF IInv, ManagerInv, SessionsGranted, Granted, SameGrants
  <1>3. QueuedIsStored'
    <2>1. \A i \in DOMAIN sessions' : \A seq \in sessions'[i].observed :
              \E e \in store' : e.session = i /\ e.seq = seq
      <3>. SUFFICES ASSUME NEW i \in DOMAIN sessions', NEW seq \in sessions[i].observed
                    PROVE  \E e \in store' : e.session = i /\ e.seq = seq
        BY <1>1
      <3>. QED  BY <1>1 DEF IInv, ManagerInv, QueuedIsStored
    <2>2. \A k \in DOMAIN queue' :
              queue'[k] \in DOMAIN sessions' => Complete(sessions'[queue'[k]])
      BY <1>1 DEF IInv, ManagerInv, QueuedIsStored
    <2>. QED  BY SMTT(30), <2>1, <2>2 DEF QueuedIsStored, Complete, Missing
  <1>. QED  BY <1>1, <1>2, <1>3

\* The timer thread drops a session (sessionTimeout).
LEMMA TimeoutKeeps ==
    ASSUME IInv, UNCHANGED agentVars, sessionTimeout
    PROVE  IInv'
  <1>1. UNCHANGED <<store, queue, created, adding, bulk, notify, indexed, toAgent>>
    BY DEF sessionTimeout, connectorVars
  <1>2. NoGrant
    BY <1>1 DEF NoGrant
  <1>3. PICK id \in DOMAIN sessions : sessions' = erase({id})
    BY DEF sessionTimeout
  <1>4. /\ SessionsGranted' /\ QueuedIsStored'
        /\ DOMAIN sessions' \subseteq DOMAIN sessions
        /\ \A i \in DOMAIN sessions' : sessions'[i] = sessions[i]
    BY SMTT(30), <1>1, <1>2, <1>3, EraseStep
  <1>5. ManagerBasics' /\ StoreGranted'
    BY <1>1, <1>4 DEF IInv, ManagerInv, ManagerBasics, StoreGranted, Granted
  <1>6. NotifyCovered' /\ AckCovered'
    BY SMTT(30), <1>1, <1>2, HandoverKept, AckKept
  <1>7. AddingCovered'
    BY SMTT(30), <1>1, <1>2, QuietStep DEF IInv, ManagerInv, AddingCovered, Stored
  <1>. QED  BY <1>2, <1>4, <1>5, <1>6, <1>7, QuietStep DEF IInv, ManagerInv

\* All that a complete session announced is in the store, under its batch.
LEMMA CompleteIsCovered ==
    ASSUME IInv, NEW id \in DOMAIN sessions, Complete(sessions[id])
    PROVE  Covers(Stored(id), id, toAgent, toManager)
  <1>. SUFFICES ASSUME NEW b \in Nat, NEW n \in Nat, Granted(id, b), Start(b, n) \in toManager,
                       NEW seq \in 0 .. n - 1
                PROVE  <<b, seq>> \in Stored(id)
    BY DEF Covers, Granted
  <1>1. PICK c \in Nat : Granted(id, c) /\ Start(c, sessions[id].size) \in toManager
    BY DEF IInv, ManagerInv, SessionsGranted
  <1>2. sessions[id].size \in Nat
    BY DEF IInv, ManagerInv, ManagerBasics
  <1>3. b = c
    BY <1>1, OneBatch DEF IInv
  <1>4. n = sessions[id].size
    BY SMTT(30), <1>1, <1>2, <1>3, OneSize DEF IInv
  <1>5. seq \in sessions[id].observed
    BY <1>4, <1>2 DEF Complete, Missing
  <1>6. PICK e \in store : e.session = id /\ e.seq = seq
    BY <1>5 DEF IInv, ManagerInv, QueuedIsStored
  <1>7. e.batch = b
    BY <1>6, OneBatch DEF IInv, ManagerInv, StoreGranted
  <1>. QED  BY <1>6, <1>7 DEF Stored

\* The session taken from the queue is complete, if it is still there (takeSession).
LEMMA TakeKeeps ==
    ASSUME IInv, UNCHANGED agentVars, takeSession
    PROVE  IInv'
  <1>1. /\ UNCHANGED <<sessions, store, created, bulk, notify, indexed, toAgent>>
        /\ queue # <<>> /\ queue' = Tail(queue)
        /\ adding' = IF Head(queue) \in DOMAIN sessions THEN Head(queue) ELSE 0
    BY DEF takeSession, Take
  <1>2. NoGrant
    BY <1>1 DEF NoGrant
  <1>3. created \in Nat /\ queue \in Seq(1 .. created)
    BY DEF IInv, ManagerInv, ManagerBasics
  <1>4. /\ Head(queue) = queue[1] /\ 1 \in DOMAIN queue /\ queue[1] \in 1 .. created
        /\ queue' \in Seq(1 .. created)
        /\ \A k \in DOMAIN queue' : k + 1 \in DOMAIN queue /\ queue'[k] = queue[k + 1]
    BY <1>1, <1>3
  <1>5. ManagerBasics'
    BY SMTT(30), <1>1, <1>4 DEF IInv, ManagerInv, ManagerBasics
  <1>6. SessionsGranted' /\ StoreGranted' /\ NotifyCovered' /\ AckCovered'
    BY SMTT(30), <1>1, <1>2, HandoverKept, AckKept, QuietStep
       DEF IInv, ManagerInv, SessionsGranted, StoreGranted, Granted
  <1>7. QueuedIsStored'
    BY <1>1, <1>4 DEF IInv, ManagerInv, QueuedIsStored, Complete, Missing
  <1>8. AddingCovered'
    <2>. SUFFICES ASSUME adding' # 0
                  PROVE  Covers(Stored(adding') \cup indexed, adding', toAgent', toManager')
      BY <1>1, Zenon DEF AddingCovered, Stored
    <2>1. adding' = queue[1] /\ adding' \in DOMAIN sessions /\ Complete(sessions[adding'])
      BY <1>1, <1>4 DEF IInv, ManagerInv, QueuedIsStored
    <2>2. Covers(Stored(adding'), adding', toAgent, toManager)
      BY <2>1, CompleteIsCovered
    <2>3. Covers(Stored(adding') \cup indexed, adding', toAgent, toManager)
      BY <2>2, CoversGrows
    <2>. QED  BY <2>3, <1>2, QuietStep DEF CoversKept
  <1>. QED  BY <1>2, <1>5, <1>6, <1>7, <1>8, QuietStep DEF IInv, ManagerInv

\* What the connector executes of the bulk stays handed over.
LEMMA ExecuteMoves ==
    ASSUME NEW part \in SUBSET bulk, Execute(part)
    PROVE  indexed \subseteq indexed' /\ bulk \cup indexed \subseteq bulk' \cup indexed'
  BY DEF Execute

\* A step that leaves sessions, store and queue alone (addItem, addSession,
\* processBulk).
LEMMA ConnectorKeeps ==
    ASSUME IInv, UNCHANGED agentVars, UNCHANGED <<sessionVars, toAgent>>,
           indexed \subseteq indexed', NotifyCovered',
           adding' = adding \/ adding' = 0, notify' \subseteq notify \cup {adding},
           0 \notin notify'
    PROVE  IInv'
  <1>1. UNCHANGED <<sessions, store, queue, created, toAgent>>
    BY DEF sessionVars
  <1>2. NoGrant
    BY <1>1 DEF NoGrant
  <1>3. ManagerBasics'
    <2>1. ManagerBasics
      BY ONLY IInv DEF IInv, ManagerInv
    <2>2. notify' \subseteq 1 .. created /\ adding' \in 0 .. created
      BY SMTT(30), <2>1 DEF ManagerBasics
    <2>. QED  BY ONLY <1>1, <2>1, <2>2 DEF ManagerBasics
  <1>4. SessionsGranted' /\ StoreGranted' /\ AckCovered'
    BY SMTT(30), <1>1, <1>2, AckKept, QuietStep
       DEF IInv, ManagerInv, SessionsGranted, StoreGranted, Granted
  <1>5. QueuedIsStored'
    <2>1. QueuedIsStored
      BY ONLY IInv DEF IInv, ManagerInv
    <2>. QED  BY ONLY <1>1, <2>1 DEF QueuedIsStored
  <1>6. AddingCovered'
    <2>. SUFFICES ASSUME adding' # 0
                  PROVE  Covers(Stored(adding) \cup indexed', adding, toAgent', toManager')
      BY <1>1, Zenon DEF AddingCovered, Stored
    <2>1. Covers(Stored(adding) \cup indexed', adding, toAgent, toManager)
      BY CoversGrows DEF IInv, ManagerInv, AddingCovered
    <2>. QED  BY <2>1, <1>2, QuietStep DEF CoversKept
  <1>. QED  BY <1>2, <1>3, <1>4, <1>5, <1>6, QuietStep DEF IInv, ManagerInv

\* The callbacks registered are those of sessions.
LEMMA NotifyNotZero ==
    ASSUME IInv
    PROVE  0 \notin notify
  BY DEF IInv, ManagerInv, ManagerBasics

\* An operation goes into the bulk (addItem).
LEMMA ItemKeeps ==
    ASSUME IInv, UNCHANGED agentVars, addItem
    PROVE  IInv'
  <1>1. /\ UNCHANGED <<sessionVars, toAgent>>
        /\ bulk \subseteq bulk' /\ UNCHANGED <<adding, notify, indexed>>
    BY DEF addItem, AddItem
  <1>2. NoGrant
    BY <1>1 DEF NoGrant, sessionVars
  <1>3. NotifyCovered'
    BY <1>1, <1>2, HandoverKept
  <1>. QED  BY <1>1, <1>3, NotifyNotZero, ConnectorKeeps

\* All of its data are handed over when the callback is registered (addSession).
LEMMA AddKeeps ==
    ASSUME IInv, UNCHANGED agentVars, addSession
    PROVE  IInv'
  <1>1. /\ UNCHANGED <<sessionVars, toAgent>> /\ UNCHANGED <<bulk, indexed>>
        /\ adding # 0 /\ adding' = 0
        /\ Stored(adding) \subseteq bulk \cup indexed
        /\ notify' = notify \cup {adding}
    BY DEF addSession, Register
  <1>2. NoGrant
    BY <1>1 DEF NoGrant, sessionVars
  <1>3. NotifyCovered'
    <2>1. ASSUME NEW id \in notify \cup {adding}
          PROVE  Covers(bulk \cup indexed, id, toAgent, toManager)
      <3>1. CASE id \in notify
        BY <3>1, Zenon DEF IInv, ManagerInv, NotifyCovered
      <3>2. CASE id = adding
        <4>1. Covers(Stored(adding) \cup indexed, id, toAgent, toManager)
          BY <3>2, <1>1 DEF IInv, ManagerInv, AddingCovered
        <4>. QED  BY <4>1, <1>1, CoversGrows
      <3>. QED  BY <2>1, <3>1, <3>2
    <2>2. CoversKept
      BY <1>2, QuietStep
    <2>. QED  BY ONLY <1>1, <2>1, <2>2 DEF CoversKept, NotifyCovered
  <1>. QED  BY SMTT(30), <1>1, <1>3, NotifyNotZero, ConnectorKeeps

\* The bulk, or a part of it, is executed (processBulk).
LEMMA BulkKeeps ==
    ASSUME IInv, UNCHANGED agentVars, processBulk
    PROVE  IInv'
  <1>1. UNCHANGED <<sessionVars, toAgent>> /\ UNCHANGED <<adding, notify>>
    BY DEF processBulk, Request
  <1>2. indexed \subseteq indexed' /\ bulk \cup indexed \subseteq bulk' \cup indexed'
    BY ExecuteMoves DEF processBulk, Request
  <1>3. NoGrant
    BY <1>1, <1>2 DEF NoGrant, sessionVars
  <1>4. NotifyCovered'
    BY SMTT(30), <1>1, <1>2, <1>3, HandoverKept
  <1>. QED  BY <1>1, <1>2, <1>4, NotifyNotZero, ConnectorKeeps

\* A session that could not be added is dropped; no success is sent (addSessionFails).
LEMMA AddFailsKeeps ==
    ASSUME IInv, UNCHANGED agentVars, addSessionFails
    PROVE  IInv'
  <1>1. /\ UNCHANGED <<queue, created, notify>> /\ adding' = 0
        /\ toAgent' = toAgent \cup {EndAck("Error", adding)}
        /\ store' = deleteByPrefix({adding})
        /\ sessions' = erase({adding})
    BY DEF addSessionFails, Answer, GiveUp
  <1>a. indexed \subseteq indexed' /\ bulk \cup indexed \subseteq bulk' \cup indexed'
    BY ExecuteMoves DEF addSessionFails, GiveUp
  <1>2. NoGrant
    BY <1>1, <1>a, RecordFacts DEF NoGrant
  <1>3. store' \subseteq store /\ \A e \in store : e.session \notin {adding} => e \in store'
    BY <1>1 DEF deleteByPrefix
  <1>4. /\ SessionsGranted' /\ QueuedIsStored'
        /\ DOMAIN sessions' \subseteq DOMAIN sessions
        /\ \A i \in DOMAIN sessions' : sessions'[i] = sessions[i]
    BY <1>1, <1>2, <1>3, EraseStep, Zenon
  <1>5. ManagerBasics' /\ AddingCovered'
    <2>1. ManagerBasics
      BY ONLY IInv DEF IInv, ManagerInv
    <2>2. DOMAIN sessions' \subseteq 1 .. created /\ adding' \in 0 .. created
      <3>1. created \in Nat /\ DOMAIN sessions \subseteq 1 .. created /\ adding' = 0
        BY ONLY <1>1, <2>1 DEF ManagerBasics
      <3>. QED  BY ONLY <1>4, <3>1
    <2>3. ManagerBasics'
      BY ONLY <1>1, <1>4, <2>1, <2>2, Zenon DEF ManagerBasics
    <2>. QED  BY <1>1, <2>3 DEF AddingCovered
  <1>6. StoreGranted'
    BY <1>1, <1>3, Zenon DEF IInv, ManagerInv, StoreGranted, Granted
  <1>7. AckCovered'
    <2>1. \A a \in toAgent' : a.type = "EndAck" /\ a.status = "Ok" => a \in toAgent
      BY <1>1, RecordFacts
    <2>. QED  BY SMTT(30), <2>1, <1>2, AckKept
  <1>8. NotifyCovered'
    BY SMTT(30), <1>1, <1>a, <1>2, HandoverKept
  <1>. QED  BY SMTT(30), <1>2, <1>4, <1>5, <1>6, <1>7, <1>8, QuietStep DEF IInv, ManagerInv

\* The callbacks come when nothing is left of the bulk, so their sessions are
\* indexed.  One of these may be in the hands of the queue's thread a second
\* time: then the data it will find missing from the store are indexed.
LEMMA SuccessKeeps ==
    ASSUME IInv, UNCHANGED agentVars, onSuccess
    PROVE  IInv'
  <1>1. PICK ids \in SUBSET notify :
          /\ Acknowledge(ids)
          /\ toAgent' = toAgent \cup {EndAck("Ok", id) : id \in ids}
          /\ store' = deleteByPrefix(ids)
          /\ sessions' = erase(ids)
    BY DEF onSuccess
  <1>a. /\ notify' = notify \ ids /\ UNCHANGED <<queue, created, adding>>
        /\ indexed' = indexed \cup bulk /\ bulk' = {}
    BY <1>1 DEF onSuccess, Acknowledge, Execute
  <1>b. \A x \in toAgent' \ toAgent : \E id \in ids : x = EndAck("Ok", id)
    BY ONLY SMTT(30), <1>1
  <1>2. NoGrant
    BY <1>1, <1>a, <1>b, RecordFacts DEF NoGrant
  <1>3. store' \subseteq store /\ \A e \in store : e.session \notin ids => e \in store'
    BY SMTT(30), <1>1 DEF deleteByPrefix
  <1>4. /\ SessionsGranted' /\ QueuedIsStored'
        /\ DOMAIN sessions' \subseteq DOMAIN sessions
        /\ \A i \in DOMAIN sessions' : sessions'[i] = sessions[i]
    BY SMTT(30), <1>1, <1>a, <1>2, <1>3, EraseStep
  <1>5. ManagerBasics'
    BY <1>1, <1>a, <1>4 DEF IInv, ManagerInv, ManagerBasics
  <1>6. StoreGranted'
    BY <1>1, <1>3 DEF IInv, ManagerInv, StoreGranted, Granted
  <1>7. \A id \in ids : Covers(indexed', id, toAgent, toManager) /\ id \in 1 .. created
    BY <1>1, <1>a, CoversGrows, Zenon DEF IInv, ManagerInv, NotifyCovered, ManagerBasics
  <1>8. AckCovered'
    <2>. SUFFICES ASSUME NEW a \in toAgent', a.type = "EndAck", a.status = "Ok"
                  PROVE  /\ a = EndAck("Ok", a.session) /\ a.session \in 1 .. created
                         /\ Covers(indexed', a.session, toAgent', toManager')
      BY <1>a, Zenon DEF AckCovered
    <2>1. /\ a = EndAck("Ok", a.session) /\ a.session \in 1 .. created
          /\ Covers(indexed', a.session, toAgent, toManager)
      <3>1. CASE a \in toAgent
        BY SMTT(30), <3>1, <1>a, CoversGrows DEF IInv, ManagerInv, AckCovered
      <3>2. CASE a \notin toAgent
        BY <3>2, <1>b, <1>7, RecordFacts
      <3>. QED  BY <3>1, <3>2
    <2>. QED  BY <2>1, <1>2, QuietStep DEF CoversKept
  <1>9. NotifyCovered'
    BY <1>a, <1>2, HandoverKept
  <1>10. AddingCovered'
    <2>. SUFFICES ASSUME adding # 0
                  PROVE  Covers(Stored(adding)' \cup indexed', adding, toAgent', toManager')
      BY <1>a DEF AddingCovered, Stored
    <2>1. CASE adding \in ids
      <3>1. Covers(Stored(adding)' \cup indexed', adding, toAgent, toManager)
        BY SMTT(30), <2>1, <1>7, CoversGrows
      <3>. QED  BY <3>1, <1>2, QuietStep DEF CoversKept
    <2>2. CASE adding \notin ids
      <3>1. Stored(adding)' = Stored(adding)
        BY <2>2, <1>1, <1>a DEF Stored, deleteByPrefix
      <3>2. Covers(Stored(adding) \cup indexed, adding, toAgent, toManager)
        BY DEF IInv, ManagerInv, AddingCovered
      <3>3. Covers(Stored(adding)' \cup indexed', adding, toAgent, toManager)
        BY ONLY SMTT(30), <1>a, <3>1, <3>2, CoversGrows
      <3>. QED  BY <3>3, <1>2, QuietStep DEF CoversKept
    <2>. QED  BY SMTT(30), <2>1, <2>2
  <1>. QED  BY SMTT(30), <1>2, <1>4, <1>5, <1>6, <1>8, <1>9, <1>10, QuietStep DEF IInv, ManagerInv

\* After a restart no session is left to be acknowledged (ManagerRestart).
LEMMA RestartKeeps ==
    ASSUME IInv, UNCHANGED agentVars, ManagerRestart
    PROVE  IInv'
  <1>1. /\ sessions' = <<>> /\ store' = {} /\ queue' = <<>> /\ adding' = 0
        /\ bulk' = {} /\ notify' = {} /\ UNCHANGED <<indexed, created, toAgent>>
    BY DEF ManagerRestart
  <1>2. NoGrant
    BY <1>1 DEF NoGrant
  <1>3. ManagerBasics'
    <2>1. created \in Nat
      BY DEF IInv, ManagerInv, ManagerBasics
    <2>2. DOMAIN sessions' = {} /\ queue' \in Seq(1 .. created)
      BY ONLY <1>1, <2>1
    <2>. QED  BY ONLY <1>1, <2>1, <2>2 DEF ManagerBasics
  <1>4. SessionsGranted' /\ StoreGranted' /\ QueuedIsStored' /\ AddingCovered' /\ NotifyCovered'
    <2>1. DOMAIN sessions' = {} /\ DOMAIN queue' = {}
      BY ONLY <1>1
    <2>2. SessionsGranted' /\ StoreGranted' /\ AddingCovered' /\ NotifyCovered'
      BY ONLY <1>1, <2>1 DEF SessionsGranted, StoreGranted, AddingCovered, NotifyCovered
    <2>3. QueuedIsStored'
      BY ONLY <2>1 DEF QueuedIsStored
    <2>. QED  BY ONLY <2>2, <2>3
  <1>. QED  BY SMTT(30), <1>1, <1>2, <1>3, <1>4, AckKept, QuietStep DEF IInv, ManagerInv

\* The elements of a queue after a push.
LEMMA PushElements ==
    ASSUME NEW n \in Nat, NEW q \in Seq(1 .. n), NEW id \in 1 .. n
    PROVE  /\ Append(q, id) \in Seq(1 .. n)
           /\ \A k \in DOMAIN Append(q, id) :
                 \/ k \in DOMAIN q /\ Append(q, id)[k] = q[k]
                 \/ Append(q, id)[k] = id
  OBVIOUS

\* End queues a session only when it is complete (handleEnd).
LEMMA EndKeeps ==
    ASSUME IInv, UNCHANGED agentVars, NEW m \in toManager, handleEnd(m)
    PROVE  IInv'
  <1>. DEFINE id == m.session
              s == sessions[id]
              finished == ~s.endEnqueued /\ Complete(s)
  <1>1. /\ id \in DOMAIN sessions
        /\ queue' = IF finished THEN Append(queue, id) ELSE queue
        /\ sessions' = [sessions EXCEPT ![id].endReceived = TRUE,
                                        ![id].endEnqueued = @ \/ finished]
        /\ UNCHANGED toAgent \/ toAgent' = toAgent \cup {ReqRet(id, ranges(s))}
        /\ UNCHANGED <<store, created, adding, bulk, notify, indexed>>
    BY DEF handleEnd, connectorVars, Answer
  <1>2. NoGrant
    BY <1>1, RecordFacts DEF NoGrant
  <1>3. /\ DOMAIN sessions' = DOMAIN sessions
        /\ \A i \in DOMAIN sessions : /\ DOMAIN sessions'[i] = DOMAIN sessions[i]
                                      /\ sessions'[i].size = sessions[i].size
                                      /\ sessions'[i].observed = sessions[i].observed
    BY <1>1
  <1>. HIDE DEF finished, s
  <1>4. /\ queue' \in Seq(1 .. created)
        /\ \A k \in DOMAIN queue' : \/ k \in DOMAIN queue /\ queue'[k] = queue[k]
                                    \/ finished /\ queue'[k] = id
    <2>1. created \in Nat /\ queue \in Seq(1 .. created) /\ id \in 1 .. created
      BY <1>1 DEF IInv, ManagerInv, ManagerBasics
    <2>2. CASE finished
      BY <2>1, <2>2, <1>1, PushElements
    <2>3. CASE ~finished
      BY <2>1, <2>3, <1>1
    <2>. QED  BY <2>2, <2>3
  <1>5. ManagerBasics'
    BY SMTT(30), <1>1, <1>3, <1>4 DEF IInv, ManagerInv, ManagerBasics
  <1>6. SessionsGranted'
    BY <1>2, <1>3, QuietStep DEF IInv, ManagerInv, SessionsGranted, Granted, SameGrants
  <1>7. StoreGranted'
    BY SMTT(30), <1>1, <1>2, QuietStep DEF IInv, ManagerInv, StoreGranted, Granted
  <1>8. QueuedIsStored'
    <2>1. \A i \in DOMAIN sessions' : \A seq \in sessions'[i].observed :
              \E e \in store' : e.session = i /\ e.seq = seq
      BY <1>1, <1>3 DEF IInv, ManagerInv, QueuedIsStored
    <2>2. \A i \in DOMAIN sessions' : Complete(sessions'[i]) <=> Complete(sessions[i])
      BY SMTT(30), <1>3 DEF Complete, Missing
    <2>3. \A k \in DOMAIN queue' :
              queue'[k] \in DOMAIN sessions' => Complete(sessions'[queue'[k]])
      BY <1>3, <1>4, <2>2 DEF IInv, ManagerInv, QueuedIsStored, finished, s
    <2>. QED  BY <2>1, <2>3 DEF QueuedIsStored, Complete, Missing
  <1>9. AckCovered'
    <2>1. \A a \in toAgent' : a.type = "EndAck" /\ a.status = "Ok" => a \in toAgent
      BY <1>1, RecordFacts
    <2>. QED  BY <2>1, <1>2, AckKept
  <1>10. NotifyCovered' /\ AddingCovered'
    BY SMTT(30), <1>1, <1>2, HandoverKept, QuietStep
       DEF IInv, ManagerInv, AddingCovered, Stored, CoversKept
  <1>. QED  BY SMTT(30), <1>2, <1>5, <1>6, <1>7, <1>8, <1>9, <1>10, QuietStep DEF IInv, ManagerInv

\* The stored message replaces none of another batch.
LEMMA DataKeeps ==
    ASSUME IInv, UNCHANGED agentVars, NEW m \in toManager, handleData(m)
    PROVE  IInv'
  <1>. DEFINE id == m.session
              s == sessions[id]
              after == [s EXCEPT !.observed = @ \cup {m.seq}]
              finished == m.seq < s.size /\ s.endReceived /\ Complete(after)
              e0 == [session |-> id, seq |-> m.seq, batch |-> m.batch]
  <1>1. /\ m.type = "Data" /\ id \in DOMAIN sessions
        /\ store' = put(id, m.seq, m.batch)
        /\ queue' = IF finished THEN Append(queue, id) ELSE queue
        /\ sessions' = IF m.seq < s.size
                       THEN [sessions EXCEPT ![id] =
                               [after EXCEPT !.endEnqueued = @ \/ finished]]
                       ELSE sessions
        /\ UNCHANGED <<toAgent, created, adding, bulk, notify, indexed>>
    BY DEF handleData, connectorVars
  <1>2. NoGrant
    BY <1>1 DEF NoGrant
  <1>3. Granted(id, m.batch) /\ m.batch \in Nat
    BY <1>1 DEF IInv, WireInv, DataGranted
  <1>4. /\ store' = {e \in store : e.session # id \/ e.seq # m.seq} \cup {e0}
        /\ e0.session = id /\ e0.seq = m.seq /\ e0.batch = m.batch
    BY <1>1 DEF put
  <1>5. /\ DOMAIN sessions' = DOMAIN sessions
        /\ \A i \in DOMAIN sessions :
              /\ DOMAIN sessions'[i] = DOMAIN sessions[i]
              /\ sessions'[i].size = sessions[i].size
              /\ sessions[i].observed \subseteq sessions'[i].observed
              /\ sessions'[i].observed \subseteq
                    (sessions[i].observed \cup (IF i = id THEN {m.seq} ELSE {}))
    BY <1>1 DEF IInv, ManagerInv, ManagerBasics
  <1>6. finished => Complete(sessions'[id])
    BY <1>1, Zenon DEF Complete, Missing, IInv, ManagerInv, ManagerBasics
  <1>. HIDE DEF finished, after, s, e0
  <1>7. /\ queue' \in Seq(1 .. created)
        /\ \A k \in DOMAIN queue' : \/ k \in DOMAIN queue /\ queue'[k] = queue[k]
                                    \/ finished /\ queue'[k] = id
    <2>1. created \in Nat /\ queue \in Seq(1 .. created) /\ id \in 1 .. created
      BY <1>1 DEF IInv, ManagerInv, ManagerBasics
    <2>2. CASE finished
      BY <2>1, <2>2, <1>1, PushElements
    <2>3. CASE ~finished
      BY <2>1, <2>3, <1>1
    <2>. QED  BY <2>2, <2>3
  <1>8. ManagerBasics'
    BY <1>1, <1>5, <1>7 DEF IInv, ManagerInv, ManagerBasics
  <1>9. SessionsGranted'
    BY <1>1, <1>2, <1>5, QuietStep DEF IInv, ManagerInv, SessionsGranted, Granted
  <1>10. StoreGranted'
    BY SMTT(30), <1>1, <1>3, <1>4 DEF IInv, ManagerInv, StoreGranted, Granted
  <1>11. QueuedIsStored'
    <2>1. \A i \in DOMAIN sessions' : \A seq \in sessions'[i].observed :
              \E e \in store' : e.session = i /\ e.seq = seq
      <3>. SUFFICES ASSUME NEW i \in DOMAIN sessions, NEW seq \in sessions'[i].observed
                    PROVE  \E e \in store' : e.session = i /\ e.seq = seq
        BY <1>5
      <3>1. CASE i = id /\ seq = m.seq
        BY <3>1, <1>4
      <3>2. CASE ~(i = id /\ seq = m.seq)
        <4>1. seq \in sessions[i].observed
          BY SMTT(30), <3>2, <1>5
        <4>2. PICK e \in store : e.session = i /\ e.seq = seq
          BY SMTT(30), <4>1 DEF IInv, ManagerInv, QueuedIsStored
        <4>. QED  BY SMTT(30), <4>2, <3>2, <1>4
      <3>. QED  BY SMTT(30), <3>1, <3>2
    <2>2. \A i \in DOMAIN sessions : Complete(sessions[i]) => Complete(sessions'[i])
      BY SMTT(30), <1>5 DEF Complete, Missing
    <2>3. \A k \in DOMAIN queue' :
              queue'[k] \in DOMAIN sessions' => Complete(sessions'[queue'[k]])
      BY <1>5, <1>6, <1>7, <2>2 DEF IInv, ManagerInv, QueuedIsStored
    <2>. QED  BY <2>1, <2>3 DEF QueuedIsStored, Complete, Missing
  <1>12. NotifyCovered' /\ AckCovered'
    BY <1>1, <1>2, HandoverKept, AckKept
  <1>13. AddingCovered'
    <2>. SUFFICES ASSUME adding # 0
                  PROVE  Covers(Stored(adding)' \cup indexed, adding, toAgent', toManager')
      BY <1>1 DEF AddingCovered, Stored
    <2>1. Stored(adding) \subseteq Stored(adding)'
      <3>. SUFFICES ASSUME NEW e \in store, e.session = adding
                    PROVE  \E f \in store' : /\ f.session = adding
                                             /\ f.batch = e.batch /\ f.seq = e.seq
        BY <1>1 DEF Stored
      <3>1. CASE e.session = id /\ e.seq = m.seq
        <4>1. e.batch = m.batch
          BY SMTT(30), <3>1, <1>3, OneBatch DEF IInv, ManagerInv, StoreGranted
        <4>. QED  BY SMTT(30), <3>1, <4>1, <1>4
      <3>2. CASE ~(e.session = id /\ e.seq = m.seq)
        BY <3>2, <1>4
      <3>. QED  BY <3>1, <3>2
    <2>2. Covers(Stored(adding)' \cup indexed, adding, toAgent, toManager)
      BY <2>1, CoversGrows DEF IInv, ManagerInv, AddingCovered
    <2>. QED  BY <2>2, <1>2, QuietStep DEF CoversKept
  <1>. QED  BY SMTT(30), <1>2, <1>8, <1>9, <1>10, <1>11, <1>12, <1>13, QuietStep DEF IInv, ManagerInv

\* A new session has an id that was never granted.
LEMMA NewSessionKeeps ==
    ASSUME IInv, UNCHANGED agentVars, NEW m \in toManager, m.type = "Start",
           NEW status, created' = created + 1,
           toAgent' = toAgent \cup {StartAck(status, created + 1, m.batch)},
           \/ status # "Ok" /\ UNCHANGED sessions
           \/ status = "Ok" /\ sessions' = Opened(created + 1, m.size),
           UNCHANGED <<store, queue, adding, bulk, notify, indexed>>
    PROVE  IInv'
  <1>. DEFINE new == created + 1
  <1>0. /\ created \in Nat
        /\ m.batch \in Nat /\ m.size \in Nat /\ Start(m.batch, m.size) \in toManager
    <2>1. ManagerBasics /\ StartsAgree
      BY ONLY IInv DEF IInv, ManagerInv, WireInv
    <2>. QED  BY ONLY <2>1, m \in toManager, m.type = "Start"
              DEF ManagerBasics, StartsAgree
  <1>b. ManagerBasics /\ SessionsGranted /\ StoreGranted /\ QueuedIsStored
        /\ AddingCovered /\ NotifyCovered /\ AckCovered
    BY ONLY IInv DEF IInv, ManagerInv
  <1>t. toAgent' = toAgent \cup {StartAck(status, new, m.batch)} /\ created' = new
    OBVIOUS
  <1>u. UNCHANGED <<store, queue, adding, bulk, notify, indexed>>
    OBVIOUS
  <1>1. /\ AgentInv' /\ StartsAgree' /\ DataGranted' /\ SuccessIsIndexed'
        /\ UNCHANGED toManager
    BY SMTT(30), ManagerFrame, <1>t, <1>u
  <1>2. \A b \in Nat : ~Granted(new, b)
    <2>1. GrantsAgree
      BY ONLY SMTT(30), IInv DEF IInv, WireInv
    <2>. QED  BY ONLY <2>1, <1>0, RecordFacts DEF GrantsAgree, Granted
  <1>3. \A id \in 1 .. created : \A b :
            StartAck("Ok", id, b) \in toAgent' <=> StartAck("Ok", id, b) \in toAgent
    BY ONLY <1>0, <1>t, RecordFacts
  <1>4. \A S : \A id \in 1 .. created :
            Covers(S, id, toAgent, toManager) => Covers(S, id, toAgent', toManager')
    BY ONLY SMTT(30), <1>1, <1>3 DEF Covers
  <1>5. GrantsAgree'
    <2>1. \A a \in toAgent' : a.type = "StartAck" /\ a.status = "Ok" =>
              /\ a.session \in 1 .. new /\ a.batch \in Nat
              /\ a = StartAck("Ok", a.session, a.batch)
              /\ \E n \in Nat : Start(a.batch, n) \in toManager
              /\ \A b \in Nat : StartAck("Ok", a.session, b) \in toAgent' => b = a.batch
      <3>. SUFFICES ASSUME NEW a \in toAgent', a.type = "StartAck", a.status = "Ok"
                    PROVE  /\ a.session \in 1 .. new /\ a.batch \in Nat
                           /\ a = StartAck("Ok", a.session, a.batch)
                           /\ \E n \in Nat : Start(a.batch, n) \in toManager
                           /\ \A b \in Nat : StartAck("Ok", a.session, b) \in toAgent'
                                             => b = a.batch
        OBVIOUS
      <3>1. CASE a \in toAgent
        <4>1. /\ a.session \in 1 .. created /\ a.batch \in Nat
              /\ a = StartAck("Ok", a.session, a.batch)
              /\ \E n \in Nat : Start(a.batch, n) \in toManager
              /\ \A b \in Nat : Granted(a.session, b) => b = a.batch
          <5>1. GrantsAgree
            BY ONLY IInv DEF IInv, WireInv
          <5>. QED  BY ONLY <5>1, <3>1, a.type = "StartAck", a.status = "Ok"
                    DEF GrantsAgree
        <4>. QED  BY ONLY SMTT(30), <4>1, <1>0, <1>3 DEF Granted
      <3>2. CASE a = StartAck(status, new, m.batch)
        <4>1. status = "Ok" /\ a.session = new /\ a.batch = m.batch
          BY ONLY SMTT(30), <3>2, a.status = "Ok" DEF StartAck
        <4>2. \A b \in Nat : StartAck("Ok", new, b) \in toAgent' => b = m.batch
          BY ONLY SMTT(30), <1>2, <1>t, RecordFacts DEF Granted
        <4>. QED  BY ONLY SMTT(30), <1>0, <3>2, <4>1, <4>2
      <3>. QED  BY ONLY SMTT(30), <3>1, <3>2, <1>t, a \in toAgent'
    <2>. QED  BY ONLY SMTT(30), <2>1, <1>1, <1>t DEF GrantsAgree, Granted
  <1>6. /\ DOMAIN sessions' \subseteq DOMAIN sessions \cup {new}
        /\ \A i \in DOMAIN sessions' : i # new => sessions'[i] = sessions[i]
        /\ new \in DOMAIN sessions' =>
              /\ status = "Ok" /\ sessions'[new].size = m.size
              /\ sessions'[new].observed = {}
              /\ DOMAIN sessions'[new] = {"size", "observed", "endReceived", "endEnqueued"}
        /\ DOMAIN sessions \subseteq 1 .. created
    <2>1. DOMAIN sessions \subseteq 1 .. created /\ new \notin 1 .. created
      BY ONLY SMTT(30), <1>0, <1>b DEF ManagerBasics
    <2>2. CASE status # "Ok" /\ UNCHANGED sessions
      <3>1. new \notin DOMAIN sessions
        BY ONLY SMTT(30), <2>1
      <3>. QED  BY ONLY <2>1, <2>2, <3>1
    <2>3. CASE status = "Ok" /\ sessions' = Opened(new, m.size)
      <3>1. /\ DOMAIN sessions' = DOMAIN sessions \cup {new}
            /\ \A i \in DOMAIN sessions : i # new => sessions'[i] = sessions[i]
            /\ sessions'[new] = [size |-> m.size, observed |-> {},
                                endReceived |-> FALSE, endEnqueued |-> FALSE]
        BY ONLY ZenonT(30), <2>3 DEF Opened
      <3>2. \A i \in DOMAIN sessions' : i # new => sessions'[i] = sessions[i]
        BY ONLY SMTT(30), <3>1
      <3>3. /\ sessions'[new].size = m.size /\ sessions'[new].observed = {}
            /\ DOMAIN sessions'[new] = {"size", "observed", "endReceived", "endEnqueued"}
        BY ONLY SMTT(30), <3>1
      <3>. QED  BY ONLY ZenonT(30), <2>1, <2>3, <3>1, <3>2, <3>3
    <2>. QED  BY <2>2, <2>3
  <1>7. ManagerBasics'
    <2>0. queue \in Seq(1 .. created) /\ adding \in 0 .. created
          /\ notify \subseteq 1 .. created
      BY ONLY <1>b DEF ManagerBasics
    <2>a. new \in Nat /\ 0 .. created \subseteq 0 .. new /\ 1 .. created \subseteq 1 .. new
          /\ new \in 1 .. new
      BY ONLY <1>0
    <2>1. queue' \in Seq(1 .. new)
      BY ONLY <2>0, <2>a, <1>0, <1>u
    <2>2. adding' \in 0 .. new /\ notify' \subseteq 1 .. new
      BY ONLY SMTT(30), <2>0, <2>a, <1>u
    <2>3. DOMAIN sessions' \subseteq 1 .. new
      BY ONLY <2>a, <1>6
    <2>4. \A id \in DOMAIN sessions' :
            /\ DOMAIN sessions'[id] = {"size", "observed", "endReceived", "endEnqueued"}
            /\ sessions'[id].size \in Nat
      <3>. SUFFICES ASSUME NEW id \in DOMAIN sessions'
                    PROVE  /\ DOMAIN sessions'[id] =
                                {"size", "observed", "endReceived", "endEnqueued"}
                           /\ sessions'[id].size \in Nat
        BY SMTT(30)
      <3>1. CASE id = new
        BY ONLY SMTT(30), <3>1, <1>0, <1>6, id \in DOMAIN sessions'
      <3>2. CASE id # new
        BY ONLY <3>2, <1>6, <1>b, id \in DOMAIN sessions' DEF ManagerBasics
      <3>. QED  BY ONLY SMTT(30), <3>1, <3>2
    <2>. QED  BY ONLY SMTT(30), <2>1, <2>2, <2>3, <2>4, <2>a, <1>t DEF ManagerBasics
  <1>8. SessionsGranted'
    <2>1. \A id \in DOMAIN sessions' : \E b \in Nat :
              /\ StartAck("Ok", id, b) \in toAgent'
              /\ Start(b, sessions'[id].size) \in toManager
      <3>. SUFFICES ASSUME NEW id \in DOMAIN sessions'
                    PROVE  \E b \in Nat : /\ StartAck("Ok", id, b) \in toAgent'
                                          /\ Start(b, sessions'[id].size) \in toManager
        BY SMTT(30)
      <3>1. CASE id = new
        BY ONLY SMTT(30), <3>1, <1>0, <1>6, <1>t, id \in DOMAIN sessions'
      <3>2. CASE id # new
        BY ONLY SMTT(30), <3>2, <1>6, <1>b, <1>t, id \in DOMAIN sessions' DEF SessionsGranted, Granted
      <3>. QED  BY ONLY SMTT(30), <3>1, <3>2
    <2>. QED  BY ONLY <2>1, <1>1 DEF SessionsGranted, Granted
  <1>9. StoreGranted'
    BY ONLY SMTT(30), <1>b, <1>t, <1>u DEF StoreGranted, Granted
  <1>10. QueuedIsStored'
    <2>1. \A i \in DOMAIN sessions' : \A seq \in sessions'[i].observed :
              \E e \in store : e.session = i /\ e.seq = seq
      <3>. SUFFICES ASSUME NEW i \in DOMAIN sessions', NEW seq \in sessions'[i].observed
                    PROVE  \E e \in store : e.session = i /\ e.seq = seq
        BY SMTT(30)
      <3>1. i # new /\ i \in DOMAIN sessions /\ sessions'[i] = sessions[i]
        BY ONLY SMTT(30), <1>6, i \in DOMAIN sessions', seq \in sessions'[i].observed
      <3>. QED  BY ONLY SMTT(30), <3>1, <1>b, seq \in sessions'[i].observed DEF QueuedIsStored
    <2>2. \A k \in DOMAIN queue : queue[k] \in 1 .. created /\ queue[k] # new
      BY ONLY SMTT(30), <1>0, <1>b DEF ManagerBasics
    <2>3. \A k \in DOMAIN queue' :
              queue'[k] \in DOMAIN sessions' => Complete(sessions'[queue'[k]])
      BY ONLY <1>6, <1>b, <1>u, <2>2 DEF QueuedIsStored
    <2>. QED  BY ONLY SMTT(30), <1>u, <2>1, <2>3 DEF QueuedIsStored, Complete, Missing
  <1>11. AddingCovered' /\ NotifyCovered'
    <2>1. adding # 0 => adding \in 1 .. created
      BY ONLY SMTT(30), <1>0, <1>b DEF ManagerBasics
    <2>2. AddingCovered'
      BY ONLY ZenonT(30), <2>1, <1>4, <1>b, <1>u DEF AddingCovered, Stored
    <2>3. NotifyCovered'
      BY ONLY <1>4, <1>b, <1>u, Zenon DEF ManagerBasics, NotifyCovered
    <2>. QED  BY ONLY <2>2, <2>3
  <1>12. AckCovered'
    <2>1. \A a \in toAgent' : a.type = "EndAck" /\ a.status = "Ok" =>
              /\ a = EndAck("Ok", a.session) /\ a.session \in 1 .. new
              /\ Covers(indexed, a.session, toAgent', toManager')
      <3>. SUFFICES ASSUME NEW a \in toAgent', a.type = "EndAck", a.status = "Ok"
                    PROVE  /\ a = EndAck("Ok", a.session) /\ a.session \in 1 .. new
                           /\ Covers(indexed, a.session, toAgent', toManager')
        OBVIOUS
      <3>1. a \in toAgent
        BY ONLY <1>t, a \in toAgent', a.type = "EndAck" DEF StartAck
      <3>2. /\ a = EndAck("Ok", a.session) /\ a.session \in 1 .. created
            /\ Covers(indexed, a.session, toAgent, toManager)
        BY ONLY SMTT(30), <3>1, <1>b, a.type = "EndAck", a.status = "Ok" DEF AckCovered
      <3>. QED  BY ONLY <3>2, <1>0, <1>4
    <2>. QED  BY ONLY SMTT(30), <2>1, <1>t, <1>u DEF AckCovered
  <1>. QED  BY ONLY SMTT(30), <1>1, <1>5, <1>7, <1>8, <1>9, <1>10, <1>11, <1>12 DEF IInv, ManagerInv, WireInv

\* An answer without a session changes nothing else.
LEMMA OfflineKeeps ==
    ASSUME IInv, UNCHANGED agentVars, NEW b,
           toAgent' = toAgent \cup {StartAck("Offline", 0, b)},
           UNCHANGED <<sessions, store, queue, created, adding, bulk, notify, indexed>>
    PROVE  IInv'
  <1>1. NoGrant
    BY RecordFacts DEF NoGrant
  <1>q. SameGrants /\ UNCHANGED toManager /\ toAgent \subseteq toAgent'
    BY <1>1, QuietStep
  <1>u. UNCHANGED <<sessions, store, queue, created, adding, bulk, notify, indexed>>
    OBVIOUS
  <1>b. ManagerBasics /\ SessionsGranted /\ StoreGranted
    BY ONLY IInv DEF IInv, ManagerInv
  <1>2. ManagerBasics' /\ SessionsGranted' /\ StoreGranted'
    <2>1. ManagerBasics'
      BY ONLY SMTT(30), <1>u, <1>b DEF ManagerBasics
    <2>2. SessionsGranted'
      BY ONLY SMTT(30), <1>u, <1>b, <1>q DEF SessionsGranted, Granted
    <2>3. StoreGranted'
      BY ONLY SMTT(30), <1>u, <1>b, <1>q DEF StoreGranted, Granted
    <2>. QED  BY ONLY SMTT(30), <2>1, <2>2, <2>3
  <1>3. QueuedIsStored'
    <2>1. QueuedIsStored
      BY ONLY IInv DEF IInv, ManagerInv
    <2>. QED  BY ONLY SMTT(30), <1>u, <2>1 DEF QueuedIsStored, Complete, Missing
  <1>4. NotifyCovered' /\ AddingCovered'
    BY ZenonT(30), <1>1, HandoverKept, QuietStep
       DEF IInv, ManagerInv, AddingCovered, Stored, CoversKept
  <1>5. AckCovered'
    <2>1. \A a \in toAgent' : a.type = "EndAck" /\ a.status = "Ok" => a \in toAgent
      BY SMTT(30), RecordFacts
    <2>. QED  BY SMTT(30), <2>1, <1>1, AckKept
  <1>. QED  BY SMTT(30), <1>1, <1>2, <1>3, <1>4, <1>5, QuietStep DEF IInv, ManagerInv

\* The handler of Start opens a session, refuses it or is offline (handleStart).
LEMMA StartKeeps ==
    ASSUME IInv, UNCHANGED agentVars, NEW m \in toManager, handleStart(m)
    PROVE  IInv'
  <1>1. UNCHANGED <<store, queue, adding, bulk, notify, indexed>> /\ m.type = "Start"
    BY DEF handleStart, connectorVars
  <1>2. CASE created' = created + 1 /\ m.size = 0
             /\ Answer(StartAck("Error", created', m.batch)) /\ UNCHANGED sessions
    BY <1>1, <1>2, NewSessionKeeps, Zenon DEF Answer
  <1>3. CASE created' = created + 1 /\ m.size # 0
             /\ Answer(StartAck("Ok", created', m.batch))
             /\ sessions' = Opened(created', m.size)
    BY SMTT(30), <1>1, <1>3, NewSessionKeeps DEF Answer
  <1>4. CASE Answer(StartAck("Offline", 0, m.batch)) /\ UNCHANGED <<sessions, created>>
    BY <1>1, <1>4, OfflineKeeps DEF Answer
  <1>. QED  BY SMTT(30), <1>2, <1>3, <1>4 DEF handleStart

-----------------------------------------------------------------------------
\* The invariant holds initially.
LEMMA Initially == Init => IInv
  <1>. SUFFICES ASSUME Init PROVE IInv
    BY SMTT(30)
  <1>. USE DEF Init, AgentInit, FacadeInit, ConnectorInit
  <1>1. AgentInv
    BY DEF AgentInv, AgentBasics, AgentGranted, InDataOrEnd, InEndLoop, reset
  <1>2. ManagerInv
    <2>0. /\ sessions = <<>> /\ store = {} /\ queue = <<>> /\ created = 0 /\ adding = 0
          /\ notify = {} /\ toAgent = {}
      OBVIOUS
    <2>1. DOMAIN sessions = {} /\ DOMAIN queue = {} /\ queue \in Seq(1 .. created)
      BY ONLY <2>0
    <2>2. ManagerBasics
      BY ONLY SMTT(30), <2>0, <2>1 DEF ManagerBasics
    <2>3. SessionsGranted /\ StoreGranted /\ QueuedIsStored
      BY ONLY <2>0, <2>1 DEF SessionsGranted, StoreGranted, QueuedIsStored
    <2>4. AddingCovered /\ NotifyCovered /\ AckCovered
      BY ONLY SMTT(30), <2>0 DEF AddingCovered, NotifyCovered, AckCovered
    <2>. QED  BY ONLY <2>2, <2>3, <2>4 DEF ManagerInv
  <1>3. WireInv /\ SuccessIsIndexed
    BY DEF WireInv, StartsAgree, GrantsAgree, DataGranted, SuccessIsIndexed
  <1>. QED  BY <1>1, <1>2, <1>3 DEF IInv

\* One step, whoever takes it.
LEMMA StepKeeps ==
    ASSUME LateStartAcks = FALSE, IInv, [Next]_vars
    PROVE  IInv'
  <1>1. CASE Agent
    BY <1>1, AgentKeeps
  <1>2. CASE Deliver
    BY ZenonT(30), <1>2, DeliverKeeps
  <1>3. CASE Manager
    <2>1. UNCHANGED agentVars
      BY <1>3 DEF Manager
    <2>2. CASE \E message \in toManager : run(message)
      BY SMTT(30), <2>1, <2>2, StartKeeps, DataKeeps, EndKeeps DEF run
    <2>3. CASE ManagerThreads
      BY SMTT(30), <2>1, <2>3, TimeoutKeeps, TakeKeeps, ItemKeeps, AddKeeps, AddFailsKeeps,
         BulkKeeps, SuccessKeeps DEF ManagerThreads
    <2>4. CASE ManagerRestart
      BY <2>1, <2>4, RestartKeeps
    <2>. QED  BY <1>3, <2>2, <2>3, <2>4 DEF Manager
  <1>4. CASE UNCHANGED vars
    <2>1. AgentFrame /\ UNCHANGED facadeVars /\ UNCHANGED syncState /\ UNCHANGED toAgent
      BY ONLY <1>4, ZenonT(30) DEF vars, agentVars, facadeVars, locals, AgentFrame
    <2>2. AgentInv'
      BY ZenonT(30), <2>1 DEF AgentFrame, IInv, AgentInv, AgentBasics, AgentGranted, Granted,
         InDataOrEnd, InEndLoop, reset
    <2>. QED  BY <2>1, <2>2, FrameKeeps
  <1>. QED  BY <1>1, <1>2, <1>3, <1>4 DEF Next

\* A synchronization that the agent takes for successful is indexed entirely,
\* and a queued session is stored entirely, for every size of the batches, number
\* of retries, synchronizations, sessions and queue slots, and every loss,
\* repetition and order of the messages, if a StartAck does not outlive its
\* synchronization (synchronizeModule, parseResponseBuffer, AgentSession,
\* InventorySyncFacade).
THEOREM SuccessfulIsIndexed ==
    ASSUME LateStartAcks = FALSE
    PROVE  Spec => [](SuccessIsIndexed /\ QueuedIsStored)
  <1>1. Init => IInv
    BY Initially
  <1>2. IInv /\ [Next]_vars => IInv'
    BY ZenonT(30), StepKeeps
  <1>3. IInv => SuccessIsIndexed /\ QueuedIsStored
    BY DEF IInv, ManagerInv
  <1>. QED  BY <1>1, <1>2, <1>3, PTL DEF Spec

-----------------------------------------------------------------------------
(* Type correctness *)

\* The messages carry what the handlers expect of them.
MessagesTyped ==
    \A m \in toManager :
        /\ m.type = "Start" => m.batch \in Nat /\ m.size \in 1 .. MaxSize
        /\ m.type = "Data" => m.batch \in Nat /\ m.seq \in Nat

AnswersTyped == \A a \in toAgent : Acceptable(a)

\* A session has the size of an agent's batch.
SessionsTyped ==
    /\ DOMAIN sessions \subseteq 1 .. created
    /\ \A id \in DOMAIN sessions :
          /\ sessions[id] \in Session
          /\ sessions[id].observed \subseteq 0 .. sessions[id].size - 1
          /\ sessions[id].size <= MaxSize

QueueTyped == queue \in Seq(1 .. created) /\ Len(queue) <= MaxQueued

StoreTyped == store \subseteq [session : 1 .. created, seq : Nat, batch : Nat]

ConnectorTyped ==
    /\ adding \in 0 .. created
    /\ notify \subseteq 1 .. created
    /\ bulk \subseteq Nat \X Nat
    /\ indexed \subseteq Nat \X Nat

FacadeInv ==
    /\ created \in 0 .. MaxSessions
    /\ SessionsTyped /\ QueueTyped /\ StoreTyped /\ ConnectorTyped /\ AnswersTyped

TypeInv == StateInv /\ FacadeInv /\ MessagesTyped

\* The answers that carry a session or ranges, and the others, are acceptable.
LEMMA AnswersAcceptable ==
    /\ \A id \in Sessions : \A b : Acceptable(StartAck("Ok", id, b))
    /\ \A st, id, b : st # "Ok" => Acceptable(StartAck(st, id, b))
    /\ \A st, id : Acceptable(EndAck(st, id))
    /\ \A id : \A r \in RangeLists : Acceptable(ReqRet(id, r))
  BY Zenon DEF Acceptable, StartAck, EndAck, ReqRet

\* Sessions may be dropped.
LEMMA EraseTyped ==
    ASSUME SessionsTyped, NEW ids, sessions' = erase(ids), UNCHANGED created
    PROVE  SessionsTyped'
  <1>1. /\ DOMAIN sessions' \subseteq DOMAIN sessions
        /\ \A i \in DOMAIN sessions' : sessions'[i] = sessions[i]
    BY ONLY sessions' = erase(ids) DEF erase
  <1>. QED  BY ONLY SMTT(30), <1>1, SessionsTyped, UNCHANGED created DEF SessionsTyped

\* What the connector is handed are operations.
LEMMA StoredTyped ==
    ASSUME StoreTyped, NEW id
    PROVE  Stored(id) \subseteq Nat \X Nat
  BY DEF StoreTyped, Stored

\* A queue that grows stays within its bound.
LEMMA PushTyped ==
    ASSUME QueueTyped, created \in Nat, UNCHANGED created, NEW id \in 1 .. created,
           NEW finished \in BOOLEAN, finished => Len(queue) < MaxQueued,
           queue' = IF finished THEN Append(queue, id) ELSE queue
    PROVE  QueueTyped'
  <1>1. CASE finished
    <2>1. Append(queue, id) \in Seq(1 .. created) /\ Len(Append(queue, id)) = Len(queue) + 1
          /\ Len(queue) \in Nat
      BY DEF QueueTyped
    <2>. QED  BY <1>1, <2>1, FacadeAssumption DEF QueueTyped
  <1>2. CASE ~finished
    BY <1>2 DEF QueueTyped
  <1>. QED  BY <1>1, <1>2

\* The handler of Start.
LEMMA StartTyped ==
    ASSUME FacadeInv, NEW m, m.size \in 1 .. MaxSize, handleStart(m)
    PROVE  FacadeInv'
  <1>u. UNCHANGED <<store, queue, adding, bulk, notify, indexed>>
    BY DEF handleStart, connectorVars
  <1>c. created \in Nat /\ MaxSessions \in Nat /\ MaxSize \in Nat
    BY FacadeAssumption, AgentAssumption DEF FacadeInv
  <1>1. CASE UNCHANGED <<sessions, created>> /\ Answer(StartAck("Offline", 0, m.batch))
    <2>1. AnswersTyped'
      BY <1>1, AnswersAcceptable DEF FacadeInv, AnswersTyped, Answer
    <2>. QED  BY <1>u, <1>1, <2>1, Zenon DEF FacadeInv, SessionsTyped, QueueTyped,
                 StoreTyped,
                 ConnectorTyped
  <1>2. CASE /\ created < MaxSessions /\ created' = created + 1
             /\ Answer(StartAck("Ok", created', m.batch))
             /\ sessions' = Opened(created', m.size)
    <2>1. created' \in 0 .. MaxSessions /\ created' \in Sessions
      BY SMTT(30), <1>2, <1>c, SyncAssumption
    <2>2. AnswersTyped'
      BY SMTT(30), <1>2, <2>1, AnswersAcceptable DEF FacadeInv, AnswersTyped, Answer
    <2>3. /\ 1 .. created \subseteq 1 .. created' /\ 0 .. created \subseteq 0 .. created'
          /\ created' \in 1 .. created'
      BY ONLY <1>2, <1>c
    <2>4. QueueTyped' /\ StoreTyped' /\ ConnectorTyped'
      <3>1. QueueTyped'
        BY ONLY SMTT(30), <1>u, <1>c, <2>3, FacadeInv DEF FacadeInv, QueueTyped
      <3>2. StoreTyped' /\ ConnectorTyped'
        BY ONLY SMTT(30), <1>u, <2>3, FacadeInv DEF FacadeInv, StoreTyped, ConnectorTyped
      <3>. QED  BY <3>1, <3>2
    <2>5. SessionsTyped'
      <3>1. /\ DOMAIN sessions' = DOMAIN sessions \cup {created'}
            /\ \A i \in DOMAIN sessions' :
                  sessions'[i] = IF i = created'
                                 THEN [size |-> m.size, observed |-> {},
                                       endReceived |-> FALSE, endEnqueued |-> FALSE]
                                 ELSE sessions[i]
        BY ONLY <1>2 DEF Opened
      <3>2. SessionsTyped
        BY SMTT(30) DEF FacadeInv
      <3>3. DOMAIN sessions' \subseteq 1 .. created'
        BY ONLY SMTT(30), <3>1, <3>2, <2>3 DEF SessionsTyped
      <3>4. ASSUME NEW i \in DOMAIN sessions'
            PROVE  /\ sessions'[i] \in Session
                   /\ sessions'[i].observed \subseteq 0 .. sessions'[i].size - 1
                   /\ sessions'[i].size <= MaxSize
        <4>1. CASE i = created'
          <5>1. sessions'[i] = [size |-> m.size, observed |-> {},
                                endReceived |-> FALSE, endEnqueued |-> FALSE]
            BY ONLY <4>1, <3>1, <3>4, ZenonT(30)
          <5>. QED  BY ONLY <5>1, <1>c, m.size \in 1 .. MaxSize DEF Session
        <4>2. CASE i # created'
          BY ONLY <4>2, <3>1, <3>2, <3>4 DEF SessionsTyped
        <4>. QED  BY ONLY SMTT(30), <4>1, <4>2
      <3>. QED  BY ONLY SMTT(30), <3>3, <3>4 DEF SessionsTyped
    <2>. QED  BY SMTT(30), <2>1, <2>2, <2>4, <2>5 DEF FacadeInv
  <1>. QED
    <2>1. m.size # 0
      BY SMTT(30), <1>c
    <2>. QED  BY <1>1, <1>2, <2>1 DEF handleStart

\* The handler of Data: observe takes only numbers within the size.
LEMMA DataTyped ==
    ASSUME FacadeInv, NEW m, m.batch \in Nat, m.seq \in Nat, handleData(m)
    PROVE  FacadeInv'
  <1>. DEFINE id == m.session
              s == sessions[id]
              after == [s EXCEPT !.observed = @ \cup {m.seq}]
              finished == m.seq < s.size /\ s.endReceived /\ Complete(after)
  <1>1. /\ id \in DOMAIN sessions
        /\ store' = put(id, m.seq, m.batch)
        /\ finished => Len(queue) < MaxQueued
        /\ queue' = IF finished THEN Append(queue, id) ELSE queue
        /\ sessions' = IF m.seq < s.size
                       THEN [sessions EXCEPT ![id] =
                               [after EXCEPT !.endEnqueued = @ \/ finished]]
                       ELSE sessions
        /\ UNCHANGED <<toAgent, created, adding, bulk, notify, indexed>>
    BY DEF handleData, connectorVars
  <1>2. /\ id \in 1 .. created /\ created \in Nat /\ s \in Session
        /\ s.observed \subseteq 0 .. s.size - 1 /\ s.size <= MaxSize
        /\ s.endReceived \in BOOLEAN /\ s.size \in Nat
    BY <1>1 DEF FacadeInv, SessionsTyped, Session
  <1>3. finished \in BOOLEAN
    OBVIOUS
  <1>. HIDE DEF finished
  <1>4. QueueTyped'
    BY <1>1, <1>2, <1>3, PushTyped DEF FacadeInv
  <1>5. StoreTyped'
    BY <1>1, <1>2 DEF FacadeInv, StoreTyped, put
  <1>6. SessionsTyped'
    <2>1. CASE m.seq < s.size
      <3>1. sessions' = [sessions EXCEPT ![id] =
                           [s EXCEPT !.observed = s.observed \cup {m.seq},
                                     !.endEnqueued = s.endEnqueued \/ finished]]
        BY <1>1, <1>2, <2>1 DEF Session
      <3>2. s.observed \cup {m.seq} \subseteq 0 .. s.size - 1
        <4>. HIDE DEF s
        <4>1. m.seq \in 0 .. s.size - 1 /\ s.observed \subseteq 0 .. s.size - 1
          BY ONLY <1>2, <2>1, m.seq \in Nat
        <4>. QED  BY ONLY <4>1
      <3>3. [s EXCEPT !.observed = s.observed \cup {m.seq},
                      !.endEnqueued = s.endEnqueued \/ finished] \in Session
        BY ONLY <1>2, <1>3, m.seq \in Nat, Zenon DEF Session
      <3>. HIDE DEF s
      <3>. DEFINE e == [s EXCEPT !.observed = s.observed \cup {m.seq},
                                 !.endEnqueued = s.endEnqueued \/ finished]
      <3>4. e.size = s.size /\ e.observed = s.observed \cup {m.seq}
        BY ONLY <1>2 DEF Session
      <3>. HIDE DEF e
      <3>5. /\ DOMAIN sessions' = DOMAIN sessions
            /\ \A i \in DOMAIN sessions : sessions'[i] = IF i = id THEN e ELSE sessions[i]
        BY ONLY <3>1 DEF e
      <3>6. e \in Session /\ e.observed \subseteq 0 .. e.size - 1 /\ e.size <= MaxSize
        BY ONLY <1>2, <3>2, <3>3, <3>4 DEF e
      <3>. QED  BY <1>1, <3>5, <3>6, Zenon DEF FacadeInv, SessionsTyped
    <2>2. CASE ~(m.seq < s.size)
      BY <1>1, <2>2 DEF FacadeInv, SessionsTyped
    <2>. QED  BY <2>1, <2>2
  <1>7. ConnectorTyped' /\ AnswersTyped'
    BY <1>1 DEF FacadeInv, ConnectorTyped, AnswersTyped
  <1>. QED  BY <1>1, <1>4, <1>5, <1>6, <1>7 DEF FacadeInv

\* The handler of End: the ranges that it asks for are those of a session.
LEMMA EndTyped ==
    ASSUME FacadeInv, NEW m, handleEnd(m)
    PROVE  FacadeInv'
  <1>. DEFINE id == m.session
              s == sessions[id]
              finished == ~s.endEnqueued /\ Complete(s)
  <1>1. /\ id \in DOMAIN sessions
        /\ finished => Len(queue) < MaxQueued
        /\ queue' = IF finished THEN Append(queue, id) ELSE queue
        /\ sessions' = [sessions EXCEPT ![id].endReceived = TRUE,
                                        ![id].endEnqueued = @ \/ finished]
        /\ UNCHANGED toAgent \/ toAgent' = toAgent \cup {ReqRet(id, ranges(s))}
        /\ UNCHANGED <<store, created, adding, bulk, notify, indexed>>
    BY DEF handleEnd, connectorVars, Answer
  <1>2. /\ id \in 1 .. created /\ created \in Nat /\ s \in Session
        /\ s.observed \subseteq 0 .. s.size - 1 /\ s.size <= MaxSize /\ s.size \in Nat \ {0}
    BY <1>1 DEF FacadeInv, SessionsTyped, Session
  <1>3. finished \in BOOLEAN
    OBVIOUS
  <1>. HIDE DEF finished
  <1>4. QueueTyped'
    BY SMTT(30), <1>1, <1>2, <1>3, PushTyped DEF FacadeInv
  <1>5. SessionsTyped'
    <2>. DEFINE e == [s EXCEPT !.endReceived = TRUE,
                               !.endEnqueued = s.endEnqueued \/ finished]
    <2>1. e \in Session /\ e.size = s.size /\ e.observed = s.observed
      BY ONLY <1>2, <1>3, Zenon DEF Session
    <2>2. sessions' = [sessions EXCEPT ![id] = e]
      BY <1>1, <1>2, Zenon DEF Session
    <2>. HIDE DEF e
    <2>3. /\ DOMAIN sessions' = DOMAIN sessions
          /\ \A i \in DOMAIN sessions : sessions'[i] = IF i = id THEN e ELSE sessions[i]
      BY ONLY SMTT(30), <2>2
    <2>. QED  BY <1>1, <1>2, <2>1, <2>3 DEF FacadeInv, SessionsTyped
  <1>6. ranges(s) \in RangeLists
    <2>1. s \in BatchSession
      BY ONLY <1>2, AgentAssumption DEF Session, BatchSession
    <2>. QED  BY SMTT(30), <2>1, SyncAssumption
  <1>7. AnswersTyped'
    BY <1>1, <1>6, AnswersAcceptable DEF FacadeInv, AnswersTyped
  <1>8. StoreTyped' /\ ConnectorTyped'
    BY <1>1 DEF FacadeInv, StoreTyped, ConnectorTyped
  <1>. QED  BY <1>1, <1>4, <1>5, <1>7, <1>8 DEF FacadeInv

\* The other threads of the manager, and its restart.
LEMMA ThreadsTyped ==
    ASSUME FacadeInv, ManagerThreads \/ ManagerRestart
    PROVE  FacadeInv'
  <1>c. /\ created \in Nat /\ SessionsTyped /\ QueueTyped /\ StoreTyped /\ ConnectorTyped
        /\ AnswersTyped /\ created \in 0 .. MaxSessions
    BY FacadeAssumption DEF FacadeInv
  <1>1. CASE sessionTimeout
    <2>1. SessionsTyped'
      BY <1>1, <1>c, EraseTyped DEF sessionTimeout
    <2>2. UNCHANGED <<store, queue, created, adding, bulk, notify, indexed, toAgent>>
      BY SMTT(30), <1>1 DEF sessionTimeout, connectorVars
    <2>. QED  BY ONLY <1>c, <2>1, <2>2 DEF FacadeInv, QueueTyped, StoreTyped,
                 ConnectorTyped, AnswersTyped
  <1>2. CASE takeSession
    <2>1. /\ UNCHANGED <<sessions, store, created, bulk, notify, indexed, toAgent>>
          /\ queue # <<>> /\ queue' = Tail(queue)
          /\ adding' = IF Head(queue) \in DOMAIN sessions THEN Head(queue) ELSE 0
      BY <1>2 DEF takeSession, Take
    <2>2. QueueTyped'
      <3>1. Tail(queue) \in Seq(1 .. created) /\ Len(Tail(queue)) = Len(queue) - 1
            /\ Len(queue) \in Nat
        BY ONLY SMTT(30), <2>1, <1>c DEF QueueTyped
      <3>. QED  BY ONLY <2>1, <3>1, <1>c, FacadeAssumption DEF QueueTyped
    <2>3. adding' \in 0 .. created
      BY ONLY SMTT(30), <2>1, <1>c DEF SessionsTyped
    <2>. QED  BY ONLY SMTT(30), <1>c, <2>1, <2>2, <2>3 DEF FacadeInv, SessionsTyped, StoreTyped,
                 ConnectorTyped, AnswersTyped
  <1>3. CASE addItem \/ addSession \/ processBulk
    <2>1. UNCHANGED <<sessions, store, queue, created, toAgent>>
      BY ONLY <1>3 DEF addItem, addSession, processBulk, sessionVars
    <2>2. Stored(adding) \subseteq Nat \X Nat
      BY <1>c, StoredTyped
    <2>3. addItem => ConnectorTyped'
      BY ONLY SMTT(30), <1>c, <2>1, <2>2 DEF addItem, AddItem, ConnectorTyped
    <2>4. addSession => ConnectorTyped'
      <3>1. /\ adding # 0 => adding \in 1 .. created
            /\ 0 \in 0 .. created
        BY ONLY <1>c DEF ConnectorTyped
      <3>. QED  BY ONLY <1>c, <2>1, <3>1 DEF addSession, Register, ConnectorTyped
    <2>5. processBulk => ConnectorTyped'
      BY ONLY <1>c, <2>1 DEF processBulk, Request, Execute, ConnectorTyped
    <2>6. ConnectorTyped'
      BY SMTT(30), <1>3, <2>3, <2>4, <2>5
    <2>. QED  BY ONLY SMTT(30), <1>c, <2>1, <2>6 DEF FacadeInv, SessionsTyped, QueueTyped,
                 StoreTyped, AnswersTyped
  <1>4. CASE addSessionFails
    <2>1. PICK part \in SUBSET bulk : Execute(part)
      BY <1>4 DEF addSessionFails, GiveUp
    <2>2. /\ UNCHANGED <<queue, created, notify>> /\ adding' = 0
          /\ toAgent' = toAgent \cup {EndAck("Error", adding)}
          /\ store' = deleteByPrefix({adding}) /\ sessions' = erase({adding})
      BY <1>4 DEF addSessionFails, GiveUp, Answer
    <2>3. SessionsTyped'
      BY SMTT(30), <1>c, <2>2, EraseTyped
    <2>4. ConnectorTyped' /\ StoreTyped'
      BY ONLY SMTT(30), <1>c, <2>1, <2>2 DEF Execute, ConnectorTyped, StoreTyped, deleteByPrefix
    <2>5. AnswersTyped'
      BY ONLY SMTT(30), <1>c, <2>2, AnswersAcceptable DEF AnswersTyped
    <2>. QED  BY ONLY <1>c, <2>2, <2>3, <2>4, <2>5 DEF FacadeInv, QueueTyped
  <1>6. CASE onSuccess
    <2>1. PICK ids \in SUBSET notify :
            /\ Acknowledge(ids)
            /\ toAgent' = toAgent \cup {EndAck("Ok", id) : id \in ids}
            /\ store' = deleteByPrefix(ids) /\ sessions' = erase(ids)
      BY <1>6 DEF onSuccess
    <2>2. UNCHANGED <<queue, created>>
      BY <1>6 DEF onSuccess
    <2>3. SessionsTyped'
      BY SMTT(30), <1>c, <2>1, <2>2, EraseTyped
    <2>4. ConnectorTyped' /\ StoreTyped'
      BY ONLY SMTT(30), <1>c, <2>1, <2>2 DEF Acknowledge, Execute, ConnectorTyped, StoreTyped,
         deleteByPrefix
    <2>5. AnswersTyped'
      <3>1. \A a \in toAgent' : a \in toAgent \/ \E id \in ids : a = EndAck("Ok", id)
        BY ONLY <2>1
      <3>. QED  BY ONLY <1>c, <3>1, AnswersAcceptable DEF AnswersTyped
    <2>. QED  BY ONLY SMTT(30), <1>c, <2>2, <2>3, <2>4, <2>5 DEF FacadeInv, QueueTyped
  <1>7. CASE ManagerRestart
    <2>1. /\ sessions' = <<>> /\ store' = {} /\ queue' = <<>> /\ adding' = 0
          /\ bulk' = {} /\ notify' = {} /\ UNCHANGED <<indexed, created, toAgent>>
      BY <1>7 DEF ManagerRestart
    <2>2. DOMAIN sessions' = {} /\ queue' \in Seq(1 .. created) /\ Len(queue') = 0
      BY ONLY SMTT(30), <2>1
    <2>3. SessionsTyped' /\ StoreTyped' /\ AnswersTyped'
      BY ONLY SMTT(30), <1>c, <2>1, <2>2 DEF SessionsTyped, StoreTyped, AnswersTyped
    <2>4. QueueTyped'
      BY ONLY SMTT(30), <2>1, <2>2, FacadeAssumption DEF QueueTyped
    <2>5. ConnectorTyped'
      BY ONLY <1>c, <2>1 DEF ConnectorTyped
    <2>. QED  BY ONLY SMTT(30), <1>c, <2>1, <2>3, <2>4, <2>5 DEF FacadeInv
  <1>. QED  BY SMTT(30), <1>1, <1>2, <1>3, <1>4, <1>6, <1>7 DEF ManagerThreads

\* One step keeps the types, whoever takes it and however late a StartAck is.
LEMMA TypesKept ==
    ASSUME TypeInv, [Next]_vars
    PROVE  TypeInv'
  <1>0. StateInv /\ FacadeInv /\ MessagesTyped
    BY DEF TypeInv
  <1>1. CASE Agent
    <2>1. (synchronizeModule \/ SyncThread \/ Restart) /\ UNCHANGED facadeVars
      BY <1>1 DEF Agent
    <2>2. StateInv'
      BY SMTT(30), <1>0, <2>1, ThreadKeeps
    <2>3. MessagesTyped'
      <3>1. /\ batch \in Nat /\ size \in Nat /\ MaxSize \in Nat
            /\ pc = "sendStart" => size \in 1 .. MaxSize
        BY <1>0, AgentAssumption DEF StateInv, AgentTypeOK, CallShape
      <3>3. CASE UNCHANGED toManager
        BY ONLY <1>0, <3>3 DEF MessagesTyped
      <3>4. CASE pc = "sendStart" /\ Send(StartMessage)
        <4>1. toManager' = toManager \cup {StartMessage}
          BY ONLY SMTT(30), <3>4 DEF Send
        <4>2. /\ StartMessage.type = "Start" /\ StartMessage.batch \in Nat
              /\ StartMessage.size \in 1 .. MaxSize
          BY ONLY SMTT(30), <3>1, <3>4 DEF StartMessage
        <4>. QED  BY ONLY <1>0, <4>1, <4>2 DEF MessagesTyped
      <3>5. CASE InDataOrEnd /\ \E seq \in 0 .. size - 1 : Send(DataMessage(seq))
        <4>1. PICK seq \in 0 .. size - 1 : toManager' = toManager \cup {DataMessage(seq)}
          BY ONLY SMTT(30), <3>5 DEF Send
        <4>2. /\ DataMessage(seq).type = "Data" /\ DataMessage(seq).batch \in Nat
              /\ DataMessage(seq).seq \in Nat
          BY ONLY <3>1, <4>1, SentFacts
        <4>. QED  BY ONLY <1>0, <4>1, <4>2 DEF MessagesTyped
      <3>6. CASE InDataOrEnd /\ Send(EndMessage)
        <4>1. toManager' = toManager \cup {EndMessage} /\ EndMessage.type = "End"
          BY ONLY <3>6 DEF Send, EndMessage
        <4>. QED  BY ONLY SMTT(30), <1>0, <4>1 DEF MessagesTyped
      <3>7. Begins \/ Ends \/ GoesOn
        BY SMTT(30), <1>0, <2>1, ThreadShape
      <3>. QED  BY ONLY SMTT(30), <3>3, <3>4, <3>5, <3>6, <3>7 DEF Begins, Ends, GoesOn
    <2>4. FacadeInv'
      BY ONLY <1>0, <2>1 DEF facadeVars, sessionVars, connectorVars, FacadeInv,
         SessionsTyped, QueueTyped, StoreTyped, ConnectorTyped, AnswersTyped
    <2>. QED  BY <2>2, <2>3, <2>4 DEF TypeInv
  <1>2. CASE Deliver
    <2>1. PICK m \in toAgent : parseResponseBuffer(m)
      BY <1>2 DEF Deliver
    <2>2. UNCHANGED facadeVars /\ UNCHANGED toManager
      BY <1>2 DEF Deliver, parseResponseBuffer
    <2>3. Acceptable(m)
      BY <1>0 DEF FacadeInv, AnswersTyped
    <2>4. StateInv'
      BY SMTT(30), <1>0, <2>1, <2>3, MessageKeeps
    <2>5. MessagesTyped' /\ FacadeInv'
      BY ONLY <1>0, <2>2 DEF MessagesTyped, facadeVars, sessionVars, connectorVars,
         FacadeInv, SessionsTyped, QueueTyped, StoreTyped, ConnectorTyped, AnswersTyped
    <2>. QED  BY <2>4, <2>5 DEF TypeInv
  <1>3. CASE Manager
    <2>1. UNCHANGED agentVars
      BY SMTT(30), <1>3 DEF Manager
    <2>2. StateInv' /\ MessagesTyped'
      BY ONLY SMTT(30), <1>0, <2>1 DEF agentVars, locals, StateInv, AgentTypeOK, CallShape,
         FlagsAreFresh, InDataOrEnd, InEndLoop, MessagesTyped
    <2>3. CASE \E message \in toManager : run(message)
      <3>1. PICK m \in toManager : run(m)
        BY <2>3
      <3>2. handleStart(m) => FacadeInv'
        <4>. SUFFICES ASSUME handleStart(m) PROVE FacadeInv'
          OBVIOUS
        <4>1. m.type = "Start"
          BY ONLY handleStart(m) DEF handleStart
        <4>2. m.size \in 1 .. MaxSize
          BY ONLY <1>0, <3>1, <4>1 DEF MessagesTyped
        <4>. QED  BY <1>0, <4>2, StartTyped
      <3>3. handleData(m) => FacadeInv'
        <4>. SUFFICES ASSUME handleData(m) PROVE FacadeInv'
          OBVIOUS
        <4>1. m.type = "Data"
          BY ONLY handleData(m) DEF handleData
        <4>2. m.batch \in Nat /\ m.seq \in Nat
          BY ONLY <1>0, <3>1, <4>1 DEF MessagesTyped
        <4>. QED  BY <1>0, <4>2, DataTyped
      <3>4. handleEnd(m) => FacadeInv'
        BY <1>0, EndTyped
      <3>. QED  BY SMTT(30), <2>2, <3>1, <3>2, <3>3, <3>4 DEF run, TypeInv
    <2>4. CASE ManagerThreads \/ ManagerRestart
      BY <1>0, <2>2, <2>4, ThreadsTyped DEF TypeInv
    <2>. QED  BY <1>3, <2>3, <2>4 DEF Manager
  <1>4. CASE UNCHANGED vars
    <2>1. UNCHANGED agentVars /\ UNCHANGED facadeVars
      BY ONLY <1>4, ZenonT(30) DEF vars
    <2>2. StateInv' /\ MessagesTyped'
      BY ONLY ZenonT(30), <1>0, <2>1 DEF agentVars, locals, StateInv, AgentTypeOK, CallShape,
         FlagsAreFresh, InDataOrEnd, InEndLoop, MessagesTyped
    <2>3. FacadeInv'
      BY ONLY <1>0, <2>1, Zenon DEF facadeVars, sessionVars, connectorVars, FacadeInv,
         SessionsTyped, QueueTyped, StoreTyped, ConnectorTyped, AnswersTyped
    <2>. QED  BY <2>2, <2>3 DEF TypeInv
  <1>. QED  BY <1>1, <1>2, <1>3, <1>4 DEF Next

\* Nothing is sent, kept or open at first.
LEMMA TypesInitially ==
    ASSUME Init
    PROVE  TypeInv
  <1>1. StateInv
    <2>1. reset \in SyncState
      BY DEF reset, SyncState
    <2>2. AgentInit
      BY DEF Init
    <2>3. AgentTypeOK
      BY ONLY <2>1, <2>2, AgentAssumption DEF AgentInit, AgentTypeOK
    <2>4. CallShape
      BY ONLY SMTT(30), <2>2 DEF AgentInit, CallShape, InDataOrEnd, InEndLoop
    <2>5. FlagsAreFresh
      BY ONLY <2>2 DEF AgentInit, FlagsAreFresh, reset, InDataOrEnd, InEndLoop
    <2>. QED  BY ONLY SMTT(30), <2>3, <2>4, <2>5 DEF StateInv
  <1>2. /\ sessions = <<>> /\ store = {} /\ queue = <<>> /\ created = 0 /\ adding = 0
        /\ bulk = {} /\ notify = {} /\ indexed = {} /\ toAgent = {} /\ toManager = {}
    BY DEF Init, AgentInit, FacadeInit, ConnectorInit
  <1>3. DOMAIN sessions = {} /\ queue \in Seq(1 .. created) /\ Len(queue) = 0
    BY ONLY <1>2
  <1>4. FacadeInv /\ MessagesTyped
    <2>1. SessionsTyped /\ StoreTyped /\ AnswersTyped /\ MessagesTyped
      BY ONLY SMTT(30), <1>2, <1>3 DEF SessionsTyped, StoreTyped, AnswersTyped, MessagesTyped
    <2>2. QueueTyped
      BY ONLY <1>2, <1>3, FacadeAssumption DEF QueueTyped
    <2>3. ConnectorTyped /\ created \in 0 .. MaxSessions
      BY ONLY <1>2, FacadeAssumption DEF ConnectorTyped
    <2>. QED  BY ONLY SMTT(30), <2>1, <2>2, <2>3 DEF FacadeInv
  <1>. QED  BY <1>1, <1>4 DEF TypeInv

\* Every variable of the agent and of the manager stays in its type, late answers
\* included: in particular the session the agent uses is one that was handed out,
\* observe is given only sequence numbers of its session, and a ReqRet reaches the
\* agent with ranges that a session can ask for (AgentSession, handleEnd,
\* parseResponseBuffer).
THEOREM SyncTypeCorrect == Spec => []TypeOK
  <1>1. Init => TypeInv
    BY TypesInitially
  <1>2. TypeInv /\ [Next]_vars => TypeInv'
    BY SMTT(30), TypesKept
  <1>3. TypeInv => TypeOK
    BY DEF TypeInv, StateInv, FacadeInv, SessionsTyped, QueueTyped, StoreTyped,
       ConnectorTyped, TypeOK, FacadeTypeOK
  <1>. QED  BY <1>1, <1>2, <1>3, PTL DEF Spec

-----------------------------------------------------------------------------
(* The contract of a synchronization *)

\* The item seq is one of those that batch b announced.
IsAnnounced(b, seq) == \E n \in Nat : Start(b, n) \in toManager /\ seq \in 0 .. n - 1

\* Data are sent, kept, handed over and indexed only under the numbers of items
\* that their batch announced.
AppliedInv ==
    /\ \A m \in toManager : m.type = "Data" => IsAnnounced(m.batch, m.seq)
    /\ \A e \in store : IsAnnounced(e.batch, e.seq)
    /\ \A x \in bulk \cup indexed : IsAnnounced(x[1], x[2])

\* Once the agent has a session, it has announced its batch.
LEMMA CurrentIsAnnounced ==
    ASSUME IInv, InDataOrEnd
    PROVE  Start(batch, size) \in toManager /\ batch \in Nat /\ size \in Nat
  <1>1. Granted(session, batch) /\ batch \in Nat /\ size \in Nat
    BY SMTT(30) DEF IInv, AgentInv, AgentBasics, AgentGranted
  <1>2. PICK n \in Nat : Start(batch, n) \in toManager
    <2>1. GrantsAgree
      BY DEF IInv, WireInv
    <2>2. StartAck("Ok", session, batch) \in toAgent
      BY ONLY <1>1 DEF Granted
    <2>. QED  BY ONLY <2>1, <2>2, RecordFacts DEF GrantsAgree
  <1>3. pc # "idle"
    BY SMTT(30) DEF InDataOrEnd, InEndLoop
  <1>4. n = size
    <2>1. StartsAgree
      BY SMTT(30) DEF IInv, WireInv
    <2>. QED  BY ONLY <1>2, <1>3, <2>1, RecordFacts DEF StartsAgree
  <1>. QED  BY SMTT(30), <1>1, <1>2, <1>4

\* The agent sends only items of its batch.
LEMMA AgentAnnounces ==
    ASSUME IInv, TypeInv, AppliedInv, Agent
    PROVE  AppliedInv'
  <1>1. (synchronizeModule \/ SyncThread \/ Restart) /\ UNCHANGED facadeVars
    BY DEF Agent
  <1>2. UNCHANGED <<store, bulk, indexed>>
    BY ONLY <1>1 DEF facadeVars, sessionVars, connectorVars
  <1>3. Begins \/ Ends \/ GoesOn
    BY SMTT(30), <1>1, ThreadShape DEF TypeInv
  <1>4. toManager \subseteq toManager'
    BY ONLY <1>3 DEF Begins, Ends, GoesOn, Send
  <1>5. \A b, seq : IsAnnounced(b, seq) => IsAnnounced(b, seq)'
    BY ONLY <1>4, Zenon DEF IsAnnounced
  <1>6. \A m \in toManager' : m.type = "Data" =>
            m \in toManager \/ (m.batch = batch /\ m.seq \in 0 .. size - 1 /\ InDataOrEnd)
    <2>1. CASE UNCHANGED toManager \/ Send(StartMessage) \/ Send(EndMessage)
      <3>1. \A m \in toManager' : m \in toManager \/ m = StartMessage \/ m = EndMessage
        BY ONLY <2>1, Zenon DEF Send
      <3>. QED  BY ONLY <3>1, SentFacts
    <2>2. CASE InDataOrEnd /\ \E seq \in 0 .. size - 1 : Send(DataMessage(seq))
      <3>1. PICK seq \in 0 .. size - 1 : toManager' = toManager \cup {DataMessage(seq)}
        BY ONLY <2>2 DEF Send
      <3>2. DataMessage(seq).batch = batch /\ DataMessage(seq).seq = seq
        BY ONLY DEF DataMessage
      <3>. QED  BY ONLY SMTT(30), <2>2, <3>1, <3>2
    <2>. QED  BY ONLY SMTT(30), <1>3, <2>1, <2>2 DEF Begins, Ends, GoesOn
  <1>7. ASSUME NEW m \in toManager', m.type = "Data"
        PROVE  IsAnnounced(m.batch, m.seq)'
    <2>1. CASE m \in toManager
      BY SMTT(30), <1>5, <1>7, <2>1 DEF AppliedInv
    <2>2. CASE m.batch = batch /\ m.seq \in 0 .. size - 1 /\ InDataOrEnd
      <3>1. Start(batch, size) \in toManager /\ size \in Nat
        BY <2>2, CurrentIsAnnounced
      <3>2. IsAnnounced(m.batch, m.seq)
        BY ONLY <2>2, <3>1 DEF IsAnnounced
      <3>. QED  BY ONLY <1>5, <3>2
    <2>. QED  BY SMTT(30), <1>6, <1>7, <2>1, <2>2
  <1>8. AppliedInv
    OBVIOUS
  <1>. QED  BY ONLY <1>2, <1>5, <1>7, <1>8 DEF AppliedInv

\* The manager keeps and hands over what it was sent.
LEMMA ManagerAnnounces ==
    ASSUME AppliedInv, Manager
    PROVE  AppliedInv'
  <1>0. AppliedInv
    OBVIOUS
  <1>1. UNCHANGED toManager
    BY DEF Manager, agentVars
  <1>2. \A b, seq : IsAnnounced(b, seq)' <=> IsAnnounced(b, seq)
    BY ONLY SMTT(30), <1>1 DEF IsAnnounced
  <1>3. CASE \E message \in toManager : handleData(message)
    <2>1. PICK m \in toManager : handleData(m)
      BY <1>3
    <2>2. /\ m.type = "Data" /\ UNCHANGED <<bulk, indexed>>
          /\ store' = put(m.session, m.seq, m.batch)
      BY ONLY SMTT(30), <2>1 DEF handleData, connectorVars
    <2>3. IsAnnounced(m.batch, m.seq)
      BY ONLY SMTT(30), <1>0, <2>1, <2>2 DEF AppliedInv
    <2>4. ASSUME NEW e \in store' PROVE IsAnnounced(e.batch, e.seq)
      <3>1. \/ e \in store
            \/ e = [session |-> m.session, seq |-> m.seq, batch |-> m.batch]
        BY ONLY SMTT(30), <2>2, <2>4 DEF put
      <3>2. e \in store \/ (e.batch = m.batch /\ e.seq = m.seq)
        BY ONLY SMTT(30), <3>1
      <3>3. e \in store => IsAnnounced(e.batch, e.seq)
        BY ONLY SMTT(30), <1>0 DEF AppliedInv
      <3>. QED  BY ONLY SMTT(30), <2>3, <3>2, <3>3
    <2>. QED  BY ONLY SMTT(30), <1>0, <1>1, <1>2, <2>2, <2>4 DEF AppliedInv
  <1>4. CASE addItem
    <2>1. \A x \in Stored(adding) : IsAnnounced(x[1], x[2])
      BY ONLY <1>0 DEF AppliedInv, Stored
    <2>2. UNCHANGED <<store, indexed>> /\ bulk' \subseteq bulk \cup Stored(adding)
      BY ONLY SMTT(30), <1>4 DEF addItem, AddItem, sessionVars
    <2>. QED  BY ONLY SMTT(30), <1>0, <1>1, <1>2, <2>1, <2>2 DEF AppliedInv
  <1>5. CASE addSession \/ addSessionFails \/ processBulk \/ onSuccess \/ ManagerRestart
    <2>1. store' \subseteq store
      BY ONLY ZenonT(30), <1>5 DEF addSession, addSessionFails, processBulk, onSuccess, ManagerRestart,
         sessionVars, deleteByPrefix
    <2>2. bulk' \cup indexed' \subseteq bulk \cup indexed
      BY ONLY <1>5 DEF addSession, Register, addSessionFails, GiveUp, processBulk, Request,
         onSuccess, Acknowledge, Execute, ManagerRestart
    <2>. QED  BY ONLY SMTT(30), <1>0, <1>1, <1>2, <2>1, <2>2 DEF AppliedInv
  <1>6. CASE \/ \E message \in toManager : handleStart(message) \/ handleEnd(message)
             \/ sessionTimeout \/ takeSession
    <2>1. UNCHANGED <<store, bulk, indexed>>
      BY ONLY <1>6, Zenon DEF handleStart, handleEnd, sessionTimeout, takeSession, Take,
         connectorVars
    <2>. QED  BY ONLY <1>0, <1>1, <1>2, <2>1, Zenon DEF AppliedInv
  <1>. QED  BY <1>3, <1>4, <1>5, <1>6 DEF Manager, run, ManagerThreads

\* The size of the open call.
Open == IF pc = "idle" THEN 0 ELSE size

\* A step of the agent's thread begins, announces or ends a call.
LEMMA AgentSynchronizes ==
    ASSUME LateStartAcks = FALSE, IInv, TypeInv, Agent
    PROVE  [Contract!Next]_(Contract!vars)
  <1>1. (synchronizeModule \/ SyncThread \/ Restart) /\ UNCHANGED indexed
    BY DEF Agent, facadeVars, connectorVars
  <1>2. Begins \/ Ends \/ GoesOn
    BY <1>1, ThreadShape DEF TypeInv
  <1>3. /\ pc # "idle" => Open = size /\ size # 0
        /\ pc = "idle" => Open = 0
        /\ pc' # "idle" => Open' = size'
        /\ pc' = "idle" => Open' = 0
    BY DEF Open, TypeInv, StateInv, CallShape
  <1>4. CASE Begins
    <2>1. Open = 0 /\ Open' \in Nat \ {0} /\ batch' = batch + 1 /\ UNCHANGED succeeded
      BY ONLY SMTT(30), <1>3, <1>4, AgentAssumption DEF Begins
    <2>2. UNCHANGED Announced
      BY ONLY <1>4 DEF Begins, Announced
    <2>. QED  BY ONLY SMTT(30), <1>1, <2>1, <2>2 DEF Contract!Next, Contract!Begin, Open
  <1>5. CASE Ends
    <2>1. Open # 0 /\ Open = size /\ Open' = 0 /\ UNCHANGED batch
      BY ONLY SMTT(30), <1>3, <1>5 DEF Ends
    <2>2. UNCHANGED Announced
      BY ONLY <1>5 DEF Ends, Announced
    <2>3. CASE UNCHANGED succeeded
      BY ONLY SMTT(30), <1>1, <2>1, <2>2, <2>3 DEF Contract!Next, Contract!Fail, Open
    <2>4. CASE InEndLoop /\ succeeded' = succeeded \cup {batch}
      <3>1. Start(batch, size) \in toManager
        BY <2>4, CurrentIsAnnounced DEF InDataOrEnd
      <3>2. SuccessIsIndexed' /\ UNCHANGED toManager
        <4>1. [Next]_vars
          BY DEF Next
        <4>2. IInv'
          BY <4>1, StepKeeps, Zenon
        <4>. QED  BY ONLY <1>5, <4>2 DEF IInv, Ends
      <3>3. \A item \in 0 .. Open - 1 : <<batch, item>> \in indexed
        BY ONLY SMTT(30), <1>1, <2>1, <2>4, <3>1, <3>2 DEF SuccessIsIndexed, Start
      <3>. QED  BY ONLY SMTT(30), <1>1, <2>1, <2>2, <2>4, <3>3 DEF Contract!Next, Contract!Succeed, Open
    <2>. QED  BY ONLY <1>5, <2>3, <2>4 DEF Ends
  <1>6. CASE GoesOn
    <2>1. Open # 0 /\ Open = size /\ Open' = Open /\ UNCHANGED <<batch, succeeded>>
      BY ONLY SMTT(30), <1>3, <1>6 DEF GoesOn
    <2>2. CASE Send(StartMessage)
      <3>1. Announced' = Announced \cup {<<batch, Open>>}
        <4>. DEFINE Starts(S) == {x \in S : x.type = "Start"}
                    Pairs(S) == {<<m.batch, m.size>> : m \in Starts(S)}
        <4>1. toManager' = toManager \cup {Start(batch, Open)}
          BY ONLY SMTT(30), <2>1, <2>2 DEF Send, StartMessage, Start
        <4>2. Starts(toManager') = Starts(toManager) \cup {Start(batch, Open)}
          BY ONLY SMTT(30), <4>1, RecordFacts
        <4>3. \A m : m = Start(batch, Open) => <<m.batch, m.size>> = <<batch, Open>>
          BY ONLY SMTT(30), RecordFacts
        <4>4. Announced = Pairs(toManager) /\ Announced' = Pairs(toManager')
          BY ONLY SMTT(30) DEF Announced
        <4>. HIDE DEF Starts
        <4>5. ASSUME NEW x PROVE x \in Pairs(toManager') <=>
                                 x \in Pairs(toManager) \/ x = <<batch, Open>>
          BY ONLY <4>2, <4>3
        <4>. QED  BY ONLY SMTT(30), <4>4, <4>5
      <3>. QED  BY ONLY SMTT(30), <1>1, <2>1, <3>1 DEF Contract!Next, Contract!Announce, Open
    <2>3. CASE \/ UNCHANGED toManager
               \/ \E seq \in 0 .. size - 1 : Send(DataMessage(seq))
               \/ Send(EndMessage)
      <3>1. UNCHANGED Announced
        <4>1. {x \in toManager : x.type = "Start"}' = {x \in toManager : x.type = "Start"}
          <5>1. /\ toManager \subseteq toManager'
                /\ \A m \in toManager' : \/ m \in toManager \/ m = EndMessage
                                          \/ \E seq : m = DataMessage(seq)
            BY ONLY <2>3, Zenon DEF Send
          <5>2. \A m \in toManager' : m.type = "Start" => m \in toManager
            BY ONLY SMTT(30), <5>1, SentFacts
          <5>. QED  BY ONLY <5>1, <5>2
        <4>. QED  BY ONLY <4>1, Zenon DEF Announced
      <3>. QED  BY ONLY <1>1, <2>1, <3>1 DEF Contract!vars, Open
    <2>. QED  BY ONLY <1>6, <2>2, <2>3 DEF GoesOn
  <1>. QED  BY ONLY <1>2, <1>4, <1>5, <1>6

\* A step of the manager applies announced items or none.
LEMMA ManagerSynchronizes ==
    ASSUME TypeInv, AppliedInv, Manager
    PROVE  [Contract!Next]_(Contract!vars)
  <1>1. UNCHANGED <<pc, batch, size, toManager, succeeded>>
    BY DEF Manager, agentVars, locals
  <1>2. UNCHANGED Open /\ UNCHANGED Announced
    BY ONLY <1>1 DEF Open, Announced
  <1>3. indexed \subseteq indexed' /\ indexed' \subseteq indexed \cup bulk
    <2>1. CASE (\E message \in toManager : run(message)) \/ sessionTimeout \/ takeSession
      BY ONLY <2>1, Zenon DEF run, handleStart, handleData, handleEnd, sessionTimeout,
         takeSession, Take, connectorVars
    <2>2. CASE addItem \/ addSession \/ ManagerRestart
      BY ONLY SMTT(30), <2>2 DEF addItem, AddItem, addSession, Register, ManagerRestart
    <2>3. CASE addSessionFails \/ processBulk \/ onSuccess
      BY ONLY <2>3 DEF addSessionFails, GiveUp, processBulk, Request, onSuccess,
         Acknowledge, Execute
    <2>. QED  BY <2>1, <2>2, <2>3 DEF Manager, ManagerThreads
  <1>. DEFINE Items == UNION {{<<call[1], item>> : item \in 0 .. call[2] - 1} :
                               call \in Announced}
  <1>4. ASSUME NEW x \in bulk PROVE x \in Items
    <2>1. PICK n \in Nat : Start(x[1], n) \in toManager /\ x[2] \in 0 .. n - 1
      BY SMTT(30), <1>4 DEF AppliedInv, IsAnnounced
    <2>2. <<x[1], n>> \in Announced
      <3>1. Start(x[1], n) \in {m \in toManager : m.type = "Start"}
        BY ONLY SMTT(30), <2>1, RecordFacts
      <3>2. <<x[1], n>> = <<Start(x[1], n).batch, Start(x[1], n).size>>
        BY ONLY RecordFacts
      <3>. QED  BY ONLY SMTT(30), <3>1, <3>2 DEF Announced
    <2>3. x = <<x[1], x[2]>>
      BY SMTT(30), <1>4 DEF TypeInv, FacadeInv, ConnectorTyped
    <2>. QED  BY ONLY SMTT(30), <2>1, <2>2, <2>3
  <1>5. /\ indexed \subseteq indexed'
        /\ \A new \in indexed' \ indexed : new \in Items
    BY ONLY <1>3, <1>4
  <1>. QED  BY ONLY <1>1, <1>2, <1>5 DEF Contract!Next, Contract!Apply, Contract!Items, Open

\* Every step keeps the announced items.
LEMMA AppliedKept ==
    ASSUME IInv, TypeInv, AppliedInv, [Next]_vars
    PROVE  AppliedInv'
  <1>1. CASE Deliver \/ UNCHANGED vars
    <2>1. UNCHANGED <<toManager, store, bulk, indexed>>
      BY ONLY <1>1 DEF Deliver, parseResponseBuffer, vars, agentVars, facadeVars,
         sessionVars, connectorVars, locals
    <2>. QED  BY ONLY <2>1, AppliedInv DEF AppliedInv, IsAnnounced
  <1>. QED  BY SMTT(30), <1>1, AgentAnnounces, ManagerAnnounces DEF Next

\* Every step is a step of the contract, or none.
LEMMA StepSynchronizes ==
    ASSUME LateStartAcks = FALSE, IInv, TypeInv, AppliedInv, [Next]_vars
    PROVE  [Contract!Next]_(Contract!vars)
  <1>1. CASE Deliver \/ UNCHANGED vars
    <2>1. UNCHANGED <<pc, batch, size, toManager, indexed, succeeded>>
      BY ONLY <1>1 DEF Deliver, parseResponseBuffer, vars, agentVars, facadeVars,
         sessionVars, connectorVars, locals
    <2>. QED  BY ONLY <2>1 DEF Contract!vars, Announced
  <1>. QED  BY <1>1, AgentSynchronizes, ManagerSynchronizes, Zenon DEF Next

\* Agent, transport and manager implement Synchronization, for every size of the
\* batches, number of retries, synchronizations, sessions and queue slots, if a
\* StartAck does not outlive its synchronization: what the indexer applies is
\* always an item that a call announced, and a call succeeds only when all its
\* items are applied (synchronizeModule, AgentSession, InventorySyncFacade).
THEOREM SynchronizationImplemented ==
    ASSUME LateStartAcks = FALSE
    PROVE  Spec => Synchronizes
  <1>1. Init => IInv /\ TypeInv /\ AppliedInv
    <2>1. Init => AppliedInv
      BY DEF Init, AgentInit, FacadeInit, ConnectorInit, AppliedInv
    <2>. QED  BY SMTT(30), <2>1, Initially, TypesInitially
  <1>2. IInv /\ [Next]_vars => IInv'
    BY ZenonT(30), StepKeeps
  <1>3. TypeInv /\ [Next]_vars => TypeInv'
    BY TypesKept
  <1>4. IInv /\ TypeInv /\ AppliedInv /\ [Next]_vars => AppliedInv'
    BY AppliedKept
  <1>5. IInv /\ TypeInv /\ AppliedInv /\ [Next]_vars => [Contract!Next]_(Contract!vars)
    BY StepSynchronizes, Zenon
  <1>6. Init => Contract!Init
    BY DEF Init, AgentInit, FacadeInit, ConnectorInit, Contract!Init, Announced
  <1>. QED  BY <1>1, <1>2, <1>3, <1>4, <1>5, <1>6, PTL DEF Spec, Synchronizes, Contract!Spec

=============================================================================
