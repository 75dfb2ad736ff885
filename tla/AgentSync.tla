----------------------------- MODULE AgentSync -----------------------------
(***************************************************************************)
(* The agent against a manager that answers anything, at any time: wrong   *)
(* sessions, statuses and ranges, answers to earlier calls, none at all.   *)
(***************************************************************************)
EXTENDS AgentSyncProtocol

Statuses == {"Ok", "Error"}     \* Offline is handled as Error is

Answers ==
    [type : {"StartAck", "EndAck"}, status : Statuses, session : Sessions]
    \cup [type : {"ReqRet"}, session : Sessions, ranges : RangeLists]

Next ==
    \/ synchronizeModule
    \/ SyncThread
    \/ Restart
    \/ \E message \in Answers : parseResponseBuffer(message)

Spec == AgentInit /\ [][Next]_agentVars

\* Every send returns and every wait ends, by an answer or by its timeout
\* (wait_for), so the thread keeps going.
FairSpec == Spec /\ WF_agentVars(SyncThread)

-----------------------------------------------------------------------------
\* A call that returns success has sent every item of its batch and its End,
\* whatever the manager answered and whatever sends failed on the way
\* (sendDataMessages, sendEndAndWaitAck).
SuccessMeansSent ==
    \A start \in toManager :
        /\ start.type = "Start"
        /\ start.batch \in succeeded
        => /\ \A seq \in 0 .. start.size - 1 :
                 \E data \in toManager :
                     /\ data.type = "Data"
                     /\ data.batch = start.batch
                     /\ data.seq = seq
           /\ \E end \in toManager : end.type = "End" /\ end.batch = start.batch

\* synchronizeModule returns, whatever the manager does: neither repeated ReqRets
\* nor silence keep it in a loop.
Returns == pc # "idle" ~> pc = "idle"

=============================================================================
