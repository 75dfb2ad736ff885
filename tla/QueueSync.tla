----------------------------- MODULE QueueSync -----------------------------
(***************************************************************************)
(* The life of inventory differences on the agent: a module (FIM, SCA,     *)
(* syscollector) reports each change of its inventory with                 *)
(* persistDifference, and synchronizeModule repeatedly fetches the pending *)
(* rows, hands them to the manager and settles them in the table.          *)
(*                                                                         *)
(* The exchange with the manager is reduced to what Synchronization        *)
(* promises of it: the indexer applies the items of the batch one by one,  *)
(* and the agent learns of a success only when all are applied.  When it   *)
(* takes the batch for failed, or is restarted, some items may have been   *)
(* applied, and the others may be at any later time (ManagerAppliesLate),  *)
(* also after a newer batch.                                               *)
(*                                                                         *)
(* The variables of troubles are not in the code.  They record what faults *)
(* have done, so that the properties can say what each of them costs.      *)
(***************************************************************************)
EXTENDS PersistentQueue

CONSTANTS
    Payloads,   \* the payloads that the document of each id takes
    Absent,     \* no document
    Faults,     \* what may fail: the transactions of three methods of the
                \* queue, and the answer to a batch the manager has got
    Slow,       \* the ids whose items may be applied late (a bound)
    MaxFaults   \* bound on the number of faults

VARIABLES
    local,      \* the module's inventory: its current document for each id
    remote,     \* the indexer's document for each id
    dataToSync, \* the batch of the synchronization in progress
    applied,    \* the ids of dataToSync that the indexer has applied
    late,       \* what it may still apply of batches that were given up:
                \* pairs of an id and its document
    unreported, \* the ids whose last report was not stored
    stranded,   \* the ids left in synchronization though it had failed
    overtaken,  \* the ids whose document in the indexer came from such a batch
    doubtful,   \* the ids of which the agent may be mistaken
    faults      \* the number of faults so far

troubles == <<unreported, stranded, overtaken, doubtful, faults>>
vars == <<table, local, remote, dataToSync, applied, late, troubles>>

FaultKinds == {"submit", "clearSyncedItems", "resetSyncingItems", "acknowledgement"}

ASSUME QueueAssumption ==
    /\ Payloads \in [Ids -> SUBSET Data]
    /\ Absent \notin Data
    /\ Faults \subseteq FaultKinds
    /\ MaxFaults \in Nat

Document == Data \cup {Absent}

Item == [operation : Operations, data : Data]

\* The document that an operation leaves in the indexer (sendDataMessages sends
\* Delete for DELETE_ and Upsert for the other two).
Effect(item) == IF item.operation = "DELETE_" THEN Absent ELSE item.data

NoBatch == [id \in {} |-> {}]

Syncing == DOMAIN dataToSync # {}

Init ==
    /\ table = EmptyTable
    /\ local = [id \in Ids |-> Absent]
    /\ remote = [id \in Ids |-> Absent]
    /\ dataToSync = NoBatch
    /\ applied = {}
    /\ late = {}
    /\ unreported = {} /\ stranded = {} /\ overtaken = {} /\ doubtful = {}
    /\ faults = 0

Fault(kind) ==
    /\ kind \in Faults
    /\ faults < MaxFaults
    /\ faults' = faults + 1

-----------------------------------------------------------------------------
(* persistDifference: an exception of submit is logged and swallowed *)

persistDifference(id, op, data) ==
    \/ /\ submitOrCoalesce(id, op, data)
       /\ unreported' = unreported \ {id}
       /\ stranded' = stranded \ {id}
       /\ UNCHANGED <<overtaken, doubtful, faults>>
    \/ /\ Fault("submit")
       /\ UNCHANGED <<table, stranded, overtaken>>
       /\ unreported' = unreported \cup {id}
       /\ doubtful' = doubtful \cup {id}

Create(id, data) ==
    /\ local[id] = Absent
    /\ local' = [local EXCEPT ![id] = data]
    /\ persistDifference(id, "CREATE", data)
    /\ UNCHANGED <<remote, dataToSync, applied, late>>

Modify(id, data) ==
    /\ local[id] \notin {Absent, data}
    /\ local' = [local EXCEPT ![id] = data]
    /\ persistDifference(id, "MODIFY", data)
    /\ UNCHANGED <<remote, dataToSync, applied, late>>

Delete(id) ==
    /\ local[id] # Absent
    /\ local' = [local EXCEPT ![id] = Absent]
    /\ persistDifference(id, "DELETE_", local[id])
    /\ UNCHANGED <<remote, dataToSync, applied, late>>

Report ==
    \E id \in Ids : \/ \E data \in Payloads[id] : Create(id, data) \/ Modify(id, data)
                   \/ Delete(id)

-----------------------------------------------------------------------------
(* synchronizeModule *)

(* What the agent does is kept apart from what the manager does: the rows, *)
(* the batch and the troubles here, remote, applied and late below.        *)

\* With nothing pending, or when the transaction throws, it returns at once.
Fetch ==
    /\ ~Syncing
    /\ Pending # {}
    /\ dataToSync' = Fetched
    /\ MarkForSync
    /\ UNCHANGED <<local, troubles>>

EndBatch ==
    /\ dataToSync' = NoBatch
    /\ UNCHANGED <<local, overtaken>>

LateIds == {item[1] : item \in late}

\* The rows in synchronization are settled, all of them.
Settled == {id \in DOMAIN table : InSync(table[id])}
              \ (unreported \cup stranded \cup overtaken \cup LateIds)

ClearRows ==
    /\ \/ removeAllSynced /\ doubtful' = doubtful \ Settled /\ UNCHANGED faults
       \/ /\ Fault("clearSyncedItems")
          /\ UNCHANGED table
          /\ doubtful' = doubtful \cup DOMAIN dataToSync
    /\ UNCHANGED <<unreported, stranded>>

ResetRows ==
    /\ resetAllSyncing
    /\ stranded' = stranded \ DOMAIN table
    /\ UNCHANGED unreported

ResetFails ==
    /\ Fault("resetSyncingItems")
    /\ stranded' = stranded \cup (DOMAIN dataToSync \ applied)
    /\ doubtful' = doubtful \cup DOMAIN dataToSync
    /\ UNCHANGED <<table, unreported>>

\* A failed call of which the manager has got nothing, and one it has got.
Unheard == UNCHANGED <<doubtful, faults>>

Unanswered ==
    /\ Fault("acknowledgement")
    /\ doubtful' = doubtful \cup DOMAIN dataToSync

-----------------------------------------------------------------------------
(* The manager, and the calls of the agent with what they mean to it *)

fetchAndMarkForSync ==
    /\ Fetch
    /\ applied' = {}
    /\ UNCHANGED <<remote, late>>

\* The indexer may apply an item more than once.
ManagerApplies ==
    /\ \E id \in DOMAIN dataToSync :
          /\ remote' = [remote EXCEPT ![id] = Effect(dataToSync[id])]
          /\ applied' = applied \cup {id}
          /\ overtaken' = overtaken \ {id}
    /\ UNCHANGED <<table, local, dataToSync, late, unreported, stranded, doubtful, faults>>

ManagerAppliesLate ==
    /\ \E item \in late :
          /\ remote' = [remote EXCEPT ![item[1]] = item[2]]
          /\ overtaken' = overtaken \cup {item[1]}
    /\ UNCHANGED <<table, local, dataToSync, applied, late, unreported, stranded, doubtful,
                   faults>>

\* The timer of the manager drops a session that was given up.
ManagerDrops ==
    /\ \E item \in late : late' = late \ {item}
    /\ UNCHANGED <<table, local, remote, dataToSync, applied, troubles>>

clearSyncedItems ==
    /\ Syncing
    /\ applied = DOMAIN dataToSync
    /\ ClearRows
    /\ EndBatch
    /\ applied' = {}
    /\ UNCHANGED <<remote, late>>

\* Nothing of the batch was applied, or ever will be.
NotApplied == applied = {} /\ UNCHANGED late

\* The items of the batch may still be applied.
GivenUp ==
    /\ Syncing
    /\ late' = late \cup {<<id, Effect(dataToSync[id])>> : id \in DOMAIN dataToSync \cap Slow}

resetSyncingItems ==
    /\ Syncing
    /\ \/ NotApplied /\ Unheard /\ ResetRows
       \/ GivenUp /\ Unanswered /\ ResetRows
       \/ (NotApplied \/ GivenUp) /\ ResetFails
    /\ EndBatch
    /\ applied' = {}
    /\ UNCHANGED remote

\* The agent stops at any point and is started again: the constructor of
\* PersistentQueue resets the rows of the interrupted synchronization.
Restart ==
    /\ \/ NotApplied /\ Unheard
       \/ GivenUp /\ Unanswered
    /\ ResetRows
    /\ EndBatch
    /\ applied' = {}
    /\ UNCHANGED remote

Next ==
    \/ Report
    \/ fetchAndMarkForSync
    \/ ManagerApplies
    \/ ManagerAppliesLate
    \/ ManagerDrops
    \/ clearSyncedItems
    \/ resetSyncingItems
    \/ Restart

Spec == Init /\ [][Next]_vars

\* synchronizeModule runs again and again (fim_run_integrity and its siblings
\* loop), and a manager that is offered batches again and again gets on with one and
\* gets its acknowledgement through.
Fairness ==
    /\ WF_vars(fetchAndMarkForSync)
    /\ SF_vars(ManagerApplies /\ applied' # applied)
    /\ SF_vars(clearSyncedItems)

FairSpec == Spec /\ Fairness

-----------------------------------------------------------------------------
TypeOK ==
    /\ table \in Tables
    /\ local \in [Ids -> Document]
    /\ remote \in [Ids -> Document]
    /\ dataToSync \in UNION {[S -> Item] : S \in SUBSET Ids}
    /\ applied \subseteq DOMAIN dataToSync
    /\ late \subseteq Ids \X Document
    /\ unreported \subseteq Ids /\ stranded \subseteq Ids
    /\ overtaken \subseteq Ids /\ doubtful \subseteq Ids
    /\ faults \in Nat

Shaped(row) ==
    /\ row.operation_syncing # "NO_OP" <=> row.sync_status = "SYNCING_UPDATED"
    /\ row.create_status = "NEW_DELETED" =>
          /\ row.operation = "DELETE_"
          /\ row.sync_status = "SYNCING_UPDATED"
          /\ row.operation_syncing # "DELETE_"
    /\ row.create_status = "NEW" =>
          /\ row.operation # "DELETE_"
          /\ row.operation_syncing # "DELETE_"

\* Which combinations of the four status columns occur, whatever calls are
\* made and whichever transactions fail.  Only a row updated during its
\* synchronization carries an operation in flight; NEW_DELETED occurs only on
\* such a row, and its creation is what is in flight, so that the second
\* condition of removeAllSynced never deletes a deletion the manager needs; and
\* a NEW row that waits is no deletion, so dropping it drops no deletion.
RowShape == \A id \in DOMAIN table : Shaped(table[id])

\* The queue never holds an outdated difference: the row of an id leads to the
\* module's current document, also after any coalescing, retry and restart, unless
\* the last report itself was not stored (persistDifference, submitOrCoalesce).
QueueIsCurrent ==
    \A id \in DOMAIN table \ unreported : Effect(table[id]) = local[id]

Lost == {id \in Ids \ DOMAIN table : remote[id] # local[id]}

\* Every change the module reported reaches the indexer or stays queued: an id
\* without a row is the same in the indexer as in the module's inventory, but for
\* the ids of which the agent is mistaken after a fault, and these only until they
\* are synchronized again (removeAllSynced deletes what was sent; submitOrCoalesce
\* and resetAllSyncing delete rows that were never sent).
NothingLost == Lost \subseteq doubtful

\* A document the module still has is never given up because an acknowledgement is
\* lost or clearSyncedItems fails: it is lost only if its report was not stored, if
\* resetSyncingItems failed and the next success took it for sent, or if the indexer
\* applied an item of a batch that was given up over what it had.
NoDocumentLost ==
    \A id \in Lost : local[id] # Absent => id \in unreported \cup stranded \cup overtaken

\* What the module says of its inventory is what the indexer ends up with: "Pending"
\* differences are the only ones the two may differ in, with an acknowledgement lost
\* or not (synchronizeModule).
NothingOrphaned == Lost = {}

\* The status columns say where the manager stands, but for the doubtful ids.  The
\* rows marked SYNCING or SYNCING_UPDATED are those of the batch on its way, and a
\* row that is NEW or NEW_DELETED belongs to a document the indexer has never had,
\* up to what is applied of the batch on its way: this is what makes it right to drop
\* such a row unsent.
StatusIsTrue ==
    \A id \in DOMAIN table \ doubtful :
        /\ InSync(table[id]) => id \in DOMAIN dataToSync
        /\ /\ table[id].create_status \in {"NEW", "NEW_DELETED"}
           /\ id \notin applied
           => remote[id] = Absent

\* Every id of the batch on its way keeps its row, and a row marked SYNCING holds
\* exactly what was sent: either its batch is on its way with the same effect, or
\* the indexer already has it (a batch whose clearSyncedItems failed), or
\* resetSyncingItems failed for it, or a batch that was given up came in between.  So
\* removeAllSynced may delete the others.
SyncingIsSent ==
    /\ \A id \in DOMAIN dataToSync : id \in DOMAIN table /\ InSync(table[id])
    /\ \A id \in applied \ overtaken : remote[id] = Effect(dataToSync[id])
    /\ \A id \in DOMAIN table \ stranded : table[id].sync_status = "SYNCING" =>
          IF id \in DOMAIN dataToSync THEN Effect(dataToSync[id]) = Effect(table[id])
          ELSE id \in overtaken \/ remote[id] = Effect(table[id])

\* A document that stops changing eventually stays the same in the indexer,
\* whatever synchronizations fail and however often the agent restarts, unless a
\* fault leaves the agent mistaken of it for good (synchronizeModule fetches every
\* row again that was not acknowledged).
Convergence ==
    \A id \in Ids :
        <>[](id \notin doubtful) /\ <>[][local'[id] = local[id]]_local
        => <>[](remote[id] = local[id])

=============================================================================
