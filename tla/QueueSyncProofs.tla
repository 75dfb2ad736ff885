-------------------------- MODULE QueueSyncProofs --------------------------
(***************************************************************************)
(* Proofs about QueueSync, for any sets of ids and payloads, and that the  *)
(* queue over Synchronization (SyncedQueue) implements it.                 *)
(***************************************************************************)
EXTENDS SyncedQueue, TLAPS

-----------------------------------------------------------------------------
(* Rows *)

\* What submitOrCoalesce writes is a well-formed row.
LEMMA SubmitRow ==
    ASSUME NEW old \in Row, NEW op \in Operations, NEW data \in Data
    PROVE  /\ InsertedRow(op, data) \in Row
           /\ UpdatedRow(old, op, data) \in Row
  BY DEF InsertedRow, UpdatedRow, NewCreateStatus, NewOperationSyncing, Row,
         Operations, SyncStatuses, CreateStatuses

\* A row that submitOrCoalesce inserts or updates keeps the shape.
LEMMA SubmitShape ==
    ASSUME NEW old \in Row, NEW op \in Operations, NEW data \in Data, Shaped(old)
    PROVE  /\ Shaped(InsertedRow(op, data))
           /\ ~Cancels(old, op) => Shaped(UpdatedRow(old, op, data))
  BY DEF Shaped, Cancels, InsertedRow, UpdatedRow, NewCreateStatus,
         NewOperationSyncing, Row, Operations, SyncStatuses, CreateStatuses

\* Settling a row leaves a well-formed row that waits and keeps the shape.
LEMMA SettleRow ==
    ASSUME NEW row \in Row
    PROVE  /\ AfterRemove(row) \in Row
           /\ AfterReset(row) \in Row
           /\ Effect(AfterRemove(row)) = Effect(row)
           /\ Effect(AfterReset(row)) = Effect(row)
           /\ AfterRemove(row).sync_status = "PENDING"
           /\ AfterReset(row).sync_status = "PENDING"
           /\ AfterReset(row).create_status = row.create_status
           /\ Shaped(row) /\ ~Synced(row) => Shaped(AfterRemove(row))
           /\ Shaped(row) /\ ~CreatedAndDeleted(row) => Shaped(AfterReset(row))
  <1>1. /\ AfterRemove(row) \in Row
        /\ Effect(AfterRemove(row)) = Effect(row)
        /\ AfterRemove(row).sync_status = "PENDING"
    BY Zenon DEF AfterRemove, InSync, Effect, Row, SyncStatuses, CreateStatuses, Operations
  <1>2. /\ AfterReset(row) \in Row
        /\ Effect(AfterReset(row)) = Effect(row)
        /\ AfterReset(row).sync_status = "PENDING"
        /\ AfterReset(row).create_status = row.create_status
    BY Zenon DEF AfterReset, InSync, Effect, Row, SyncStatuses, CreateStatuses, Operations
  <1>3. Shaped(row) /\ ~Synced(row) => Shaped(AfterRemove(row))
    BY DEF Shaped, AfterRemove, InSync, Synced, Row, Operations, SyncStatuses, CreateStatuses
  <1>4. Shaped(row) /\ ~CreatedAndDeleted(row) => Shaped(AfterReset(row))
    BY DEF Shaped, AfterReset, InSync, CreatedAndDeleted, Row, Operations, SyncStatuses,
           CreateStatuses
  <1> QED
    BY ONLY <1>1, <1>2, <1>3, <1>4

-----------------------------------------------------------------------------
(* Tables *)

\* Putting a row into the table and taking one out.
LEMMA TableUpdate ==
    ASSUME table \in Tables, NEW id \in Ids, NEW row \in Row
    PROVE  With(id, row) \in Tables /\ Without(id) \in Tables
  <1>1. PICK S \in SUBSET Ids : table \in [S -> Row]
    BY DEF Tables
  <1>2. With(id, row) \in [S \cup {id} -> Row]
    BY <1>1 DEF With
  <1>3. Without(id) \in [S \ {id} -> Row]
    BY <1>1 DEF Without
  <1> QED
    BY <1>2, <1>3 DEF Tables

\* A table is known by its domain and its rows.
LEMMA TableFacts ==
    ASSUME table \in Tables
    PROVE  /\ DOMAIN table \subseteq Ids
           /\ \A id \in DOMAIN table : table[id] \in Row
  BY DEF Tables

\* The empty table is a table, and the empty batch a batch.
LEMMA Empties ==
    /\ EmptyTable \in Tables
    /\ NoBatch \in UNION {[S -> Item] : S \in SUBSET Ids}
  <1>1. EmptyTable \in [{} -> Row] /\ NoBatch \in [{} -> Item]
    BY DEF EmptyTable, NoBatch
  <1>2. {} \in SUBSET Ids
    OBVIOUS
  <1> QED
    BY <1>1, <1>2 DEF Tables

\* Each of the queue's methods maps tables to tables.
LEMMA MethodsType ==
    ASSUME table \in Tables,
           \/ \E id \in Ids, op \in Operations, data \in Data :
                 submitOrCoalesce(id, op, data)
           \/ MarkForSync
           \/ removeAllSynced
           \/ resetAllSyncing
    PROVE  table' \in Tables
  <1> USE TableFacts
  <1>1. ASSUME NEW id \in Ids, NEW op \in Operations, NEW data \in Data,
               submitOrCoalesce(id, op, data)
        PROVE  table' \in Tables
    <2>1. CASE id \notin DOMAIN table
      <3>1. InsertedRow(op, data) \in Row
        BY DEF InsertedRow, Row, Operations, SyncStatuses, CreateStatuses
      <3> QED
        BY <1>1, <2>1, <3>1, TableUpdate DEF submitOrCoalesce
    <2>2. CASE id \in DOMAIN table
      BY <1>1, <2>2, TableUpdate, SubmitRow DEF submitOrCoalesce
    <2> QED
      BY <2>1, <2>2
  <1>2. ASSUME MarkForSync
        PROVE  table' \in [DOMAIN table -> Row]
    <2>1. \A id \in DOMAIN table : [table[id] EXCEPT !.sync_status = "SYNCING"] \in Row
      BY DEF Row, SyncStatuses
    <2> QED
      BY <1>2, <2>1 DEF MarkForSync
  <1>3. ASSUME removeAllSynced
        PROVE  table' \in [{i \in DOMAIN table : ~Synced(table[i])} -> Row]
    BY <1>3, SettleRow DEF removeAllSynced
  <1>4. ASSUME resetAllSyncing
        PROVE  table' \in [{i \in DOMAIN table : ~CreatedAndDeleted(table[i])} -> Row]
    BY <1>4, SettleRow DEF resetAllSyncing
  <1> QED
    BY <1>1, <1>2, <1>3, <1>4 DEF Tables

-----------------------------------------------------------------------------
(* Type correctness *)

\* Every step keeps the types.
LEMMA TypeStep == TypeOK /\ [Next]_vars => TypeOK'
  <1> SUFFICES ASSUME TypeOK, [Next]_vars PROVE TypeOK'
    OBVIOUS
  <1> USE DEF TypeOK
  <1>1. ASSUME NEW id \in Ids, NEW data \in Data, Create(id, data)
        PROVE  TypeOK'
    BY <1>1, MethodsType DEF Create, persistDifference, Fault, Document, Operations
  <1>2. ASSUME NEW id \in Ids, NEW data \in Data, Modify(id, data)
        PROVE  TypeOK'
    BY <1>2, MethodsType DEF Modify, persistDifference, Fault, Document, Operations
  <1>3. ASSUME NEW id \in Ids, Delete(id)
        PROVE  TypeOK'
    <2>1. local[id] \in Data
      BY <1>3 DEF Delete, Document
    <2> QED
      BY <1>3, <2>1, MethodsType
      DEF Delete, persistDifference, Fault, Document, Operations
  <1>4. CASE fetchAndMarkForSync
    <2>1. Fetched \in [Pending -> Item] /\ Pending \subseteq Ids
      BY TableFacts DEF Fetched, Pending, Item, Row
    <2> QED
      BY <1>4, <2>1, MethodsType DEF fetchAndMarkForSync, Fetch, troubles
  <1>5. \A id \in DOMAIN dataToSync : id \in Ids /\ Effect(dataToSync[id]) \in Document
    BY DEF Effect, Item, Document
  <1>6. CASE ManagerApplies
    BY <1>5, <1>6 DEF ManagerApplies
  <1>7. CASE ManagerAppliesLate
    <2>1. PICK item \in late : /\ remote' = [remote EXCEPT ![item[1]] = item[2]]
                              /\ overtaken' = overtaken \cup {item[1]}
      BY <1>7, Zenon DEF ManagerAppliesLate
    <2>2. item[1] \in Ids /\ item[2] \in Document
      BY <2>1
    <2>3. remote' \in [Ids -> Document] /\ overtaken' \subseteq Ids
      BY <2>1, <2>2
    <2> QED
      BY <1>7, <2>3 DEF ManagerAppliesLate
  <1>8. CASE ManagerDrops
    BY <1>8 DEF ManagerDrops, troubles
  <1>9. ASSUME EndBatch, applied' = {}, UNCHANGED remote, table' \in Tables,
               late' \subseteq Ids \X Document, UNCHANGED unreported,
               stranded' \subseteq Ids, doubtful' \subseteq Ids, faults' \in Nat
        PROVE  TypeOK'
    BY <1>9, Empties DEF EndBatch
  <1>10. CASE clearSyncedItems
    BY <1>5, <1>9, <1>10, MethodsType DEF clearSyncedItems, ClearRows, Fault
  <1>11. NotApplied \/ GivenUp => late' \subseteq Ids \X Document
    BY <1>5 DEF NotApplied, GivenUp
  <1>12. Unheard \/ Unanswered => doubtful' \subseteq Ids /\ faults' \in Nat
    BY <1>5 DEF Unheard, Unanswered, Fault
  <1>13. ResetRows => table' \in Tables /\ stranded' \subseteq Ids /\ UNCHANGED unreported
    BY MethodsType DEF ResetRows
  <1>14. ResetFails => /\ table' \in Tables /\ stranded' \subseteq Ids
                       /\ doubtful' \subseteq Ids /\ faults' \in Nat
                       /\ UNCHANGED unreported
    BY <1>5 DEF ResetFails, Fault
  <1>15. CASE resetSyncingItems
    BY ONLY <1>9, <1>11, <1>12, <1>13, <1>14, <1>15 DEF resetSyncingItems
  <1>16. CASE Restart
    BY ONLY <1>9, <1>11, <1>12, <1>13, <1>16 DEF Restart
  <1>17. CASE UNCHANGED vars
    BY <1>17 DEF vars, troubles
  <1> QED
    BY <1>1, <1>2, <1>3, <1>4, <1>6, <1>7, <1>8, <1>10, <1>15, <1>16, <1>17,
       QueueAssumption DEF Next, Report

\* The initial state has its types.
LEMMA TypeInit == Init => TypeOK
  <1>1. Init => faults \in Nat
    BY DEF Init
  <1>2. Init => applied \subseteq DOMAIN dataToSync /\ late \subseteq Ids \X Document
    BY DEF Init
  <1> QED
    BY <1>1, <1>2, Empties DEF Init, TypeOK, Document

\* The methods of the queue, the reports of the module and the rounds of
\* synchronizeModule keep every variable in its type.
THEOREM TypeCorrect == Spec => []TypeOK
  BY TypeInit, TypeStep, PTL DEF Spec

-----------------------------------------------------------------------------
(* The shape of the rows *)

\* Each of the queue's methods keeps the shape of every row.
LEMMA MethodsShape ==
    ASSUME table \in Tables, RowShape,
           \/ \E id \in Ids, op \in Operations, data \in Data :
                 submitOrCoalesce(id, op, data)
           \/ MarkForSync
           \/ removeAllSynced
           \/ resetAllSyncing
    PROVE  RowShape'
  <1> USE TableFacts DEF RowShape
  <1>1. ASSUME NEW id \in Ids, NEW op \in Operations, NEW data \in Data,
               submitOrCoalesce(id, op, data)
        PROVE  RowShape'
    <2>1. CASE id \notin DOMAIN table
      <3>1. Shaped(InsertedRow(op, data))
        BY DEF Shaped, InsertedRow, Operations
      <3> QED
        BY <1>1, <2>1, <3>1 DEF submitOrCoalesce, With
    <2>2. CASE id \in DOMAIN table /\ Cancels(table[id], op)
      BY <1>1, <2>2 DEF submitOrCoalesce, Without
    <2>3. CASE id \in DOMAIN table /\ ~Cancels(table[id], op)
      <3>1. Shaped(UpdatedRow(table[id], op, data))
        BY <2>3, SubmitShape
      <3> QED
        BY <1>1, <2>3, <3>1 DEF submitOrCoalesce, With
    <2> QED
      BY <2>1, <2>2, <2>3
  <1>2. ASSUME MarkForSync
        PROVE  RowShape'
    <2>1. \A id \in Pending : Shaped([table[id] EXCEPT !.sync_status = "SYNCING"])
      BY DEF Pending, Shaped, Row
    <2> QED
      BY <1>2, <2>1 DEF MarkForSync, Pending
  <1>3. ASSUME removeAllSynced
        PROVE  RowShape'
    BY <1>3, SettleRow DEF removeAllSynced
  <1>4. ASSUME resetAllSyncing
        PROVE  RowShape'
    BY <1>4, SettleRow DEF resetAllSyncing
  <1> QED
    BY <1>1, <1>2, <1>3, <1>4

\* A step of the system leaves the table alone or runs one of the methods.
LEMMA StepIsMethod ==
    ASSUME TypeOK, [Next]_vars
    PROVE  \/ UNCHANGED table
           \/ \E id \in Ids, op \in Operations, data \in Data :
                 submitOrCoalesce(id, op, data)
           \/ MarkForSync
           \/ removeAllSynced
           \/ resetAllSyncing
  <1>1. ASSUME NEW id \in Ids, Delete(id)
        PROVE  local[id] \in Data
    BY <1>1 DEF Delete, TypeOK, Document
  <1>2. {"CREATE", "MODIFY", "DELETE_"} \subseteq Operations
    BY DEF Operations
  <1> QED
    BY <1>1, <1>2, QueueAssumption DEF Next, Report, vars, Create, Modify, Delete,
       persistDifference, fetchAndMarkForSync, Fetch, ManagerApplies, ManagerAppliesLate,
       ManagerDrops, clearSyncedItems, ClearRows, resetSyncingItems, ResetRows, ResetFails,
       Restart

\* The status columns only take the combinations of RowShape, whatever is
\* called and whichever transactions fail.
THEOREM RowShapeHolds == Spec => []RowShape
  <1>1. Init => RowShape
    BY DEF Init, RowShape, EmptyTable
  <1>2. TypeOK /\ RowShape /\ [Next]_vars => RowShape'
    <2> SUFFICES ASSUME TypeOK, RowShape, [Next]_vars PROVE RowShape'
      OBVIOUS
    <2>1. CASE UNCHANGED table
      BY <2>1 DEF RowShape
    <2> QED
      BY <2>1, StepIsMethod, MethodsShape DEF TypeOK
  <1> QED
    BY <1>1, <1>2, TypeCorrect, PTL DEF Spec

-----------------------------------------------------------------------------
(* What the rows say of the documents *)

\* The table after persistDifference, row by row: the row of id is the one
\* written, if any, and the other rows are untouched.
LEMMA SubmitTable ==
    ASSUME table \in Tables, NEW id \in Ids, NEW op \in Operations,
           NEW data \in Data, submitOrCoalesce(id, op, data)
    PROVE  /\ DOMAIN table' \subseteq DOMAIN table \cup {id}
           /\ DOMAIN table \ {id} \subseteq DOMAIN table'
           /\ \A i \in DOMAIN table' \ {id} : table'[i] = table[i]
           /\ id \in DOMAIN table' =>
                 \/ id \notin DOMAIN table /\ table'[id] = InsertedRow(op, data)
                 \/ /\ id \in DOMAIN table
                    /\ ~Cancels(table[id], op)
                    /\ table'[id] = UpdatedRow(table[id], op, data)
           /\ id \notin DOMAIN table' =>
                 id \in DOMAIN table /\ Cancels(table[id], op)
  BY DEF submitOrCoalesce, With, Without

\* The row written has the effect of the operation submitted.
LEMMA SubmitEffect ==
    ASSUME NEW old, NEW op \in Operations, NEW data \in Data
    PROVE  /\ Effect(InsertedRow(op, data)) = Effect([operation |-> op, data |-> data])
           /\ Effect(UpdatedRow(old, op, data)) = Effect([operation |-> op, data |-> data])
  BY DEF Effect, InsertedRow, UpdatedRow

\* It is in synchronization iff the row it replaces is, and it is NEW or
\* NEW_DELETED only if that row is, or if it is inserted by a creation.
LEMMA SubmitStatus ==
    ASSUME NEW old \in Row, NEW op \in Operations, NEW data \in Data
    PROVE  /\ ~InSync(InsertedRow(op, data))
           /\ InSync(UpdatedRow(old, op, data)) <=> InSync(old)
           /\ InsertedRow(op, data).create_status \in {"NEW", "NEW_DELETED"} => op = "CREATE"
           /\ UpdatedRow(old, op, data).create_status \in {"NEW", "NEW_DELETED"} =>
                 old.create_status \in {"NEW", "NEW_DELETED"}
  BY DEF InsertedRow, UpdatedRow, NewCreateStatus, InSync, Row, SyncStatuses, CreateStatuses

\* A report of the module is one persistDifference whose effect is the new
\* document.
Reports(id, op, data) ==
    /\ op = "CREATE" => local[id] = Absent
    /\ persistDifference(id, op, data)
    /\ local' = [local EXCEPT ![id] = Effect([operation |-> op, data |-> data])]
    /\ UNCHANGED <<remote, dataToSync, applied, late, overtaken>>

\* Each of the module's actions is such a report.
LEMMA ModuleReports ==
    ASSUME TypeOK, NEW id \in Ids,
           \/ \E data \in Data : Create(id, data) \/ Modify(id, data)
           \/ Delete(id)
    PROVE  \E op \in Operations, data \in Data : Reports(id, op, data)
  <1>1. ASSUME NEW data \in Data, Create(id, data) PROVE Reports(id, "CREATE", data)
    BY <1>1 DEF Create, Reports, persistDifference, Effect
  <1>2. ASSUME NEW data \in Data, Modify(id, data) PROVE Reports(id, "MODIFY", data)
    BY <1>2 DEF Modify, Reports, persistDifference, Effect
  <1>3. ASSUME Delete(id) PROVE Reports(id, "DELETE_", local[id]) /\ local[id] \in Data
    BY <1>3 DEF Delete, Reports, persistDifference, Effect, TypeOK, Document
  <1> QED
    BY <1>1, <1>2, <1>3 DEF Operations

\* What a report that is stored, and one that is not, does to the variables.
Stored(id, op, data) ==
    /\ op = "CREATE" => local[id] = Absent
    /\ submitOrCoalesce(id, op, data)
    /\ local' = [local EXCEPT ![id] = Effect([operation |-> op, data |-> data])]
    /\ unreported' = unreported \ {id} /\ stranded' = stranded \ {id}
    /\ UNCHANGED <<remote, dataToSync, applied, late, overtaken, doubtful>>

NotStored(id) ==
    /\ \A i \in Ids \ {id} : local'[i] = local[i]
    /\ unreported' = unreported \cup {id} /\ doubtful' = doubtful \cup {id}
    /\ UNCHANGED <<table, remote, dataToSync, applied, late, stranded, overtaken>>

\* A step of the module is one of the two.
LEMMA StoredOrNot ==
    ASSUME TypeOK, NEW id \in Ids,
           \/ \E data \in Data : Create(id, data) \/ Modify(id, data)
           \/ Delete(id)
    PROVE  \/ \E op \in Operations, data \in Data : Stored(id, op, data)
           \/ NotStored(id)
  <1>1. PICK op \in Operations, data \in Data : Reports(id, op, data)
    BY ModuleReports
  <1>2. \A i \in Ids \ {id} : local'[i] = local[i]
    BY <1>1 DEF Reports, TypeOK
  <1>3. Stored(id, op, data) \/ NotStored(id)
    BY <1>1, <1>2 DEF Reports, Stored, NotStored, persistDifference
  <1> QED
    BY <1>3

\* MarkForSync and the two settling methods keep the effect of each row.
LEMMA MethodsEffect ==
    ASSUME table \in Tables, MarkForSync \/ removeAllSynced \/ resetAllSyncing
    PROVE  /\ DOMAIN table' \subseteq DOMAIN table
           /\ \A id \in DOMAIN table' : Effect(table'[id]) = Effect(table[id])
  <1> USE TableFacts
  <1>1. CASE MarkForSync
    <2>1. \A id \in DOMAIN table :
            Effect([table[id] EXCEPT !.sync_status = "SYNCING"]) = Effect(table[id])
      BY DEF Effect, Row
    <2> QED
      BY <1>1, <2>1 DEF MarkForSync
  <1>2. CASE removeAllSynced
    BY <1>2, SettleRow DEF removeAllSynced
  <1>3. CASE resetAllSyncing
    BY <1>3, SettleRow DEF resetAllSyncing
  <1> QED
    BY <1>1, <1>2, <1>3

\* No row of the queue is outdated unless the last report was not stored:
\* coalescing, settling and restarting all keep the effect equal to the module's
\* document.
THEOREM QueueCurrent == Spec => []QueueIsCurrent
  <1>1. Init => QueueIsCurrent
    BY DEF Init, QueueIsCurrent, EmptyTable
  <1>2. TypeOK /\ QueueIsCurrent /\ [Next]_vars => QueueIsCurrent'
    <2> SUFFICES ASSUME TypeOK, QueueIsCurrent, [Next]_vars PROVE QueueIsCurrent'
      OBVIOUS
    <2> USE TableFacts DEF TypeOK, QueueIsCurrent
    <2>1. ASSUME NEW id \in Ids,
                 \/ \E data \in Data : Create(id, data) \/ Modify(id, data)
                 \/ Delete(id)
          PROVE  QueueIsCurrent'
      <3>1. ASSUME NEW op \in Operations, NEW data \in Data, Stored(id, op, data)
            PROVE  QueueIsCurrent'
        <4>1. submitOrCoalesce(id, op, data) /\ unreported' = unreported \ {id}
          BY <3>1 DEF Stored
        <4>2. \A i \in DOMAIN table' \ {id} : table'[i] = table[i] /\ local'[i] = local[i]
                                             /\ i \in DOMAIN table
          BY <3>1, <4>1, SubmitTable DEF Stored
        <4>3. id \in DOMAIN table' => Effect(table'[id]) = local'[id]
          BY <3>1, <4>1, SubmitTable, SubmitEffect, SMTT(30) DEF Stored
        <4> QED
          BY <4>1, <4>2, <4>3
      <3>2. CASE NotStored(id)
        BY <3>2 DEF NotStored
      <3> QED
        BY <2>1, <3>1, <3>2, StoredOrNot DEF TypeOK
    <2>2. CASE fetchAndMarkForSync \/ clearSyncedItems \/ resetSyncingItems \/ Restart
      <3>1. UNCHANGED <<local, unreported>>
        BY <2>2 DEF fetchAndMarkForSync, Fetch, clearSyncedItems, ClearRows,
           resetSyncingItems, ResetRows, ResetFails, Restart, EndBatch, troubles
      <3>2. UNCHANGED table \/ MarkForSync \/ removeAllSynced \/ resetAllSyncing
        BY <2>2 DEF fetchAndMarkForSync, Fetch, clearSyncedItems, ClearRows,
           resetSyncingItems, ResetRows, ResetFails, Restart
      <3> QED
        BY <3>1, <3>2, MethodsEffect
    <2>3. CASE ManagerApplies \/ ManagerAppliesLate \/ ManagerDrops \/ UNCHANGED vars
      BY <2>3 DEF ManagerApplies, ManagerAppliesLate, ManagerDrops, vars, troubles
    <2> QED
      BY <2>1, <2>2, <2>3, QueueAssumption DEF Next, Report
  <1> QED
    BY <1>1, <1>2, TypeCorrect, PTL DEF Spec

-----------------------------------------------------------------------------
(* No document is lost, whichever faults happen *)

Marked == unreported \cup stranded \cup overtaken \cup LateIds \subseteq doubtful

\* An id that a fault has touched is doubtful until it is settled.
LEMMA MarksHold == Spec => []Marked
  <1>1. Init => Marked
    BY DEF Init, Marked, LateIds
  <1>2. TypeOK /\ Marked /\ [Next]_vars => Marked'
    <2> SUFFICES ASSUME TypeOK, Marked, [Next]_vars PROVE Marked'
      OBVIOUS
    <2> USE DEF Marked
    <2>1. ASSUME NEW id \in Ids,
                 \/ \E data \in Data : Create(id, data) \/ Modify(id, data)
                 \/ Delete(id)
          PROVE  Marked'
      BY <2>1, StoredOrNot, Zenon DEF Stored, NotStored, LateIds
    <2>2. CASE clearSyncedItems
      BY <2>2 DEF clearSyncedItems, ClearRows, EndBatch, Settled, LateIds
    <2>3. CASE resetSyncingItems \/ Restart
      <3>1. /\ UNCHANGED <<unreported, overtaken>>
            /\ stranded' \subseteq stranded \cup doubtful'
            /\ doubtful \subseteq doubtful'
        BY <2>3 DEF resetSyncingItems, Restart, ResetRows, ResetFails, Unheard, Unanswered,
                    EndBatch
      <3>2. LateIds' \subseteq LateIds \cup doubtful'
        <4>1. CASE NotApplied
          BY <4>1 DEF NotApplied, LateIds
        <4>2. CASE GivenUp /\ DOMAIN dataToSync \subseteq doubtful'
          BY <4>2 DEF GivenUp, LateIds
        <4>3. NotApplied \/ (GivenUp /\ DOMAIN dataToSync \subseteq doubtful')
          BY <2>3 DEF resetSyncingItems, Restart, ResetFails, Unanswered
        <4> QED
          BY <4>1, <4>2, <4>3
      <3> QED
        BY <3>1, <3>2
    <2>4. CASE ManagerAppliesLate
      BY <2>4 DEF ManagerAppliesLate, LateIds
    <2>5. CASE fetchAndMarkForSync \/ ManagerApplies \/ ManagerDrops \/ UNCHANGED vars
      BY <2>5 DEF fetchAndMarkForSync, Fetch, ManagerApplies, ManagerDrops, LateIds, vars,
                  troubles
    <2> QED
      BY <2>1, <2>2, <2>3, <2>4, <2>5, QueueAssumption DEF Next, Report
  <1> QED
    BY <1>1, <1>2, TypeCorrect, PTL DEF Spec

DocInv == TypeOK /\ RowShape /\ QueueIsCurrent /\ SyncingIsSent /\ NoDocumentLost

\* A document the module has is queued or up to date in the indexer, and a row
\* marked SYNCING holds what was sent, also when acknowledgements are lost,
\* transactions fail and the agent restarts; the exceptions are the ids whose report
\* was not stored, those whose resetSyncingItems failed, and those over which the
\* indexer applied an item of a batch that was given up.
THEOREM DocumentsKept == Spec => [](SyncingIsSent /\ NoDocumentLost)
  <1>1. Init => SyncingIsSent /\ NoDocumentLost
    BY DEF Init, EmptyTable, NoBatch, SyncingIsSent, NoDocumentLost, Lost
  <1>2. DocInv /\ [Next]_vars => (SyncingIsSent /\ NoDocumentLost)'
    <2> SUFFICES ASSUME DocInv, [Next]_vars PROVE (SyncingIsSent /\ NoDocumentLost)'
      OBVIOUS
    <2>0. TypeOK /\ RowShape /\ QueueIsCurrent /\ SyncingIsSent /\ NoDocumentLost
      BY DEF DocInv
    <2>t. /\ table \in Tables /\ DOMAIN table \subseteq Ids
          /\ \A id \in DOMAIN table : table[id] \in Row
          /\ local \in [Ids -> Document] /\ remote \in [Ids -> Document]
          /\ applied \subseteq DOMAIN dataToSync /\ DOMAIN dataToSync \subseteq Ids
          /\ stranded \subseteq Ids
      BY TableFacts DEF DocInv, TypeOK
    <2>1. ASSUME NEW id \in Ids,
                 \/ \E data \in Data : Create(id, data) \/ Modify(id, data)
                 \/ Delete(id)
          PROVE  (SyncingIsSent /\ NoDocumentLost)'
      <3>1. ASSUME NEW op \in Operations, NEW data \in Data, Stored(id, op, data)
            PROVE  (SyncingIsSent /\ NoDocumentLost)'
        <4>1. submitOrCoalesce(id, op, data)
          BY <3>1 DEF Stored
        <4>2. /\ DOMAIN table' \subseteq DOMAIN table \cup {id}
              /\ DOMAIN table \ {id} \subseteq DOMAIN table'
              /\ \A i \in DOMAIN table' \ {id} : table'[i] = table[i]
              /\ id \in DOMAIN table' =>
                    \/ id \notin DOMAIN table /\ table'[id] = InsertedRow(op, data)
                    \/ /\ id \in DOMAIN table
                       /\ ~Cancels(table[id], op)
                       /\ table'[id] = UpdatedRow(table[id], op, data)
              /\ id \notin DOMAIN table' =>
                    id \in DOMAIN table /\ Cancels(table[id], op)
          BY ONLY <2>t, <4>1, SubmitTable, id \in Ids, op \in Operations, data \in Data, Zenon
        <4>3. id \in DOMAIN table' => table'[id].sync_status # "SYNCING"
          <5>1. id \in DOMAIN table' =>
                  \/ table'[id] = InsertedRow(op, data)
                  \/ table'[id] = UpdatedRow(table[id], op, data)
            BY ONLY <4>2
          <5>2. /\ InsertedRow(op, data).sync_status # "SYNCING"
                /\ UpdatedRow(table[id], op, data).sync_status # "SYNCING"
            BY ONLY DEF InsertedRow, UpdatedRow
          <5> QED
            BY ONLY <5>1, <5>2
        <4>4. id \in DOMAIN dataToSync => id \in DOMAIN table' /\ InSync(table'[id])
          <5>0. id \in DOMAIN dataToSync => id \in DOMAIN table /\ ~Cancels(table[id], op)
            BY <2>0 DEF Cancels, InSync, SyncingIsSent
          <5>1. id \in DOMAIN dataToSync => table'[id] = UpdatedRow(table[id], op, data)
            BY ONLY <4>2, <5>0
          <5>2. id \in DOMAIN dataToSync => id \in DOMAIN table'
            BY ONLY <4>2, <5>0
          <5>3. table[id] \in Row => (InSync(UpdatedRow(table[id], op, data)) <=> InSync(table[id]))
            BY ONLY SubmitStatus, op \in Operations, data \in Data, Zenon
          <5> QED
            BY ONLY <2>0, <2>t, <5>0, <5>1, <5>2, <5>3, Zenon DEF SyncingIsSent
        <4>5. id \notin DOMAIN table' => local'[id] = Absent
          <5>1. id \notin DOMAIN table' => op = "DELETE_"
            BY ONLY <4>2 DEF Cancels
          <5> QED
            BY <2>t, <3>1, <5>1 DEF Stored, Effect
        <4>6. /\ \A i \in Ids \ {id} : local'[i] = local[i]
              /\ UNCHANGED <<remote, dataToSync, applied, late, overtaken>>
              /\ unreported' = unreported \ {id} /\ stranded' = stranded \ {id}
          BY <3>1 DEF Stored
        <4>7. SyncingIsSent'
          BY ONLY <2>0, <2>t, <4>2, <4>3, <4>4, <4>6 DEF SyncingIsSent
        <4>8. NoDocumentLost'
          BY <2>0, <4>2, <4>5, <4>6 DEF NoDocumentLost, Lost
        <4> QED
          BY ONLY <4>8, <4>7
      <3>2. CASE NotStored(id)
        BY <2>0, <3>2 DEF NotStored, SyncingIsSent, NoDocumentLost, Lost
      <3> QED
        BY ONLY <2>0, <2>1, <3>1, <3>2, StoredOrNot
    <2>2. CASE fetchAndMarkForSync
      <3>1. DOMAIN table' = DOMAIN table /\ dataToSync' = Fetched
            /\ UNCHANGED <<local, remote, unreported, stranded, overtaken>> /\ applied' = {}
        BY <2>2 DEF fetchAndMarkForSync, Fetch, MarkForSync, troubles
      <3>2. \A id \in DOMAIN table : Effect(table'[id]) = Effect(table[id])
        BY <2>t, <2>2, <3>1, MethodsEffect DEF fetchAndMarkForSync, Fetch
      <3>3. \A id \in Pending : Effect(Fetched[id]) = Effect(table[id])
        BY DEF Fetched, Effect
      <3>4. \A id \in DOMAIN table \ Pending : table'[id] = table[id]
        BY <2>2 DEF fetchAndMarkForSync, Fetch, MarkForSync
      <3>5. DOMAIN dataToSync = {} /\ DOMAIN Fetched = Pending
        BY <2>2, ZenonT(30) DEF fetchAndMarkForSync, Fetch, Syncing, Fetched
      <3>6. \A id \in Pending : InSync(table'[id])
        BY <2>2 DEF fetchAndMarkForSync, Fetch, MarkForSync, Pending, InSync, Row
      <3>7. \A id \in DOMAIN table' \ stranded' : table'[id].sync_status = "SYNCING" =>
              IF id \in DOMAIN dataToSync' THEN Effect(dataToSync'[id]) = Effect(table'[id])
              ELSE id \in overtaken' \/ remote'[id] = Effect(table'[id])
        BY <2>0, <3>1, <3>2, <3>3, <3>4, <3>5 DEF SyncingIsSent
      <3>8. \A id \in DOMAIN dataToSync' : id \in DOMAIN table' /\ InSync(table'[id])
        BY <3>1, <3>5, <3>6 DEF Pending
      <3>9. SyncingIsSent'
        BY <3>1, <3>7, <3>8 DEF SyncingIsSent
      <3> QED
        BY <2>0, <3>1, <3>9 DEF NoDocumentLost, Lost
    <2>3. CASE ManagerApplies
      <3>1. PICK id \in DOMAIN dataToSync :
              /\ remote' = [remote EXCEPT ![id] = Effect(dataToSync[id])]
              /\ applied' = applied \cup {id}
              /\ overtaken' = overtaken \ {id}
        BY <2>3, ZenonT(30) DEF ManagerApplies
      <3>2. UNCHANGED <<table, local, dataToSync, unreported, stranded>>
        BY <2>3 DEF ManagerApplies
      <3>3. remote'[id] = Effect(dataToSync[id]) /\ id \in DOMAIN table
            /\ \A i \in Ids \ {id} : remote'[i] = remote[i]
        BY <2>0, <2>t, <3>1 DEF SyncingIsSent
      <3>4. SyncingIsSent'
        BY ONLY <2>0, <2>t, <3>1, <3>2, <3>3 DEF SyncingIsSent
      <3>5. NoDocumentLost'
        BY ONLY <2>0, <3>1, <3>2, <3>3 DEF NoDocumentLost, Lost, SyncingIsSent
      <3> QED
        BY ONLY <3>4, <3>5
    <2>4. CASE ManagerAppliesLate
      <3>1. PICK item \in late : /\ remote' = [remote EXCEPT ![item[1]] = item[2]]
                                /\ overtaken' = overtaken \cup {item[1]}
        BY <2>4, ZenonT(30) DEF ManagerAppliesLate
      <3>2. UNCHANGED <<table, local, dataToSync, applied, unreported, stranded>>
        BY <2>4 DEF ManagerAppliesLate
      <3>3. \A i \in Ids \ {item[1]} : remote'[i] = remote[i]
        BY <3>1
      <3> QED
        BY <2>0, <3>1, <3>2, <3>3 DEF SyncingIsSent, NoDocumentLost, Lost
    <2>5. ASSUME clearSyncedItems, removeAllSynced
          PROVE  (SyncingIsSent /\ NoDocumentLost)'
      <3>1. \A id \in DOMAIN table' : table'[id].sync_status = "PENDING"
        BY <2>t, <2>5, SettleRow DEF removeAllSynced
      <3>2. \A id \in DOMAIN table : Synced(table[id]) => table[id].sync_status = "SYNCING"
        BY <2>0 DEF RowShape, Shaped, Synced
      <3>3. \A id \in DOMAIN table \ (unreported \cup stranded \cup overtaken) :
              Synced(table[id]) => remote[id] = local[id]
        BY <2>0, <2>5, <3>2 DEF clearSyncedItems, QueueIsCurrent, SyncingIsSent
      <3> QED
        BY <2>0, <2>5, <3>1, <3>3
        DEF clearSyncedItems, ClearRows, removeAllSynced, EndBatch, NoBatch,
            SyncingIsSent, NoDocumentLost, Lost
    <2>6. CASE clearSyncedItems /\ UNCHANGED table
      <3>1. /\ applied = DOMAIN dataToSync /\ applied' = {} /\ DOMAIN dataToSync' = {}
            /\ UNCHANGED <<table, local, remote, unreported, stranded, overtaken>>
        BY <2>6 DEF clearSyncedItems, ClearRows, EndBatch, NoBatch
      <3>2. \A id \in DOMAIN table \ (stranded \cup overtaken) :
              table[id].sync_status = "SYNCING" => remote[id] = Effect(table[id])
        BY <2>0, <3>1 DEF SyncingIsSent
      <3> QED
        BY <2>0, <3>1, <3>2, ZenonT(30) DEF SyncingIsSent, NoDocumentLost, Lost
    <2>7. ASSUME EndBatch, applied' = {}, UNCHANGED remote, ResetRows
          PROVE  (SyncingIsSent /\ NoDocumentLost)'
      <3>1. \A id \in DOMAIN table' : table'[id].sync_status = "PENDING"
        BY <2>t, <2>7, SettleRow DEF ResetRows, resetAllSyncing
      <3>2. \A id \in DOMAIN table \ unreported :
              CreatedAndDeleted(table[id]) => local[id] = Absent
        BY <2>0 DEF CreatedAndDeleted, QueueIsCurrent, Effect
      <3> QED
        BY <2>0, <2>7, <3>1, <3>2
        DEF ResetRows, resetAllSyncing, EndBatch, NoBatch, SyncingIsSent,
            NoDocumentLost, Lost
    <2>9. ASSUME EndBatch, applied' = {}, UNCHANGED remote, ResetFails
          PROVE  (SyncingIsSent /\ NoDocumentLost)'
      <3>1. /\ DOMAIN dataToSync' = {}
            /\ UNCHANGED <<table, local, unreported, overtaken>>
            /\ stranded' = stranded \cup (DOMAIN dataToSync \ applied)
        BY <2>9 DEF ResetFails, EndBatch, NoBatch
      <3>2. \A id \in DOMAIN table \ (stranded' \cup overtaken) :
              table[id].sync_status = "SYNCING" => remote[id] = Effect(table[id])
        BY <2>0, <3>1 DEF SyncingIsSent
      <3> QED
        BY <2>0, <2>9, <3>1, <3>2 DEF SyncingIsSent, NoDocumentLost, Lost
    <2>10. CASE ManagerDrops \/ UNCHANGED vars
      BY <2>0, <2>10 DEF ManagerDrops, vars, troubles, SyncingIsSent, NoDocumentLost, Lost
    <2>11. clearSyncedItems => removeAllSynced \/ UNCHANGED table
      BY DEF clearSyncedItems, ClearRows
    <2>12. resetSyncingItems \/ Restart =>
             EndBatch /\ applied' = {} /\ UNCHANGED remote /\ (ResetRows \/ ResetFails)
      BY DEF resetSyncingItems, Restart
    <2> QED
      BY <2>1, <2>2, <2>3, <2>4, <2>5, <2>6, <2>7, <2>9, <2>10, <2>11, <2>12,
         QueueAssumption, Zenon DEF Next, Report
  <1> QED
    BY <1>1, <1>2, QueueCurrent, TypeCorrect, RowShapeHolds, PTL DEF Spec, DocInv

-----------------------------------------------------------------------------
(* Nothing is lost but what is doubtful *)

LossInv == DocInv /\ Marked /\ StatusIsTrue /\ NothingLost

\* Every reported change is queued or in the indexer, but for the ids that a fault
\* has made doubtful: the rows dropped unsent belong to documents the indexer has
\* never had, and the rows deleted after a success hold what was sent.
THEOREM NothingIsLost == Spec => [](StatusIsTrue /\ NothingLost)
  <1>1. Init => StatusIsTrue /\ NothingLost
    BY DEF Init, EmptyTable, NoBatch, StatusIsTrue, NothingLost, Lost
  <1>2. LossInv /\ [Next]_vars => (StatusIsTrue /\ NothingLost)'
    <2> SUFFICES ASSUME LossInv, [Next]_vars PROVE (StatusIsTrue /\ NothingLost)'
      OBVIOUS
    <2>0. /\ TypeOK /\ RowShape /\ QueueIsCurrent /\ SyncingIsSent /\ NoDocumentLost
          /\ Marked /\ StatusIsTrue /\ NothingLost
          /\ DOMAIN dataToSync \subseteq DOMAIN table
      BY DEF LossInv, DocInv, SyncingIsSent
    <2>t. /\ table \in Tables /\ DOMAIN table \subseteq Ids
          /\ \A id \in DOMAIN table : table[id] \in Row
          /\ local \in [Ids -> Document] /\ remote \in [Ids -> Document]
          /\ applied \subseteq DOMAIN dataToSync /\ DOMAIN dataToSync \subseteq Ids
      BY TableFacts DEF LossInv, DocInv, TypeOK
    <2>1. ASSUME NEW id \in Ids, NEW op \in Operations, NEW data \in Data,
                 Stored(id, op, data)
          PROVE  (StatusIsTrue /\ NothingLost)'
      <3>1. submitOrCoalesce(id, op, data)
        BY <2>1 DEF Stored
      <3>2. UNCHANGED <<remote, dataToSync, applied, doubtful>>
            /\ \A i \in Ids \ {id} : local'[i] = local[i]
        BY <2>1 DEF Stored
      <3>0. /\ DOMAIN table' \subseteq DOMAIN table \cup {id}
            /\ DOMAIN table \ {id} \subseteq DOMAIN table'
            /\ \A i \in DOMAIN table' \ {id} : table'[i] = table[i]
            /\ id \in DOMAIN table /\ id \in DOMAIN table' =>
                  table'[id] = UpdatedRow(table[id], op, data)
            /\ id \notin DOMAIN table /\ id \in DOMAIN table' =>
                  table'[id] = InsertedRow(op, data)
            /\ id \notin DOMAIN table' => id \in DOMAIN table /\ Cancels(table[id], op)
        BY ONLY <2>t, <3>1, SubmitTable, id \in Ids, op \in Operations, data \in Data, Zenon
      <3>3. id \in DOMAIN table' \ doubtful =>
              (InSync(table'[id]) => id \in DOMAIN dataToSync)
        <4>1. CASE id \in DOMAIN table
          <5>1. id \in DOMAIN table' => table'[id] = UpdatedRow(table[id], op, data)
            BY ONLY <3>0, <4>1
          <5>2. table[id] \in Row => (InSync(UpdatedRow(table[id], op, data)) <=> InSync(table[id]))
            BY ONLY SubmitStatus, op \in Operations, data \in Data, Zenon
          <5> QED
            BY ONLY <2>0, <2>t, <4>1, <5>1, <5>2, Zenon DEF StatusIsTrue
        <4>2. CASE id \notin DOMAIN table
          <5>1. id \in DOMAIN table' => table'[id] = InsertedRow(op, data)
            BY ONLY <3>0, <4>2
          <5>2. ~InSync(InsertedRow(op, data))
            BY DEF InSync, InsertedRow
          <5> QED
            BY <4>2, <5>1, <5>2
        <4> QED
          BY ONLY <4>1, <4>2
      <3>4. id \notin DOMAIN table' => id \notin DOMAIN dataToSync
        BY ONLY <2>0, <2>t, <3>0 DEF Cancels, InSync, SyncingIsSent
      <3>5. id \notin DOMAIN table' /\ id \notin doubtful =>
              remote[id] = Absent /\ local'[id] = Absent
        <4>1. id \notin DOMAIN table' => local'[id] = Absent
          <5>1. id \notin DOMAIN table' => op = "DELETE_"
            BY ONLY <3>0 DEF Cancels
          <5> QED
            BY <2>t, <2>1, <5>1 DEF Stored, Effect
        <4>2. id \notin DOMAIN table' /\ id \notin doubtful => remote[id] = Absent
          BY ONLY <2>0, <2>t, <3>0, <3>4 DEF StatusIsTrue, Cancels
        <4> QED
          BY ONLY <4>1, <4>2
      <3>6. /\ id \in DOMAIN table' \ doubtful
            /\ table'[id].create_status \in {"NEW", "NEW_DELETED"}
            /\ id \notin applied
            => remote[id] = Absent
        <4>1. CASE id \in DOMAIN table
          <5>1. id \in DOMAIN table' => table'[id] = UpdatedRow(table[id], op, data)
            BY ONLY <3>0, <4>1
          <5>2. id \in DOMAIN table' =>
                  (table'[id].create_status \in {"NEW", "NEW_DELETED"} =>
                   table[id].create_status \in {"NEW", "NEW_DELETED"})
            <6>1. table[id] \in Row
              BY ONLY <2>0, <2>t, <4>1 DEF Tables
            <6> QED
              BY ONLY <5>1, <6>1, SubmitStatus, op \in Operations, data \in Data,
                 ZenonT(30)
          <5> QED
            BY ONLY <2>0, <2>t, <4>1, <5>2 DEF StatusIsTrue
        <4>2. CASE id \notin DOMAIN table
          <5>1. id \in DOMAIN table' => table'[id] = InsertedRow(op, data)
            BY ONLY <3>0, <4>2
          <5>2. InsertedRow(op, data).create_status \in {"NEW", "NEW_DELETED"} => op = "CREATE"
            BY Zenon DEF InsertedRow
          <5> QED
            BY <2>0, <2>1, <4>2, <5>1, <5>2 DEF Stored, NothingLost, Lost
        <4> QED
          BY <4>1, <4>2
      <3> QED
        BY <2>0, <3>0, <3>2, <3>3, <3>5, <3>6 DEF StatusIsTrue, NothingLost, Lost
    <2>2. ASSUME NEW id \in Ids, NotStored(id)
          PROVE  (StatusIsTrue /\ NothingLost)'
      BY <2>0, <2>2, Zenon DEF NotStored, StatusIsTrue, NothingLost, Lost
    <2>3. CASE fetchAndMarkForSync
      BY <2>0, <2>t, <2>3
      DEF fetchAndMarkForSync, Fetch, MarkForSync, Fetched, Pending, Syncing, InSync,
          Row, SyncStatuses, troubles, StatusIsTrue, NothingLost, Lost
    <2>4. CASE ManagerApplies
      <3>1. PICK id \in DOMAIN dataToSync :
              /\ remote' = [remote EXCEPT ![id] = Effect(dataToSync[id])]
              /\ applied' = applied \cup {id}
        BY <2>4, ZenonT(30) DEF ManagerApplies
      <3>2. UNCHANGED <<table, local, dataToSync, doubtful>>
        BY <2>4 DEF ManagerApplies
      <3>3. \A i \in Ids \ {id} : remote'[i] = remote[i]
        BY <3>1
      <3>4. StatusIsTrue'
        BY ONLY <3>1, <3>2, <3>3, <2>0, <2>t DEF StatusIsTrue
      <3>5. NothingLost'
        BY ONLY <2>0, <2>t, <3>1, <3>2, <3>3 DEF NothingLost, Lost
      <3> QED
        BY ONLY <3>4, <3>5
    <2>11. CASE ManagerAppliesLate
      <3>1. PICK item \in late : remote' = [remote EXCEPT ![item[1]] = item[2]]
        BY <2>11, Zenon DEF ManagerAppliesLate
      <3>2. item[1] \in doubtful /\ \A i \in Ids \ {item[1]} : remote'[i] = remote[i]
        BY <2>0, <3>1 DEF LateIds, Marked
      <3> QED
        BY <2>0, <2>t, <2>11, <3>2 DEF ManagerAppliesLate, StatusIsTrue, NothingLost, Lost
    <2>5. ASSUME clearSyncedItems, removeAllSynced, doubtful' = doubtful \ Settled
          PROVE  (StatusIsTrue /\ NothingLost)'
      <3>1. \A id \in DOMAIN table' :
              /\ id \in DOMAIN table /\ table'[id].sync_status = "PENDING"
              /\ InSync(table[id]) => table'[id].create_status = "EXISTING"
              /\ ~InSync(table[id]) => table'[id] = table[id]
        <4>1. \A row \in Row :
                /\ InSync(row) => AfterRemove(row).create_status = "EXISTING"
                /\ ~InSync(row) => AfterRemove(row) = row
          BY DEF AfterRemove, Row
        <4> QED
          BY <2>t, <2>5, <4>1, SettleRow, Zenon DEF removeAllSynced
      <3>2. \A id \in DOMAIN table : Synced(table[id]) => table[id].sync_status = "SYNCING"
        BY <2>0 DEF RowShape, Shaped, Synced
      <3>3. \A id \in DOMAIN table \ (unreported \cup stranded \cup overtaken) :
              Synced(table[id]) => remote[id] = local[id]
        BY <2>0, <2>5, <3>2 DEF clearSyncedItems, QueueIsCurrent, SyncingIsSent
      <3>4. \A id \in DOMAIN table : id \notin doubtful' =>
              id \notin unreported \cup stranded \cup overtaken
        BY <2>0, <2>5 DEF Settled, Marked
      <3>5. DOMAIN dataToSync' = {} /\ UNCHANGED <<local, remote>>
        BY <2>5, ZenonT(30) DEF clearSyncedItems, EndBatch, NoBatch
      <3>6. StatusIsTrue'
        <4> SUFFICES ASSUME NEW id \in DOMAIN table', id \notin doubtful',
                            table'[id].create_status \in {"NEW", "NEW_DELETED"}
                     PROVE  remote[id] = Absent
          BY <3>1, <3>5 DEF InSync, StatusIsTrue
        <4>1. ~InSync(table[id]) /\ table'[id] = table[id]
          BY <3>1
        <4>2. id \notin doubtful /\ id \notin DOMAIN dataToSync
          BY <2>0, <2>5, <4>1, <3>1 DEF Settled, SyncingIsSent
        <4> QED
          BY <2>0, <2>t, <3>1, <4>1, <4>2 DEF StatusIsTrue
      <3>7. NothingLost'
        <4> SUFFICES ASSUME NEW id \in Ids, id \notin DOMAIN table', id \notin doubtful'
                     PROVE  remote[id] = local[id]
          BY <3>5, ZenonT(30) DEF NothingLost, Lost
        <4>1. CASE id \in DOMAIN table
          <5>1. Synced(table[id])
            BY <2>5, <4>1 DEF removeAllSynced
          <5> QED
            BY <3>3, <3>4, <4>1, <5>1
        <4>2. CASE id \notin DOMAIN table
          BY <2>0, <2>5, <4>2 DEF Settled, NothingLost, Lost
        <4> QED
          BY <4>1, <4>2
      <3> QED
        BY <3>6, <3>7
    <2>6. CASE clearSyncedItems /\ UNCHANGED table /\ doubtful' = doubtful \cup DOMAIN dataToSync
      BY <2>0, <2>6 DEF clearSyncedItems, EndBatch, NoBatch, StatusIsTrue, NothingLost, Lost
    <2>7. ASSUME EndBatch, applied' = {}, UNCHANGED remote, ResetRows,
                 \/ NotApplied /\ Unheard
                 \/ GivenUp /\ Unanswered
          PROVE  (StatusIsTrue /\ NothingLost)'
      <3>1. \A id \in DOMAIN table' :
              /\ id \in DOMAIN table /\ table'[id].sync_status = "PENDING"
              /\ table'[id].create_status = table[id].create_status
        BY <2>t, <2>7, SettleRow, Zenon DEF ResetRows, resetAllSyncing
      <3>2. \A id \in DOMAIN table \ doubtful' : id \notin doubtful /\ id \notin applied
        BY <2>t, <2>7, ZenonT(30) DEF NotApplied, Unheard, Unanswered
      <3>3. \A id \in DOMAIN table \ doubtful' : CreatedAndDeleted(table[id]) =>
              local[id] = Absent /\ remote[id] = Absent
        BY <2>0, <3>2 DEF CreatedAndDeleted, QueueIsCurrent, Effect, StatusIsTrue, Marked
      <3>4. /\ DOMAIN dataToSync' = {} /\ UNCHANGED <<local, remote>>
            /\ doubtful \subseteq doubtful'
        BY <2>7 DEF Unheard, Unanswered, EndBatch, NoBatch
      <3>5. StatusIsTrue'
        BY <2>0, <3>1, <3>2, <3>4, Zenon DEF InSync, StatusIsTrue
      <3>6. NothingLost'
        BY <2>0, <2>7, <3>3, <3>4, ZenonT(30)
        DEF ResetRows, resetAllSyncing, NothingLost, Lost
      <3> QED
        BY <3>5, <3>6
    <2>8. CASE resetSyncingItems /\ ResetFails
      BY <2>0, <2>t, <2>8
      DEF resetSyncingItems, ResetFails, EndBatch, NoBatch, StatusIsTrue, NothingLost,
          Lost
    <2>9. CASE ManagerDrops \/ UNCHANGED vars
      BY <2>0, <2>9 DEF ManagerDrops, vars, troubles, StatusIsTrue, NothingLost, Lost
    <2>12. CASE clearSyncedItems
      BY <2>5, <2>6, <2>12, ZenonT(30) DEF clearSyncedItems, ClearRows
    <2>13. CASE resetSyncingItems \/ Restart
      BY <2>7, <2>8, <2>13 DEF resetSyncingItems, Restart
    <2>10. CASE \E id \in Ids : \/ \E data \in Data : Create(id, data) \/ Modify(id, data)
                                \/ Delete(id)
      BY ONLY <2>0, <2>1, <2>2, <2>10, StoredOrNot
    <2> QED
      BY <2>3, <2>4, <2>9, <2>10, <2>11, <2>12, <2>13, QueueAssumption, ZenonT(30)
      DEF Next, Report
  <1> QED
    BY <1>1, <1>2, QueueCurrent, DocumentsKept, MarksHold, TypeCorrect, RowShapeHolds, PTL
    DEF Spec, LossInv, DocInv

-----------------------------------------------------------------------------
(* The manager of QueueSync is what Synchronization promises *)

\* The items of the open call are those of the batch, each numbered.
BatchIsCall ==
    /\ Syncing <=> open # 0
    /\ DOMAIN dataToSync = {item.id : item \in {i \in contents : Open(i.call)}}
    /\ \A item \in contents : Open(item.call) =>
          /\ item.seq \in 0 .. open - 1
          /\ item.document = Effect(dataToSync[item.id])

\* No call is ahead of the last one, and only what was announced is executed.
CallsInOrder ==
    /\ \A item \in contents : item.call <= calls
    /\ \A call \in announced : call[1] <= calls
    /\ succeeded \subseteq 1 .. calls
    /\ open # 0 => calls # 0 /\ calls \notin succeeded
    /\ executed \subseteq Sync!Items

\* A call and a number name one item.
OneEach ==
    \A i, j \in contents : i.call = j.call /\ i.seq = j.seq => i = j

\* The account that QueueSync keeps of the calls and the calls themselves.
SyncedInv ==
    /\ calls \in Nat /\ open \in Nat
    /\ contents \subseteq Contents
    /\ announced \subseteq Nat \X Nat
    /\ executed \subseteq Nat \X Nat
    /\ BatchIsCall
    /\ CallsInOrder
    /\ OneEach
    /\ applied = AppliedIds
    /\ late = LateItems

\* The batch as a function, and the rows that a call would take.
LEMMA BatchFacts ==
    ASSUME TypeOK
    PROVE  /\ DOMAIN dataToSync \subseteq Ids
           /\ Pending \subseteq Ids
           /\ Fetched \in [Pending -> Item]
           /\ \A id \in Pending : Effect(Fetched[id]) \in Document
  <1>1. Pending \subseteq Ids /\ Fetched \in [Pending -> Item]
    BY TableFacts DEF TypeOK, Fetched, Pending, Item, Row
  <1>2. \A id \in Pending : Effect(Fetched[id]) \in Document
    BY <1>1 DEF Effect, Item, Document
  <1> QED
    BY <1>1, <1>2 DEF TypeOK

\* An item is executed only for a call the manager has heard of.
LEMMA ExecutedIsHeard ==
    ASSUME NEW call, NEW seq, <<call, seq>> \in Sync!Items
    PROVE  call \in Heard
  BY DEF Sync!Items, Heard

\* A call that begins: nothing of it is applied yet, and nothing becomes late.
LEMMA BeginStep ==
    ASSUME TypeOK, SyncedInv, Begin
    PROVE  fetchAndMarkForSync /\ SyncedInv'
  <1> USE DEF SyncedInv
  <1> DEFINE n == Cardinality(Pending)
  <1>1. /\ open = 0 /\ open' = n /\ n \in Nat \ {0} /\ calls' = calls + 1
        /\ UNCHANGED <<announced, executed, succeeded, remote>>
        /\ Fetch /\ dataToSync' = Fetched
    BY DEF Begin, Sync!Begin, Fetch
  <1>2. PICK order \in Bijection(0 .. n - 1, Pending) :
               contents' = contents \cup Numbered(calls + 1, order)
    BY <1>1 DEF Begin
  <1>3. /\ order \in [0 .. n - 1 -> Pending]
        /\ \A id \in Pending : \E seq \in 0 .. n - 1 : order[seq] = id
    BY <1>2 DEF Bijection, Injection, Surjection
  <1>4. \A i : i \in contents' <=>
           \/ i \in contents
           \/ \E seq \in 0 .. n - 1 :
                 i = [call |-> calls + 1, seq |-> seq, id |-> order[seq],
                      document |-> Effect(Fetched[order[seq]])]
    BY <1>2, <1>3 DEF Numbered
  <1>5. \A i \in contents : i.call \in Nat /\ i.call <= calls /\ i.call # calls + 1
    BY DEF CallsInOrder, Contents
  <1>6. \A i \in contents' : i \in contents \/
           /\ i.call = calls + 1 /\ i.seq \in 0 .. n - 1
           /\ i.id = order[i.seq] /\ i.id \in Pending
           /\ i.document = Effect(Fetched[i.id])
    BY <1>3, <1>4
  <1>7. contents' \subseteq Contents
    <2>1. \A seq \in 0 .. n - 1 : order[seq] \in Ids /\ Effect(Fetched[order[seq]]) \in Document
      BY ONLY <1>3, BatchFacts, TypeOK
    <2>2. calls + 1 \in Nat /\ \A seq \in 0 .. n - 1 : seq \in Nat
      BY <1>1
    <2>3. \A seq \in 0 .. n - 1 :
             [call |-> calls + 1, seq |-> seq, id |-> order[seq],
              document |-> Effect(Fetched[order[seq]])] \in Contents
      BY ONLY <2>1, <2>2 DEF Contents
    <2>4. contents \subseteq Contents
      OBVIOUS
    <2> QED
      BY ONLY <1>4, <2>3, <2>4
  <1>8. \A i \in contents' : Open(i.call)' <=> i \notin contents
    BY <1>1, <1>5, <1>6 DEF Open
  <1>9. calls + 1 \notin Heard /\ Heard' = Heard
    BY <1>1 DEF Heard, CallsInOrder
  <1>10. BatchIsCall'
    <2>1. DOMAIN dataToSync' = Pending /\ Pending # {}
      BY <1>1, BatchFacts DEF Fetch
    <2>2. \A id \in Pending : \E i \in contents' : i.id = id /\ i \notin contents
      <3> SUFFICES ASSUME NEW id \in Pending
                   PROVE  \E i \in contents' : i.id = id /\ i \notin contents
        OBVIOUS
      <3>1. PICK seq \in 0 .. n - 1 : order[seq] = id
        BY <1>3
      <3> DEFINE i == [call |-> calls + 1, seq |-> seq, id |-> order[seq],
                       document |-> Effect(Fetched[order[seq]])]
      <3>2. i \in contents' /\ i.id = id /\ i.call = calls + 1
        BY <1>4, <3>1, ZenonT(30)
      <3> QED
        BY ONLY <1>5, <3>2, Zenon
    <2>3. DOMAIN dataToSync' = {item.id : item \in {i \in contents' : Open(i.call)'}}
      BY <1>6, <1>8, <2>1, <2>2
    <2>4. \A i \in contents' : Open(i.call)' =>
             i.seq \in 0 .. open' - 1 /\ i.document = Effect(dataToSync'[i.id])
      BY <1>1, <1>6, <1>8
    <2> QED
      BY <1>1, <2>1, <2>3, <2>4 DEF BatchIsCall, Syncing
  <1>11. CallsInOrder'
    <2>1. UNCHANGED Sync!Items
      BY <1>1 DEF Sync!Items
    <2>2. /\ \A i \in contents' : i.call <= calls'
          /\ \A call \in announced' : call[1] <= calls'
          /\ succeeded' \subseteq 1 .. calls'
          /\ calls' # 0 /\ calls' \notin succeeded'
      BY <1>1, <1>5, <1>6 DEF CallsInOrder
    <2> QED
      BY <1>1, <2>1, <2>2 DEF CallsInOrder
  <1>12. OneEach'
    BY <1>4, <1>5, <1>6 DEF OneEach
  <1>13. AppliedIds' = {}
    <2>1. \A i \in contents' : Open(i.call)' => i.call \notin Heard
      BY <1>1, <1>9 DEF Open
    <2>2. \A i \in contents' : ~(Open(i.call)' /\ <<i.call, i.seq>> \in executed')
      BY <1>1, <2>1, ExecutedIsHeard DEF CallsInOrder
    <2> QED
      BY <2>2, Zenon DEF AppliedIds
  <1>14. LateItems' = LateItems
    <2>1. \A i \in contents' : i.call \in Heard' => i \in contents
      BY <1>6, <1>9
    <2>2. \A i \in contents : i \in contents' /\ ~Open(i.call)' /\ ~Open(i.call)
      BY <1>1, <1>4, <1>8 DEF Open
    <2> QED
      BY <1>1, <1>9, <2>1, <2>2 DEF LateItems
  <1> QED
    BY <1>1, <1>7, <1>10, <1>11, <1>12, <1>13, <1>14
    DEF Begin, Record, fetchAndMarkForSync

\* A call that is announced: nothing of it is late while it is open.
LEMMA AnnounceStep ==
    ASSUME TypeOK, SyncedInv, Announce
    PROVE  UNCHANGED vars /\ SyncedInv'
  <1> USE DEF SyncedInv
  <1>1. /\ open # 0 /\ announced' = announced \cup {<<calls, open>>}
        /\ UNCHANGED <<calls, open, executed, succeeded, contents, dataToSync>>
    BY DEF Announce, Sync!Announce
  <1>2. Heard' = Heard \cup {calls} /\ Sync!Items \subseteq Sync!Items'
    <2> DEFINE pair == <<calls, open>>
    <2>1. pair[1] = calls /\ announced' = announced \cup {pair}
      BY <1>1
    <2> HIDE DEF pair
    <2>2. Heard' = Heard \cup {pair[1]}
      BY ONLY <2>1 DEF Heard
    <2>3. Sync!Items \subseteq Sync!Items'
      BY ONLY <1>1 DEF Sync!Items
    <2> QED
      BY <2>1, <2>2, <2>3
  <1>3. AppliedIds' = AppliedIds
    BY <1>1 DEF AppliedIds, Open
  <1>4. LateItems' = LateItems
    BY <1>1, <1>2 DEF LateItems, Open
  <1>5. CallsInOrder'
    BY <1>1, <1>2 DEF CallsInOrder
  <1>6. BatchIsCall' /\ OneEach'
    BY <1>1 DEF BatchIsCall, OneEach, Open, Syncing
  <1>7. announced' \subseteq Nat \X Nat
    BY <1>1
  <1>8. UNCHANGED vars
    BY <1>3, <1>4 DEF Announce, Record, vars, troubles
  <1> QED
    BY <1>1, <1>3, <1>4, <1>5, <1>6, <1>7, <1>8 DEF vars

\* An item that is executed: one of the batch if its call is open, a late one else.
LEMMA ApplyStep ==
    ASSUME TypeOK, SyncedInv, Apply
    PROVE  (ManagerApplies \/ ManagerAppliesLate) /\ SyncedInv'
  <1> USE DEF SyncedInv
  <1>1. PICK item \in contents :
          /\ <<item.call, item.seq>> \in Sync!Items
          /\ item.call \notin succeeded
          /\ executed' = executed \cup {<<item.call, item.seq>>}
          /\ remote' = [remote EXCEPT ![item.id] = item.document]
          /\ overtaken' = IF Open(item.call) THEN overtaken \ {item.id}
                          ELSE overtaken \cup {item.id}
    BY ZenonT(30) DEF Apply
  <1>2. UNCHANGED <<calls, open, announced, succeeded, contents, dataToSync>>
    BY DEF Apply, Sync!Apply
  <1>3. item.call \in Nat /\ item.seq \in Nat /\ item.call \in Heard
    BY <1>1, ExecutedIsHeard DEF Contents
  <1>4. UNCHANGED <<Heard, Sync!Items>>
    BY <1>2 DEF Heard, Sync!Items
  <1>5. LateItems' = LateItems
    BY <1>2, <1>4 DEF LateItems, Open
  <1>6. CallsInOrder' /\ BatchIsCall' /\ OneEach' /\ executed' \subseteq Nat \X Nat
    <2>1. executed' \subseteq Nat \X Nat
      BY <1>1, <1>3
    <2>2. CallsInOrder'
      BY <1>1, <1>2, <1>4 DEF CallsInOrder
    <2>3. BatchIsCall' /\ OneEach'
      BY <1>2 DEF BatchIsCall, OneEach, Open, Syncing
    <2> QED
      BY ONLY <2>1, <2>2, <2>3
  <1>7. \A i \in contents : <<i.call, i.seq>> = <<item.call, item.seq>> => i = item
    BY <1>1 DEF OneEach
  <1>8. CASE Open(item.call)
    <2>1. AppliedIds' = AppliedIds \cup {item.id}
      BY <1>1, <1>2, <1>7, <1>8, Zenon DEF AppliedIds, Open
    <2>2. item.id \in DOMAIN dataToSync /\ item.document = Effect(dataToSync[item.id])
      BY <1>1, <1>8, ZenonT(30) DEF BatchIsCall
    <2>3. ManagerApplies
      BY <1>1, <1>5, <1>8, <2>1, <2>2, Zenon DEF Apply, Record, ManagerApplies
    <2> QED
      BY <1>2, <1>5, <1>6, <2>1, <2>3 DEF Apply, Record
  <1>9. CASE ~Open(item.call)
    <2>1. AppliedIds' = AppliedIds
      BY <1>1, <1>2, <1>7, <1>9 DEF AppliedIds, Open
    <2>2. <<item.id, item.document>> \in late
      BY <1>1, <1>3, <1>9 DEF LateItems
    <2>3. ManagerAppliesLate
      BY <1>1, <1>5, <1>9, <2>1, <2>2, Zenon DEF Apply, Record, ManagerAppliesLate
    <2> QED
      BY <1>2, <1>5, <1>6, <2>1, <2>3 DEF Apply, Record
  <1> QED
    BY <1>8, <1>9

\* A call that ends, one way or the other, leaves no batch and nothing applied of it.
LEMMA Ended ==
    ASSUME TypeOK, SyncedInv, EndBatch, Record, open' = 0,
           UNCHANGED <<calls, announced, executed, contents>>,
           succeeded' \subseteq succeeded \cup {calls},
           open # 0 \/ UNCHANGED succeeded
    PROVE  SyncedInv' /\ applied' = {}
  <1> USE DEF SyncedInv
  <1>1. AppliedIds' = {}
    BY DEF AppliedIds, Open
  <1>2. BatchIsCall'
    BY DEF BatchIsCall, EndBatch, NoBatch, Syncing, Open
  <1>3. UNCHANGED Sync!Items
    BY DEF Sync!Items
  <1>4. calls \in 1 .. calls \/ UNCHANGED succeeded
    BY DEF CallsInOrder
  <1>5. CallsInOrder'
    BY <1>3, <1>4 DEF CallsInOrder
  <1>6. OneEach'
    BY DEF OneEach
  <1> QED
    BY <1>1, <1>2, <1>5, <1>6 DEF Record

\* A call that succeeds: its items are executed, all of them, and are not late after.
LEMMA SucceedStep ==
    ASSUME TypeOK, SyncedInv, Succeed
    PROVE  clearSyncedItems /\ SyncedInv'
  <1>1. /\ open # 0 /\ open' = 0 /\ succeeded' = succeeded \cup {calls}
        /\ \A seq \in 0 .. open - 1 : <<calls, seq>> \in executed
        /\ UNCHANGED <<calls, announced, executed, contents, remote>>
        /\ EndBatch /\ Record
    BY DEF Succeed, Sync!Succeed
  <1>2. SyncedInv' /\ applied' = {}
    BY <1>1, Ended
  <1>3. applied = DOMAIN dataToSync
    <2>1. \A i \in contents : Open(i.call) => <<i.call, i.seq>> \in executed
      BY <1>1 DEF SyncedInv, BatchIsCall, Open
    <2> QED
      BY <2>1, ZenonT(30) DEF SyncedInv, BatchIsCall, AppliedIds
  <1>4. LateItems' = LateItems
    <2>1. UNCHANGED Heard
      BY <1>1 DEF Heard
    <2> QED
      BY <1>1, <2>1 DEF LateItems, Open
  <1>5. Syncing /\ UNCHANGED late
    BY <1>1, <1>4 DEF SyncedInv, BatchIsCall, Record
  <1> QED
    BY <1>1, <1>2, <1>3, <1>5 DEF Succeed, clearSyncedItems

\* A call that fails: if the manager has not heard of it, nothing of it is applied
\* or ever will be; otherwise its items become late.
LEMMA FailedCall ==
    ASSUME TypeOK, SyncedInv, Sync!Fail, Record, UNCHANGED contents, Slow = Ids
    PROVE  IF calls \in Heard THEN GivenUp ELSE NotApplied
  <1> USE DEF SyncedInv
  <1>1. /\ open # 0 /\ open' = 0
        /\ UNCHANGED <<calls, announced, executed, succeeded, contents>>
    BY DEF Sync!Fail
  <1>2. UNCHANGED Heard /\ Syncing
    BY <1>1 DEF Heard, BatchIsCall
  <1>3. \A pair : pair \in late' <=>
           \E i \in contents : /\ pair = <<i.id, i.document>>
                               /\ i.call \in Heard /\ i.call \notin succeeded
    BY <1>1, <1>2 DEF Record, LateItems, Open
  <1>4. \A pair : pair \in late <=>
           \E i \in contents : /\ pair = <<i.id, i.document>> /\ ~Open(i.call)
                               /\ i.call \in Heard /\ i.call \notin succeeded
    BY DEF LateItems
  <1>5. ASSUME calls \notin Heard
        PROVE  NotApplied
    <2>1. \A i \in contents : Open(i.call) => i.call \notin Heard
      BY <1>5 DEF Open
    <2>2. applied = {}
      BY <2>1, ExecutedIsHeard, Zenon DEF AppliedIds, CallsInOrder
    <2>3. late' = late
      BY <1>3, <1>4, <2>1, ZenonT(30)
    <2> QED
      BY <2>2, <2>3 DEF NotApplied
  <1>6. ASSUME calls \in Heard
        PROVE  GivenUp
    <2> DEFINE batch == {<<id, Effect(dataToSync[id])>> : id \in DOMAIN dataToSync}
    <2>1. \A i \in contents : Open(i.call) =>
             <<i.id, i.document>> \in batch /\ i.call \in Heard /\ i.call \notin succeeded
      BY <1>1, <1>6 DEF BatchIsCall, CallsInOrder, Open
    <2>2. \A pair \in batch : \E i \in contents : Open(i.call) /\ pair = <<i.id, i.document>>
      BY DEF BatchIsCall
    <2> HIDE DEF batch
    <2>3. late' = late \cup batch
      BY <1>3, <1>4, <2>1, <2>2
    <2>4. DOMAIN dataToSync \cap Slow = DOMAIN dataToSync
      BY BatchFacts, Zenon
    <2> QED
      BY <1>2, <2>3, <2>4 DEF GivenUp, batch
  <1> QED
    BY <1>5, <1>6

\* The agent takes its call for failed.
LEMMA FailStep ==
    ASSUME TypeOK, SyncedInv, Fail, Slow = Ids
    PROVE  resetSyncingItems /\ SyncedInv'
  <1>1. /\ Sync!Fail /\ Record /\ EndBatch /\ UNCHANGED <<remote, contents>>
        /\ open # 0 /\ open' = 0
        /\ UNCHANGED <<calls, announced, executed, succeeded>>
    BY DEF Fail, Sync!Fail
  <1>2. SyncedInv' /\ applied' = {}
    BY <1>1, Ended
  <1>3. IF calls \in Heard THEN GivenUp ELSE NotApplied
    BY <1>1, FailedCall
  <1>4. Syncing
    BY <1>1 DEF SyncedInv, BatchIsCall
  <1> QED
    BY <1>1, <1>2, <1>3, <1>4 DEF Fail, Answerless, resetSyncingItems

\* The agent stops, during a call or between two, and is started again.
LEMMA StopStep ==
    ASSUME TypeOK, SyncedInv, Stop, Slow = Ids
    PROVE  Restart /\ SyncedInv'
  <1>1. /\ Record /\ EndBatch /\ UNCHANGED <<remote, contents>> /\ open' = 0
        /\ UNCHANGED <<calls, announced, executed, succeeded>>
    BY DEF Stop, Sync!Fail, callVars
  <1>2. SyncedInv' /\ applied' = {}
    BY <1>1, Ended
  <1>3. CASE open = 0 /\ UNCHANGED callVars /\ Unheard
    <2>1. AppliedIds = {}
      BY <1>3 DEF AppliedIds, Open
    <2>2. LateItems' = LateItems
      BY <1>1, <1>3 DEF LateItems, Open, Heard
    <2>3. NotApplied
      BY <1>1, <2>1, <2>2 DEF NotApplied, SyncedInv, Record
    <2> QED
      BY <1>1, <1>2, <1>3, <2>3 DEF Stop, Restart
  <1>4. CASE Sync!Fail /\ Answerless
    <2>1. IF calls \in Heard THEN GivenUp ELSE NotApplied
      BY <1>1, <1>4, FailedCall
    <2> QED
      BY <1>1, <1>2, <1>4, <2>1 DEF Stop, Answerless, Restart
  <1> QED
    BY <1>3, <1>4 DEF Stop

\* Every step over Synchronization is a step of QueueSync or changes nothing of it,
\* and keeps the two accounts of the calls together.
LEMMA SyncedStep ==
    ASSUME Slow = Ids
    PROVE  /\ SyncedInit => TypeOK /\ SyncedInv
           /\ TypeOK /\ SyncedInv /\ [SyncedNext]_syncedVars => [Next]_vars /\ SyncedInv'
  <1>1. SyncedInit => TypeOK /\ SyncedInv
    <2> SUFFICES ASSUME SyncedInit PROVE TypeOK /\ SyncedInv
      OBVIOUS
    <2>1. TypeOK
      BY TypeInit DEF SyncedInit
    <2>2. AppliedIds = {} /\ LateItems = {}
      BY DEF SyncedInit, AppliedIds, LateItems
    <2>3. BatchIsCall /\ CallsInOrder /\ OneEach
      BY DEF SyncedInit, Init, Sync!Init, NoBatch, BatchIsCall, CallsInOrder, OneEach, Syncing
    <2> QED
      BY <2>1, <2>2, <2>3 DEF SyncedInit, Init, Sync!Init, SyncedInv
  <1>2. ASSUME TypeOK, SyncedInv, [SyncedNext]_syncedVars
        PROVE  [Next]_vars /\ SyncedInv'
    <2>1. ASSUME UNCHANGED <<dataToSync, applied, late, calls, open, announced, executed,
                             succeeded, contents>>
          PROVE  SyncedInv'
      <3>1. UNCHANGED <<Heard, Sync!Items>>
        BY <2>1 DEF Heard, Sync!Items
      <3>2. BatchIsCall' /\ CallsInOrder' /\ OneEach'
        BY <1>2, <2>1, <3>1 DEF SyncedInv, BatchIsCall, CallsInOrder, OneEach, Open, Syncing
      <3>3. UNCHANGED <<AppliedIds, LateItems>>
        BY <2>1, <3>1 DEF AppliedIds, LateItems, Open
      <3> QED
        BY <1>2, <2>1, <3>2, <3>3 DEF SyncedInv
    <2>2. CASE Reported
      <3>1. UNCHANGED <<dataToSync, applied, late>>
        BY <2>2 DEF Reported, Report, Create, Modify, Delete
      <3> QED
        BY <2>1, <2>2, <3>1 DEF Reported, callVars, Next
    <2>3. CASE UNCHANGED syncedVars
      BY <2>1, <2>3 DEF syncedVars, callVars, vars
    <2> QED
      BY <1>2, <2>2, <2>3, BeginStep, AnnounceStep, ApplyStep, SucceedStep, FailStep, StopStep
      DEF SyncedNext, Next
  <1> QED
    BY <1>1, <1>2

\* The manager that QueueSync assumes is one that Synchronization provides: with
\* synchronizeModule calling on it, every behaviour is one of QueueSync.  So what
\* InventorySync is shown to promise carries what is proved of the queue.
THEOREM SyncedIsQueue ==
    ASSUME Slow = Ids
    PROVE  SyncedSpec => Spec
  <1>1. SyncedInit => Init
    BY DEF SyncedInit
  <1> QED
    BY <1>1, SyncedStep, TypeStep, PTL DEF SyncedSpec, Spec

\* The calls of synchronizeModule with their answers are a behaviour of
\* Synchronization: the agent asks no more of it than it promises.
THEOREM SyncedKeepsCalls == SyncedSpec => Sync!Spec
  <1>1. SyncedInit => Sync!Init
    BY DEF SyncedInit
  <1>2. [SyncedNext]_syncedVars => [Sync!Next]_Sync!vars
    BY DEF SyncedNext, syncedVars, Reported, Begin, Announce, Apply, Succeed, Fail, Stop,
           callVars, Sync!Next, Sync!vars
  <1> QED
    BY <1>1, <1>2, PTL DEF SyncedSpec, Sync!Spec

\* The guarantees of the queue hold over any manager that keeps to Synchronization:
\* whatever items it executes, when, and how late, every change a module reported is
\* in the indexer or queued but for the doubtful ids, and a document the module has
\* is lost only for one of the three reasons of NoDocumentLost.
THEOREM SyncedLosesNothing ==
    ASSUME Slow = Ids
    PROVE  SyncedSpec => [](NothingLost /\ NoDocumentLost /\ QueueIsCurrent /\ StatusIsTrue)
  BY SyncedIsQueue, NothingIsLost, DocumentsKept, QueueCurrent, PTL

=============================================================================
