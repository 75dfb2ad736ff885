-------------------------- MODULE PersistentQueue --------------------------
(***************************************************************************)
(* The agent's SQLite-backed queue of inventory differences                *)
(* (src/src/shared_modules/sync_protocol/src/persistent_queue_storage.cpp, *)
(* persistent_queue.cpp).                                                  *)
(*                                                                         *)
(* The table holds at most one row per document id.  A new difference for  *)
(* an id that already has a row is coalesced into it, also while the row's *)
(* previous content is being synchronized.  Every method runs in one       *)
(* SQLite transaction under PersistentQueue's mutex, so each is one step.  *)
(*                                                                         *)
(* The operators on rows are the statements of the methods; the actions    *)
(* over the table are instantiated by the modules that extend this one.    *)
(***************************************************************************)
EXTENDS Naturals, FiniteSets

CONSTANTS
    Ids,    \* document identifiers (PRIMARY KEY of persistent_queue)
    Data    \* payloads

VARIABLE
    table   \* persistent_queue: a function from the ids that have a row

Operations == {"CREATE", "MODIFY", "DELETE_"}

SyncStatuses == {"PENDING", "SYNCING", "SYNCING_UPDATED"}

CreateStatuses == {"EXISTING", "NEW", "NEW_DELETED"}

Row == [operation         : Operations,
        data              : Data,
        sync_status       : SyncStatuses,
        create_status     : CreateStatuses,
        operation_syncing : Operations \cup {"NO_OP"}]

Tables == UNION {[S -> Row] : S \in SUBSET Ids}

EmptyTable == [id \in {} |-> {}]

-----------------------------------------------------------------------------
(* submitOrCoalesce *)

\* INSERT: the columns not named take their defaults, PENDING and NO_OP.
InsertedRow(op, data) ==
    [operation         |-> op,
     data              |-> data,
     sync_status       |-> "PENDING",
     create_status     |-> IF op = "CREATE" THEN "NEW" ELSE "EXISTING",
     operation_syncing |-> "NO_OP"]

\* What the row remembers of the operation that is on its way to the manager.
NewOperationSyncing(old) ==
    IF old.sync_status = "PENDING" THEN "NO_OP"
    ELSE IF old.operation_syncing = "NO_OP" THEN old.operation
    ELSE old.operation_syncing

NewCreateStatus(old, op) ==
    CASE op = "DELETE_" /\ old.create_status = "NEW" -> "NEW_DELETED"
      [] op # "DELETE_" /\ old.create_status = "NEW_DELETED" -> "NEW"
      [] OTHER -> old.create_status

\* Creation and deletion of a row that was never sent cancel out.
Cancels(old, op) ==
    op = "DELETE_" /\ old.create_status = "NEW" /\ old.sync_status = "PENDING"

\* Faulty: the last two parameters of the UPDATE are bound in the wrong order.
UpdatedRowSwapped(old, op, data) ==
    [operation |-> op, data |-> data, sync_status |-> old.sync_status,
     create_status |-> NewOperationSyncing(old),
     operation_syncing |-> NewCreateStatus(old, op)]

\* Faulty: the payload column is left out of the UPDATE.
UpdatedRowStale(old, op, data) ==
    [operation         |-> op,
     data              |-> old.data,
     sync_status       |-> IF old.sync_status = "PENDING"
                           THEN "PENDING" ELSE "SYNCING_UPDATED",
     create_status     |-> NewCreateStatus(old, op),
     operation_syncing |-> NewOperationSyncing(old)]

\* Faulty: the row keeps its sync_status, as if it had not changed since it was
\* fetched.
UpdatedRowUnmarked(old, op, data) ==
    [operation         |-> op,
     data              |-> data,
     sync_status       |-> old.sync_status,
     create_status     |-> NewCreateStatus(old, op),
     operation_syncing |-> NewOperationSyncing(old)]

UpdatedRow(old, op, data) ==
    [operation         |-> op,
     data              |-> data,
     sync_status       |-> IF old.sync_status = "PENDING"
                           THEN "PENDING" ELSE "SYNCING_UPDATED",
     create_status     |-> NewCreateStatus(old, op),
     operation_syncing |-> NewOperationSyncing(old)]

Without(id) == [i \in DOMAIN table \ {id} |-> table[i]]

With(id, row) ==
    [i \in DOMAIN table \cup {id} |-> IF i = id THEN row ELSE table[i]]

submitOrCoalesce(id, op, data) ==
    table' = IF id \notin DOMAIN table THEN With(id, InsertedRow(op, data))
             ELSE IF Cancels(table[id], op) THEN Without(id)
             ELSE With(id, UpdatedRow(table[id], op, data))

-----------------------------------------------------------------------------
(* fetchAndMarkForSync *)

\* Faulty: deletions are not selected.
PendingUpserts ==
    {id \in DOMAIN table : /\ table[id].sync_status = "PENDING"
                           /\ table[id].operation # "DELETE_"}

Pending == {id \in DOMAIN table : table[id].sync_status = "PENDING"}

\* The vector returned.  Each id has one row, so its order (by rowid) matters
\* to no document and the vector is a function from ids.
Fetched == [id \in Pending |->
              [operation |-> table[id].operation, data |-> table[id].data]]

MarkForSync ==
    table' = [id \in DOMAIN table |->
                IF id \in Pending
                THEN [table[id] EXCEPT !.sync_status = "SYNCING"]
                ELSE table[id]]

-----------------------------------------------------------------------------
(* removeAllSynced and resetAllSyncing: each is an UPDATE and a DELETE *)

InSync(row) == row.sync_status \in {"SYNCING", "SYNCING_UPDATED"}

\* Faulty: rows modified during their synchronization are deleted too.
SyncedOrModified(row) ==
    \/ row.sync_status = "SYNCING"
    \/ InSync(row) /\ row.operation # "DELETE_"

\* Faulty: what is on its way is not looked at.
SyncedOrNewDeleted(row) ==
    row.sync_status = "SYNCING" \/ row.create_status = "NEW_DELETED"

Synced(row) ==
    \/ row.sync_status = "SYNCING"
    \/ /\ row.create_status = "NEW_DELETED"
       /\ row.operation_syncing \in {"NO_OP", "DELETE_"}

\* Faulty: the row stays NEW after its creation was acknowledged.
AfterRemoveStillNew(row) ==
    IF InSync(row)
    THEN [row EXCEPT !.sync_status = "PENDING", !.operation_syncing = "NO_OP"]
    ELSE row

AfterRemove(row) ==
    IF InSync(row)
    THEN [row EXCEPT !.sync_status = "PENDING",
                     !.create_status = "EXISTING",
                     !.operation_syncing = "NO_OP"]
    ELSE row

removeAllSynced ==
    table' = [id \in {i \in DOMAIN table : ~Synced(table[i])} |->
                AfterRemove(table[id])]

\* Faulty: the operation in flight is not cleared.
AfterResetInFlight(row) ==
    IF InSync(row) THEN [row EXCEPT !.sync_status = "PENDING"] ELSE row

AfterReset(row) ==
    IF InSync(row)
    THEN [row EXCEPT !.sync_status = "PENDING", !.operation_syncing = "NO_OP"]
    ELSE row

CreatedAndDeleted(row) ==
    row.operation = "DELETE_" /\ row.create_status = "NEW_DELETED"

resetAllSyncing ==
    table' = [id \in {i \in DOMAIN table : ~CreatedAndDeleted(table[i])} |->
                AfterReset(table[id])]
=============================================================================
