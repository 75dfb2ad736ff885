--------------------------- MODULE MCSyncedQueue ---------------------------
(***************************************************************************)
(* The queue over Synchronization, with the payloads of MCQueueSync.       *)
(***************************************************************************)
EXTENDS MCQueueSync, SyncedQueue
=============================================================================
