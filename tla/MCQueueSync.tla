---------------------------- MODULE MCQueueSync ----------------------------
(***************************************************************************)
(* Payloads for TLC: the document of a changes, the others come and go.    *)
(***************************************************************************)
EXTENDS QueueSync

CONSTANTS a, v

MCPayloads == [id \in Ids |-> IF id = a THEN Data ELSE {v}]
=============================================================================
