--------------------------- MODULE MCTaskDelivery ---------------------------
(* Small instances of TaskDelivery: the servers of one node. *)
EXTENDS TaskDelivery, TLC

CONSTANTS n1

MCNodeOf == [s \in Servers |-> n1]

\* Workers are interchangeable.
WorkerSymmetry == Permutations(Workers)
=============================================================================
