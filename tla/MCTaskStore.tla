---------------------------- MODULE MCTaskStore ----------------------------
(* Small instances of TaskStore: one server on one node. *)
EXTENDS TaskStore, TLC

CONSTANTS s1, n1

MCNodeOf == s1 :> n1

\* Task ids are interchangeable: they are given out in order.
InOrder ==
    \A t, u \in Tasks :
      t < u /\ tasks[u].status # "absent" => tasks[t].status # "absent"

\* At most two of the tasks change the server without touching its backups.
FewChanges == Cardinality({t \in Tasks : jobs[t].type \in {"stop", "reconcile"}}) <= 2

OrderedSpec == StoreInit /\ [][Next /\ InOrder' /\ FewChanges']_vars
=============================================================================
