---------------------------- MODULE BackupStatus ----------------------------
(***************************************************************************)
(* What a recovery point promises, whatever happens to the tasks that work *)
(* on it: the state machine of internal/domain/backup.go.                  *)
(***************************************************************************)
CONSTANTS Backups
VARIABLES status

Statuses == {"absent", "creating", "ready", "failed", "restoring", "deleting",
             "deleted"}

\* BackupStatusTransitionAllowed, with the insertion of the row.
BackupStatusTransitionAllowed(from, to) ==
    \/ from = to
    \/ from = "absent"    /\ to = "creating"
    \/ from = "creating"  /\ to \in {"ready", "failed"}
    \/ from = "failed"    /\ to \in {"creating", "deleting"}
    \/ from = "ready"     /\ to \in {"restoring", "deleting"}
    \/ from = "restoring" /\ to = "ready"
    \/ from = "deleting"  /\ to \in {"ready", "failed", "deleted"}

BackupInit == status = [b \in Backups |-> "absent"]

BackupNext ==
    /\ status' \in [Backups -> Statuses]
    /\ \A b \in Backups : BackupStatusTransitionAllowed(status[b], status'[b])

BackupSpec == BackupInit /\ [][BackupNext]_status
=============================================================================
