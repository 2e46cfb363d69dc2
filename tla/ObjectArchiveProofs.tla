------------------------- MODULE ObjectArchiveProofs -------------------------
(***************************************************************************)
(* Theorems about ObjectArchive for any backups, replicas and keys.        *)
(***************************************************************************)
EXTENDS ObjectArchive, TLAPS

USE DEF ArchiveSteps, SweepSteps, LockedSteps

-----------------------------------------------------------------------------
(* Backup rows *)

Removed == {"delete_pending", "deleted"}

(* A row that may stand beside a deletion in state del: a deleted backup is  *)
(* out of the archive, and an open deletion is one of a deleting backup.     *)
Settled(x, del) ==
    /\ x \in BackupRow
    /\ x.status = "deleted" => x.remote \in Removed
    /\ del # "none" => x.status = "deleting"

BackupsInv ==
    /\ backups \in [Backups -> BackupRow]
    /\ deletion \in [Backups -> {"none", "plain", "tombstone"}]
    /\ \A b \in Backups : Settled(backups[b], deletion[b])

(* What any step may do to a row: it stays settled, and once deleted it is   *)
(* never attached.                                                           *)
RowStep(x, y, del) ==
    /\ Settled(y, del)
    /\ x.status = "deleted" => y.status = "deleted" /\ y.attached = x.attached

(* A row that does not change. *)
LEMMA SameRow ==
    ASSUME NEW x, NEW del, Settled(x, del)
    PROVE  RowStep(x, x, del)
BY DEF RowStep

(* DeleteBackup and its failure change only the status. *)
LEMMA StatusRow ==
    ASSUME NEW x, Settled(x, "none"), x.status # "deleted", NEW s \in {"ready", "deleting"}
    PROVE  RowStep(x, [x EXCEPT !.status = s], "none")
BY DEF RowStep, Settled, BackupRow

(* The deletion that commits takes the row out of the archive. *)
LEMMA RemovedRow ==
    ASSUME NEW x, NEW del, Settled(x, del), del # "none", NEW m \in Removed
    PROVE  RowStep(x, [x EXCEPT !.status = "deleted", !.remote = m], "none")
BY DEF RowStep, Settled, BackupRow, Removed

(* The sweeper marks deleted rows. *)
LEMMA FinishedRow ==
    ASSUME NEW x, NEW del, Settled(x, del)
    PROVE  RowStep(x, [x EXCEPT !.remote = "deleted"], del)
BY DEF RowStep, Settled, BackupRow, Removed

(* The lease of a row lapses. *)
LEMMA LapsedRow ==
    ASSUME NEW x, NEW del, Settled(x, del), x.remote = "uploading"
    PROVE  RowStep(x, [x EXCEPT !.expired = TRUE], del)
BY DEF RowStep, Settled, BackupRow, Removed

(* A claim, its failure or its expiry. *)
LEMMA LeasedRow ==
    ASSUME NEW x, NEW del, Settled(x, del), x.remote \notin Removed,
           NEW m \in {"uploading", "failed"}, NEW o \in Replicas \cup {Nothing}
    PROVE  RowStep(x, [x EXCEPT !.remote = m, !.owner = o, !.expired = FALSE], del)
BY DEF RowStep, Settled, BackupRow, Removed

(* An upload ends with its manifest attached. *)
LEMMA AttachedRow ==
    ASSUME NEW x, NEW del, Settled(x, del), x.remote = "uploading"
    PROVE  RowStep(x, [x EXCEPT !.attached = TRUE, !.remote = "ready",
                                !.owner = Nothing, !.expired = FALSE], del)
BY DEF RowStep, Settled, BackupRow, Removed

-----------------------------------------------------------------------------
(* Positions of the replicas and the advisory locks *)

(* A replica between its lookup and its unlock holds the lock of its digest. *)
LockHeld ==
    \A r \in Replicas : proc[r].pc \in LockedSteps => lock[proc[r].digest] = r

PositionsInv ==
    /\ proc \in [Replicas -> Position]
    /\ lock \in [Digests -> Replicas \cup {Nothing}]
    /\ \A r \in Replicas : HasWork(proc[r])
    /\ LockHeld

(* A replica leaves the locked part, or stays outside it. *)
LEMMA MoveUnlocked ==
    ASSUME PositionsInv, NEW r \in Replicas, NEW p \in Position, HasWork(p),
           p.pc \notin LockedSteps,
           proc' = [proc EXCEPT ![r] = p],
           lock' \in [Digests -> Replicas \cup {Nothing}],
           \A d \in Digests : lock'[d] = lock[d] \/ lock[d] = r
    PROVE  PositionsInv'
<1>1. \A q \in Replicas : proc'[q] = IF q = r THEN p ELSE proc[q]
  BY DEF PositionsInv
<1>2. proc' \in [Replicas -> Position]
  BY DEF PositionsInv
<1>3. \A q \in Replicas : HasWork(proc'[q])
  BY <1>1 DEF PositionsInv
<1>4. LockHeld'
  <2> SUFFICES ASSUME NEW q \in Replicas, proc'[q].pc \in LockedSteps
               PROVE  lock'[proc'[q].digest] = q
    BY DEF LockHeld
  <2>1. q # r /\ proc'[q] = proc[q]
    BY <1>1
  <2>2. proc[q].digest \in Digests
    BY <2>1, ObjectArchiveAssumption DEF PositionsInv, HasWork
  <2>3. lock[proc[q].digest] = q
    BY <2>1 DEF PositionsInv, LockHeld
  <2> QED
    BY <2>1, <2>2, <2>3
<1> QED
  BY <1>2, <1>3, <1>4 DEF PositionsInv

(* A replica takes the lock or moves on under it. *)
LEMMA MoveLocked ==
    ASSUME PositionsInv, NEW r \in Replicas, NEW p \in Position, HasWork(p),
           p.digest = proc[r].digest,
           proc' = [proc EXCEPT ![r] = p],
           \/ lock' = lock /\ proc[r].pc \in LockedSteps
           \/ /\ lock' = [lock EXCEPT ![proc[r].digest] = r]
              /\ lock[proc[r].digest] = Nothing /\ proc[r].pc = "lookup"
    PROVE  PositionsInv'
<1>1. \A q \in Replicas : proc'[q] = IF q = r THEN p ELSE proc[q]
  BY DEF PositionsInv
<1>2. proc' \in [Replicas -> Position]
  BY DEF PositionsInv
<1>3. \A q \in Replicas : HasWork(proc'[q])
  BY <1>1 DEF PositionsInv
<1>4. proc[r].digest \in Digests
  BY ObjectArchiveAssumption DEF PositionsInv, HasWork
<1>5. /\ lock' \in [Digests -> Replicas \cup {Nothing}]
      /\ lock'[proc[r].digest] = r
      /\ \A d \in Digests : lock'[d] = lock[d] \/ lock[d] = Nothing
  BY <1>4 DEF PositionsInv, LockHeld
<1>6. LockHeld'
  <2> SUFFICES ASSUME NEW q \in Replicas, proc'[q].pc \in LockedSteps, q # r
               PROVE  lock'[proc'[q].digest] = q
    BY <1>1, <1>5 DEF LockHeld
  <2>1. proc'[q] = proc[q]
    BY <1>1
  <2>2. proc[q].digest \in Digests
    BY <2>1, ObjectArchiveAssumption DEF PositionsInv, HasWork
  <2>3. lock[proc[q].digest] = q /\ q # Nothing
    BY <2>1, ObjectArchiveAssumption DEF PositionsInv, LockHeld
  <2> QED
    BY <1>5, <2>1, <2>2, <2>3
<1> QED
  BY <1>2, <1>3, <1>5, <1>6 DEF PositionsInv

(* Every step keeps the positions and locks in order. *)
LEMMA PositionsStep ==
    ASSUME PositionsInv, [Next]_vars
    PROVE  PositionsInv'
<1>1. ASSUME UNCHANGED <<proc, lock>> PROVE PositionsInv'
  BY <1>1 DEF PositionsInv, LockHeld, HasWork
<1>2. ASSUME NEW step \in {"expire", "claim", "lease"}
      PROVE  IdleAt(step) \in Position /\ HasWork(IdleAt(step)) /\ IdleAt(step).pc \notin LockedSteps
  BY <1>2 DEF IdleAt, Position, HasWork
<1>3. ASSUME NEW r \in Replicas, Archive(r) PROVE PositionsInv'
  <2>1. CASE ExpireUploads(r)
    BY <2>1, <1>2, MoveUnlocked DEF ExpireUploads, PositionsInv
  <2>2. CASE ClaimRemoteBackup(r)
    <3>1. PICK b \in Backups : proc' = [proc EXCEPT ![r] = [pc |-> "lookup", backup |-> b,
                                         digest |-> DigestOf[b], key |-> Nothing]]
      BY <2>2 DEF ClaimRemoteBackup
    <3> DEFINE p == [pc |-> "lookup", backup |-> b, digest |-> DigestOf[b], key |-> Nothing]
    <3>2. p \in Position /\ HasWork(p) /\ p.pc \notin LockedSteps
      BY ObjectArchiveAssumption DEF Position, HasWork
    <3> HIDE DEF p
    <3> QED
      BY <2>2, <3>1, <3>2, MoveUnlocked DEF ClaimRemoteBackup, PositionsInv, p
  <2>3. CASE NothingToArchive(r)
    BY <2>3, <1>2, MoveUnlocked DEF NothingToArchive, PositionsInv
  <2>4. CASE LookupManifest(r)
    <3>1. PICK step \in {"attach", "upload"} : proc' = [proc EXCEPT ![r].pc = step]
      BY <2>4 DEF LookupManifest
    <3>2. [proc[r] EXCEPT !.pc = step] \in Position /\ HasWork([proc[r] EXCEPT !.pc = step])
          /\ [proc[r] EXCEPT !.pc = step].digest = proc[r].digest
      BY <2>4 DEF LookupManifest, PositionsInv, Position, HasWork
    <3> QED
      BY <2>4, <3>1, <3>2, MoveLocked DEF LookupManifest
  <2>5. CASE Upload(r)
    <3>1. PICK k \in DataKeys :
            proc' = [proc EXCEPT ![r] = [@ EXCEPT !.pc = "insert", !.key = k]]
      BY <2>5 DEF Upload, FreshKeys
    <3> DEFINE p == [proc[r] EXCEPT !.pc = "insert", !.key = k]
    <3>2. p \in Position /\ HasWork(p) /\ p.digest = proc[r].digest
      BY <2>5 DEF Upload, PositionsInv, Position, HasWork
    <3>3. proc' = [proc EXCEPT ![r] = p]
      BY <3>1 DEF PositionsInv
    <3> HIDE DEF p
    <3> QED
      BY <2>5, <3>3, <3>2, MoveLocked DEF Upload
  <2>6. CASE Abandon(r) /\ proc[r].pc \in LockedSteps
    BY <2>6, <1>2, MoveUnlocked DEF Abandon, PositionsInv, LockHeld
  <2>7. CASE InsertManifest(r)
    <3>1. [proc[r] EXCEPT !.pc = "attach"] \in Position /\ HasWork([proc[r] EXCEPT !.pc = "attach"])
          /\ [proc[r] EXCEPT !.pc = "attach"].digest = proc[r].digest
      BY <2>7 DEF InsertManifest, PositionsInv, Position, HasWork
    <3> QED
      BY <2>7, <3>1, MoveLocked DEF InsertManifest
  <2>8. CASE AttachManifest(r)
    BY <2>8, <1>2, MoveUnlocked DEF AttachManifest, PositionsInv, LockHeld
  <2> QED
    BY <1>3, <2>1, <2>2, <2>3, <2>4, <2>5, <2>6, <2>7, <2>8
       DEF Archive, UploadFails, InsertConflicts, AttachSuperseded
<1>4. ASSUME NEW r \in Replicas, Sweep(r) PROVE PositionsInv'
  <2>1. CASE LeaseTombstone(r)
    <3>1. PICK d \in Digests : proc' = [proc EXCEPT ![r] = [IdleAt("count") EXCEPT !.digest = d]]
      BY <2>1 DEF LeaseTombstone
    <3> DEFINE p == [IdleAt("count") EXCEPT !.digest = d]
    <3>2. p \in Position /\ HasWork(p) /\ p.pc \notin LockedSteps
      BY DEF Position, HasWork, IdleAt
    <3> HIDE DEF p
    <3> QED
      BY <2>1, <3>1, <3>2, MoveUnlocked DEF LeaseTombstone, PositionsInv, p
  <2>2. CASE proc' = [proc EXCEPT ![r] = IdleAt("lease")] /\ lock' = lock
    BY <2>2, <1>2, MoveUnlocked DEF PositionsInv
  <2>3. CASE NothingToSweep(r)
    BY <2>3, <1>2, MoveUnlocked DEF NothingToSweep, PositionsInv
  <2>4. ASSUME NEW step \in {"delete", "finish"}, proc[r].pc \in {"count", "delete"},
               proc' = [proc EXCEPT ![r].pc = step], lock' = lock
        PROVE  PositionsInv'
    <3>1. [proc[r] EXCEPT !.pc = step] \in Position /\ HasWork([proc[r] EXCEPT !.pc = step])
          /\ [proc[r] EXCEPT !.pc = step].pc \notin LockedSteps
      BY <2>4 DEF PositionsInv, Position, HasWork
    <3> QED
      BY <2>4, <3>1, MoveUnlocked DEF PositionsInv
  <2> QED
    BY <1>4, <2>1, <2>2, <2>3, <2>4
       DEF Sweep, CountReferences, DeleteObject, DeleteObjectFails, FinishTombstone
<1>5. ASSUME NEW r \in Replicas, Crash(r) PROVE PositionsInv'
  BY <1>5, <1>2, MoveUnlocked DEF Crash, PositionsInv
<1>6. ASSUME NEW b \in Backups,
             \/ BackupReady(b) \/ DeleteBackup(b) \/ DeleteFails(b)
             \/ DeletionExecutes(b) \/ DeletionCommits(b) \/ UploadLeaseLapses(b)
      PROVE  PositionsInv'
  BY <1>1, <1>6 DEF BackupReady, DeleteBackup, DeleteFails, DeletionExecutes, DeletionCommits,
                    UploadLeaseLapses
<1>7. ASSUME NEW d \in Digests, TombstoneLeaseLapses(d) PROVE PositionsInv'
  BY <1>1, <1>7 DEF TombstoneLeaseLapses
<1> QED
  BY <1>1, <1>3, <1>4, <1>5, <1>6, <1>7 DEF Next, vars

-----------------------------------------------------------------------------
(* Every step keeps the rows of backups settled. *)

(* A step that changes one row. *)
LEMMA OneRowStep ==
    ASSUME BackupsInv, NEW b \in Backups, NEW x,
           backups' = [backups EXCEPT ![b] = x],
           deletion' \in [Backups -> {"none", "plain", "tombstone"}],
           \A c \in Backups : c # b => deletion'[c] = deletion[c],
           RowStep(backups[b], x, deletion'[b])
    PROVE  \A c \in Backups : RowStep(backups[c], backups'[c], deletion'[c])
<1>1. \A c \in Backups : backups'[c] = IF c = b THEN x ELSE backups[c]
  BY DEF BackupsInv
<1> SUFFICES ASSUME NEW c \in Backups, c # b
             PROVE  RowStep(backups[c], backups'[c], deletion'[c])
  BY <1>1
<1> QED
  BY <1>1, SameRow DEF BackupsInv

(* Every step does to a row what RowStep allows. *)
LEMMA RowsStep ==
    ASSUME BackupsInv, PositionsInv, [Next]_vars
    PROVE  BackupsInv' /\ \A c \in Backups : RowStep(backups[c], backups'[c], deletion'[c])
<1> DEFINE Rows == \A c \in Backups : RowStep(backups[c], backups'[c], deletion'[c])
<1>0. /\ backups \in [Backups -> BackupRow]
      /\ deletion \in [Backups -> {"none", "plain", "tombstone"}]
      /\ \A c \in Backups : Settled(backups[c], deletion[c])
  BY DEF BackupsInv
<1>1. ASSUME UNCHANGED <<backups, deletion>> PROVE BackupsInv' /\ Rows
  BY <1>0, <1>1, SameRow DEF BackupsInv
<1>2. ASSUME NEW b \in Backups, NEW x, NEW del \in {"none", "plain", "tombstone"},
             backups' = [backups EXCEPT ![b] = x],
             deletion' = [deletion EXCEPT ![b] = del],
             RowStep(backups[b], x, del)
      PROVE  BackupsInv' /\ Rows
  <2>1. deletion' \in [Backups -> {"none", "plain", "tombstone"}] /\ deletion'[b] = del
        /\ \A c \in Backups : c # b => deletion'[c] = deletion[c]
    BY <1>0, <1>2
  <2>2. Rows
    BY <1>2, <2>1, OneRowStep
  <2>3. x \in BackupRow
    BY <1>2 DEF RowStep, Settled
  <2>4. backups' \in [Backups -> BackupRow]
    BY <1>0, <1>2, <2>3
  <2> QED
    BY <2>1, <2>2, <2>4 DEF BackupsInv, RowStep
<1>3. ASSUME NEW b \in Backups, NEW x, UNCHANGED deletion,
             backups' = [backups EXCEPT ![b] = x],
             RowStep(backups[b], x, deletion[b])
      PROVE  BackupsInv' /\ Rows
  <2>1. deletion' = [deletion EXCEPT ![b] = deletion[b]] /\ deletion[b] \in {"none", "plain", "tombstone"}
    BY <1>0, <1>3
  <2> QED
    BY <1>2, <1>3, <2>1
<1>4. ASSUME NEW S \in SUBSET Backups, NEW f, UNCHANGED deletion,
             backups' = [b \in Backups |-> IF b \in S THEN f[b] ELSE backups[b]],
             \A b \in S : RowStep(backups[b], f[b], deletion[b])
      PROVE  BackupsInv' /\ Rows
  <2>1. \A b \in Backups : RowStep(backups[b], backups'[b], deletion'[b])
    BY <1>0, <1>4, SameRow
  <2>2. \A b \in Backups : backups'[b] \in BackupRow
    BY <2>1 DEF RowStep, Settled
  <2>3. backups' \in [Backups -> BackupRow]
    BY <1>4, <2>2
  <2> QED
    BY <1>0, <1>4, <2>1, <2>3 DEF BackupsInv, RowStep
<1>5. ASSUME NEW b \in Backups,
             \/ BackupReady(b) \/ DeleteBackup(b) \/ DeleteFails(b)
             \/ DeletionExecutes(b) \/ DeletionCommits(b) \/ UploadLeaseLapses(b)
      PROVE  BackupsInv' /\ Rows
  <2>1. CASE BackupReady(b)
    <3>1. backups[b].status = "creating" /\ deletion[b] = "none"
      BY <1>0, <2>1 DEF BackupReady, Settled
    <3>2. NewBackup \in BackupRow /\ NewBackup.status = "ready"
      BY DEF NewBackup, BackupRow
    <3> QED
      BY <1>3, <2>1, <3>1, <3>2 DEF BackupReady, RowStep, Settled
  <2>2. CASE DeleteBackup(b)
    <3>1. backups[b].status = "ready" /\ deletion[b] = "none"
      BY <1>0, <2>2 DEF DeleteBackup, Settled
    <3> QED
      BY <1>0, <1>3, <2>2, <3>1, StatusRow DEF DeleteBackup
  <2>3. CASE DeleteFails(b)
    BY <1>0, <1>3, <2>3, StatusRow DEF DeleteFails
  <2>4. CASE DeletionExecutes(b)
    <3>1. PICK del \in {"plain", "tombstone"} : deletion' = [deletion EXCEPT ![b] = del]
      BY <2>4 DEF DeletionExecutes
    <3>2. RowStep(backups[b], backups[b], del)
      BY <1>0, <2>4 DEF DeletionExecutes, RowStep, Settled
    <3>3. backups' = [backups EXCEPT ![b] = backups[b]]
      BY <1>0, <2>4 DEF DeletionExecutes
    <3> QED
      BY <1>2, <3>1, <3>2, <3>3
  <2>5. CASE DeletionCommits(b)
    <3>1. PICK m \in Removed :
            backups' = [backups EXCEPT ![b] = [@ EXCEPT !.status = "deleted", !.remote = m]]
      BY <2>5 DEF DeletionCommits, Removed
    <3>2. RowStep(backups[b], [backups[b] EXCEPT !.status = "deleted", !.remote = m], "none")
      BY <1>0, <2>5, RemovedRow DEF DeletionCommits
    <3> QED
      BY <1>2, <2>5, <3>1, <3>2 DEF DeletionCommits
  <2>6. CASE UploadLeaseLapses(b)
    BY <1>0, <1>3, <2>6, LapsedRow DEF UploadLeaseLapses
  <2> QED
    BY <1>5, <2>1, <2>2, <2>3, <2>4, <2>5, <2>6
<1>6. ASSUME NEW r \in Replicas, Archive(r) PROVE BackupsInv' /\ Rows
  <2>1. CASE ExpireUploads(r)
    <3> DEFINE S == {b \in Backups : Lapsed(b)}
               f == [b \in Backups |->
                       [backups[b] EXCEPT !.remote = "failed", !.owner = Nothing, !.expired = FALSE]]
    <3>1. backups' = [b \in Backups |-> IF b \in S THEN f[b] ELSE backups[b]]
      BY <2>1 DEF ExpireUploads
    <3>2. \A b \in S : RowStep(backups[b], f[b], deletion[b])
      BY <1>0, LeasedRow DEF Lapsed, Removed
    <3> HIDE DEF S, f
    <3>3. S \in SUBSET Backups
      BY DEF S
    <3> QED
      BY <1>4, <2>1, <3>1, <3>2, <3>3 DEF ExpireUploads
  <2>2. CASE ClaimRemoteBackup(r)
    <3>1. PICK b \in Backups :
            /\ Claimable(b)
            /\ backups' = [backups EXCEPT ![b] =
                             [@ EXCEPT !.remote = "uploading", !.owner = r, !.expired = FALSE]]
      BY <2>2 DEF ClaimRemoteBackup
    <3>2. RowStep(backups[b], [backups[b] EXCEPT !.remote = "uploading", !.owner = r,
                                                 !.expired = FALSE], deletion[b])
      BY <1>0, <3>1, LeasedRow DEF Claimable, Removed
    <3> QED
      BY <1>3, <2>2, <3>1, <3>2 DEF ClaimRemoteBackup
  <2>3. CASE Abandon(r) /\ proc[r].pc \in LockedSteps
    <3>1. proc[r].backup \in Backups
      BY <2>3 DEF PositionsInv, HasWork
    <3>2. CASE backups' = backups
      BY <1>1, <2>3, <3>2 DEF Abandon
    <3>3. CASE backups' # backups
      <4>1. /\ backups[proc[r].backup].remote = "uploading"
            /\ backups' = [backups EXCEPT ![proc[r].backup] =
                             [@ EXCEPT !.remote = "failed", !.owner = Nothing, !.expired = FALSE]]
        BY <2>3, <3>3 DEF Abandon
      <4>2. RowStep(backups[proc[r].backup],
                    [backups[proc[r].backup] EXCEPT !.remote = "failed", !.owner = Nothing,
                                                    !.expired = FALSE], deletion[proc[r].backup])
        BY <1>0, <3>1, <4>1, LeasedRow DEF Removed
      <4> QED
        BY <1>3, <2>3, <3>1, <4>1, <4>2 DEF Abandon
    <3> QED
      BY <3>2, <3>3
  <2>4. CASE AttachManifest(r)
    <3>1. proc[r].backup \in Backups
      BY <2>4 DEF AttachManifest, PositionsInv, HasWork
    <3>2. RowStep(backups[proc[r].backup],
                  [backups[proc[r].backup] EXCEPT !.attached = TRUE, !.remote = "ready",
                                !.owner = Nothing, !.expired = FALSE], deletion[proc[r].backup])
      BY <1>0, <2>4, <3>1, AttachedRow DEF AttachManifest, Attachable
    <3> QED
      BY <1>3, <2>4, <3>1, <3>2 DEF AttachManifest
  <2>5. CASE NothingToArchive(r) \/ LookupManifest(r) \/ Upload(r) \/ InsertManifest(r)
    BY <1>1, <2>5 DEF NothingToArchive, LookupManifest, Upload, InsertManifest
  <2> QED
    BY <1>6, <2>1, <2>2, <2>3, <2>4, <2>5
       DEF Archive, UploadFails, InsertConflicts, AttachSuperseded
<1>7. ASSUME NEW r \in Replicas, Sweep(r) PROVE BackupsInv' /\ Rows
  <2>1. CASE FinishTombstone(r)
    <3> DEFINE S == {b \in Backups : backups[b].attached /\ DigestOf[b] = proc[r].digest
                                      /\ backups[b].status = "deleted"}
               f == [b \in Backups |-> [backups[b] EXCEPT !.remote = "deleted"]]
    <3>1. backups' = [b \in Backups |-> IF b \in S THEN f[b] ELSE backups[b]]
      BY <2>1 DEF FinishTombstone
    <3>2. \A b \in S : RowStep(backups[b], f[b], deletion[b])
      BY <1>0, FinishedRow
    <3> HIDE DEF S, f
    <3>3. S \in SUBSET Backups
      BY DEF S
    <3> QED
      BY <1>4, <2>1, <3>1, <3>2, <3>3 DEF FinishTombstone
  <2>2. CASE LeaseTombstone(r) \/ NothingToSweep(r) \/ CountReferences(r)
             \/ DeleteObject(r) \/ DeleteObjectFails(r)
    BY <1>1, <2>2 DEF LeaseTombstone, NothingToSweep, CountReferences, DeleteObject, DeleteObjectFails
  <2> QED
    BY <1>7, <2>1, <2>2 DEF Sweep
<1>8. ASSUME NEW r \in Replicas, Crash(r) PROVE BackupsInv' /\ Rows
  BY <1>1, <1>8 DEF Crash
<1>9. ASSUME NEW d \in Digests, TombstoneLeaseLapses(d) PROVE BackupsInv' /\ Rows
  BY <1>1, <1>9 DEF TombstoneLeaseLapses
<1> HIDE DEF Rows
<1>10. BackupsInv' /\ Rows
  BY <1>1, <1>5, <1>6, <1>7, <1>8, <1>9 DEF Next, vars
<1> QED
  BY <1>10 DEF Rows

-----------------------------------------------------------------------------
(* Manifests and objects, when Put replaces what is there (S3) *)

(* Under the lock no one else inserts: the manifest is still not active. *)
UploadsWhenInactive ==
    \A r \in Replicas :
        proc[r].pc \in {"upload", "insert"} => manifests[proc[r].digest].status # "active"

(* Under the lock no one else uploads: the object is the one just put, or gone. *)
InsertFits ==
    \A r \in Replicas :
        proc[r].pc = "insert" => objects[proc[r].digest] \in {proc[r].key, Nothing}

ContentInv ==
    /\ manifests \in [Digests -> ManifestRow]
    /\ objects \in [Digests -> DataKeys \cup {Nothing}]
    /\ UploadsWhenInactive /\ InsertFits /\ RemoteReadable

(* Two replicas in the locked part have different digests. *)
LEMMA LockExcludes ==
    ASSUME PositionsInv, NEW r \in Replicas, NEW q \in Replicas, q # r,
           proc[r].pc \in LockedSteps, proc[q].pc \in LockedSteps
    PROVE  proc[q].digest # proc[r].digest
BY DEF PositionsInv, LockHeld

(* A step in which no replica enters the locked part and manifests and       *)
(* objects only disappear.                                                   *)
LEMMA NothingAdded ==
    ASSUME ContentInv, PositionsInv,
           \A q \in Replicas : proc'[q].pc \in {"upload", "insert"} => proc'[q] = proc[q],
           manifests' \in [Digests -> ManifestRow],
           \A d \in Digests : manifests'[d] = manifests[d] \/ manifests'[d].status # "active",
           objects' \in [Digests -> DataKeys \cup {Nothing}],
           \A d \in Digests : objects'[d] \in {objects[d], Nothing}
    PROVE  ContentInv'
<1>1. \A q \in Replicas : proc[q].pc \in {"upload", "insert"} => proc[q].digest \in Digests
  BY ObjectArchiveAssumption DEF PositionsInv, HasWork
<1>2. UploadsWhenInactive'
  BY <1>1 DEF ContentInv, UploadsWhenInactive
<1>3. InsertFits'
  BY <1>1 DEF ContentInv, InsertFits
<1>4. RemoteReadable'
  BY DEF ContentInv, RemoteReadable
<1> QED
  BY <1>2, <1>3, <1>4 DEF ContentInv

(* Every step keeps manifests and objects in agreement. *)
LEMMA ContentStep ==
    ASSUME ContentInv, PositionsInv, ~KeepsExisting, [Next]_vars
    PROVE  ContentInv'
<1>0. /\ manifests \in [Digests -> ManifestRow]
      /\ objects \in [Digests -> DataKeys \cup {Nothing}]
      /\ proc \in [Replicas -> Position]
  BY DEF ContentInv, PositionsInv
<1>1. ASSUME UNCHANGED <<manifests, objects, proc>> PROVE ContentInv'
  BY <1>1, NothingAdded, <1>0
<1>2. ASSUME NEW r \in Replicas, NEW p, UNCHANGED <<manifests, objects>>,
             proc' = [proc EXCEPT ![r] = p], p.pc \notin {"upload", "insert"}
      PROVE  ContentInv'
  <2>1. \A q \in Replicas : proc'[q] = IF q = r THEN p ELSE proc[q]
    BY <1>0, <1>2
  <2> QED
    BY <1>0, <1>2, <2>1, NothingAdded
<1>3. \A step \in {"expire", "claim", "lease"} : IdleAt(step).pc \notin {"upload", "insert"}
  BY DEF IdleAt
<1>4. ASSUME NEW r \in Replicas, LookupManifest(r) PROVE ContentInv'
  <2> DEFINE d == proc[r].digest
  <2>1. d \in Digests
    BY <1>4, ObjectArchiveAssumption DEF LookupManifest, PositionsInv, HasWork
  <2>2. CASE manifests[d].status = "active"
    <3>1. proc' = [proc EXCEPT ![r] = [@ EXCEPT !.pc = "attach"]]
      BY <1>4, <2>2 DEF LookupManifest
    <3>2. [proc[r] EXCEPT !.pc = "attach"].pc = "attach"
      BY <1>0 DEF Position
    <3> QED
      BY <1>2, <1>4, <3>1, <3>2 DEF LookupManifest
  <2>3. CASE manifests[d].status # "active"
    <3>1. proc' = [proc EXCEPT ![r] = [@ EXCEPT !.pc = "upload"]] /\ UNCHANGED <<manifests, objects>>
      BY <1>4, <2>3 DEF LookupManifest
    <3>2. proc'[r].pc = "upload" /\ proc'[r].digest = d
          /\ \A q \in Replicas : q # r => proc'[q] = proc[q]
      BY <1>0, <3>1 DEF Position
    <3> QED
      BY <2>3, <3>1, <3>2 DEF ContentInv, UploadsWhenInactive, InsertFits, RemoteReadable
  <2> QED
    BY <2>2, <2>3
<1>5. ASSUME NEW r \in Replicas, Upload(r) PROVE ContentInv'
  <2> DEFINE d == proc[r].digest
  <2>1. d \in Digests
    BY <1>5, ObjectArchiveAssumption DEF Upload, PositionsInv, HasWork
  <2>2. PICK k \in DataKeys :
          /\ objects' = [objects EXCEPT ![d] = k]
          /\ proc' = [proc EXCEPT ![r] = [@ EXCEPT !.pc = "insert", !.key = k]]
    BY <1>5 DEF Upload, FreshKeys, Stored
  <2>3. proc'[r].pc = "insert" /\ proc'[r].digest = d /\ proc'[r].key = k
        /\ \A q \in Replicas : q # r => proc'[q] = proc[q]
    BY <1>0, <2>2 DEF Position
  <2>4. /\ objects' \in [Digests -> DataKeys \cup {Nothing}] /\ objects'[d] = k
        /\ \A e \in Digests : e # d => objects'[e] = objects[e]
    BY <1>0, <2>1, <2>2
  <2>5. manifests[d].status # "active" /\ UNCHANGED manifests /\ proc[r].pc = "upload"
    BY <1>5 DEF Upload, ContentInv, UploadsWhenInactive
  <2>6. \A q \in Replicas : q # r /\ proc[q].pc \in LockedSteps =>
                             proc[q].digest \in Digests /\ proc[q].digest # d
    BY <2>5, LockExcludes, ObjectArchiveAssumption DEF PositionsInv, HasWork
  <2>7. UploadsWhenInactive'
    BY <2>3, <2>5 DEF ContentInv, UploadsWhenInactive
  <2>8. InsertFits'
    <3> SUFFICES ASSUME NEW q \in Replicas, proc'[q].pc = "insert", q # r
                 PROVE  objects'[proc'[q].digest] \in {proc'[q].key, Nothing}
      BY <2>3, <2>4 DEF InsertFits
    <3>1. proc'[q] = proc[q] /\ proc[q].digest \in Digests /\ proc[q].digest # d
      BY <2>3, <2>6
    <3> QED
      BY <2>4, <3>1 DEF ContentInv, InsertFits
  <2>9. RemoteReadable'
    BY <2>4, <2>5 DEF ContentInv, RemoteReadable
  <2> QED
    BY <1>0, <2>4, <2>5, <2>7, <2>8, <2>9 DEF ContentInv
<1>6. ASSUME NEW r \in Replicas, InsertManifest(r) PROVE ContentInv'
  <2> DEFINE d == proc[r].digest
             row == [status |-> "active", key |-> proc[r].key]
  <2>1. d \in Digests
    BY <1>6, ObjectArchiveAssumption DEF InsertManifest, PositionsInv, HasWork
  <2>2. /\ manifests' = [manifests EXCEPT ![d] = row] /\ UNCHANGED objects
        /\ proc' = [proc EXCEPT ![r] = [@ EXCEPT !.pc = "attach"]] /\ proc[r].pc = "insert"
    BY <1>6 DEF InsertManifest
  <2>3. row \in ManifestRow /\ row.key = proc[r].key
    BY <1>0 DEF ManifestRow, Position
  <2>4. proc'[r].pc = "attach" /\ \A q \in Replicas : q # r => proc'[q] = proc[q]
    BY <1>0, <2>2 DEF Position
  <2> HIDE DEF row
  <2>5. /\ manifests' \in [Digests -> ManifestRow] /\ manifests'[d] = row
        /\ \A e \in Digests : e # d => manifests'[e] = manifests[e]
    BY <1>0, <2>1, <2>2, <2>3
  <2>6. \A q \in Replicas : q # r /\ proc[q].pc \in LockedSteps =>
                             proc[q].digest \in Digests /\ proc[q].digest # d
    BY <2>2, LockExcludes, ObjectArchiveAssumption DEF PositionsInv, HasWork
  <2>7. UploadsWhenInactive'
    <3> SUFFICES ASSUME NEW q \in Replicas, proc'[q].pc \in {"upload", "insert"}
                 PROVE  manifests'[proc'[q].digest].status # "active"
      BY DEF UploadsWhenInactive
    <3>1. q # r /\ proc'[q] = proc[q]
      BY <2>4
    <3> QED
      BY <2>5, <2>6, <3>1 DEF ContentInv, UploadsWhenInactive
  <2>8. InsertFits'
    BY <2>2, <2>4 DEF ContentInv, InsertFits
  <2>9. RemoteReadable'
    BY <2>2, <2>3, <2>5 DEF ContentInv, RemoteReadable, InsertFits
  <2> QED
    BY <1>0, <2>2, <2>5, <2>7, <2>8, <2>9 DEF ContentInv
<1>7. ASSUME NEW r \in Replicas, Archive(r) PROVE ContentInv'
  <2>1. CASE ExpireUploads(r) \/ NothingToArchive(r) \/ Abandon(r) \/ AttachManifest(r)
    BY <1>2, <1>3, <2>1 DEF ExpireUploads, NothingToArchive, Abandon, AttachManifest
  <2>2. CASE ClaimRemoteBackup(r)
    BY <1>2, <2>2 DEF ClaimRemoteBackup
  <2> QED
    BY <1>4, <1>5, <1>6, <1>7, <2>1, <2>2
       DEF Archive, UploadFails, InsertConflicts, AttachSuperseded
<1>8. ASSUME NEW r \in Replicas, Sweep(r) PROVE ContentInv'
  <2>0. \A step \in {"delete", "finish"} : [proc[r] EXCEPT !.pc = step].pc = step
    BY <1>0 DEF Position
  <2>1. CASE LeaseTombstone(r)
    <3>1. PICK d \in Digests : proc' = [proc EXCEPT ![r] = [IdleAt("count") EXCEPT !.digest = d]]
      BY <2>1 DEF LeaseTombstone
    <3>2. [IdleAt("count") EXCEPT !.digest = d].pc = "count"
      BY DEF IdleAt
    <3> QED
      BY <1>2, <2>1, <3>1, <3>2 DEF LeaseTombstone
  <2>2. CASE NothingToSweep(r) \/ DeleteObjectFails(r)
    BY <1>2, <1>3, <2>2 DEF NothingToSweep, DeleteObjectFails
  <2>3. CASE CountReferences(r)
    BY <1>2, <1>3, <2>0, <2>3 DEF CountReferences
  <2>4. CASE DeleteObject(r)
    <3>1. \A q \in Replicas : proc'[q].pc \in {"upload", "insert"} => proc'[q] = proc[q]
      BY <1>0, <2>0, <2>4 DEF DeleteObject
    <3>2. /\ objects' \in [Digests -> DataKeys \cup {Nothing}]
          /\ \A d \in Digests : objects'[d] \in {objects[d], Nothing}
      BY <1>0, <2>4 DEF DeleteObject
    <3> QED
      BY <1>0, <2>4, <3>1, <3>2, NothingAdded DEF DeleteObject
  <2>5. CASE FinishTombstone(r)
    <3>1. \A q \in Replicas : proc'[q].pc \in {"upload", "insert"} => proc'[q] = proc[q]
      BY <1>0, <1>3, <2>5 DEF FinishTombstone
    <3>2. \A x \in ManifestRow : /\ [x EXCEPT !.status = "deleted"] \in ManifestRow
                                 /\ [x EXCEPT !.status = "deleted"].status # "active"
      BY DEF ManifestRow
    <3>3. /\ manifests' \in [Digests -> ManifestRow]
          /\ \A d \in Digests : manifests'[d] = manifests[d] \/ manifests'[d].status # "active"
      BY <1>0, <2>5, <3>2 DEF FinishTombstone
    <3> QED
      BY <1>0, <2>5, <3>1, <3>3, NothingAdded DEF FinishTombstone
  <2> QED
    BY <1>8, <2>1, <2>2, <2>3, <2>4, <2>5 DEF Sweep
<1>9. ASSUME NEW r \in Replicas, Crash(r) PROVE ContentInv'
  BY <1>2, <1>3, <1>9 DEF Crash
<1>10. ASSUME NEW b \in Backups,
             \/ BackupReady(b) \/ DeleteBackup(b) \/ DeleteFails(b)
             \/ DeletionExecutes(b) \/ DeletionCommits(b) \/ UploadLeaseLapses(b)
      PROVE  ContentInv'
  BY <1>1, <1>10 DEF BackupReady, DeleteBackup, DeleteFails, DeletionExecutes, DeletionCommits,
                    UploadLeaseLapses
<1>11. ASSUME NEW d \in Digests, TombstoneLeaseLapses(d) PROVE ContentInv'
  BY <1>1, <1>11 DEF TombstoneLeaseLapses
<1> QED
  BY <1>1, <1>7, <1>8, <1>9, <1>10, <1>11 DEF Next, vars

-----------------------------------------------------------------------------
(* The types of the other tables, whatever the store does *)

TablesInv ==
    /\ manifests \in [Digests -> ManifestRow]
    /\ objects \in [Digests -> DataKeys \cup {Nothing}]
    /\ tombs \in [Digests -> TombRow]
    /\ crashes \in 0..MaxCrashes

(* Every step keeps the types of manifests, objects and tombstones. *)
LEMMA TablesStep ==
    ASSUME TablesInv, PositionsInv, [Next]_vars
    PROVE  TablesInv'
<1>1. ASSUME UNCHANGED <<manifests, objects, tombs, crashes>> PROVE TablesInv'
  BY <1>1 DEF TablesInv
<1>2. ASSUME NEW d, NEW x \in TombRow, tombs' = [tombs EXCEPT ![d] = x] \/ tombs' = tombs,
             UNCHANGED <<manifests, objects, crashes>>
      PROVE  TablesInv'
  BY <1>2 DEF TablesInv
<1>3. NoTomb \in TombRow /\ \A m \in {"pending", "failed", "completed"} :
                                [NoTomb EXCEPT !.status = m] \in TombRow
  BY DEF NoTomb, TombRow
<1>4. ASSUME NEW r \in Replicas, Archive(r) PROVE TablesInv'
  <2>1. CASE Upload(r)
    <3>1. PICK k \in DataKeys : objects' = [objects EXCEPT ![proc[r].digest] = Stored(@, k)]
      BY <2>1 DEF Upload, FreshKeys
    <3>2. \A o \in DataKeys \cup {Nothing} : Stored(o, k) \in DataKeys \cup {Nothing}
      BY DEF Stored
    <3>3. objects' \in [Digests -> DataKeys \cup {Nothing}]
      BY <3>1, <3>2 DEF TablesInv
    <3> QED
      BY <2>1, <3>3 DEF Upload, TablesInv
  <2>2. CASE InsertManifest(r)
    <3>1. [status |-> "active", key |-> proc[r].key] \in ManifestRow
      BY DEF PositionsInv, Position, ManifestRow
    <3> QED
      BY <2>2, <3>1 DEF InsertManifest, TablesInv
  <2> QED
    BY <1>1, <1>4, <2>1, <2>2
       DEF Archive, ExpireUploads, ClaimRemoteBackup, NothingToArchive, LookupManifest,
           UploadFails, InsertConflicts, AttachSuperseded, AttachManifest, Abandon
<1>5. ASSUME NEW r \in Replicas, Sweep(r) PROVE TablesInv'
  <2>1. CASE LeaseTombstone(r)
    <3>1. [status |-> "leased", owner |-> r, expired |-> FALSE] \in TombRow
      BY DEF TombRow
    <3> QED
      BY <1>2, <2>1, <3>1 DEF LeaseTombstone
  <2>2. CASE CountReferences(r) \/ DeleteObjectFails(r)
    BY <1>2, <1>3, <2>2 DEF CountReferences, DeleteObjectFails, TombAfter
  <2>3. CASE DeleteObject(r)
    BY <2>3 DEF DeleteObject, TablesInv
  <2>4. CASE FinishTombstone(r)
    <3>1. \A x \in ManifestRow : [x EXCEPT !.status = "deleted"] \in ManifestRow
      BY DEF ManifestRow
    <3>2. manifests' \in [Digests -> ManifestRow]
      BY <2>4, <3>1 DEF FinishTombstone, TablesInv
    <3>3. tombs' \in [Digests -> TombRow]
      BY <1>3, <2>4 DEF FinishTombstone, TombAfter, TablesInv
    <3> QED
      BY <2>4, <3>2, <3>3 DEF FinishTombstone, TablesInv
  <2>5. CASE NothingToSweep(r)
    BY <1>1, <2>5 DEF NothingToSweep
  <2> QED
    BY <1>5, <2>1, <2>2, <2>3, <2>4, <2>5 DEF Sweep
<1>6. ASSUME NEW r \in Replicas, Crash(r) PROVE TablesInv'
  BY <1>6, ObjectArchiveAssumption DEF Crash, TablesInv
<1>7. ASSUME NEW b \in Backups,
             \/ BackupReady(b) \/ DeleteBackup(b) \/ DeleteFails(b)
             \/ DeletionExecutes(b) \/ DeletionCommits(b) \/ UploadLeaseLapses(b)
      PROVE  TablesInv'
  <2>1. CASE DeletionCommits(b)
    <3>1. \A x \in TombRow : Entombed(x) \in TombRow
      BY <1>3 DEF Entombed
    <3>2. tombs' \in [Digests -> TombRow]
      BY <2>1, <3>1 DEF DeletionCommits, TablesInv
    <3> QED
      BY <2>1, <3>2 DEF DeletionCommits, TablesInv
  <2> QED
    BY <1>1, <1>7, <2>1
       DEF BackupReady, DeleteBackup, DeleteFails, DeletionExecutes, UploadLeaseLapses
<1>8. ASSUME NEW d \in Digests, TombstoneLeaseLapses(d) PROVE TablesInv'
  <2>1. \A x \in TombRow : [x EXCEPT !.expired = TRUE] \in TombRow
    BY DEF TombRow
  <2>2. [tombs[d] EXCEPT !.expired = TRUE] \in TombRow
    BY <2>1 DEF TablesInv
  <2> QED
    BY <1>2, <1>8, <2>2 DEF TombstoneLeaseLapses
<1> QED
  BY <1>1, <1>4, <1>5, <1>6, <1>7, <1>8 DEF Next, vars

-----------------------------------------------------------------------------
(* The initial state. *)
LEMMA InitArchive == Init => BackupsInv /\ PositionsInv /\ ContentInv /\ TablesInv
<1> SUFFICES ASSUME Init PROVE BackupsInv /\ PositionsInv /\ ContentInv /\ TablesInv
  OBVIOUS
<1>1. BackupsInv
  <2>1. [NewBackup EXCEPT !.status = "creating"] \in BackupRow
        /\ [NewBackup EXCEPT !.status = "creating"].status = "creating"
    BY DEF NewBackup, BackupRow
  <2> QED
    BY <2>1 DEF Init, BackupsInv, Settled
<1>2. PositionsInv
  <2>1. IdleAt("expire") \in Position /\ HasWork(IdleAt("expire")) /\ IdleAt("expire").pc = "expire"
    BY DEF IdleAt, Position, HasWork
  <2> QED
    BY <2>1 DEF Init, PositionsInv, LockHeld
<1>3. TablesInv
  <2>1. [status |-> "none", key |-> Nothing] \in ManifestRow /\ NoTomb \in TombRow
    BY DEF ManifestRow, NoTomb, TombRow
  <2> QED
    BY <2>1, ObjectArchiveAssumption DEF Init, TablesInv
<1>4. ContentInv
  <2>1. \A r \in Replicas : proc[r].pc = "expire"
    BY DEF Init, IdleAt
  <2>2. UploadsWhenInactive /\ InsertFits
    BY <2>1 DEF UploadsWhenInactive, InsertFits
  <2>3. RemoteReadable
    BY DEF Init, RemoteReadable
  <2> QED
    BY <1>3, <2>2, <2>3 DEF ContentInv, TablesInv
<1> QED
  BY <1>1, <1>2, <1>3, <1>4

(* The rows, positions and locks keep their shape in every behaviour. *)
LEMMA ArchiveInvariant == Spec => [](BackupsInv /\ PositionsInv /\ TablesInv)
<1>1. Init => BackupsInv /\ PositionsInv /\ TablesInv
  BY InitArchive
<1>2. BackupsInv /\ PositionsInv /\ TablesInv /\ [Next]_vars
        => (BackupsInv /\ PositionsInv /\ TablesInv)'
  BY RowsStep, PositionsStep, TablesStep
<1> QED
  BY <1>1, <1>2, PTL DEF Spec

(* Rows, objects, locks and loop positions are ones the code can produce     *)
(* (object_backups.go with its tables).                                      *)
THEOREM ArchiveTypeCorrect == Spec => []ArchiveTypeOK
<1>1. BackupsInv /\ PositionsInv /\ TablesInv => ArchiveTypeOK
  BY DEF BackupsInv, PositionsInv, TablesInv, ArchiveTypeOK
<1> QED
  BY <1>1, ArchiveInvariant, PTL

(* With a store whose Put replaces the object (S3.Put), an active manifest   *)
(* always fits the object under its key: the advisory lock of                *)
(* archiveRemoteBackup is enough, whatever leases lapse or replicas crash.   *)
THEOREM ArchiveReadable == ASSUME ~KeepsExisting PROVE Spec => []RemoteReadable
<1>1. Init => PositionsInv /\ ContentInv
  BY InitArchive
<1>2. PositionsInv /\ ContentInv /\ [Next]_vars => (PositionsInv /\ ContentInv)'
  BY PositionsStep, ContentStep
<1>3. ContentInv => RemoteReadable
  BY DEF ContentInv
<1> QED
  BY <1>1, <1>2, <1>3, PTL DEF Spec

(* No step of the archive takes a deleted backup up again                    *)
(* (attachObjectManifest, failRemoteBackup, CompleteTask).                   *)
THEOREM DeletedIsFinal == Spec => DeletedStaysDetached
<1> DEFINE Kept == \A b \in Backups :
                     backups[b].status = "deleted" =>
                        /\ backups'[b].attached = backups[b].attached
                        /\ backups'[b].remote \in {"delete_pending", "deleted"}
<1>1. BackupsInv /\ PositionsInv /\ [Next]_vars => Kept
  BY RowsStep DEF RowStep, Settled, Removed
<1>2. BackupsInv /\ PositionsInv /\ [Next]_vars => [Kept]_vars
  BY <1>1
<1> HIDE DEF Kept
<1>3. Spec => [][Kept]_vars
  BY <1>2, ArchiveInvariant, PTL DEF Spec
<1> QED
  BY <1>3 DEF DeletedStaysDetached, Kept
=============================================================================
