---------------------------- MODULE ObjectArchive ----------------------------
(***************************************************************************)
(* The remote archive of backups: every control plane replica runs one     *)
(* loop that uploads finished backups to the object store and deletes      *)
(* objects nobody refers to (store/object_backups.go, objectstore/,        *)
(* cmd/control-plane/main.go).  Equal content is stored once, under one    *)
(* object key and one manifest row per digest.                             *)
(*                                                                         *)
(* A replica is identified with the lease owner it mints for each claim:   *)
(* it works on one claim at a time and forgets it in a crash, so its       *)
(* earlier owners are never presented again.                               *)
(***************************************************************************)
EXTENDS ControlPlane, Naturals, FiniteSets

CONSTANTS
    Backups,        \* recovery points: numbers, in the order of created_at
    Digests,        \* digests of their contents
    DigestOf,       \* content of each backup
    DataKeys,       \* AES keys that encrypt the objects
    Deletable,      \* backups a user may delete
    Flaky,          \* backups whose download or upload may fail
    StoreFails,     \* may storage.Delete fail?
    KeepsExisting,  \* Local.Put keeps an object that is there, S3.Put replaces it
    Prompt,         \* is every claim worked off before its lease lapses, but for crashes?
    MaxCrashes,     \* bound on crashes of replicas
    Nothing         \* "no key", "no replica"

ASSUME ObjectArchiveAssumption ==
    /\ Backups \subseteq Nat
    /\ DigestOf \in [Backups -> Digests]
    /\ Deletable \subseteq Backups /\ Flaky \subseteq Backups
    /\ StoreFails \in BOOLEAN /\ KeepsExisting \in BOOLEAN /\ Prompt \in BOOLEAN
    /\ MaxCrashes \in Nat
    /\ Nothing \notin DataKeys /\ Nothing \notin Replicas

VARIABLES
    backups,    \* rows of backups: status, remote_status, lease, object_manifest_id set?
    manifests,  \* rows of object_manifests: status, data key
    objects,    \* the object store: the data key each object is encrypted with
    tombs,      \* rows of object_tombstones: status, lease
    lock,       \* pg_advisory_lock on a digest: its holder
    deletion,   \* open transaction that deletes a backup: does it insert a tombstone?
    proc,       \* where each replica's loop is, and what it works on
    crashes     \* crashes so far

vars == <<backups, manifests, objects, tombs, lock, deletion, proc, crashes>>

ArchiveSteps == {"expire", "claim", "lookup", "upload", "insert", "attach"}
SweepSteps == {"lease", "count", "delete", "finish"}
LockedSteps == {"upload", "insert", "attach"}

(* A backup as CompleteTask leaves it when the archive is made. *)
NewBackup == [status |-> "ready", remote |-> "pending", owner |-> Nothing,
              expired |-> FALSE, attached |-> FALSE]

NoTomb == [status |-> "none", owner |-> Nothing, expired |-> FALSE]

IdleAt(step) == [pc |-> step, backup |-> Nothing, digest |-> Nothing, key |-> Nothing]

Init ==
    /\ backups = [b \in Backups |-> [NewBackup EXCEPT !.status = "creating"]]
    /\ manifests = [d \in Digests |-> [status |-> "none", key |-> Nothing]]
    /\ objects = [d \in Digests |-> Nothing]
    /\ tombs = [d \in Digests |-> NoTomb]
    /\ lock = [d \in Digests |-> Nothing]
    /\ deletion = [b \in Backups |-> "none"]
    /\ proc = [r \in Replicas |-> IdleAt("expire")]
    /\ crashes = 0

-----------------------------------------------------------------------------
(* The life of a backup outside the archive: its creation ends, its        *)
(* deletion is requested, fails, or is completed.                          *)

BackupReady(b) ==
    /\ backups[b].status = "creating"
    /\ backups' = [backups EXCEPT ![b] = NewBackup]
    /\ UNCHANGED <<manifests, objects, tombs, lock, deletion, proc, crashes>>

DeleteBackup(b) ==
    /\ b \in Deletable /\ backups[b].status = "ready"
    /\ backups' = [backups EXCEPT ![b].status = "deleting"]
    /\ UNCHANGED <<manifests, objects, tombs, lock, deletion, proc, crashes>>

DeleteFails(b) ==
    /\ backups[b].status = "deleting" /\ deletion[b] = "none"
    /\ backups' = [backups EXCEPT ![b].status = "ready"]
    /\ UNCHANGED <<manifests, objects, tombs, lock, deletion, proc, crashes>>

(* Backups that refer to the manifest of d and are not deleted. *)
References(d) ==
    {b \in Backups : backups[b].attached /\ DigestOf[b] = d /\ backups[b].status # "deleted"}

(* The statements of CompleteTask for a backup-delete task.  The NOT EXISTS *)
(* subquery sees what other transactions have committed (READ COMMITTED)   *)
(* and the row stays locked until DeletionCommits.                          *)
DeletionExecutes(b) ==
    /\ backups[b].status = "deleting" /\ deletion[b] = "none"
    /\ deletion' = [deletion EXCEPT ![b] =
         IF backups[b].attached /\ References(DigestOf[b]) \subseteq {b}
         THEN "tombstone" ELSE "plain"]
    /\ UNCHANGED <<backups, manifests, objects, tombs, lock, proc, crashes>>

(* INSERT INTO object_tombstones ... ON CONFLICT DO UPDATE *)
Entombed(tomb) ==
    IF tomb.status \in {"none", "completed"}
    THEN [NoTomb EXCEPT !.status = "pending"] ELSE tomb

DeletionCommits(b) ==
    /\ deletion[b] # "none"
    /\ deletion' = [deletion EXCEPT ![b] = "none"]
    /\ backups' = [backups EXCEPT ![b] = [@ EXCEPT !.status = "deleted",
                     !.remote = IF backups[b].attached THEN "delete_pending" ELSE "deleted"]]
    /\ tombs' = IF deletion[b] = "tombstone"
                THEN [tombs EXCEPT ![DigestOf[b]] = Entombed(@)] ELSE tombs
    /\ UNCHANGED <<manifests, objects, lock, proc, crashes>>

-----------------------------------------------------------------------------
(* ArchivePendingBackups, the first half of a replica's loop.  Its limit of *)
(* four successes is not reached with up to four backups.                   *)

(* Variant: an upload lease has no end. *)
NeverLapsed(b) == FALSE

Lapsed(b) == backups[b].remote = "uploading" /\ backups[b].expired

(* The UPDATE waits for rows that an open deletion has locked. *)
ExpireUploads(r) ==
    /\ proc[r].pc = "expire"
    /\ \A b \in Backups : Lapsed(b) => deletion[b] = "none"
    /\ backups' = [b \in Backups |->
         IF Lapsed(b)
         THEN [backups[b] EXCEPT !.remote = "failed", !.owner = Nothing, !.expired = FALSE]
         ELSE backups[b]]
    /\ proc' = [proc EXCEPT ![r] = IdleAt("claim")]
    /\ UNCHANGED <<manifests, objects, tombs, lock, deletion, crashes>>

Claimable(b) == backups[b].status = "ready" /\ backups[b].remote \in {"pending", "failed"}

(* claimRemoteBackup takes the oldest backup that is not archived. *)
ClaimRemoteBackup(r) ==
    /\ proc[r].pc = "claim"
    /\ \E b \in Backups :
         /\ Claimable(b)
         /\ \A c \in Backups : Claimable(c) => b <= c
         /\ backups' = [backups EXCEPT ![b] =
                          [@ EXCEPT !.remote = "uploading", !.owner = r, !.expired = FALSE]]
         /\ proc' = [proc EXCEPT ![r] = [pc |-> "lookup", backup |-> b,
                                         digest |-> DigestOf[b], key |-> Nothing]]
    /\ UNCHANGED <<manifests, objects, tombs, lock, deletion, crashes>>

NothingToArchive(r) ==
    /\ proc[r].pc = "claim"
    /\ \A b \in Backups : ~Claimable(b)
    /\ proc' = [proc EXCEPT ![r] = IdleAt("lease")]
    /\ UNCHANGED <<backups, manifests, objects, tombs, lock, deletion, crashes>>

(* Ten minutes pass. *)
UploadLeaseLapses(b) ==
    /\ backups[b].remote = "uploading" /\ ~backups[b].expired
    /\ Prompt => \A r \in Replicas : proc[r].backup # b
    /\ backups' = [backups EXCEPT ![b].expired = TRUE]
    /\ UNCHANGED <<manifests, objects, tombs, lock, deletion, proc, crashes>>

(* Variant: the lookup without the advisory lock. *)
LookupUnlocked(r) ==
    LET d == proc[r].digest IN
    /\ proc[r].pc = "lookup"
    /\ proc' = [proc EXCEPT ![r].pc = IF manifests[d].status = "active" THEN "attach" ELSE "upload"]
    /\ UNCHANGED <<backups, manifests, objects, tombs, lock, deletion, crashes>>

(* archiveRemoteBackup: the advisory lock, then the lookup of an active     *)
(* manifest for the same content.                                           *)
LookupManifest(r) ==
    LET d == proc[r].digest IN
    /\ proc[r].pc = "lookup" /\ lock[d] = Nothing
    /\ lock' = [lock EXCEPT ![d] = r]
    /\ proc' = [proc EXCEPT ![r].pc = IF manifests[d].status = "active" THEN "attach" ELSE "upload"]
    /\ UNCHANGED <<backups, manifests, objects, tombs, deletion, crashes>>

(* A new data key: rand.Reader never repeats one that is still around. *)
FreshKeys(d) ==
    DataKeys \ ({objects[d], manifests[d].key}
                  \cup {proc[r].key : r \in {q \in Replicas : proc[q].digest = d}})

(* What the store holds under a key after Put. *)
Stored(old, new) == IF KeepsExisting /\ old # Nothing THEN old ELSE new

(* Download from the node, check of digest and size, EncryptUpload. *)
Upload(r) ==
    LET d == proc[r].digest IN
    /\ proc[r].pc = "upload"
    /\ \E k \in FreshKeys(d) :
         /\ objects' = [objects EXCEPT ![d] = Stored(@, k)]
         /\ proc' = [proc EXCEPT ![r] = [@ EXCEPT !.pc = "insert", !.key = k]]
    /\ UNCHANGED <<backups, manifests, tombs, lock, deletion, crashes>>

(* failRemoteBackup, after the deferred unlock. *)
Abandon(r) ==
    LET b == proc[r].backup IN
    /\ deletion[b] = "none"
    /\ backups' = IF backups[b].remote = "uploading" /\ backups[b].owner = r
                  THEN [backups EXCEPT ![b] =
                          [@ EXCEPT !.remote = "failed", !.owner = Nothing, !.expired = FALSE]]
                  ELSE backups
    /\ lock' = [lock EXCEPT ![proc[r].digest] = Nothing]
    /\ proc' = [proc EXCEPT ![r] = IdleAt("claim")]
    /\ UNCHANGED <<manifests, objects, tombs, deletion, crashes>>

UploadFails(r) ==
    /\ proc[r].pc = "upload" /\ proc[r].backup \in Flaky
    /\ Abandon(r)

(* The manifest of the object just uploaded. *)
InsertManifest(r) ==
    LET d == proc[r].digest IN
    /\ proc[r].pc = "insert" /\ manifests[d].status = "none"
    /\ manifests' = [manifests EXCEPT ![d] = [status |-> "active", key |-> proc[r].key]]
    /\ proc' = [proc EXCEPT ![r].pc = "attach"]
    /\ UNCHANGED <<backups, objects, tombs, lock, deletion, crashes>>

(* object_key and plaintext_digest are UNIQUE, for deleted manifests too. *)
InsertConflicts(r) ==
    /\ proc[r].pc = "insert" /\ manifests[proc[r].digest].status # "none"
    /\ Abandon(r)

Attachable(r, b) == backups[b].remote = "uploading" /\ backups[b].owner = r

(* Variant: attachObjectManifest without its WHERE on the lease. *)
AttachAnyway(r) ==
    LET b == proc[r].backup IN
    /\ proc[r].pc = "attach" /\ deletion[b] = "none"
    /\ backups' = [backups EXCEPT ![b] = [@ EXCEPT !.attached = TRUE, !.remote = "ready",
                                               !.owner = Nothing, !.expired = FALSE]]
    /\ lock' = [lock EXCEPT ![proc[r].digest] = Nothing]
    /\ proc' = [proc EXCEPT ![r] = IdleAt("claim")]
    /\ UNCHANGED <<manifests, objects, tombs, deletion, crashes>>

AttachManifest(r) ==
    LET b == proc[r].backup IN
    /\ proc[r].pc = "attach" /\ deletion[b] = "none" /\ Attachable(r, b)
    /\ backups' = [backups EXCEPT ![b] = [@ EXCEPT !.attached = TRUE, !.remote = "ready",
                                               !.owner = Nothing, !.expired = FALSE]]
    /\ lock' = [lock EXCEPT ![proc[r].digest] = Nothing]
    /\ proc' = [proc EXCEPT ![r] = IdleAt("claim")]
    /\ UNCHANGED <<manifests, objects, tombs, deletion, crashes>>

AttachSuperseded(r) ==
    /\ proc[r].pc = "attach" /\ ~Attachable(r, proc[r].backup)
    /\ Abandon(r)

-----------------------------------------------------------------------------
(* ReconcileObjectTombstones, the second half of the loop.  The code takes  *)
(* the oldest tombstone, here any.                                          *)

(* Variant: a tombstone whose sweeper died is not taken over. *)
SweepableUnleased(d) == tombs[d].status \in {"pending", "failed"}

Sweepable(d) ==
    \/ tombs[d].status \in {"pending", "failed"}
    \/ tombs[d].status = "leased" /\ tombs[d].expired

LeaseTombstone(r) ==
    /\ proc[r].pc = "lease"
    /\ \E d \in Digests :
         /\ Sweepable(d)
         /\ tombs' = [tombs EXCEPT ![d] = [status |-> "leased", owner |-> r, expired |-> FALSE]]
         /\ proc' = [proc EXCEPT ![r] = [IdleAt("count") EXCEPT !.digest = d]]
    /\ UNCHANGED <<backups, manifests, objects, lock, deletion, crashes>>

(* The loop ends its round and waits for the ticker. *)
NothingToSweep(r) ==
    /\ proc[r].pc = "lease"
    /\ \A d \in Digests : ~Sweepable(d)
    /\ proc' = [proc EXCEPT ![r] = IdleAt("expire")]
    /\ UNCHANGED <<backups, manifests, objects, tombs, lock, deletion, crashes>>

(* Five minutes pass. *)
TombstoneLeaseLapses(d) ==
    /\ tombs[d].status = "leased" /\ ~tombs[d].expired
    /\ Prompt => \A r \in Replicas : ~(proc[r].pc \in SweepSteps /\ proc[r].digest = d)
    /\ tombs' = [tombs EXCEPT ![d].expired = TRUE]
    /\ UNCHANGED <<backups, manifests, objects, lock, deletion, proc, crashes>>

(* The tombstone of d after an UPDATE or DELETE of its lease owner r. *)
TombAfter(d, r, tomb) == IF tombs[d].owner = r THEN [tombs EXCEPT ![d] = tomb] ELSE tombs

CountReferences(r) ==
    LET d == proc[r].digest IN
    /\ proc[r].pc = "count"
    /\ \/ /\ References(d) # {}
          /\ tombs' = TombAfter(d, r, NoTomb)
          /\ proc' = [proc EXCEPT ![r] = IdleAt("lease")]
       \/ /\ References(d) = {}
          /\ proc' = [proc EXCEPT ![r].pc = "delete"]
          /\ tombs' = tombs
    /\ UNCHANGED <<backups, manifests, objects, lock, deletion, crashes>>

DeleteObject(r) ==
    /\ proc[r].pc = "delete"
    /\ objects' = [objects EXCEPT ![proc[r].digest] = Nothing]
    /\ proc' = [proc EXCEPT ![r].pc = "finish"]
    /\ UNCHANGED <<backups, manifests, tombs, lock, deletion, crashes>>

DeleteObjectFails(r) ==
    /\ StoreFails /\ proc[r].pc = "delete"
    /\ tombs' = TombAfter(proc[r].digest, r, [NoTomb EXCEPT !.status = "failed"])
    /\ proc' = [proc EXCEPT ![r] = IdleAt("lease")]
    /\ UNCHANGED <<backups, manifests, objects, lock, deletion, crashes>>

FinishTombstone(r) ==
    LET d == proc[r].digest IN
    /\ proc[r].pc = "finish"
    /\ manifests' = [manifests EXCEPT ![d].status = "deleted"]
    /\ tombs' = TombAfter(d, r, [NoTomb EXCEPT !.status = "completed"])
    /\ backups' = [b \in Backups |->
         IF backups[b].attached /\ DigestOf[b] = d /\ backups[b].status = "deleted"
         THEN [backups[b] EXCEPT !.remote = "deleted"] ELSE backups[b]]
    /\ proc' = [proc EXCEPT ![r] = IdleAt("lease")]
    /\ UNCHANGED <<objects, lock, deletion, crashes>>

(* A replica dies: its database session ends and with it the advisory lock. *)
Crash(r) ==
    /\ crashes < MaxCrashes
    /\ crashes' = crashes + 1
    /\ lock' = [d \in Digests |-> IF lock[d] = r THEN Nothing ELSE lock[d]]
    /\ proc' = [proc EXCEPT ![r] = IdleAt("expire")]
    /\ UNCHANGED <<backups, manifests, objects, tombs, deletion>>

-----------------------------------------------------------------------------
Archive(r) ==
    \/ ExpireUploads(r) \/ ClaimRemoteBackup(r) \/ NothingToArchive(r)
    \/ LookupManifest(r) \/ Upload(r) \/ UploadFails(r)
    \/ InsertManifest(r) \/ InsertConflicts(r) \/ AttachManifest(r) \/ AttachSuperseded(r)

Sweep(r) ==
    \/ LeaseTombstone(r) \/ NothingToSweep(r) \/ CountReferences(r)
    \/ DeleteObject(r) \/ DeleteObjectFails(r) \/ FinishTombstone(r)

Next ==
    \/ \E b \in Backups :
         \/ BackupReady(b) \/ DeleteBackup(b) \/ DeleteFails(b)
         \/ DeletionExecutes(b) \/ DeletionCommits(b) \/ UploadLeaseLapses(b)
    \/ \E d \in Digests : TombstoneLeaseLapses(d)
    \/ \E r \in Replicas : Archive(r) \/ Sweep(r) \/ Crash(r)

Spec == Init /\ [][Next]_vars

(* The loop goes on, transactions end and time passes; users and crashes owe *)
(* nothing.  PostgreSQL grants an advisory lock in the order of arrival.     *)
ArchiveFairness ==
    /\ \A r \in Replicas : WF_vars(Archive(r) \/ Sweep(r)) /\ SF_vars(LookupManifest(r))
    /\ \A b \in Backups :
         /\ WF_vars(DeletionExecutes(b) \/ DeleteFails(b))
         /\ WF_vars(DeletionCommits(b))
         /\ WF_vars(UploadLeaseLapses(b))
    /\ \A d \in Digests : WF_vars(TombstoneLeaseLapses(d))

FairSpec == Spec /\ ArchiveFairness

-----------------------------------------------------------------------------
BackupRow == [status : {"creating", "ready", "deleting", "deleted"},
              remote : {"pending", "uploading", "ready", "failed", "delete_pending", "deleted"},
              owner : Replicas \cup {Nothing}, expired : BOOLEAN, attached : BOOLEAN]
ManifestRow == [status : {"none", "active", "deleted"}, key : DataKeys \cup {Nothing}]
TombRow == [status : {"none", "pending", "leased", "failed", "completed"},
            owner : Replicas \cup {Nothing}, expired : BOOLEAN]
Position == [pc : ArchiveSteps \cup SweepSteps, backup : Backups \cup {Nothing},
             digest : Digests \cup {Nothing}, key : DataKeys \cup {Nothing}]

(* A replica past its claim works on a backup and its digest, a sweeping one *)
(* on a digest.                                                              *)
HasWork(p) ==
    /\ p.pc \in LockedSteps \cup {"lookup"} => p.backup \in Backups /\ p.digest = DigestOf[p.backup]
    /\ p.pc \in SweepSteps \ {"lease"} => p.digest \in Digests

(* Each row, object, lock and loop position is one the code can produce. *)
ArchiveTypeOK ==
    /\ backups \in [Backups -> BackupRow]
    /\ manifests \in [Digests -> ManifestRow]
    /\ objects \in [Digests -> DataKeys \cup {Nothing}]
    /\ tombs \in [Digests -> TombRow]
    /\ lock \in [Digests -> Replicas \cup {Nothing}]
    /\ deletion \in [Backups -> {"none", "plain", "tombstone"}]
    /\ proc \in [Replicas -> Position]
    /\ crashes \in 0..MaxCrashes
    /\ \A r \in Replicas : HasWork(proc[r])

(* A manifest that remoteBackupContent may use and the object under its key  *)
(* fit together: DecryptDownload finds the ciphertext the manifest was       *)
(* signed for.  Uploads of equal content, retries after a lapsed lease and   *)
(* replicas that crash between Put and INSERT must not mix two encryptions   *)
(* of the content under one key.                                             *)
RemoteReadable ==
    \A d \in Digests :
        manifests[d].status = "active" /\ objects[d] # Nothing => objects[d] = manifests[d].key

(* A deleted backup takes part in no further archiving: the uploader that    *)
(* was busy with it when CompleteTask deleted it cannot attach a manifest or *)
(* make it ready or failed again (attachObjectManifest, failRemoteBackup).   *)
DeletedStaysDetached ==
    [][\A b \in Backups :
         backups[b].status = "deleted" =>
            /\ backups'[b].attached = backups[b].attached
            /\ backups'[b].remote \in {"delete_pending", "deleted"}]_vars

(* A live backup that the archive reports as ready has its object: objects   *)
(* are deleted "only after every backup reference is gone"                   *)
(* (ReconcileObjectTombstones).                                              *)
LiveObjectPresent ==
    \A b \in Backups :
        backups[b].status = "ready" /\ backups[b].remote = "ready" =>
            objects[DigestOf[b]] # Nothing

(* A finished backup whose node and store can be reached is archived, unless *)
(* it is deleted (ArchivePendingBackups).                                    *)
EveryBackupArchived ==
    \A b \in Backups \ Flaky :
        backups[b].status = "ready" ~> backups[b].remote = "ready" \/ backups[b].status # "ready"

(* A tombstone is acted upon: the object is deleted or the tombstone is      *)
(* withdrawn because a backup refers to the object (ReconcileObjectTombstones). *)
TombstoneSwept ==
    \A d \in Digests :
        tombs[d].status \in {"pending", "failed", "leased"} ~> tombs[d].status \in {"none", "completed"}

(* The two loops make progress: a finished backup is archived and a          *)
(* tombstone acted upon (ArchivePendingBackups, ReconcileObjectTombstones).  *)
ArchiveSettles == EveryBackupArchived /\ TombstoneSwept
=============================================================================
