---------------------------- MODULE AgentArchive ----------------------------
(***************************************************************************)
(* Backup archives on an Agent's disk (internal/agent/backup.go): how an   *)
(* archive is published, and how a server's data directory is replaced by  *)
(* the content of one (the path of runtimes without named volumes).        *)
(*                                                                         *)
(* Every step is one file-system call: it may fail, with or without effect *)
(* where the code cannot tell, and the Agent may stop after any of them.   *)
(* Attempt k of a restore extracts version k; version 0 is the data the    *)
(* server starts with.  Writer w of an archive writes content w, because a *)
(* second archive of a live volume differs from the first.  The writers    *)
(* are attempts of tasks of one server, which run one at a time.           *)
(***************************************************************************)
EXTENDS Naturals

CONSTANTS
    MaxRestores,  \* bound: restores attempted
    Writers,      \* attempts to create the one backup
    MaxFsFaults,  \* bound: file-system calls that fail
    MaxFsStops,   \* bound: times the Agent stops
    Gone          \* no file

ASSUME ArchiveFsAssumption ==
    /\ MaxRestores \in Nat /\ MaxFsFaults \in Nat /\ MaxFsStops \in Nat
    /\ Gone \notin Nat /\ Gone \notin Writers
    /\ Gone \notin [att : 1 .. MaxRestores, phase : {"prepared", "old-moved", "activated"}]
    /\ Gone \notin [by : Writers, complete : BOOLEAN]

Attempts == 1 .. MaxRestores
Versions == 0 .. MaxRestores

VARIABLES
    dataDir,   \* version of the server's data directory, or Gone
    staging,   \* staging directories: Gone, "partial" or "full"
    previous,  \* directories set aside: Gone or a version
    marker,    \* restore marker: Gone or [att, phase]
    rest,      \* the restore in progress: attempt and step
    restored,  \* what the last restore answered
    final,     \* the published archive: Gone, or content and completeness
    writer,    \* step of each writer of the archive
    wanswer,   \* metadata each writer reported
    fs         \* faults and stops so far

archiveFsVars == <<dataDir, staging, previous, marker, rest, restored, final, writer, wanswer, fs>>
restoreVars == <<dataDir, staging, previous, marker, rest, restored>>
publishVars == <<final, writer, wanswer>>

RestoreSteps == {"idle", "extract", "prepare", "aside", "moved", "activate",
                 "activated", "clean", "unmark", "down"}
WriterSteps == {"idle", "tar", "publish", "copying", "copied", "done", "failed"}

ArchiveFsTypeOK ==
    /\ dataDir \in Versions \cup {Gone}
    /\ staging \in [Attempts -> {Gone, "partial", "full"}]
    /\ previous \in [Attempts -> Versions \cup {Gone}]
    /\ marker = Gone \/ marker \in [att : Attempts, phase : {"prepared", "old-moved", "activated"}]
    /\ rest.step \in RestoreSteps
    /\ writer \in [Writers -> WriterSteps]

ArchiveFsInit ==
    /\ dataDir = 0
    /\ staging = [k \in Attempts |-> Gone] /\ previous = [k \in Attempts |-> Gone]
    /\ marker = Gone
    /\ rest = [att |-> 0, step |-> "idle"]
    /\ restored = [ok |-> FALSE, from |-> 0, att |-> 0]
    /\ final = Gone
    /\ writer = [w \in Writers |-> "idle"]
    /\ wanswer = [w \in Writers |-> Gone]
    /\ fs = [faults |-> 0, stops |-> 0]

Faulty == fs.faults < MaxFsFaults /\ fs' = [fs EXCEPT !.faults = @ + 1]
attempt == rest.att
Go(step) == rest' = [rest EXCEPT !.step = step]

\* The answer of a restore.
Give(ok) ==
    /\ Go("idle")
    /\ restored' = [restored EXCEPT !.ok = ok, !.att = attempt]

\* The deferred removal of the staging directory of a restore that fails.
GiveUp == Give(FALSE) /\ staging' = [staging EXCEPT ![attempt] = Gone]

(***************************************************************************)
(* recoverRestoreMarker: finish or undo what the marker tells of.  A call  *)
(* that fails leaves the rest for the next recovery.                       *)
(***************************************************************************)
Recoverable(m) ==
    \/ dataDir # Gone \/ previous[m.att] # Gone
    \/ staging[m.att] # Gone /\ m.phase = "old-moved"

Recover ==
    LET m == marker.att IN
    /\ Recoverable(marker)
    /\ dataDir' = (IF dataDir # Gone THEN dataDir
                   ELSE IF previous[m] # Gone THEN previous[m] ELSE m)
    /\ previous' = [previous EXCEPT ![m] = Gone]
    /\ staging' = [staging EXCEPT ![m] = Gone]
    /\ marker' = Gone

recoverRestoreMarker ==
    \/ marker = Gone /\ UNCHANGED <<dataDir, previous, staging, marker, fs>>
    \/ marker # Gone /\ Recover /\ UNCHANGED fs

\* NewDockerExecutor: the Agent does not start before the recovery succeeded.
NewDockerExecutor ==
    /\ rest.step = "down"
    /\ recoverRestoreMarker /\ Go("idle")
    /\ UNCHANGED <<restored, publishVars>>

\* The recovery, at the start or before a restore, fails after its first call or
\* its second: what was set aside is back, or is removed, and the marker stays.
RecoveryFails ==
    /\ rest.step \in {"idle", "down"} /\ marker # Gone /\ Recoverable(marker) /\ Faulty
    /\ LET m == marker.att IN
       /\ dataDir' = (IF dataDir # Gone THEN dataDir ELSE IF previous[m] # Gone THEN previous[m] ELSE m)
       /\ previous' = [previous EXCEPT ![m] = Gone]
       /\ staging' \in {[staging EXCEPT ![m] = Gone]}
             \cup (IF dataDir = Gone /\ previous[m] = Gone THEN {} ELSE {staging})
    /\ UNCHANGED <<marker, rest, restored, publishVars>>

(***************************************************************************)
(* replaceServerDataFromBackup.                                            *)
(***************************************************************************)
\* A pending recovery first; then the data directory must be there.
replaceServerDataFromBackup ==
    /\ rest.step = "idle" /\ attempt < MaxRestores
    /\ recoverRestoreMarker
    /\ dataDir' # Gone
    /\ rest' = [att |-> attempt + 1, step |-> "extract"]
    /\ restored' = [ok |-> FALSE, from |-> dataDir', att |-> 0]
    /\ UNCHANGED publishVars

\* The archive is unpacked into a directory of its own and its manifest digest
\* compared with the one the task carries.
extractBackupArchive ==
    /\ rest.step = "extract"
    /\ \/ /\ staging[attempt] = Gone
          /\ staging' = [staging EXCEPT ![attempt] = "partial"]
          /\ UNCHANGED <<rest, restored, fs>>
       \/ /\ staging[attempt] = "partial"
          /\ staging' = [staging EXCEPT ![attempt] = "full"]
          /\ Go("prepare") /\ UNCHANGED <<restored, fs>>
       \/ Faulty /\ GiveUp
    /\ UNCHANGED <<dataDir, previous, marker, publishVars>>

Marked(phase) == [att |-> attempt, phase |-> phase]

\* writeRestoreMarker replaces the marker by a rename and syncs the directory:
\* when it fails the new marker may or may not be in place.
prepareMarker ==
    /\ rest.step = "prepare"
    /\ \/ marker' = Marked("prepared") /\ Go("aside") /\ UNCHANGED <<staging, restored, fs>>
       \/ Faulty /\ GiveUp /\ marker' \in {marker, Marked("prepared")}
    /\ UNCHANGED <<dataDir, previous, publishVars>>

moveDataAside ==
    /\ rest.step = "aside"
    /\ \/ /\ dataDir' = Gone /\ previous' = [previous EXCEPT ![attempt] = dataDir]
          /\ Go("moved") /\ UNCHANGED <<marker, staging, restored, fs>>
       \/ /\ Faulty /\ GiveUp /\ marker' \in {Gone, marker}
          /\ UNCHANGED <<dataDir, previous>>
    /\ UNCHANGED publishVars

\* The data set aside goes back; that may fail as well.
MoveBack ==
    \/ dataDir' = previous[attempt] /\ previous' = [previous EXCEPT ![attempt] = Gone]
    \/ UNCHANGED <<dataDir, previous>>

markOldMoved ==
    /\ rest.step = "moved"
    /\ \/ /\ marker' = Marked("old-moved") /\ Go("activate")
          /\ UNCHANGED <<dataDir, previous, staging, restored, fs>>
       \/ Faulty /\ GiveUp /\ marker' \in {marker, Marked("old-moved")} /\ MoveBack
    /\ UNCHANGED publishVars

\* Variant: the marker goes although the data set aside could not be put back.
activateStagingUnmarks ==
    /\ rest.step = "activate"
    /\ \/ /\ dataDir' = attempt /\ staging' = [staging EXCEPT ![attempt] = Gone]
          /\ Go("activated") /\ UNCHANGED <<previous, marker, restored, fs>>
       \/ Faulty /\ GiveUp /\ MoveBack /\ marker' = Gone
    /\ UNCHANGED publishVars

activateStaging ==
    /\ rest.step = "activate"
    /\ \/ /\ dataDir' = attempt /\ staging' = [staging EXCEPT ![attempt] = Gone]
          /\ Go("activated") /\ UNCHANGED <<previous, marker, restored, fs>>
       \/ /\ Faulty /\ GiveUp /\ MoveBack
          /\ marker' \in (IF dataDir' # Gone THEN {Gone, marker} ELSE {marker})
    /\ UNCHANGED publishVars

\* The restore is in place, but is reported as failed when the marker cannot
\* be brought up to date.
markActivated ==
    /\ rest.step = "activated"
    /\ \/ marker' = Marked("activated") /\ Go("clean") /\ UNCHANGED <<restored, fs>>
       \/ Faulty /\ Give(FALSE) /\ marker' \in {marker, Marked("activated")}
    /\ UNCHANGED <<dataDir, previous, staging, publishVars>>

\* Cleaning up may fail: the restore succeeded, recovery will do it.  Only the
\* last sync of the directory turns it into a failure.
removePrevious ==
    /\ rest.step = "clean"
    /\ \/ previous' = [previous EXCEPT ![attempt] = Gone] /\ Go("unmark") /\ UNCHANGED <<restored, fs>>
       \/ Faulty /\ Give(TRUE) /\ UNCHANGED previous
    /\ UNCHANGED <<dataDir, staging, marker, publishVars>>

removeMarker ==
    /\ rest.step = "unmark"
    /\ \/ marker' = Gone /\ Give(TRUE) /\ UNCHANGED fs
       \/ Faulty /\ Give(TRUE) /\ UNCHANGED marker
       \/ Faulty /\ Give(FALSE) /\ marker' = Gone
    /\ UNCHANGED <<dataDir, previous, staging, publishVars>>

(***************************************************************************)
(* createBackup and publishBackupArchive.                                  *)
(***************************************************************************)
\* keyedLock: one task of a server at a time.
Unlocked == \A w \in Writers : writer[w] \in {"idle", "done", "failed"}

\* Variant: an archive that exists is answered as it is.
createArchiveUninspected(w) ==
    /\ writer[w] = "idle" /\ rest.step # "down" /\ Unlocked
    /\ \/ final = Gone /\ writer' = [writer EXCEPT ![w] = "tar"] /\ UNCHANGED wanswer
       \/ /\ final # Gone
          /\ writer' = [writer EXCEPT ![w] = "done"]
          /\ wanswer' = [wanswer EXCEPT ![w] = final.by]
    /\ UNCHANGED <<restoreVars, final, fs>>

\* An archive that exists is inspected and answered; otherwise one is made.
createArchive(w) ==
    /\ writer[w] = "idle" /\ rest.step # "down" /\ Unlocked
    /\ \/ final = Gone /\ writer' = [writer EXCEPT ![w] = "tar"] /\ UNCHANGED wanswer
       \/ /\ final # Gone /\ final.complete
          /\ writer' = [writer EXCEPT ![w] = "done"]
          /\ wanswer' = [wanswer EXCEPT ![w] = final.by]
       \/ /\ final # Gone /\ ~final.complete
          /\ writer' = [writer EXCEPT ![w] = "failed"] /\ UNCHANGED wanswer
    /\ UNCHANGED <<restoreVars, final, fs>>

\* Make the archive in the container, copy it out, unwrap and inspect it.
extractDockerBackupPayload(w) ==
    /\ writer[w] = "tar"
    /\ \/ writer' = [writer EXCEPT ![w] = "publish"] /\ UNCHANGED fs
       \/ Faulty /\ writer' = [writer EXCEPT ![w] = "idle"]
    /\ UNCHANGED <<restoreVars, final, wanswer>>

\* publishBackupArchive: a hard link, which creates the archive only if it is not
\* there; where links fail, an exclusive copy, which is not atomic.  Under the lock
\* nobody else creates it, so the comparison with an archive that was first is left
\* out.  Either may fail, the link also after it was made (syncDirectory).
publishBackupArchive(w) ==
    /\ writer[w] = "publish"
    /\ \/ /\ final' = [by |-> w, complete |-> TRUE]
          /\ writer' = [writer EXCEPT ![w] = "done"]
          /\ wanswer' = [wanswer EXCEPT ![w] = w] /\ UNCHANGED fs
       \/ /\ final' = [by |-> w, complete |-> FALSE]
          /\ writer' = [writer EXCEPT ![w] = "copying"] /\ UNCHANGED <<wanswer, fs>>
       \/ /\ Faulty /\ final' \in {final, [by |-> w, complete |-> TRUE]}
          /\ writer' = [writer EXCEPT ![w] = "idle"] /\ UNCHANGED wanswer
    /\ UNCHANGED restoreVars

\* io.Copy: a copy that fails is removed, if it can be.
copyArchive(w) ==
    /\ writer[w] = "copying"
    /\ \/ /\ final' = [by |-> w, complete |-> TRUE]
          /\ writer' = [writer EXCEPT ![w] = "copied"] /\ UNCHANGED fs
       \/ /\ Faulty /\ final' \in {Gone, final}
          /\ writer' = [writer EXCEPT ![w] = "idle"]
    /\ UNCHANGED <<restoreVars, wanswer>>

\* Sync and Close, after which the copy is kept, and syncDirectory.
finishCopy(w) ==
    /\ writer[w] = "copied"
    /\ \/ /\ writer' = [writer EXCEPT ![w] = "done"]
          /\ wanswer' = [wanswer EXCEPT ![w] = w] /\ UNCHANGED <<final, fs>>
       \/ /\ Faulty /\ final' \in {Gone, final}
          /\ writer' = [writer EXCEPT ![w] = "idle"] /\ UNCHANGED wanswer
    /\ UNCHANGED restoreVars

\* The Agent stops: what was in progress is forgotten, the files stay.
AgentHalts ==
    /\ rest.step # "down" /\ fs.stops < MaxFsStops
    /\ fs' = [fs EXCEPT !.stops = @ + 1]
    /\ Go("down")
    /\ writer' = [w \in Writers |->
                    IF writer[w] \in {"done", "failed"} THEN writer[w] ELSE "idle"]
    /\ UNCHANGED <<dataDir, staging, previous, marker, restored, final, wanswer>>

ArchiveFsNext ==
    \/ NewDockerExecutor \/ RecoveryFails
    \/ replaceServerDataFromBackup \/ extractBackupArchive \/ prepareMarker
    \/ moveDataAside \/ markOldMoved \/ activateStaging \/ markActivated
    \/ removePrevious \/ removeMarker
    \/ \E w \in Writers :
          \/ createArchive(w) \/ extractDockerBackupPayload(w)
          \/ publishBackupArchive(w) \/ copyArchive(w) \/ finishCopy(w)
    \/ AgentHalts

ArchiveFsSpec == ArchiveFsInit /\ [][ArchiveFsNext]_archiveFsVars
-----------------------------------------------------------------------------
(***************************************************************************)
(* Correctness.                                                            *)
(***************************************************************************)
\* Whatever fails and wherever the Agent stops, a whole version of the data is
\* never out of reach: outside a restore the data directory is in place or the
\* marker lets the recovery put it there; without a marker it is in place; and
\* it only ever holds the data from before the restore or the restored one
\* (replaceServerDataFromBackup, recoverRestoreMarker).
RestoreIsAtomic ==
    /\ rest.step \in {"idle", "down"} =>
          IF marker = Gone THEN dataDir # Gone ELSE Recoverable(marker)
    /\ dataDir \in {Gone, restored.from, attempt}
    /\ (rest.step = "idle" /\ restored.ok) => dataDir = attempt
    /\ \A a \in Attempts : previous[a] # Gone => a = attempt

\* What a writer reported is what the archive holds, as long as it exists, and
\* an archive that was reported is complete, whatever failed or stopped an attempt
\* before it half-way through the copy or after it: no attempt replaces or removes
\* what another reported, and none reports the remains of another (createBackup,
\* publishBackupArchive, "without ever replacing an existing immutable backup").
ReportedArchiveIsStored ==
    \A w \in Writers : writer[w] = "done" =>
        final # Gone /\ final.complete /\ wanswer[w] = final.by
=============================================================================
