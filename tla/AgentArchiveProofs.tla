------------------------ MODULE AgentArchiveProofs ------------------------
(***************************************************************************)
(* Proofs about what an Agent does to the data of its servers: the backup  *)
(* archives, for every number of restores, writers, failing file-system    *)
(* calls and stops of the Agent, and the Docker executor, for every number *)
(* of generations, failing Docker calls and stops.                         *)
(***************************************************************************)
EXTENDS ServerRuntime, AgentArchive, TLAPS

-----------------------------------------------------------------------------
(* The restore.                                                              *)

Phases == {"prepared", "old-moved", "activated"}
Markers == [att : Attempts, phase : Phases]
Stagings == {Gone, "partial", "full"}

\* The types of what a restore keeps.
RestoreTypeOK ==
    /\ dataDir \in Versions \cup {Gone}
    /\ staging \in [Attempts -> Stagings]
    /\ previous \in [Attempts -> Versions \cup {Gone}]
    /\ marker \in Markers \cup {Gone}
    /\ rest \in [att : Versions, step : RestoreSteps]
    /\ restored \in [ok : BOOLEAN, from : Versions, att : Versions]

\* The steps between which the data directory is set aside, and those after.
Before == {"extract", "prepare", "aside"}
Between == {"moved", "activate"}
After == {"activated", "clean", "unmark"}
Busy == Before \cup Between \cup After

\* Where the data is at each step: in place, set aside, or replaced.  Only the
\* restore in progress has a marker or a directory set aside; while one is set
\* aside there is a marker, so a stop of the Agent at any step loses nothing.
RestoreInv ==
    /\ \A a \in Attempts : previous[a] # Gone => a = attempt
    /\ marker # Gone => marker.att = attempt
    /\ dataDir \in {Gone, restored.from, attempt}
    /\ \A a \in Attempts : previous[a] \in {Gone, restored.from}
    /\ dataDir = Gone => marker # Gone /\ previous[attempt] # Gone
    /\ (\E a \in Attempts : previous[a] # Gone) => marker # Gone
    /\ restored.ok => rest.step \notin Busy /\ dataDir = attempt
    /\ rest.step \in Busy => attempt \in Attempts
    /\ rest.step \in Before => /\ dataDir # Gone /\ dataDir = restored.from
                               /\ \A a \in Attempts : previous[a] = Gone
    /\ rest.step \in {"extract", "prepare"} => marker = Gone
    /\ rest.step \in {"aside"} \cup Between \cup After => marker # Gone
    /\ rest.step \in Between => dataDir = Gone
    /\ rest.step \in After => dataDir = attempt
    /\ rest.step = "unmark" => \A a \in Attempts : previous[a] = Gone

\* A marker is not the absence of one, and names the attempt it is written by.
LEMMA MarkedIsMarker ==
    ASSUME RestoreTypeOK, attempt \in Attempts, NEW phase \in Phases
    PROVE  Marked(phase) \in Markers /\ Marked(phase) # Gone /\ Marked(phase).att = attempt
  BY ArchiveFsAssumption DEF Marked, Markers, Phases, Attempts

\* A version of the data is never taken for a missing directory.
LEMMA VersionsAreData == Attempts \subseteq Versions /\ Gone \notin Versions
  BY ArchiveFsAssumption DEF Attempts, Versions

\* What Go, Give and GiveUp do to the restore in progress.
LEMMA GoKeepsAttempt ==
    ASSUME RestoreTypeOK, NEW step \in RestoreSteps, Go(step)
    PROVE  rest' \in [att : Versions, step : RestoreSteps] /\ rest'.att = rest.att
           /\ rest'.step = step
  BY DEF Go, RestoreTypeOK

\* The answer of a restore carries its attempt and keeps what it began from.
LEMMA GiveAnswers ==
    ASSUME RestoreTypeOK, NEW ok \in BOOLEAN, Give(ok)
    PROVE  /\ rest' \in [att : Versions, step : RestoreSteps]
           /\ rest'.att = rest.att /\ rest'.step = "idle"
           /\ restored' \in [ok : BOOLEAN, from : Versions, att : Versions]
           /\ restored'.ok = ok /\ restored'.from = restored.from
<1>1. "idle" \in RestoreSteps
  BY DEF RestoreSteps
<1> QED
  BY <1>1, GoKeepsAttempt DEF Give, RestoreTypeOK, attempt

\* Recovery puts whole data in place, the restored or the one set aside.
LEMMA RecoverInv ==
    ASSUME RestoreTypeOK, RestoreInv, recoverRestoreMarker
    PROVE  /\ dataDir' \in {restored.from, attempt} \cap Versions
           /\ dataDir # Gone => dataDir' = dataDir
           /\ \A a \in Attempts : previous'[a] = Gone
           /\ previous' \in [Attempts -> Versions \cup {Gone}]
           /\ staging' \in [Attempts -> Stagings]
           /\ marker' = Gone
<1>1. CASE marker = Gone
  <2>1. UNCHANGED <<dataDir, previous, staging, marker>>
    BY <1>1 DEF recoverRestoreMarker
  <2> QED
    BY <1>1, <2>1, VersionsAreData DEF RestoreTypeOK, RestoreInv
<1>2. CASE marker # Gone
  <2>1. marker.att = attempt /\ attempt \in Attempts /\ Recover
    BY <1>2 DEF RestoreInv, RestoreTypeOK, Markers, recoverRestoreMarker
  <2>2. previous' = [previous EXCEPT ![attempt] = Gone]
        /\ staging' = [staging EXCEPT ![attempt] = Gone] /\ marker' = Gone
    BY <2>1 DEF Recover
  <2>3. \A a \in Attempts : previous'[a] = Gone
    BY <2>1, <2>2 DEF RestoreTypeOK, RestoreInv
  <2>4. dataDir' = IF dataDir # Gone THEN dataDir ELSE previous[attempt]
    BY <2>1 DEF Recover, RestoreInv
  <2>5. dataDir' \in {restored.from, attempt} \cap Versions
    BY <2>1, <2>4 DEF RestoreInv, RestoreTypeOK
  <2> QED
    BY <2>1, <2>2, <2>3, <2>4, <2>5 DEF RestoreTypeOK, Stagings
<1> QED
  BY <1>1, <1>2

\* The start of the Agent puts the data in place.
LEMMA StartInv ==
    ASSUME RestoreTypeOK, RestoreInv, NewDockerExecutor
    PROVE  RestoreTypeOK' /\ RestoreInv'
<1>1. /\ rest' \in [att : Versions, step : RestoreSteps] /\ rest'.att = rest.att
      /\ rest'.step = "idle" /\ restored' = restored /\ recoverRestoreMarker
  BY GoKeepsAttempt DEF NewDockerExecutor, RestoreSteps
<1>2. RestoreTypeOK'
  BY <1>1, RecoverInv DEF RestoreTypeOK
<1>3. restored.ok => dataDir' = attempt
  BY <1>1, RecoverInv, VersionsAreData DEF RestoreInv, RestoreTypeOK, attempt
<1> QED
  BY <1>1, <1>2, <1>3, RecoverInv, VersionsAreData
     DEF RestoreInv, Busy, Before, Between, After, attempt

\* A recovery that fails after its first or second call loses nothing.
LEMMA RecoveryFailsInv ==
    ASSUME RestoreTypeOK, RestoreInv, RecoveryFails
    PROVE  RestoreTypeOK' /\ RestoreInv'
<1>1. /\ marker # Gone /\ marker.att = attempt /\ attempt \in Attempts
      /\ UNCHANGED <<marker, rest, restored>> /\ rest.step \in {"idle", "down"}
  BY DEF RecoveryFails, RestoreInv, RestoreTypeOK, Markers
<1>2. /\ previous' = [previous EXCEPT ![attempt] = Gone]
      /\ staging' \in {staging, [staging EXCEPT ![attempt] = Gone]}
      /\ dataDir' = IF dataDir # Gone THEN dataDir ELSE previous[attempt]
  BY <1>1 DEF RecoveryFails, RestoreInv
<1>3. \A a \in Attempts : previous'[a] = Gone
  BY <1>1, <1>2 DEF RestoreTypeOK, RestoreInv
<1>4. dataDir' \in {restored.from, attempt} \cap Versions
  BY <1>1, <1>2 DEF RestoreInv, RestoreTypeOK
<1>5. RestoreTypeOK'
  BY <1>1, <1>2, <1>4 DEF RestoreTypeOK, Stagings
<1>6. restored.ok => dataDir' = attempt
  BY <1>1, <1>2, VersionsAreData DEF RestoreInv, RestoreTypeOK
<1> QED
  BY <1>1, <1>3, <1>4, <1>5, <1>6, VersionsAreData
     DEF RestoreInv, Busy, Before, Between, After, attempt

\* A restore begins with its data in place and nothing set aside.
LEMMA BeginInv ==
    ASSUME RestoreTypeOK, RestoreInv, replaceServerDataFromBackup
    PROVE  RestoreTypeOK' /\ RestoreInv'
<1>1. /\ recoverRestoreMarker /\ rest' = [att |-> attempt + 1, step |-> "extract"]
      /\ restored' = [ok |-> FALSE, from |-> dataDir', att |-> 0]
  BY DEF replaceServerDataFromBackup
<1>2. attempt + 1 \in Attempts /\ 0 \in Versions
  BY ArchiveFsAssumption DEF replaceServerDataFromBackup, attempt, RestoreTypeOK,
     Versions, Attempts
<1>3. RestoreTypeOK'
  BY <1>1, <1>2, RecoverInv, VersionsAreData DEF RestoreTypeOK, RestoreSteps
<1> QED
  BY <1>1, <1>2, <1>3, RecoverInv, VersionsAreData
     DEF RestoreInv, Busy, Before, Between, After, attempt

\* Unpacking the archive, whether it fails or not, leaves the data alone.
LEMMA ExtractInv ==
    ASSUME RestoreTypeOK, RestoreInv, extractBackupArchive
    PROVE  RestoreTypeOK' /\ RestoreInv'
<1>1. /\ rest.step = "extract" /\ UNCHANGED <<dataDir, previous, marker>>
      /\ attempt \in Attempts /\ dataDir # Gone /\ ~restored.ok
  BY DEF extractBackupArchive, RestoreInv, Busy, Before
<1>2. staging' \in [Attempts -> Stagings]
  BY <1>1 DEF extractBackupArchive, RestoreTypeOK, Stagings, GiveUp
<1>3. CASE UNCHANGED <<rest, restored>>
  BY <1>1, <1>2, <1>3 DEF RestoreTypeOK, RestoreInv, Busy, Before, Between, After, attempt
<1>4. CASE Go("prepare") /\ UNCHANGED restored
  <2>1. /\ rest' \in [att : Versions, step : RestoreSteps] /\ rest'.att = rest.att
        /\ rest'.step = "prepare"
    BY <1>4, GoKeepsAttempt DEF RestoreSteps
  <2> QED
    BY <1>1, <1>2, <1>4, <2>1
       DEF RestoreTypeOK, RestoreInv, Busy, Before, Between, After, attempt
<1>5. CASE Give(FALSE)
  BY <1>1, <1>2, <1>5, GiveAnswers
     DEF RestoreTypeOK, RestoreInv, Busy, Before, Between, After, attempt
<1> QED
  BY <1>3, <1>4, <1>5 DEF extractBackupArchive, GiveUp

\* The marker is written while the data is still in place.
LEMMA PrepareInv ==
    ASSUME RestoreTypeOK, RestoreInv, prepareMarker
    PROVE  RestoreTypeOK' /\ RestoreInv'
<1>1. /\ rest.step = "prepare" /\ UNCHANGED <<dataDir, previous>>
      /\ attempt \in Attempts /\ dataDir # Gone /\ ~restored.ok /\ marker = Gone
      /\ \A a \in Attempts : previous[a] = Gone
  BY DEF prepareMarker, RestoreInv, Busy, Before
<1>2. /\ marker' \in Markers \cup {Gone} /\ (marker' # Gone => marker'.att = attempt)
      /\ staging' \in [Attempts -> Stagings]
  <2>1. marker' \in {Gone, Marked("prepared")}
    BY <1>1 DEF prepareMarker
  <2>2. staging' \in [Attempts -> Stagings]
    BY <1>1 DEF prepareMarker, RestoreTypeOK, Stagings, GiveUp
  <2> QED
    BY <1>1, <2>1, <2>2, MarkedIsMarker DEF Phases
<1>3. CASE Go("aside") /\ marker' = Marked("prepared") /\ UNCHANGED restored
  <2>1. /\ rest' \in [att : Versions, step : RestoreSteps] /\ rest'.att = rest.att
        /\ rest'.step = "aside" /\ marker' # Gone
    BY <1>1, <1>3, GoKeepsAttempt, MarkedIsMarker DEF RestoreSteps, Phases
  <2> QED
    BY <1>1, <1>2, <1>3, <2>1
       DEF RestoreTypeOK, RestoreInv, Busy, Before, Between, After, attempt
<1>4. CASE Give(FALSE)
  BY <1>1, <1>2, <1>4, GiveAnswers
     DEF RestoreTypeOK, RestoreInv, Busy, Before, Between, After, attempt
<1> QED
  BY <1>3, <1>4 DEF prepareMarker, GiveUp

\* The data is set aside only under a marker.
LEMMA AsideInv ==
    ASSUME RestoreTypeOK, RestoreInv, moveDataAside
    PROVE  RestoreTypeOK' /\ RestoreInv'
<1>1. /\ rest.step = "aside" /\ attempt \in Attempts /\ dataDir # Gone /\ ~restored.ok
      /\ marker # Gone /\ \A a \in Attempts : previous[a] = Gone
  BY DEF moveDataAside, RestoreInv, Busy, Before
<1>2. CASE /\ dataDir' = Gone /\ previous' = [previous EXCEPT ![attempt] = dataDir]
           /\ Go("moved") /\ UNCHANGED <<marker, staging, restored>>
  <2>1. /\ rest' \in [att : Versions, step : RestoreSteps] /\ rest'.att = rest.att
        /\ rest'.step = "moved"
    BY <1>2, GoKeepsAttempt DEF RestoreSteps
  <2>2. /\ previous' \in [Attempts -> Versions \cup {Gone}] /\ previous'[attempt] = dataDir
        /\ \A a \in Attempts : a # attempt => previous'[a] = Gone
    BY <1>1, <1>2 DEF RestoreTypeOK
  <2>3. dataDir = restored.from
    BY <1>1 DEF RestoreInv, Before
  <2> QED
    BY <1>1, <1>2, <2>1, <2>2, <2>3
       DEF RestoreTypeOK, RestoreInv, Busy, Before, Between, After, attempt
<1>3. CASE GiveUp /\ marker' \in {Gone, marker} /\ UNCHANGED <<dataDir, previous>>
  <2>1. staging' \in [Attempts -> Stagings]
    BY <1>1, <1>3 DEF RestoreTypeOK, Stagings, GiveUp
  <2> QED
    BY <1>1, <1>3, <2>1, GiveAnswers
       DEF RestoreTypeOK, RestoreInv, Busy, Before, Between, After, attempt, GiveUp
<1> QED
  BY <1>2, <1>3 DEF moveDataAside

\* While the data is set aside it is put back, or the marker still tells of it.
LEMMA OldMovedInv ==
    ASSUME RestoreTypeOK, RestoreInv, markOldMoved
    PROVE  RestoreTypeOK' /\ RestoreInv'
<1>1. /\ rest.step = "moved" /\ attempt \in Attempts /\ dataDir = Gone /\ ~restored.ok
      /\ marker # Gone /\ marker.att = attempt /\ previous[attempt] = restored.from
      /\ previous[attempt] # Gone
      /\ \A a \in Attempts : a # attempt => previous[a] = Gone
  BY DEF markOldMoved, RestoreInv, Busy, Between
<1>2. /\ Marked("old-moved") \in Markers /\ Marked("old-moved") # Gone
      /\ Marked("old-moved").att = attempt
  BY <1>1, MarkedIsMarker DEF Phases
<1>3. CASE /\ marker' = Marked("old-moved") /\ Go("activate")
           /\ UNCHANGED <<dataDir, previous, staging, restored>>
  <2>1. /\ rest' \in [att : Versions, step : RestoreSteps] /\ rest'.att = rest.att
        /\ rest'.step = "activate"
    BY <1>3, GoKeepsAttempt DEF RestoreSteps
  <2> QED
    BY <1>1, <1>2, <1>3, <2>1
       DEF RestoreTypeOK, RestoreInv, Busy, Before, Between, After, attempt
<1>4. CASE GiveUp /\ marker' \in {marker, Marked("old-moved")} /\ MoveBack
  <2>1. staging' \in [Attempts -> Stagings]
    BY <1>1, <1>4 DEF RestoreTypeOK, Stagings, GiveUp
  <2>2. marker' \in Markers /\ marker' # Gone /\ marker'.att = attempt
    BY <1>1, <1>2, <1>4 DEF RestoreTypeOK
  <2>3. /\ rest' \in [att : Versions, step : RestoreSteps]
        /\ rest'.att = rest.att /\ rest'.step = "idle"
        /\ restored' \in [ok : BOOLEAN, from : Versions, att : Versions]
        /\ restored'.ok = FALSE /\ restored'.from = restored.from
    BY <1>4, GiveAnswers DEF GiveUp
  <2>4. CASE UNCHANGED <<dataDir, previous>>
    BY <1>1, <2>1, <2>2, <2>3, <2>4
       DEF RestoreTypeOK, RestoreInv, Busy, Before, Between, After, attempt
  <2>5. CASE dataDir' = previous[attempt] /\ previous' = [previous EXCEPT ![attempt] = Gone]
    <3>1. /\ previous' \in [Attempts -> Versions \cup {Gone}]
          /\ \A a \in Attempts : previous'[a] = Gone
      BY <1>1, <2>5 DEF RestoreTypeOK
    <3> QED
      BY <1>1, <2>1, <2>2, <2>3, <2>5, <3>1
         DEF RestoreTypeOK, RestoreInv, Busy, Before, Between, After, attempt
  <2> QED
    BY <1>4, <2>4, <2>5 DEF MoveBack
<1> QED
  BY <1>3, <1>4 DEF markOldMoved

\* The new data takes the place of the data set aside, or that goes back.
LEMMA ActivateInv ==
    ASSUME RestoreTypeOK, RestoreInv, activateStaging
    PROVE  RestoreTypeOK' /\ RestoreInv'
<1>1. /\ rest.step = "activate" /\ attempt \in Attempts /\ dataDir = Gone /\ ~restored.ok
      /\ marker # Gone /\ marker.att = attempt /\ previous[attempt] = restored.from
      /\ previous[attempt] # Gone
      /\ \A a \in Attempts : a # attempt => previous[a] = Gone
  BY DEF activateStaging, RestoreInv, Busy, Between
<1>2. staging' \in [Attempts -> Stagings]
  BY <1>1 DEF activateStaging, GiveUp, RestoreTypeOK, Stagings
<1>3. CASE /\ dataDir' = attempt /\ Go("activated") /\ UNCHANGED <<previous, marker, restored>>
  <2>1. /\ rest' \in [att : Versions, step : RestoreSteps] /\ rest'.att = rest.att
        /\ rest'.step = "activated"
    BY <1>3, GoKeepsAttempt DEF RestoreSteps
  <2> QED
    BY <1>1, <1>2, <1>3, <2>1, VersionsAreData
       DEF RestoreTypeOK, RestoreInv, Busy, Before, Between, After, attempt
<1>4. CASE /\ Give(FALSE) /\ MoveBack
           /\ marker' \in (IF dataDir' # Gone THEN {Gone, marker} ELSE {marker})
  <2>1. /\ rest' \in [att : Versions, step : RestoreSteps]
        /\ rest'.att = rest.att /\ rest'.step = "idle"
        /\ restored' \in [ok : BOOLEAN, from : Versions, att : Versions]
        /\ restored'.ok = FALSE /\ restored'.from = restored.from
    BY <1>4, GiveAnswers
  <2>2. CASE UNCHANGED <<dataDir, previous>>
    BY <1>1, <1>2, <1>4, <2>1, <2>2
       DEF RestoreTypeOK, RestoreInv, Busy, Before, Between, After, attempt
  <2>3. CASE dataDir' = previous[attempt] /\ previous' = [previous EXCEPT ![attempt] = Gone]
    <3>1. /\ previous' \in [Attempts -> Versions \cup {Gone}]
          /\ \A a \in Attempts : previous'[a] = Gone
      BY <1>1, <2>3 DEF RestoreTypeOK
    <3>2. marker' \in Markers \cup {Gone} /\ (marker' # Gone => marker'.att = attempt)
      BY <1>1, <1>4 DEF RestoreTypeOK
    <3> QED
      BY <1>1, <1>2, <2>1, <2>3, <3>1, <3>2
         DEF RestoreTypeOK, RestoreInv, Busy, Before, Between, After, attempt
  <2> QED
    BY <1>4, <2>2, <2>3 DEF MoveBack
<1> QED
  BY <1>3, <1>4 DEF activateStaging, GiveUp

\* From here on the restored data is in place, whatever is answered.
LEMMA ActivatedInv ==
    ASSUME RestoreTypeOK, RestoreInv, markActivated \/ removePrevious \/ removeMarker
    PROVE  RestoreTypeOK' /\ RestoreInv'
<1>1. /\ rest.step \in After /\ attempt \in Attempts /\ dataDir = attempt /\ ~restored.ok
      /\ marker # Gone /\ marker.att = attempt
      /\ \A a \in Attempts : a # attempt => previous[a] = Gone
      /\ UNCHANGED <<dataDir, staging>>
  BY DEF markActivated, removePrevious, removeMarker, RestoreInv, Busy, After
<1>2. /\ Marked("activated") \in Markers /\ Marked("activated") # Gone
      /\ Marked("activated").att = attempt
  BY <1>1, MarkedIsMarker DEF Phases
<1>3. CASE markActivated
  <2>1. marker' \in Markers /\ marker' # Gone /\ marker'.att = attempt
    BY <1>1, <1>2, <1>3 DEF RestoreTypeOK, markActivated
  <2>2. CASE Go("clean") /\ UNCHANGED restored
    <3>1. /\ rest' \in [att : Versions, step : RestoreSteps] /\ rest'.att = rest.att
          /\ rest'.step = "clean"
      BY <2>2, GoKeepsAttempt DEF RestoreSteps
    <3> QED
      BY <1>1, <1>3, <2>1, <2>2, <3>1, VersionsAreData
         DEF RestoreTypeOK, RestoreInv, Busy, Before, Between, After, attempt, markActivated
  <2>3. CASE Give(FALSE)
    BY <1>1, <1>3, <2>1, <2>3, GiveAnswers
       DEF RestoreTypeOK, RestoreInv, Busy, Before, Between, After, attempt, markActivated
  <2> QED
    BY <1>3, <2>2, <2>3 DEF markActivated
<1>4. CASE removePrevious
  <2>1. CASE /\ previous' = [previous EXCEPT ![attempt] = Gone]
             /\ Go("unmark") /\ UNCHANGED restored
    <3>1. /\ rest' \in [att : Versions, step : RestoreSteps] /\ rest'.att = rest.att
          /\ rest'.step = "unmark"
      BY <2>1, GoKeepsAttempt DEF RestoreSteps
    <3>2. /\ previous' \in [Attempts -> Versions \cup {Gone}]
          /\ \A a \in Attempts : previous'[a] = Gone
      BY <1>1, <2>1 DEF RestoreTypeOK
    <3> QED
      BY <1>1, <1>4, <2>1, <3>1, <3>2, VersionsAreData
         DEF RestoreTypeOK, RestoreInv, Busy, Before, Between, After, attempt, removePrevious
  <2>2. CASE Give(TRUE) /\ UNCHANGED previous
    BY <1>1, <1>4, <2>2, GiveAnswers
       DEF RestoreTypeOK, RestoreInv, Busy, Before, Between, After, attempt, removePrevious
  <2> QED
    BY <1>4, <2>1, <2>2 DEF removePrevious
<1>5. CASE removeMarker
  <2>1. /\ marker' \in {marker, Gone} /\ UNCHANGED previous
        /\ \A a \in Attempts : previous[a] = Gone
    BY <1>5 DEF removeMarker, RestoreInv
  <2>2. PICK ok \in BOOLEAN : Give(ok)
    BY <1>5 DEF removeMarker
  <2> QED
    BY <1>1, <2>1, <2>2, GiveAnswers, VersionsAreData
       DEF RestoreTypeOK, RestoreInv, Busy, Before, Between, After, attempt
<1> QED
  BY <1>3, <1>4, <1>5

\* A stop of the Agent leaves every file as it is, and recovery can start from there.
LEMMA HaltInv ==
    ASSUME RestoreTypeOK, RestoreInv, AgentHalts
    PROVE  RestoreTypeOK' /\ RestoreInv'
<1>1. /\ rest' \in [att : Versions, step : RestoreSteps] /\ rest'.att = rest.att
      /\ rest'.step = "down" /\ UNCHANGED <<dataDir, staging, previous, marker, restored>>
  BY GoKeepsAttempt DEF AgentHalts, RestoreSteps
<1> QED
  BY <1>1 DEF RestoreTypeOK, RestoreInv, Busy, Before, Between, After, attempt

\* Every step keeps the restore's part of the invariant.
LEMMA RestoreStepInv ==
    ASSUME RestoreTypeOK, RestoreInv, [ArchiveFsNext]_archiveFsVars
    PROVE  RestoreTypeOK' /\ RestoreInv'
<1>1. CASE UNCHANGED restoreVars
  BY <1>1 DEF restoreVars, RestoreTypeOK, RestoreInv, attempt
<1>2. ASSUME NEW w \in Writers,
             \/ createArchive(w) \/ extractDockerBackupPayload(w)
             \/ publishBackupArchive(w) \/ copyArchive(w) \/ finishCopy(w)
      PROVE  UNCHANGED restoreVars
  BY <1>2 DEF createArchive, extractDockerBackupPayload, publishBackupArchive,
     copyArchive, finishCopy
<1>3. UNCHANGED archiveFsVars => UNCHANGED restoreVars
  BY DEF archiveFsVars, restoreVars
<1> QED
  BY <1>1, <1>2, <1>3, StartInv, RecoveryFailsInv, BeginInv, ExtractInv, PrepareInv,
     AsideInv, OldMovedInv, ActivateInv, ActivatedInv, HaltInv DEF ArchiveFsNext

-----------------------------------------------------------------------------
(* The publication of an archive.                                            *)

Archives == [by : Writers, complete : BOOLEAN]

WriterBusy == {"tar", "publish", "copying", "copied"}

\* One writer at a time is at work; as long as it has not published, there is no
\* archive; the one it copies is its own.  What is there otherwise is what every
\* writer that is done reported.
PublishInv ==
    /\ final \in Archives \cup {Gone}
    /\ writer \in [Writers -> WriterSteps]
    /\ wanswer \in [Writers -> Writers \cup {Gone}]
    /\ \A v, w \in Writers : writer[v] \in WriterBusy /\ writer[w] \in WriterBusy => v = w
    /\ \A w \in Writers :
         /\ writer[w] \in {"tar", "publish"} => final = Gone
         /\ writer[w] \in {"copying", "copied"} =>
               /\ final # Gone /\ final.by = w /\ (final.complete <=> writer[w] = "copied")
               /\ \A v \in Writers : writer[v] # "done"
    /\ ReportedArchiveIsStored

\* An archive is not the absence of one.
LEMMA ArchiveIsStored ==
    ASSUME NEW w \in Writers, NEW complete \in BOOLEAN
    PROVE  /\ [by |-> w, complete |-> complete] \in Archives
           /\ [by |-> w, complete |-> complete] # Gone
  BY ArchiveFsAssumption DEF Archives

\* Every step keeps the archive's part of the invariant.
LEMMA PublishStepInv ==
    ASSUME PublishInv, [ArchiveFsNext]_archiveFsVars
    PROVE  PublishInv'
<1>1. CASE UNCHANGED publishVars
  BY <1>1 DEF publishVars, PublishInv, ReportedArchiveIsStored
<1>2. ASSUME NEW w \in Writers, createArchive(w)
      PROVE  PublishInv'
  <2>1. /\ writer[w] = "idle" /\ final' = final
        /\ \A v \in Writers : writer[v] \notin WriterBusy
        /\ \/ writer' = [writer EXCEPT ![w] = "tar"] /\ wanswer' = wanswer /\ final = Gone
           \/ writer' = [writer EXCEPT ![w] = "failed"] /\ wanswer' = wanswer
           \/ /\ writer' = [writer EXCEPT ![w] = "done"]
              /\ wanswer' = [wanswer EXCEPT ![w] = final.by]
              /\ final # Gone /\ final.complete
    BY <1>2 DEF createArchive, Unlocked, WriterBusy
  <2> QED
    BY <2>1 DEF PublishInv, ReportedArchiveIsStored, WriterSteps, WriterBusy, Archives
<1>3. ASSUME NEW w \in Writers, extractDockerBackupPayload(w)
      PROVE  PublishInv'
  BY <1>3 DEF extractDockerBackupPayload, PublishInv, ReportedArchiveIsStored, WriterSteps,
     WriterBusy
<1>4. ASSUME NEW w \in Writers, publishBackupArchive(w)
      PROVE  PublishInv'
  <2>1. /\ writer[w] = "publish" /\ final = Gone
        /\ \A v \in Writers : writer[v] \notin {"copying", "copied", "done"}
        /\ \A v \in Writers : v # w => writer[v] \notin WriterBusy
    BY <1>4 DEF publishBackupArchive, PublishInv, ReportedArchiveIsStored, WriterBusy
  <2>2. CASE /\ final' = [by |-> w, complete |-> TRUE]
             /\ writer' = [writer EXCEPT ![w] = "done"]
             /\ wanswer' = [wanswer EXCEPT ![w] = w]
    <3>1. final' \in Archives /\ final' # Gone /\ final'.by = w /\ final'.complete
      BY <2>2, ArchiveIsStored
    <3> QED
      BY <2>1, <2>2, <3>1 DEF PublishInv, ReportedArchiveIsStored, WriterSteps, WriterBusy
  <2>3. CASE /\ final' = [by |-> w, complete |-> FALSE]
             /\ writer' = [writer EXCEPT ![w] = "copying"] /\ UNCHANGED wanswer
    <3>1. final' \in Archives /\ final' # Gone /\ final'.by = w /\ ~final'.complete
      BY <2>3, ArchiveIsStored
    <3> QED
      BY <2>1, <2>3, <3>1 DEF PublishInv, ReportedArchiveIsStored, WriterSteps, WriterBusy
  <2>4. CASE /\ final' \in {final, [by |-> w, complete |-> TRUE]}
             /\ writer' = [writer EXCEPT ![w] = "idle"] /\ UNCHANGED wanswer
    <3>1. final' \in Archives \cup {Gone}
      BY <2>1, <2>4, ArchiveIsStored
    <3> QED
      BY <2>1, <2>4, <3>1 DEF PublishInv, ReportedArchiveIsStored, WriterSteps, WriterBusy
  <2> QED
    BY <1>4, <2>2, <2>3, <2>4 DEF publishBackupArchive
<1>5. ASSUME NEW w \in Writers, copyArchive(w) \/ finishCopy(w)
      PROVE  PublishInv'
  <2>1. /\ final \in Archives /\ final # Gone /\ final.by = w
        /\ writer[w] \in {"copying", "copied"} /\ (final.complete <=> writer[w] = "copied")
        /\ \A v \in Writers : writer[v] # "done"
        /\ \A v \in Writers : v # w => writer[v] \notin WriterBusy
    BY <1>5 DEF copyArchive, finishCopy, PublishInv, WriterBusy
  <2>2. CASE /\ final' = [by |-> w, complete |-> TRUE]
             /\ writer' = [writer EXCEPT ![w] = "copied"] /\ UNCHANGED wanswer
    <3>1. final' \in Archives /\ final' # Gone /\ final'.by = w /\ final'.complete
      BY <2>2, ArchiveIsStored
    <3> QED
      BY <2>1, <2>2, <3>1 DEF PublishInv, ReportedArchiveIsStored, WriterSteps, WriterBusy
  <2>3. CASE /\ writer[w] = "copied" /\ final' = final
             /\ writer' = [writer EXCEPT ![w] = "done"]
             /\ wanswer' = [wanswer EXCEPT ![w] = w]
    BY <2>1, <2>3 DEF PublishInv, ReportedArchiveIsStored, WriterSteps, WriterBusy
  <2>4. CASE final' \in {Gone, final} /\ writer' = [writer EXCEPT ![w] = "idle"] /\ UNCHANGED wanswer
    BY <2>1, <2>4 DEF PublishInv, ReportedArchiveIsStored, WriterSteps, WriterBusy
  <2> QED
    BY <1>5, <2>2, <2>3, <2>4 DEF copyArchive, finishCopy
<1>6. CASE AgentHalts
  <2>1. /\ final' = final /\ wanswer' = wanswer
        /\ \A w \in Writers : writer'[w] = writer[w] \/ writer'[w] = "idle"
        /\ writer' \in [Writers -> WriterSteps]
    BY <1>6 DEF AgentHalts, PublishInv, WriterSteps
  <2> QED
    BY <2>1 DEF PublishInv, ReportedArchiveIsStored, WriterBusy
<1>7. ASSUME \/ NewDockerExecutor \/ RecoveryFails
             \/ replaceServerDataFromBackup \/ extractBackupArchive \/ prepareMarker
             \/ moveDataAside \/ markOldMoved \/ activateStaging \/ markActivated
             \/ removePrevious \/ removeMarker \/ UNCHANGED archiveFsVars
      PROVE  UNCHANGED publishVars
  BY <1>7 DEF NewDockerExecutor, RecoveryFails, replaceServerDataFromBackup,
     extractBackupArchive, prepareMarker, moveDataAside, markOldMoved, activateStaging,
     markActivated, removePrevious, removeMarker, archiveFsVars, publishVars
<1> QED
  BY <1>1, <1>2, <1>3, <1>4, <1>5, <1>6, <1>7 DEF ArchiveFsNext

-----------------------------------------------------------------------------
\* The inductive invariant holds at the start.
LEMMA ArchiveFsInitInv == ArchiveFsInit => RestoreTypeOK /\ RestoreInv /\ PublishInv
<1> SUFFICES ASSUME ArchiveFsInit
             PROVE  RestoreTypeOK /\ RestoreInv /\ PublishInv
  OBVIOUS
<1>1. 0 \in Versions /\ "idle" \in RestoreSteps /\ "idle" \in WriterSteps
  BY ArchiveFsAssumption DEF Versions, RestoreSteps, WriterSteps
<1>2. RestoreTypeOK
  BY <1>1 DEF ArchiveFsInit, RestoreTypeOK, Stagings
<1>3. RestoreInv
  BY <1>1, VersionsAreData
     DEF ArchiveFsInit, RestoreInv, Busy, Before, Between, After, attempt
<1>4. PublishInv
  BY <1>1 DEF ArchiveFsInit, PublishInv, ReportedArchiveIsStored, WriterBusy
<1> QED
  BY <1>2, <1>3, <1>4

\* Where the data and the archive are, in every reachable state.
THEOREM ArchiveFsInvariant == ArchiveFsSpec => [](RestoreTypeOK /\ RestoreInv /\ PublishInv)
<1>1. RestoreTypeOK /\ RestoreInv /\ PublishInv /\ [ArchiveFsNext]_archiveFsVars
         => (RestoreTypeOK /\ RestoreInv /\ PublishInv)'
  BY RestoreStepInv, PublishStepInv
<1> QED
  BY <1>1, ArchiveFsInitInv, PTL DEF ArchiveFsSpec

\* Types of the Agent's directories, markers and writers.
THEOREM ArchiveFsTypeCorrect == ArchiveFsSpec => []ArchiveFsTypeOK
<1>1. RestoreTypeOK /\ PublishInv => ArchiveFsTypeOK
  BY DEF RestoreTypeOK, PublishInv, ArchiveFsTypeOK, Markers, Phases, Stagings
<1> QED
  BY <1>1, ArchiveFsInvariant, PTL

\* replaceServerDataFromBackup and recoverRestoreMarker never lose the data of a
\* server, for any number of restores, failing calls and stops of the Agent.
THEOREM RestoreNeverLosesData == ArchiveFsSpec => []RestoreIsAtomic
<1>1. RestoreTypeOK /\ RestoreInv => RestoreIsAtomic
  <2> SUFFICES ASSUME RestoreTypeOK, RestoreInv
               PROVE  RestoreIsAtomic
    OBVIOUS
  <2>1. IF marker = Gone THEN dataDir # Gone ELSE Recoverable(marker)
    BY DEF RestoreInv, Recoverable
  <2> QED
    BY <2>1 DEF RestoreInv, RestoreIsAtomic
<1> QED
  BY <1>1, ArchiveFsInvariant, PTL

\* No attempt to create a backup replaces or removes an archive that was reported, or
\* reports one that is not whole, for any number of attempts that fail or are cut off.
THEOREM ReportedIsStored == ArchiveFsSpec => []ReportedArchiveIsStored
<1>1. PublishInv => ReportedArchiveIsStored
  BY DEF PublishInv
<1> QED
  BY <1>1, ArchiveFsInvariant, PTL

-----------------------------------------------------------------------------
(* The Docker executor: what a reconcile carries from the container it       *)
(* replaces to the one that takes its name, for every number of generations, *)
(* failing calls and stops of the Agent.                                     *)

Containers == [Generations -> ContainerRows \cup {NoContainer}]
Volumes == [0 .. MaxGeneration -> SUBSET Files]
SpentRows == [files : 0 .. MaxFiles, failures : Nat, stops : Nat, lost : BOOLEAN, met : BOOLEAN]
JobRows == [kind : {"provision", "reconcile"}, step : Steps \ {"idle", "restore"},
            gen : Generations, run : BOOLEAN, install : BOOLEAN,
            old : Generations \cup {NoContainer}, oldRan : BOOLEAN, data : SUBSET Files,
            was : Generations \cup {NoContainer}, ran : BOOLEAN]
RestoreRows == [kind : {"restore"}, step : {"restore"}, gen : Generations, old : Generations,
                oldRan : BOOLEAN, data : SUBSET Files, was : Generations, ran : BOOLEAN]

\* The steps at which the new container exists, and those at which its volume
\* has the data of the old one.
Copying == {"install", "start", "health", "aside", "switch"}
Building == {"stop", "clone"} \cup Copying

\* The containers c and volumes v that an operation j may rely on: the old container
\* stays, the new one is there once it is created, and the data that was frozen is in
\* the old volume until it is copied and in the new one from then on.
JobSound(j, c, v) ==
    /\ j.old # NoContainer => c[j.old] # NoContainer
    /\ j.oldRan => j.old # NoContainer
    /\ j.kind = "provision" => j.old = NoContainer
    /\ j.step \in Building => c[j.gen] # NoContainer /\ j.old # j.gen
    /\ j.step = "clone" /\ j.old # NoContainer => j.data \subseteq v[c[j.old].vol]
    /\ j.step \in Copying /\ j.old # NoContainer => j.data \subseteq v[c[j.gen].vol]

JobPossible(j, c, v) ==
    \/ j = Idle
    \/ j \in RestoreRows /\ c[j.gen] # NoContainer
    \/ j \in JobRows /\ JobSound(j, c, v)

RuntimeInv ==
    /\ cont \in Containers /\ vol \in Volumes
    /\ archives \in [LocalBackups -> (SUBSET Files) \cup {NoContainer}]
    /\ gen \in 0 .. MaxGeneration
    /\ spent \in SpentRows
    /\ JobPossible(job, cont, vol)

\* No container has the marker for none, which is no generation either.
LEMMA ContainerFacts ==
  ASSUME RuntimeInv, NEW g \in Generations
  PROVE  /\ g # NoContainer /\ g \in 0 .. MaxGeneration
         /\ cont[g] # NoContainer => cont[g] \in ContainerRows /\ cont[g].vol \in 0 .. MaxGeneration
         /\ Exists(g) <=> cont[g] # NoContainer
  BY RuntimeAssumption DEF RuntimeInv, Containers, ContainerRows, Exists, Generations

\* The steps of an operation tell which kind of row it has.
LEMMA JobFacts ==
  ASSUME RuntimeInv
  PROVE  /\ At("idle") => job = Idle
         /\ At("restore") => job \in RestoreRows /\ cont[job.gen] # NoContainer
         /\ ~At("idle") /\ ~At("restore") =>
              /\ job \in JobRows /\ JobSound(job, cont, vol)
              /\ job.gen \in Generations /\ job.old \in Generations \cup {NoContainer}
              /\ job.old # NoContainer => Exists(job.old)
              /\ ~Exists(NoContainer)
  BY ContainerFacts DEF RuntimeInv, JobPossible, At, Idle, RestoreRows, JobRows, Exists, JobSound

\* InspectContainer answers with a container that exists.
LEMMA InspectFacts ==
  ASSUME RuntimeInv
  PROVE  /\ InspectContainer \in Generations \cup {NoContainer}
         /\ InspectContainer # NoContainer =>
              InspectContainer \in Generations /\ Exists(InspectContainer)
<1>1. CASE NameFree(Canonical)
  BY <1>1 DEF InspectContainer
<1>2. CASE ~NameFree(Canonical)
  <2>1. \E g \in Generations : Exists(g) /\ cont[g].name = Canonical
    BY <1>2 DEF NameFree
  <2> QED BY <1>2, <2>1 DEF InspectContainer
<1> QED BY <1>1, <1>2

\* What the Docker calls leave of the containers: the ones that exist go on to, with
\* the volume they have, whatever is started, stopped or renamed.
LEMMA EffectFacts ==
  ASSUME RuntimeInv, NEW g \in Generations, Exists(g), NEW name \in ContainerNames
  PROVE  /\ Started(g) \in Containers /\ Stopped(g) \in Containers
         /\ Renamed(g, name) \in Containers
         /\ \A h \in Generations : \A c \in {Started(g), Stopped(g), Renamed(g, name)} :
               (c[h] # NoContainer <=> cont[h] # NoContainer) /\ (h # g => c[h] = cont[h])
         /\ \A c \in {Started(g), Stopped(g), Renamed(g, name)} : c[g].vol = cont[g].vol
<1> DEFINE s(b) == [cont[g] EXCEPT !.running = b]
           n == [cont[g] EXCEPT !.name = name]
<1>1. cont \in Containers /\ cont[g] \in ContainerRows
  BY ContainerFacts DEF RuntimeInv
<1>2. \A b \in BOOLEAN : s(b) \in ContainerRows /\ s(b).vol = cont[g].vol
  BY <1>1 DEF ContainerRows
<1>3. n \in ContainerRows /\ n.vol = cont[g].vol
  BY <1>1 DEF ContainerRows
<1>4. /\ Started(g) = [cont EXCEPT ![g] = s(TRUE)] /\ Stopped(g) = [cont EXCEPT ![g] = s(FALSE)]
      /\ Renamed(g, name) = [cont EXCEPT ![g] = n]
  BY <1>1 DEF Started, Stopped, Renamed, Containers
<1> HIDE DEF s, n
<1>5. s(TRUE) \in ContainerRows /\ s(FALSE) \in ContainerRows
      /\ s(TRUE).vol = cont[g].vol /\ s(FALSE).vol = cont[g].vol
  BY <1>2
<1>6. cont[g] # NoContainer
  BY ContainerFacts
<1>7. ASSUME NEW c \in {Started(g), Stopped(g), Renamed(g, name)}
      PROVE  /\ c \in Containers /\ c[g].vol = cont[g].vol
             /\ \A h \in Generations :
                   (c[h] # NoContainer <=> cont[h] # NoContainer) /\ (h # g => c[h] = cont[h])
  <2>1. PICK row \in ContainerRows : row.vol = cont[g].vol /\ c = [cont EXCEPT ![g] = row]
    BY <1>3, <1>4, <1>5, Zenon
  <2>2. row # NoContainer
    BY RuntimeAssumption
  <2>3. c \in Containers /\ c[g] = row /\ \A h \in Generations : h # g => c[h] = cont[h]
    BY <1>1, <2>1 DEF Containers
  <2> QED BY <1>6, <2>1, <2>2, <2>3
<1> QED BY <1>7

\* Where an operation goes on: the row after Goto.
JobAt(step) ==
    [job EXCEPT !.step = step,
                !.data = IF At("stop") /\ Exists(job.old) THEN vol[cont[job.old].vol] ELSE job.data]

LEMMA JobAtFacts ==
  ASSUME RuntimeInv, job \in JobRows, NEW step \in Steps \ {"idle", "restore"}
  PROVE  /\ Goto(step) <=> job' = JobAt(step)
         /\ JobAt(step) \in JobRows /\ JobAt(step).step = step
         /\ JobAt(step).gen = job.gen /\ JobAt(step).old = job.old /\ JobAt(step).oldRan = job.oldRan
         /\ JobAt(step).kind = job.kind /\ JobAt(step).was = job.was /\ JobAt(step).ran = job.ran
         /\ ~At("stop") => JobAt(step).data = job.data
         /\ At("stop") /\ Exists(job.old) => JobAt(step).data = vol[cont[job.old].vol]
<1> DEFINE d == IF At("stop") /\ Exists(job.old) THEN vol[cont[job.old].vol] ELSE job.data
<1>1. d \in SUBSET Files
  <2>1. CASE At("stop") /\ Exists(job.old)
    <3>1. job.old \in Generations
      BY <2>1 DEF JobRows, Exists
    <3>2. cont[job.old].vol \in 0 .. MaxGeneration
      BY <2>1, <3>1, ContainerFacts
    <3> QED BY <2>1, <3>2 DEF RuntimeInv, Volumes
  <2>2. CASE ~(At("stop") /\ Exists(job.old))
    BY <2>2 DEF JobRows
  <2> QED BY <2>1, <2>2
<1>2. JobAt(step) = [job EXCEPT !.step = step, !.data = d]
  BY DEF JobAt
<1>3. Goto(step) <=> job' = [job EXCEPT !.step = step, !.data = d]
  BY DEF Goto, JobRows
<1>4. /\ ~At("stop") => d = job.data
      /\ At("stop") /\ Exists(job.old) => d = vol[cont[job.old].vol]
  OBVIOUS
<1> HIDE DEF d
<1> QED BY <1>1, <1>2, <1>3, <1>4 DEF JobRows

\* A step that is not part of building the new container asks only for the old one.
LEMMA JobAtError ==
  ASSUME RuntimeInv, job \in JobRows, JobSound(job, cont, vol),
         NEW step \in Steps \ ({"idle", "restore"} \cup Building),
         NEW c, NEW v, job.old # NoContainer => c[job.old] # NoContainer
  PROVE  JobPossible(JobAt(step), c, v)
<1>1. step \in Steps \ {"idle", "restore"}
  OBVIOUS
<1> QED BY <1>1, JobAtFacts DEF JobPossible, JobSound, Building, Copying

\* A failure is counted.
LEMMA FailureCounted ==
  ASSUME RuntimeInv, NEW lost \in BOOLEAN, FailsWith(lost)
  PROVE  spent' \in SpentRows
<1> DEFINE f == spent.failures + 1
           l == spent.lost \/ lost
<1>1. spent \in SpentRows /\ f \in Nat
  BY DEF RuntimeInv, SpentRows
<1>2. l \in BOOLEAN
  OBVIOUS
<1>3. spent' = [spent EXCEPT !.failures = f, !.lost = l]
  BY DEF FailsWith
<1> HIDE DEF f, l
<1> QED BY <1>1, <1>2, <1>3 DEF SpentRows

\* A Docker call keeps the invariant when the operation may go on after it; the error
\* path needs only the old container.
LEMMA CallKeeps ==
  ASSUME RuntimeInv, job \in JobRows, JobSound(job, cont, vol),
         NEW c \in Containers, NEW v \in Volumes,
         NEW next \in Steps \ {"idle", "restore"},
         NEW error \in Steps \ ({"idle", "restore"} \cup Building),
         Call(c, v, next, error), UNCHANGED <<archives, gen>>,
         JobPossible(JobAt(next), c, v),
         job.old # NoContainer => c[job.old] # NoContainer
  PROVE  RuntimeInv'
<1>1. error \in Steps \ {"idle", "restore"}
  OBVIOUS
<1>2. CASE cont' = c /\ vol' = v /\ Goto(next) /\ UNCHANGED spent
  <2>1. job' = JobAt(next)
    BY <1>2, JobAtFacts
  <2> QED BY <1>2, <2>1 DEF RuntimeInv
<1>3. ASSUME NEW lost \in BOOLEAN, FailsWith(lost),
             cont' = (IF lost THEN c ELSE cont), vol' = (IF lost THEN v ELSE vol), Goto(error)
      PROVE  RuntimeInv'
  <2>1. job' = JobAt(error)
    BY <1>1, <1>3, JobAtFacts
  <2>2. spent' \in SpentRows
    BY <1>3, FailureCounted
  <2>3. cont' \in Containers /\ vol' \in Volumes
    BY <1>3 DEF RuntimeInv
  <2>4. job.old # NoContainer => cont'[job.old] # NoContainer
    BY <1>3 DEF JobSound
  <2>5. JobPossible(JobAt(error), cont', vol')
    BY <2>4, JobAtError
  <2> QED BY <2>1, <2>2, <2>3, <2>5 DEF RuntimeInv
<1> QED BY <1>2, <1>3 DEF Call

\* The operation goes on without a call.
LEMMA GotoKeeps ==
  ASSUME RuntimeInv, job \in JobRows, NEW next \in Steps \ {"idle", "restore"},
         Goto(next), UNCHANGED <<cont, vol, spent, archives, gen>>,
         JobPossible(JobAt(next), cont, vol)
  PROVE  RuntimeInv'
<1>1. job' = JobAt(next)
  BY JobAtFacts
<1> QED BY <1>1 DEF RuntimeInv

\* The containers are created: the new one exists and the old one stays.
LEMMA CreateInv ==
  ASSUME RuntimeInv, provisionCreate \/ reconcileCreate
  PROVE  RuntimeInv'
<1>1. /\ job \in JobRows /\ JobSound(job, cont, vol) /\ job.gen \in Generations
      /\ job.old \in Generations \cup {NoContainer} /\ At("create")
      /\ job.old # NoContainer => Exists(job.old)
      /\ UNCHANGED <<archives, gen>>
  BY JobFacts DEF provisionCreate, reconcileCreate, At
<1>2. {"fail", "drop", "undo", "unname", "remove"} \subseteq Steps \ ({"idle", "restore"} \cup Building)
      /\ Building \subseteq Steps \ {"idle", "restore"} /\ vol \in Volumes
  BY DEF Steps, Building, Copying, RuntimeInv
<1>3. CASE Goto("fail") /\ UNCHANGED <<cont, vol, spent>>
  BY <1>1, <1>2, <1>3, JobAtError, GotoKeeps DEF JobSound
<1>4. ASSUME NEW name \in ContainerNames, NEW n \in 0 .. MaxGeneration,
             NEW next \in {"install", "stop"}, job.old # job.gen,
             next = "install" => job.old = NoContainer,
             Call(Created(job.gen, name, n), vol, next, "fail")
      PROVE  RuntimeInv'
  <2> DEFINE row == [name |-> name, vol |-> n, running |-> FALSE]
             c == Created(job.gen, name, n)
  <2>1. row \in ContainerRows /\ row # NoContainer
    <3>1. row \in ContainerRows
      BY DEF ContainerRows
    <3> HIDE DEF row
    <3> QED BY <3>1, RuntimeAssumption
  <2>2. c \in Containers /\ c[job.gen] # NoContainer
        /\ \A h \in Generations : h # job.gen => c[h] = cont[h]
    <3>1. c = [cont EXCEPT ![job.gen] = row]
      BY DEF Created
    <3> HIDE DEF c, row
    <3> QED BY <1>1, <2>1, <3>1 DEF RuntimeInv, Containers
  <2> HIDE DEF c
  <2>3. job.old # NoContainer => c[job.old] # NoContainer
    BY <1>1, <1>4, <2>2 DEF JobSound
  <2>4. next \in Steps \ {"idle", "restore"} /\ next \in {"install", "stop"}
    BY <1>2, <1>4 DEF Steps
  <2>5. JobPossible(JobAt(next), c, vol)
    BY <1>1, <1>4, <2>2, <2>3, <2>4, JobAtFacts DEF JobPossible, JobSound, Copying, Building
  <2>6. "fail" \in Steps \ ({"idle", "restore"} \cup Building)
    BY <1>2
  <2>7. Call(c, vol, next, "fail")
    BY <1>4 DEF c
  <2> QED BY <1>1, <1>2, <2>2, <2>3, <2>4, <2>5, <2>6, <2>7, CallKeeps
<1>5. 0 \in 0 .. MaxGeneration /\ job.gen \in 0 .. MaxGeneration
  BY <1>1, RuntimeAssumption, ContainerFacts
<1>6. CASE provisionCreate
  <2>1. Canonical \in ContainerNames
    BY DEF ContainerNames
  <2>2. job.old = NoContainer /\ job.old # job.gen
    <3>1. job.old = NoContainer
      BY <1>1, <1>6 DEF provisionCreate, JobSound
    <3> QED BY <1>1, <3>1, ContainerFacts
  <2> QED BY <1>3, <1>4, <1>5, <1>6, <2>1, <2>2 DEF provisionCreate
<1>7. CASE reconcileCreate
  <2>1. <<"candidate", job.gen>> \in ContainerNames
    BY <1>1 DEF ContainerNames
  <2>2. ~Exists(job.gen) => job.old # job.gen
    BY <1>1, ContainerFacts
  <2>3. (IF Exists(job.old) THEN job.gen ELSE 0) \in 0 .. MaxGeneration
    BY <1>5
  <2> QED BY <1>3, <1>4, <1>7, <2>1, <2>2, <2>3 DEF reconcileCreate
<1> QED BY <1>6, <1>7

\* Which steps there are.
LEMMA StepFacts ==
  /\ {"fail", "drop", "undo", "unname", "remove"} \subseteq Steps \ ({"idle", "restore"} \cup Building)
  /\ Building \subseteq Steps \ {"idle", "restore"} /\ Copying \subseteq Building
  /\ {"stop", "clone", "install", "start", "health", "aside", "switch"} = Building
  BY DEF Steps, Building, Copying

\* While the new container is being built it exists, and is not the old one.
LEMMA BuildingFacts ==
  ASSUME RuntimeInv, job.step \in Building
  PROVE  /\ job \in JobRows /\ JobSound(job, cont, vol)
         /\ job.gen \in Generations /\ Exists(job.gen)
         /\ cont[job.gen] \in ContainerRows /\ cont[job.gen].vol \in 0 .. MaxGeneration
         /\ job.old \in Generations \cup {NoContainer} /\ job.old # job.gen
         /\ ~Exists(NoContainer)
         /\ Exists(job.old) <=> job.old # NoContainer
         /\ Exists(job.old) => job.old \in Generations /\ cont[job.old] \in ContainerRows
                               /\ cont[job.old].vol \in 0 .. MaxGeneration
<1>1. ~At("idle") /\ ~At("restore")
  BY DEF At, Building, Copying
<1>2. /\ job \in JobRows /\ JobSound(job, cont, vol) /\ job.gen \in Generations
      /\ job.old \in Generations \cup {NoContainer} /\ ~Exists(NoContainer)
      /\ job.old # NoContainer => Exists(job.old)
  BY <1>1, JobFacts
<1>3. cont[job.gen] # NoContainer /\ job.old # job.gen
  BY <1>2 DEF JobSound
<1>4. /\ Exists(job.gen) /\ cont[job.gen] \in ContainerRows
      /\ cont[job.gen].vol \in 0 .. MaxGeneration
  BY <1>2, <1>3, ContainerFacts
<1>5. ASSUME job.old # NoContainer
      PROVE  /\ job.old \in Generations /\ cont[job.old] \in ContainerRows
             /\ cont[job.old].vol \in 0 .. MaxGeneration
  <2>1. job.old \in Generations /\ cont[job.old] # NoContainer
    BY <1>2, <1>5 DEF Exists
  <2> QED BY <2>1, ContainerFacts
<1> QED BY <1>2, <1>3, <1>4, <1>5

\* The old container is frozen: what its volume has from then on includes what it had.
LEMMA StopInv ==
  ASSUME RuntimeInv, reconcileStop
  PROVE  RuntimeInv'
<1>1. At("stop") /\ job.step \in Building /\ UNCHANGED <<archives, gen>> /\ vol \in Volumes
  BY StepFacts DEF reconcileStop, At, RuntimeInv
<1>2. /\ job \in JobRows /\ JobSound(job, cont, vol) /\ job.gen \in Generations
      /\ job.old \in Generations \cup {NoContainer} /\ job.old # job.gen /\ Exists(job.gen)
      /\ Exists(job.old) <=> job.old # NoContainer
  BY <1>1, BuildingFacts
<1>3. "clone" \in Steps \ {"idle", "restore"} /\ "drop" \in Steps \ ({"idle", "restore"} \cup Building)
  BY StepFacts
<1>4. /\ JobAt("clone") \in JobRows /\ JobAt("clone").step = "clone"
      /\ JobAt("clone").gen = job.gen /\ JobAt("clone").old = job.old
      /\ JobAt("clone").oldRan = job.oldRan /\ JobAt("clone").kind = job.kind
      /\ Exists(job.old) => JobAt("clone").data = vol[cont[job.old].vol]
  BY <1>1, <1>2, <1>3, JobAtFacts
<1>5. ASSUME NEW c, c[job.gen] # NoContainer, job.old # NoContainer => c[job.old] # NoContainer,
             job.old # NoContainer => c[job.old].vol = cont[job.old].vol
      PROVE  JobPossible(JobAt("clone"), c, vol)
  BY <1>2, <1>4, <1>5 DEF JobPossible, JobSound, Building, Copying
<1>6. CASE job.oldRan
  <2> DEFINE c == Stopped(job.old)
  <2>1. job.old \in Generations /\ Exists(job.old) /\ Canonical \in ContainerNames
    BY <1>2, <1>6 DEF JobSound, ContainerNames
  <2>2. /\ c \in Containers /\ c[job.old].vol = cont[job.old].vol
        /\ \A h \in Generations : c[h] # NoContainer <=> cont[h] # NoContainer
    BY <2>1, EffectFacts
  <2>3. c[job.gen] # NoContainer /\ c[job.old] # NoContainer
    BY <1>2, <2>1, <2>2 DEF Exists
  <2>4. Call(c, vol, "clone", "drop")
    BY <1>6 DEF reconcileStop
  <2> HIDE DEF c
  <2>5. JobPossible(JobAt("clone"), c, vol)
    BY <1>5, <2>2, <2>3
  <2> QED BY <1>1, <1>2, <1>3, <2>2, <2>3, <2>4, <2>5, CallKeeps
<1>7. CASE ~job.oldRan
  <2>1. Goto("clone") /\ UNCHANGED <<cont, vol, spent>>
    BY <1>7 DEF reconcileStop
  <2>2. JobPossible(JobAt("clone"), cont, vol)
    BY <1>2, <1>5 DEF Exists
  <2> QED BY <1>1, <1>2, <1>3, <2>1, <2>2, GotoKeeps
<1> QED BY <1>6, <1>7

\* A copy adds to one volume.
LEMMA CopyFacts ==
  ASSUME vol \in Volumes, NEW files \in SUBSET Files, NEW n \in 0 .. MaxGeneration
  PROVE  /\ Copied(files, n) \in Volumes /\ files \subseteq Copied(files, n)[n]
         /\ \A m \in 0 .. MaxGeneration : vol[m] \subseteq Copied(files, n)[m]
  BY DEF Copied, Volumes

\* The data is copied: what was frozen is now in the new volume.
LEMMA CloneInv ==
  ASSUME RuntimeInv, cloneContainerData
  PROVE  RuntimeInv'
<1>1. At("clone") /\ job.step \in Building /\ UNCHANGED <<archives, gen>> /\ vol \in Volumes
      /\ job.step = "clone" /\ cont \in Containers
  BY StepFacts DEF cloneContainerData, At, RuntimeInv
<1>2. /\ job \in JobRows /\ JobSound(job, cont, vol) /\ job.gen \in Generations
      /\ job.old # job.gen /\ Exists(job.gen) /\ cont[job.gen].vol \in 0 .. MaxGeneration
      /\ Exists(job.old) <=> job.old # NoContainer
      /\ Exists(job.old) => cont[job.old].vol \in 0 .. MaxGeneration
  BY <1>1, BuildingFacts
<1>3. /\ "install" \in Steps \ {"idle", "restore"}
      /\ "undo" \in Steps \ ({"idle", "restore"} \cup Building)
  BY StepFacts
<1>4. /\ JobAt("install") \in JobRows /\ JobAt("install").step = "install"
      /\ JobAt("install").gen = job.gen /\ JobAt("install").old = job.old
      /\ JobAt("install").oldRan = job.oldRan /\ JobAt("install").kind = job.kind
      /\ JobAt("install").data = job.data
  BY <1>1, <1>2, <1>3, JobAtFacts DEF At
<1>5. ASSUME NEW v, job.old # NoContainer => job.data \subseteq v[cont[job.gen].vol]
      PROVE  JobPossible(JobAt("install"), cont, v)
  BY <1>2, <1>4, <1>5 DEF JobPossible, JobSound, Building, Copying, Exists
<1>6. CASE Exists(job.old)
  <2> DEFINE files == vol[cont[job.old].vol]
             v == Copied(files, cont[job.gen].vol)
  <2>1. files \in SUBSET Files
    BY <1>1, <1>2, <1>6 DEF Volumes
  <2>2. v \in Volumes /\ files \subseteq v[cont[job.gen].vol]
    BY <1>1, <1>2, <2>1, CopyFacts
  <2>3. job.data \subseteq files
    BY <1>1, <1>2, <1>6 DEF JobSound
  <2>4. Call(cont, v, "install", "undo")
    BY <1>6 DEF cloneContainerData
  <2> HIDE DEF files, v
  <2>5. JobPossible(JobAt("install"), cont, v)
    BY <1>5, <2>2, <2>3
  <2>6. job.old # NoContainer => cont[job.old] # NoContainer
    BY <1>2 DEF JobSound
  <2> QED BY <1>1, <1>2, <1>3, <2>2, <2>4, <2>5, <2>6, CallKeeps
<1>7. CASE ~Exists(job.old)
  <2>1. Goto("install") /\ UNCHANGED <<cont, vol, spent>>
    BY <1>7 DEF cloneContainerData
  <2>2. JobPossible(JobAt("install"), cont, vol)
    BY <1>2, <1>5, <1>7
  <2> QED BY <1>1, <1>2, <1>3, <2>1, <2>2, GotoKeeps
<1> QED BY <1>6, <1>7

\* From the copy to the switch the new container keeps its volume, which only grows,
\* and the old one stays.
LEMMA CopiedGoesOn ==
  ASSUME RuntimeInv, job.step \in Copying,
         NEW next \in Copying \cup {"remove", "unname", "undo", "drop"},
         NEW c \in Containers, NEW v \in Volumes,
         c[job.gen] # NoContainer, c[job.gen].vol = cont[job.gen].vol,
         job.old # NoContainer => c[job.old] # NoContainer,
         vol[cont[job.gen].vol] \subseteq v[cont[job.gen].vol]
  PROVE  /\ next \in Steps \ {"idle", "restore"}
         /\ JobPossible(JobAt(next), c, v)
<1>1. job \in JobRows /\ JobSound(job, cont, vol) /\ job.old # job.gen
  BY StepFacts, BuildingFacts
<1>2. next \in Steps \ {"idle", "restore"} /\ ~At("stop")
  BY StepFacts DEF At, Copying
<1>3. /\ JobAt(next) \in JobRows /\ JobAt(next).step = next
      /\ JobAt(next).gen = job.gen /\ JobAt(next).old = job.old
      /\ JobAt(next).oldRan = job.oldRan /\ JobAt(next).kind = job.kind
      /\ JobAt(next).data = job.data
  BY <1>1, <1>2, JobAtFacts
<1>4. next # "clone"
  BY DEF Copying
<1> QED BY <1>1, <1>2, <1>3, <1>4 DEF JobPossible, JobSound

\* The calls between the copy and the switch: artifacts are unpacked, the new container
\* is started and checked, and the two are renamed.
LEMMA CopyingCall ==
  ASSUME RuntimeInv, job.step \in Copying,
         NEW next \in Copying \cup {"remove"}, NEW error \in {"unname", "undo", "drop"},
         NEW c \in Containers, NEW v \in Volumes,
         \A h \in Generations : c[h] # NoContainer <=> cont[h] # NoContainer,
         c[job.gen].vol = cont[job.gen].vol,
         vol[cont[job.gen].vol] \subseteq v[cont[job.gen].vol],
         Call(c, v, next, error), UNCHANGED <<archives, gen>>
  PROVE  RuntimeInv'
<1>1. /\ job \in JobRows /\ JobSound(job, cont, vol) /\ job.gen \in Generations /\ Exists(job.gen)
      /\ job.old \in Generations \cup {NoContainer}
  BY StepFacts, BuildingFacts
<1>2. c[job.gen] # NoContainer /\ (job.old # NoContainer => c[job.old] # NoContainer)
  BY <1>1 DEF Exists, JobSound
<1>3. next \in Steps \ {"idle", "restore"} /\ JobPossible(JobAt(next), c, v)
  BY <1>2, CopiedGoesOn
<1>4. error \in Steps \ ({"idle", "restore"} \cup Building)
  BY StepFacts
<1> QED BY <1>1, <1>2, <1>3, <1>4, CallKeeps

\* The same without a call.
LEMMA CopyingGoto ==
  ASSUME RuntimeInv, job.step \in Copying, NEW next \in Copying \cup {"remove", "unname", "undo", "drop"},
         Goto(next), UNCHANGED <<cont, vol, spent, archives, gen>>
  PROVE  RuntimeInv'
<1>1. /\ job \in JobRows /\ JobSound(job, cont, vol) /\ job.gen \in Generations /\ Exists(job.gen)
  BY StepFacts, BuildingFacts
<1>2. cont[job.gen] # NoContainer /\ (job.old # NoContainer => cont[job.old] # NoContainer)
      /\ cont \in Containers /\ vol \in Volumes
  BY <1>1 DEF Exists, JobSound, RuntimeInv
<1>3. next \in Steps \ {"idle", "restore"} /\ JobPossible(JobAt(next), cont, vol)
  BY <1>2, CopiedGoesOn
<1> QED BY <1>1, <1>3, GotoKeeps

\* The steps between the copy and the switch.
LEMMA CopyingInv ==
  ASSUME RuntimeInv,
         installBundleArtifacts \/ StartContainer \/ waitForHealthyRuntime \/ renameOldAside
           \/ renameCandidate
  PROVE  RuntimeInv'
<1>1. job.step \in Copying /\ UNCHANGED <<archives, gen>>
  BY DEF installBundleArtifacts, StartContainer, waitForHealthyRuntime, renameOldAside,
     renameCandidate, At, Copying
<1>2. /\ job \in JobRows /\ JobSound(job, cont, vol)
      /\ job.gen \in Generations /\ Exists(job.gen) /\ cont[job.gen].vol \in 0 .. MaxGeneration
      /\ job.old \in Generations \cup {NoContainer} /\ job.old # job.gen
      /\ Exists(job.old) => job.old \in Generations
      /\ cont \in Containers /\ vol \in Volumes
  BY <1>1, StepFacts, BuildingFacts DEF RuntimeInv
<1>3. /\ OnError \in {"unname", "undo", "drop"} /\ AfterInstall \in Copying \cup {"remove"}
      /\ {"start", "health", "aside", "switch"} \subseteq Copying
  BY DEF OnError, AfterInstall, Copying
<1>4. ASSUME NEW g \in Generations, Exists(g), NEW name \in ContainerNames,
             NEW c \in {Started(g), Stopped(g), Renamed(g, name)},
             g \in {job.gen, job.old}
      PROVE  /\ c \in Containers /\ c[job.gen].vol = cont[job.gen].vol
             /\ \A h \in Generations : c[h] # NoContainer <=> cont[h] # NoContainer
  <2>1. c \in Containers /\ \A h \in Generations : c[h] # NoContainer <=> cont[h] # NoContainer
    BY <1>4, EffectFacts
  <2>2. c[g].vol = cont[g].vol /\ \A h \in Generations : h # g => c[h] = cont[h]
    BY <1>4, EffectFacts
  <2>3. c[job.gen].vol = cont[job.gen].vol
    BY <1>2, <2>2
  <2> QED BY <2>1, <2>3
<1>5. vol[cont[job.gen].vol] \subseteq vol[cont[job.gen].vol] /\ Canonical \in ContainerNames
  BY DEF ContainerNames
<1>6. CASE installBundleArtifacts
  <2>1. CASE job.install
    <3> DEFINE v == Copied({0}, cont[job.gen].vol)
    <3>1. {0} \in SUBSET Files
      BY RuntimeAssumption DEF Files
    <3>2. v \in Volumes /\ vol[cont[job.gen].vol] \subseteq v[cont[job.gen].vol]
      BY <1>2, <3>1, CopyFacts
    <3>3. Call(cont, v, AfterInstall, OnError)
      BY <1>6, <2>1 DEF installBundleArtifacts
    <3> HIDE DEF v
    <3> QED BY <1>1, <1>2, <1>3, <3>2, <3>3, CopyingCall
  <2>2. CASE ~job.install
    <3>1. Goto(AfterInstall) /\ UNCHANGED <<cont, vol, spent>>
      BY <1>6, <2>2 DEF installBundleArtifacts
    <3> QED BY <1>1, <1>3, <3>1, CopyingGoto
  <2> QED BY <2>1, <2>2
<1>7. CASE StartContainer
  <2>1. CASE PortsFree(job.gen)
    <3> DEFINE next == IF job.kind = "provision" THEN "remove" ELSE "health"
    <3>1. Call(Started(job.gen), vol, next, OnError)
      BY <1>7, <2>1 DEF StartContainer
    <3>2. next \in Copying \cup {"remove"}
      BY <1>3
    <3> DEFINE c == Started(job.gen)
    <3>3. /\ c \in Containers /\ c[job.gen].vol = cont[job.gen].vol
          /\ \A h \in Generations : c[h] # NoContainer <=> cont[h] # NoContainer
      BY <1>2, <1>4, <1>5
    <3> HIDE DEF c, next
    <3>4. Call(c, vol, next, OnError)
      BY <3>1 DEF c
    <3> QED BY <1>1, <1>2, <1>3, <1>5, <3>2, <3>3, <3>4, CopyingCall
  <2>2. CASE ~PortsFree(job.gen)
    <3>1. Goto(OnError) /\ UNCHANGED <<cont, vol, spent>>
      BY <1>7, <2>2 DEF StartContainer
    <3> QED BY <1>1, <1>3, <3>1, CopyingGoto
  <2> QED BY <2>1, <2>2
<1>8. CASE waitForHealthyRuntime
  <2>1. CASE Goto("aside") /\ UNCHANGED <<cont, spent>>
    <3>1. UNCHANGED vol
      BY <1>8 DEF waitForHealthyRuntime
    <3> QED BY <1>1, <1>3, <2>1, <3>1, CopyingGoto
  <2>2. CASE Fails /\ Goto("undo") /\ cont' \in {cont, Stopped(job.gen)}
    <3>1. spent' \in SpentRows
      BY <2>2, FailureCounted DEF Fails
    <3>2. job' = JobAt("undo") /\ UNCHANGED <<vol, archives, gen>>
      BY <1>2, <1>8, <2>2, StepFacts, JobAtFacts DEF waitForHealthyRuntime
    <3>3. cont' \in Containers /\ \A h \in Generations : cont'[h] # NoContainer <=> cont[h] # NoContainer
      BY <1>2, <1>4, <1>5, <2>2
    <3>4. job.old # NoContainer => cont'[job.old] # NoContainer
      BY <1>2, <3>3 DEF JobSound
    <3>5. JobPossible(JobAt("undo"), cont', vol')
      BY <1>2, <3>4, StepFacts, JobAtError
    <3> QED BY <3>1, <3>2, <3>3, <3>5 DEF RuntimeInv
  <2> QED BY <1>8, <2>1, <2>2 DEF waitForHealthyRuntime
<1>9. CASE renameOldAside
  <2>1. CASE Exists(job.old)
    <3> DEFINE c == Renamed(job.old, <<"rollback", job.gen>>)
    <3>1. <<"rollback", job.gen>> \in ContainerNames /\ job.old \in Generations
      BY <1>2, <2>1 DEF ContainerNames
    <3>2. /\ c \in Containers /\ c[job.gen].vol = cont[job.gen].vol
          /\ \A h \in Generations : c[h] # NoContainer <=> cont[h] # NoContainer
      BY <1>4, <2>1, <3>1
    <3>3. Call(c, vol, "switch", "undo")
      BY <1>9, <2>1 DEF renameOldAside
    <3> HIDE DEF c
    <3> QED BY <1>1, <1>2, <1>3, <1>5, <3>2, <3>3, CopyingCall
  <2>2. CASE ~Exists(job.old)
    <3>1. Goto("switch") /\ UNCHANGED <<cont, vol, spent>>
      BY <1>9, <2>2 DEF renameOldAside
    <3> QED BY <1>1, <1>3, <3>1, CopyingGoto
  <2> QED BY <2>1, <2>2
<1>10. CASE renameCandidate
  <2>1. CASE NameFree(Canonical)
    <3> DEFINE c == Renamed(job.gen, Canonical)
    <3>1. /\ c \in Containers /\ c[job.gen].vol = cont[job.gen].vol
          /\ \A h \in Generations : c[h] # NoContainer <=> cont[h] # NoContainer
      BY <1>2, <1>4, <1>5
    <3>2. Call(c, vol, "remove", "unname")
      BY <1>10, <2>1 DEF renameCandidate
    <3> HIDE DEF c
    <3> QED BY <1>1, <1>2, <1>5, <3>1, <3>2, CopyingCall
  <2>2. CASE ~NameFree(Canonical)
    <3>1. Goto("unname") /\ UNCHANGED <<cont, vol, spent>>
      BY <1>10, <2>2 DEF renameCandidate
    <3> QED BY <1>1, <3>1, CopyingGoto
  <2> QED BY <2>1, <2>2
<1> QED BY <1>6, <1>7, <1>8, <1>9, <1>10

\* An operation that is over leaves the containers and volumes as they are.
LEMMA EndKeeps ==
  ASSUME RuntimeInv, job' = Idle, cont' \in Containers, vol' \in Volumes, spent' \in SpentRows,
         UNCHANGED <<archives, gen>>
  PROVE  RuntimeInv'
  BY DEF RuntimeInv, JobPossible

\* A call whose error is ignored.
LEMMA BestEffortFacts ==
  ASSUME RuntimeInv, NEW c \in Containers, BestEffort(c)
  PROVE  cont' \in Containers /\ spent' \in SpentRows /\ cont' \in {c, cont}
<1>1. CASE cont' = c /\ UNCHANGED spent
  BY <1>1 DEF RuntimeInv
<1>2. CASE Fails /\ UNCHANGED cont
  BY <1>2, FailureCounted DEF Fails, RuntimeInv
<1> QED BY <1>1, <1>2 DEF BestEffort

\* The ends of an operation, and the way to its rollback.
LEMMA EndInv ==
  ASSUME RuntimeInv, reportSuccess \/ restoreName \/ rollback \/ removeCreated
  PROVE  RuntimeInv'
<1>1. job.step \in {"remove", "unname", "undo", "drop", "fail"} /\ UNCHANGED <<vol, archives, gen>>
  BY DEF reportSuccess, restoreName, rollback, removeCreated, At
<1>2. ~At("idle") /\ ~At("restore") /\ ~At("stop")
  BY <1>1 DEF At
<1>3. /\ job \in JobRows /\ JobSound(job, cont, vol) /\ job.gen \in Generations
      /\ job.old \in Generations \cup {NoContainer} /\ ~Exists(NoContainer)
      /\ job.old # NoContainer => Exists(job.old)
  BY <1>2, JobFacts
<1>4. cont \in Containers /\ vol \in Volumes /\ spent \in SpentRows
  BY DEF RuntimeInv
<1>5. \A g \in Generations : Removed(g) \in Containers
  BY <1>4 DEF Removed, Containers
<1>6. CASE reportSuccess
  <2>1. job' = Idle
    BY <1>6 DEF reportSuccess, Finish
  <2>2. cont' \in Containers /\ spent' \in SpentRows
    <3>1. CASE job.kind = "reconcile" /\ Exists(job.old) /\ job.old # job.gen
      <4>1. BestEffort(Removed(job.old)) /\ job.old \in Generations
        BY <1>3, <1>6, <3>1 DEF reportSuccess
      <4> QED BY <1>5, <4>1, BestEffortFacts
    <3>2. CASE ~(job.kind = "reconcile" /\ Exists(job.old) /\ job.old # job.gen)
      BY <1>4, <1>6, <3>2 DEF reportSuccess
    <3> QED BY <3>1, <3>2
  <2> QED BY <1>1, <1>4, <2>1, <2>2, EndKeeps
<1>7. CASE restoreName
  <2>1. Canonical \in ContainerNames /\ job.step = "unname"
    BY <1>7 DEF ContainerNames, restoreName, At
  <2>2. /\ cont' \in Containers /\ spent' \in SpentRows
        /\ \A h \in Generations : cont'[h] # NoContainer <=> cont[h] # NoContainer
    <3>1. CASE Exists(job.old) /\ NameFree(Canonical)
      <4> DEFINE c == Renamed(job.old, Canonical)
      <4>1. BestEffort(c) /\ job.old \in Generations
        BY <1>3, <1>7, <3>1 DEF restoreName
      <4>2. c \in Containers /\ \A h \in Generations : c[h] # NoContainer <=> cont[h] # NoContainer
        BY <2>1, <3>1, <4>1, EffectFacts
      <4> HIDE DEF c
      <4>3. cont' \in Containers /\ spent' \in SpentRows /\ cont' \in {c, cont}
        BY <4>1, <4>2, BestEffortFacts
      <4> QED BY <4>2, <4>3
    <3>2. CASE ~(Exists(job.old) /\ NameFree(Canonical))
      BY <1>4, <1>7, <3>2 DEF restoreName
    <3> QED BY <3>1, <3>2
  <2>3. job' = JobAt("undo")
    BY <1>3, <1>7, StepFacts, JobAtFacts DEF restoreName
  <2>4. job.old # NoContainer => cont'[job.old] # NoContainer
    BY <1>3, <2>2 DEF JobSound
  <2>5. JobPossible(JobAt("undo"), cont', vol')
    BY <1>3, <2>4, StepFacts, JobAtError
  <2> QED BY <1>1, <1>4, <2>2, <2>3, <2>5 DEF RuntimeInv
<1>8. CASE rollback
  <2> DEFINE ran == cont[job.old].running \/ job.oldRan
             row == [cont[job.old] EXCEPT !.running = ran]
             c == [g \in Generations |->
                      IF g = job.gen THEN NoContainer
                      ELSE IF g = job.old THEN [cont[g] EXCEPT !.running = @ \/ job.oldRan]
                      ELSE cont[g]]
  <2>1. job' = Idle /\ BestEffort(c)
    BY <1>8 DEF rollback, Finish
  <2>2. job.old \in Generations => row \in ContainerRows
    <3>1. ran \in BOOLEAN
      OBVIOUS
    <3>2. job.old \in Generations => cont[job.old] \in ContainerRows
      BY <1>3, ContainerFacts
    <3> HIDE DEF ran
    <3> QED BY <3>1, <3>2 DEF ContainerRows
  <2>3. c = [g \in Generations |-> IF g = job.gen THEN NoContainer
                                   ELSE IF g = job.old THEN row ELSE cont[g]]
    OBVIOUS
  <2>4. c \in Containers
    <3> HIDE DEF c, row
    <3> QED BY <1>4, <2>2, <2>3 DEF Containers
  <2> HIDE DEF c
  <2>5. cont' \in Containers /\ spent' \in SpentRows
    BY <2>1, <2>4, BestEffortFacts
  <2> QED BY <1>1, <1>4, <2>1, <2>5, EndKeeps
<1>9. CASE removeCreated
  <2>1. job' = Idle
    BY <1>9 DEF removeCreated, Finish
  <2>2. cont' \in Containers /\ spent' \in SpentRows
    <3>1. CASE At("drop")
      <4>1. BestEffort(Removed(job.gen))
        BY <1>9, <3>1 DEF removeCreated
      <4> QED BY <1>3, <1>5, <4>1, BestEffortFacts
    <3>2. CASE ~At("drop")
      BY <1>4, <1>9, <3>2 DEF removeCreated
    <3> QED BY <3>1, <3>2
  <2> QED BY <1>1, <1>4, <2>1, <2>2, EndKeeps
<1> QED BY <1>6, <1>7, <1>8, <1>9

\* The row of a reconcile that finds a container, or none.
LEMMA ReconcileRow ==
  ASSUME RuntimeInv, NEW g \in Generations, NEW run \in BOOLEAN, NEW install \in BOOLEAN,
         NEW old \in Generations \cup {NoContainer}, NEW was \in Generations \cup {NoContainer},
         old # NoContainer => Exists(old), was # NoContainer => Exists(was)
  PROVE  LET j == ReconcileOf(g, run, install, old, was) IN
         /\ j \in JobRows /\ JobSound(j, cont, vol)
         /\ j.kind = "reconcile" /\ j.gen = g /\ j.old = old /\ j.was = was
         /\ j.step = (IF old = g THEN "remove" ELSE "create")
         /\ j.oldRan <=> old # NoContainer /\ cont[old].running
         /\ j.ran <=> was # NoContainer /\ cont[was].running
         /\ old # NoContainer => j.data = vol[cont[old].vol]
<1> DEFINE first == IF old = g THEN "remove" ELSE "create"
           oldRan == Exists(old) /\ cont[old].running
           ran == Exists(was) /\ cont[was].running
           d == IF Exists(old) THEN vol[cont[old].vol] ELSE {}
           j == ReconcileOf(g, run, install, old, was)
<1>1. j = [kind |-> "reconcile", step |-> first, gen |-> g, run |-> run, install |-> install,
           old |-> old, oldRan |-> oldRan, data |-> d, was |-> was, ran |-> ran]
  BY DEF ReconcileOf
<1>2. ~Exists(NoContainer)
  BY DEF Exists
<1>3. \A h \in Generations : Exists(h) => cont[h].running \in BOOLEAN /\ cont[h].vol \in 0 .. MaxGeneration
  <2> SUFFICES ASSUME NEW h \in Generations, Exists(h)
               PROVE  cont[h].running \in BOOLEAN /\ cont[h].vol \in 0 .. MaxGeneration
    OBVIOUS
  <2>1. cont[h] \in ContainerRows
    BY ContainerFacts
  <2> QED BY <2>1 DEF ContainerRows
<1>4. oldRan \in BOOLEAN /\ ran \in BOOLEAN
  BY <1>2, <1>3
<1>5. d \in SUBSET Files
  <2>1. CASE Exists(old)
    <3>1. cont[old].vol \in 0 .. MaxGeneration
      BY <1>2, <1>3, <2>1
    <3> QED BY <2>1, <3>1 DEF RuntimeInv, Volumes
  <2>2. CASE ~Exists(old)
    BY <2>2
  <2> QED BY <2>1, <2>2
<1>6. /\ first \in {"remove", "create"} /\ first = (IF old = g THEN "remove" ELSE "create")
      /\ oldRan <=> old # NoContainer /\ cont[old].running
      /\ ran <=> was # NoContainer /\ cont[was].running
      /\ old # NoContainer => d = vol[cont[old].vol]
  BY <1>2
<1> HIDE DEF first, oldRan, ran, d, j
<1>7. /\ j.kind = "reconcile" /\ j.gen = g /\ j.old = old /\ j.was = was /\ j.step = first
      /\ j.oldRan = oldRan /\ j.ran = ran /\ j.data = d
  BY <1>1
<1>8. j \in JobRows
  BY <1>1, <1>4, <1>5, <1>6 DEF JobRows, Steps
<1>9. JobSound(j, cont, vol)
  BY <1>6, <1>7 DEF JobSound, Building, Copying, Exists
<1> QED BY <1>6, <1>7, <1>8, <1>9 DEF j

\* An operation begins: a reconcile finds the container it is to replace, or does not.
LEMMA OperationInv ==
  ASSUME RuntimeInv, NEW g \in Generations,
         NEW trusted \in BOOLEAN, NEW run \in BOOLEAN, NEW install \in BOOLEAN,
         executeProvision(g, trusted, run, install) \/ executeReconcile(g, trusted, run, install)
  PROVE  RuntimeInv'
<1>1. UNCHANGED <<cont, vol, archives>> /\ gen' = g /\ At("idle") /\ job = Idle
  BY JobFacts DEF executeProvision, executeReconcile, Refuse
<1>2. gen' \in 0 .. MaxGeneration
  BY <1>1, ContainerFacts
<1>3. CASE UNCHANGED <<job, spent>>
  BY <1>1, <1>2, <1>3 DEF RuntimeInv, JobPossible
<1>4. CASE /\ UNCHANGED spent
           /\ job' = [kind |-> "provision", step |-> "create", gen |-> g, run |-> run,
                      install |-> install, old |-> NoContainer, oldRan |-> FALSE, data |-> {},
                      was |-> NoContainer, ran |-> FALSE]
  <2>1. job' \in JobRows
    BY <1>4 DEF JobRows, Steps
  <2>2. JobSound(job', cont', vol')
    BY <1>4 DEF JobSound, Building, Copying
  <2> QED BY <1>1, <1>2, <1>4, <2>1, <2>2 DEF RuntimeInv, JobPossible
<1>5. ASSUME NEW old \in {InspectContainer, NoContainer},
             job' = ReconcileOf(g, run, install, old, InspectContainer), UNCHANGED spent \/ Fails
      PROVE  RuntimeInv'
  <2>1. job' \in JobRows /\ JobSound(job', cont, vol)
    BY <1>5, InspectFacts, ReconcileRow
  <2>2. spent' \in SpentRows
    BY <1>5, FailureCounted DEF Fails, RuntimeInv
  <2> QED BY <1>1, <1>2, <2>1, <2>2 DEF RuntimeInv, JobPossible
<1>6. CASE executeProvision(g, trusted, run, install)
  BY <1>3, <1>4, <1>6 DEF executeProvision, Refuse
<1>7. CASE executeReconcile(g, trusted, run, install)
  <2>1. \/ UNCHANGED <<job, spent>>
        \/ \E old \in {InspectContainer, NoContainer} :
             job' = ReconcileOf(g, run, install, old, InspectContainer) /\ (UNCHANGED spent \/ Fails)
    BY <1>7 DEF executeReconcile, Refuse
  <2> QED BY <1>3, <1>5, <2>1
<1> QED
  BY <1>6, <1>7

\* Between operations only the containers and archives change.
LEMMA IdleKeeps ==
  ASSUME RuntimeInv, At("idle"), UNCHANGED <<vol, job, gen>>, cont' \in Containers,
         archives' \in [LocalBackups -> (SUBSET Files) \cup {NoContainer}], spent' \in SpentRows
  PROVE  RuntimeInv'
<1>1. job' = Idle
  BY JobFacts
<1> QED BY <1>1 DEF RuntimeInv, JobPossible

\* A power request starts or stops the container with the canonical name.
LEMMA PowerInv ==
  ASSUME RuntimeInv, NEW action \in {"start", "stop", "restart", "kill"}, executePower(action)
  PROVE  RuntimeInv'
<1> DEFINE g == InspectContainer
<1>1. /\ At("idle") /\ UNCHANGED <<vol, archives, job, gen>> /\ cont \in Containers
      /\ spent \in SpentRows
      /\ archives' \in [LocalBackups -> (SUBSET Files) \cup {NoContainer}]
  BY DEF executePower, RuntimeInv
<1>2. CASE g # NoContainer /\ cont' \in {Stopped(g), Started(g)} /\ UNCHANGED spent
  <2>1. g \in Generations /\ Exists(g) /\ Canonical \in ContainerNames
    BY <1>2, InspectFacts DEF ContainerNames
  <2> HIDE DEF g
  <2>2. cont' \in Containers
    BY <1>2, <2>1, EffectFacts
  <2> QED BY <1>1, <1>2, <2>2, IdleKeeps
<1>3. CASE UNCHANGED cont /\ (UNCHANGED spent \/ Fails)
  <2>1. spent' \in SpentRows
    BY <1>1, <1>3, FailureCounted DEF Fails
  <2> QED BY <1>1, <1>3, <2>1, IdleKeeps
<1>4. \/ g # NoContainer /\ cont' \in {Stopped(g), Started(g)} /\ UNCHANGED spent
      \/ UNCHANGED cont /\ (UNCHANGED spent \/ Fails)
  BY DEF executePower
<1> QED BY <1>2, <1>3, <1>4

\* Backups of the volume, and the restores that put one back.
LEMMA BackupsInv ==
  ASSUME RuntimeInv, NEW b \in LocalBackups,
         createBackup(b) \/ restoreBackup(b) \/ deleteBackup(b)
  PROVE  RuntimeInv'
<1>1. /\ cont \in Containers /\ vol \in Volumes /\ spent \in SpentRows
      /\ archives \in [LocalBackups -> (SUBSET Files) \cup {NoContainer}]
  BY DEF RuntimeInv
<1>2. CASE createBackup(b)
  <2> DEFINE g == InspectContainer
             new == IF archives[b] = NoContainer /\ Exists(g) /\ cont[g].running
                    THEN vol[cont[g].vol] ELSE archives[b]
  <2>1. archives' = [archives EXCEPT ![b] = new]
    BY <1>2 DEF createBackup
  <2>2. new \in (SUBSET Files) \cup {NoContainer}
    <3>1. CASE Exists(g)
      <4>1. g \in Generations
        BY <3>1, InspectFacts DEF Exists
      <4>2. cont[g].vol \in 0 .. MaxGeneration
        BY <3>1, <4>1, ContainerFacts
      <4> QED BY <1>1, <4>2 DEF Volumes
    <3>2. CASE ~Exists(g)
      BY <1>1, <3>2
    <3> QED BY <3>1, <3>2
  <2> HIDE DEF new
  <2>3. archives' \in [LocalBackups -> (SUBSET Files) \cup {NoContainer}]
    BY <1>1, <2>1, <2>2
  <2>4. At("idle") /\ UNCHANGED <<cont, vol, job, gen, spent>>
    BY <1>2 DEF createBackup
  <2> QED BY <1>1, <2>3, <2>4, IdleKeeps
<1>3. CASE deleteBackup(b)
  <2>1. archives' \in [LocalBackups -> (SUBSET Files) \cup {NoContainer}]
    <3>1. archives' = [archives EXCEPT ![b] = NoContainer] /\ NoContainer \in (SUBSET Files) \cup {NoContainer}
      BY <1>3 DEF deleteBackup
    <3> QED BY <1>1, <3>1
  <2>2. At("idle") /\ UNCHANGED <<cont, vol, job, gen, spent>>
    BY <1>3 DEF deleteBackup
  <2> QED BY <1>1, <2>1, <2>2, IdleKeeps
<1>4. CASE restoreBackup(b)
  <2> DEFINE g == InspectContainer
  <2>1. UNCHANGED <<cont, vol, archives, gen, spent>>
    BY <1>4 DEF restoreBackup
  <2>2. CASE UNCHANGED job
    BY <2>1, <2>2 DEF RuntimeInv, JobPossible
  <2>3. CASE /\ Exists(g) /\ archives[b] # NoContainer
             /\ job' = [kind |-> "restore", step |-> "restore", gen |-> g, old |-> g,
                        oldRan |-> FALSE, data |-> archives[b], was |-> g, ran |-> FALSE]
    <3>1. g \in Generations
      BY <2>3, InspectFacts DEF Exists
    <3>2. archives[b] \in SUBSET Files
      <4>1. archives[b] \in (SUBSET Files) \cup {NoContainer}
        BY <1>1
      <4> QED BY <2>3, <4>1
    <3> HIDE DEF g
    <3>3. job' \in RestoreRows /\ job'.gen = g
      BY <2>3, <3>1, <3>2 DEF RestoreRows
    <3>4. cont'[g] # NoContainer
      BY <2>1, <2>3 DEF Exists
    <3> QED BY <2>1, <3>3, <3>4 DEF RuntimeInv, JobPossible
  <2> QED BY <1>4, <2>2, <2>3 DEF restoreBackup
<1> QED BY <1>2, <1>3, <1>4

\* A restore changes one volume.
LEMMA RestoreVolumeInv ==
  ASSUME RuntimeInv, RestoreNamedVolume
  PROVE  RuntimeInv'
<1>1. cont \in Containers /\ vol \in Volumes /\ spent \in SpentRows
  BY DEF RuntimeInv
<1>2. /\ job \in RestoreRows /\ cont[job.gen] # NoContainer /\ job.gen \in Generations
      /\ job.data \in SUBSET Files
  BY JobFacts DEF RestoreNamedVolume, RestoreRows
<1>3. job' = Idle /\ UNCHANGED <<cont, archives, gen>>
  BY DEF RestoreNamedVolume, Finish
<1>4. spent' \in SpentRows
  BY <1>1, FailureCounted DEF RestoreNamedVolume, Fails
<1>5. vol' \in Volumes
  <2> DEFINE v == cont[job.gen].vol
  <2>1. v \in 0 .. MaxGeneration
    BY <1>2, ContainerFacts
  <2>2. PICK files \in (SUBSET vol[v]) \cup (SUBSET job.data) : vol' = [vol EXCEPT ![v] = files]
    BY DEF RestoreNamedVolume
  <2> HIDE DEF v
  <2>3. files \in SUBSET Files
    BY <1>1, <1>2, <2>1, <2>2 DEF Volumes
  <2> QED BY <1>1, <2>2, <2>3 DEF Volumes
<1> QED BY <1>1, <1>3, <1>4, <1>5, EndKeeps

\* Containers that only start or stop keep the operation sound.
LEMMA OutsideKeeps ==
  ASSUME RuntimeInv, cont' \in Containers, UNCHANGED <<vol, archives, job, gen>>, spent' \in SpentRows,
         \A h \in Generations : /\ cont'[h] # NoContainer <=> cont[h] # NoContainer
                                /\ cont[h] # NoContainer => cont'[h].vol = cont[h].vol
  PROVE  RuntimeInv'
<1>1. JobPossible(job, cont', vol)
  <2>1. CASE job.step \in Building
    <3>1. /\ job \in JobRows /\ JobSound(job, cont, vol) /\ job.gen \in Generations
          /\ cont[job.gen] # NoContainer /\ job.old \in Generations \cup {NoContainer}
      BY <2>1, BuildingFacts DEF Exists
    <3>2. job.old # NoContainer => job.old \in Generations /\ cont[job.old] # NoContainer
      BY <3>1 DEF JobSound
    <3>3. /\ cont'[job.gen] # NoContainer /\ cont'[job.gen].vol = cont[job.gen].vol
          /\ job.old # NoContainer => cont'[job.old] # NoContainer /\ cont'[job.old].vol = cont[job.old].vol
      BY <3>1, <3>2
    <3>4. JobSound(job, cont', vol)
      BY <2>1, <3>1, <3>3 DEF JobSound
    <3> QED BY <3>1, <3>4 DEF JobPossible
  <2>2. CASE job.step \notin Building
    <3>1. CASE job = Idle
      BY <3>1 DEF JobPossible
    <3>2. CASE job \in RestoreRows /\ cont[job.gen] # NoContainer
      BY <3>2 DEF JobPossible, RestoreRows
    <3>3. CASE job \in JobRows /\ JobSound(job, cont, vol)
      <4>1. job.old # NoContainer => job.old \in Generations /\ cont'[job.old] # NoContainer
        BY <3>3 DEF JobRows, JobSound
      <4>2. job.step # "clone" /\ job.step \notin Copying
        BY <2>2 DEF Building
      <4> QED BY <2>2, <3>3, <4>1, <4>2 DEF JobPossible, JobSound
    <3> QED BY <3>1, <3>2, <3>3 DEF RuntimeInv, JobPossible
  <2> QED BY <2>1, <2>2
<1> QED BY <1>1 DEF RuntimeInv

\* A file request starts or stops the container that has the name, which is noted.
LEMMA BorrowSteps ==
  ASSUME RuntimeInv, fileInspect \/ fileStart \/ fileStop
  PROVE  /\ UNCHANGED <<vol, archives, job, last, gen>> /\ spent' \in SpentRows
         /\ spent'.failures = spent.failures /\ spent'.stops = spent.stops
         /\ spent'.lost = spent.lost /\ (spent.met => spent'.met)
         /\ \/ UNCHANGED <<cont, spent>>
            \/ /\ InspectContainer \in Generations /\ Exists(InspectContainer)
               /\ \/ PortsFree(InspectContainer) /\ cont' = Started(InspectContainer)
                  \/ cont' = Stopped(InspectContainer)
               /\ ~At("idle") => spent'.met
<1> DEFINE m == spent.met \/ ~At("idle")
<1>1. spent \in SpentRows /\ m \in BOOLEAN
  BY DEF RuntimeInv
<1>2. ASSUME Meets
      PROVE  /\ spent' \in SpentRows /\ spent'.failures = spent.failures /\ spent'.stops = spent.stops
             /\ spent'.lost = spent.lost /\ spent'.met = m
  <2>1. spent' = [spent EXCEPT !.met = m]
    BY <1>2 DEF Meets
  <2> HIDE DEF m
  <2> QED BY <1>1, <2>1 DEF SpentRows
<1>3. InspectContainer # NoContainer => InspectContainer \in Generations /\ Exists(InspectContainer)
  BY InspectFacts
<1>4. UNCHANGED <<vol, archives, job, last, gen>>
  BY DEF fileInspect, fileStart, fileStop
<1>5. \/ UNCHANGED <<cont, spent>>
      \/ /\ InspectContainer # NoContainer /\ Meets
         /\ \/ PortsFree(InspectContainer) /\ cont' = Started(InspectContainer)
            \/ cont' = Stopped(InspectContainer)
  BY DEF fileInspect, fileStart, fileStop
<1>6. CASE UNCHANGED <<cont, spent>>
  BY <1>1, <1>4, <1>6
<1>7. CASE /\ InspectContainer # NoContainer /\ Meets
           /\ \/ PortsFree(InspectContainer) /\ cont' = Started(InspectContainer)
              \/ cont' = Stopped(InspectContainer)
  BY <1>2, <1>3, <1>4, <1>7
<1> QED BY <1>5, <1>6, <1>7

\* Whatever a file request starts or stops, the operation stays sound.
LEMMA BorrowInv ==
  ASSUME RuntimeInv, fileInspect \/ fileStart \/ fileStop
  PROVE  RuntimeInv'
<1> DEFINE g == InspectContainer
<1>1. /\ UNCHANGED <<vol, archives, job, gen>> /\ spent' \in SpentRows
      /\ \/ UNCHANGED <<cont, spent>>
         \/ g \in Generations /\ Exists(g) /\ cont' \in {Started(g), Stopped(g)}
  BY BorrowSteps
<1> HIDE DEF g
<1>2. CASE UNCHANGED cont
  BY <1>1, <1>2 DEF RuntimeInv
<1>3. CASE g \in Generations /\ Exists(g) /\ cont' \in {Started(g), Stopped(g)}
  <2>1. Canonical \in ContainerNames
    BY DEF ContainerNames
  <2>2. /\ Started(g) \in Containers /\ Stopped(g) \in Containers
        /\ \A h \in Generations : \A c \in {Started(g), Stopped(g), Renamed(g, Canonical)} :
              (c[h] # NoContainer <=> cont[h] # NoContainer) /\ (h # g => c[h] = cont[h])
        /\ \A c \in {Started(g), Stopped(g), Renamed(g, Canonical)} : c[g].vol = cont[g].vol
    BY <1>3, <2>1, EffectFacts
  <2>3. /\ cont' \in Containers
        /\ \A h \in Generations : /\ cont'[h] # NoContainer <=> cont[h] # NoContainer
                                  /\ cont[h] # NoContainer => cont'[h].vol = cont[h].vol
    BY <1>3, <2>2
  <2> QED BY <1>1, <2>3, OutsideKeeps
<1> QED BY <1>1, <1>2, <1>3

\* What is written is one file more in the volume of one container.
LEMMA WrittenFacts ==
  ASSUME RuntimeInv, NEW g \in Generations, Exists(g), Written(g)
  PROVE  /\ UNCHANGED <<cont, archives, job, borrow, last, gen>>
         /\ spent' \in SpentRows /\ spent'.failures = spent.failures /\ spent'.stops = spent.stops
         /\ spent'.lost = spent.lost /\ spent'.met = spent.met
         /\ vol' \in Volumes /\ \A m \in 0 .. MaxGeneration : vol[m] \subseteq vol'[m]
<1> DEFINE n == spent.files + 1
<1>1. /\ spent \in SpentRows /\ vol \in Volumes /\ spent.files \in 0 .. MaxFiles /\ spent.files < MaxFiles
      /\ spent' = [spent EXCEPT !.files = n]
      /\ UNCHANGED <<cont, archives, job, borrow, last, gen>>
  BY DEF RuntimeInv, Written, SpentRows
<1>2. n \in 0 .. MaxFiles /\ {n} \in SUBSET Files
  BY <1>1, RuntimeAssumption DEF Files
<1>3. cont[g].vol \in 0 .. MaxGeneration /\ vol' = Copied({n}, cont[g].vol)
  BY ContainerFacts DEF Written
<1> HIDE DEF n
<1>4. /\ spent' \in SpentRows /\ spent'.failures = spent.failures /\ spent'.stops = spent.stops
      /\ spent'.lost = spent.lost /\ spent'.met = spent.met
  BY <1>1, <1>2 DEF SpentRows
<1>5. vol' \in Volumes /\ \A m \in 0 .. MaxGeneration : vol[m] \subseteq vol'[m]
  BY <1>1, <1>2, <1>3, CopyFacts
<1> QED BY <1>1, <1>4, <1>5

\* The game and file requests add files, which takes nothing from what is copied.
LEMMA WritingInv ==
  ASSUME RuntimeInv, writeFile \/ \E g \in Generations : GameWrites(g)
  PROVE  RuntimeInv'
<1>1. PICK g \in Generations : Exists(g) /\ Written(g)
  BY InspectFacts DEF writeFile, GameWrites
<1>2. /\ spent' \in SpentRows /\ vol' \in Volumes /\ \A m \in 0 .. MaxGeneration : vol[m] \subseteq vol'[m]
      /\ UNCHANGED <<cont, archives, job, gen>>
  BY <1>1, WrittenFacts
<1>3. JobPossible(job, cont, vol')
  <2>1. CASE job.step \in Building
    <3>1. /\ job \in JobRows /\ JobSound(job, cont, vol)
          /\ cont[job.gen].vol \in 0 .. MaxGeneration
          /\ job.old # NoContainer => cont[job.old].vol \in 0 .. MaxGeneration
      BY <2>1, BuildingFacts
    <3>2. JobSound(job, cont, vol')
      BY <1>2, <2>1, <3>1 DEF JobSound, Building
    <3> QED BY <3>1, <3>2 DEF JobPossible
  <2>2. CASE job.step \notin Building
    BY <2>2 DEF RuntimeInv, JobPossible, JobSound, Building
  <2> QED BY <2>1, <2>2
<1> QED BY <1>2, <1>3 DEF RuntimeInv

\* The Agent stops: containers and volumes stay as they are.
LEMMA AgentStopsInv ==
  ASSUME RuntimeInv, AgentStops
  PROVE  RuntimeInv'
<1> DEFINE n == spent.stops + 1
<1>1. spent \in SpentRows /\ n \in Nat /\ spent' = [spent EXCEPT !.stops = n]
  BY DEF RuntimeInv, AgentStops, SpentRows
<1> HIDE DEF n
<1>2. spent' \in SpentRows
  BY <1>1 DEF SpentRows
<1>3. job' = Idle /\ UNCHANGED <<cont, vol, archives, gen>> /\ cont' \in Containers /\ vol' \in Volumes
  BY DEF AgentStops, RuntimeInv
<1> QED BY <1>2, <1>3, EndKeeps

\* While a new container is being built, the data that was frozen is in the old volume
\* until it has been copied, and in the new one from then on.
THEOREM RuntimeInvariant == RuntimeSpec => []RuntimeInv
<1>1. RuntimeInit => RuntimeInv
  <2> SUFFICES ASSUME RuntimeInit PROVE RuntimeInv
    OBVIOUS
  <2>1. cont \in Containers /\ vol \in Volumes /\ gen \in 0 .. MaxGeneration
    BY RuntimeAssumption DEF RuntimeInit, Containers, Volumes
  <2>2. spent \in SpentRows
    BY RuntimeAssumption DEF RuntimeInit, SpentRows
  <2>3. archives \in [LocalBackups -> (SUBSET Files) \cup {NoContainer}]
    <3>1. NoContainer \in (SUBSET Files) \cup {NoContainer}
      OBVIOUS
    <3> QED BY <3>1 DEF RuntimeInit
  <2>4. JobPossible(job, cont, vol)
    BY DEF RuntimeInit, JobPossible
  <2> QED BY <2>1, <2>2, <2>3, <2>4 DEF RuntimeInv
<1>2. RuntimeInv /\ [RuntimeNext]_runtimeVars => RuntimeInv'
  <2> SUFFICES ASSUME RuntimeInv, [RuntimeNext]_runtimeVars PROVE RuntimeInv'
    OBVIOUS
  <2>1. CASE UNCHANGED runtimeVars
    BY <2>1 DEF runtimeVars, RuntimeInv
  <2>2. CASE RuntimeNext
    BY <2>2, OperationInv, CreateInv, StopInv, CloneInv, CopyingInv, EndInv, PowerInv,
       BackupsInv, RestoreVolumeInv, BorrowInv, WritingInv, AgentStopsInv DEF RuntimeNext, TaskStep
  <2> QED BY <2>1, <2>2
<1> QED BY <1>1, <1>2, PTL DEF RuntimeSpec

\* A reconcile that replaces a container loses none of the files it had when it was
\* frozen, whatever failed, was half done or was interrupted before (executeReconcile).
THEOREM ReconcileKeepsData == RuntimeSpec => SwitchKeepsData
<1>1. RuntimeInv /\ [RuntimeNext]_runtimeVars =>
        [(At("switch") /\ job'.step = "remove" /\ Exists(job.old)) =>
           job.data \subseteq vol[cont[job.gen].vol]]_runtimeVars
  <2> SUFFICES ASSUME RuntimeInv, At("switch"), Exists(job.old)
               PROVE  job.data \subseteq vol[cont[job.gen].vol]
    OBVIOUS
  <2>1. job.step \in Building /\ job.step \in Copying
    BY DEF At, Building, Copying
  <2>2. JobSound(job, cont, vol) /\ job.old # NoContainer
    BY <2>1, BuildingFacts
  <2> QED BY <2>1, <2>2 DEF JobSound
<1> QED BY <1>1, RuntimeInvariant, PTL DEF RuntimeSpec, SwitchKeepsData

\* The names, volumes and steps there can be; in particular a volume other than the
\* server's own belongs to one of its generations.
THEOREM RuntimeTypeCorrect == RuntimeSpec => []RuntimeTypeOK
<1> DEFINE BorrowOK == borrow \in {"no", "start", "stop"}
<1>1. RuntimeInv /\ BorrowOK => RuntimeTypeOK
  <2> SUFFICES ASSUME RuntimeInv, BorrowOK PROVE RuntimeTypeOK
    OBVIOUS
  <2>1. \A g \in Generations : cont[g] # NoContainer =>
           cont[g].name \in ContainerNames /\ cont[g].vol \in 0 .. MaxGeneration
    BY ContainerFacts DEF ContainerRows
  <2>2. job.step \in Steps
    BY DEF RuntimeInv, JobPossible, Idle, RestoreRows, JobRows, Steps
  <2> QED BY <2>1, <2>2 DEF RuntimeTypeOK, RuntimeInv, Volumes
<1>2. RuntimeInit => BorrowOK
  BY DEF RuntimeInit
<1>3. BorrowOK /\ [RuntimeNext]_runtimeVars => BorrowOK'
  BY DEF RuntimeNext, runtimeVars, fileInspect, fileStart, fileStop, writeFile, GameWrites, Written,
         AgentStops
<1> HIDE DEF BorrowOK
<1> QED BY <1>1, <1>2, <1>3, RuntimeInvariant, PTL DEF RuntimeSpec

-----------------------------------------------------------------------------
(* A reconcile that fails, and the volumes that are copied: which container  *)
(* has the canonical name and which ones run, at every step.                 *)

Named(c, h) == c[h] # NoContainer /\ c[h].name = Canonical
Runs(c, h) == c[h] # NoContainer /\ c[h].running
OnlyNamed(c, g) == \A h \in Generations : Named(c, h) <=> h = g
NobodyRuns(c) == \A h \in Generations : ~Runs(c, h)
Single(s) == s.failures <= 1 /\ ~s.lost

\* The steps before the names are changed, and those between freezing the old
\* container and its end or its return.
Early == {"create", "stop", "clone", "install", "start", "health", "aside", "drop", "fail"}
Frozen == {"clone", "install", "start", "health", "aside", "switch", "unname", "undo"}

\* What the inspection has to do with what is there.
Told(j, s) ==
    /\ j.kind = "provision" => j.old = j.was
    /\ j.kind = "reconcile" =>
         /\ j.oldRan <=> j.old = j.was /\ j.ran
         /\ j.ran => j.was # NoContainer
         /\ j.old # j.was => j.old = NoContainer /\ s.failures > 0 /\ j.step # "remove"

\* The name, for an operation j with failures s: the old container has it until it is put
\* aside, and has it back when the rollback begins; when it was not found it just has it.
NameKept(j, s, c) ==
    /\ j.kind = "provision" =>
         /\ j.step \in {"create", "install", "start", "remove", "drop", "fail"}
         /\ j.step \in {"install", "start", "remove"} => Named(c, j.gen)
    /\ j.kind = "reconcile" =>
         /\ j.step \in Early => OnlyNamed(c, j.was)
         /\ j.step = "switch" => OnlyNamed(c, IF j.old = j.was THEN NoContainer ELSE j.was)
         /\ j.step = "remove" => Named(c, j.gen)
         /\ Single(s) /\ j.step = "unname" => OnlyNamed(c, IF j.old = j.was THEN NoContainer ELSE j.was)
         /\ j.step = "unname" => s.failures > 0
         /\ Single(s) /\ j.step = "undo" => OnlyNamed(c, j.was)
         /\ \A h \in Generations : Named(c, h) => h \in {j.gen, j.was}

\* The old container: it keeps its files, stands still once it is frozen, and if it ran
\* only the new one may run meanwhile; nothing but a failure leads to its return.  One
\* that was not found goes on as it was.
OldKept(j, s, c, v) ==
    j.kind = "reconcile" /\ j.was # NoContainer /\ j.step # "remove" =>
      /\ j.was # j.gen
      /\ j.old = j.was => j.data \subseteq v[c[j.was].vol]
      /\ j.oldRan => \A h \in Generations : Runs(c, h) => h \in {j.gen, j.was}
      /\ ~s.met =>
           /\ Runs(c, j.was) => j.ran
           /\ j.step \in {"create", "stop", "fail"} /\ j.ran => Runs(c, j.was)
           /\ j.old # j.was /\ j.ran => Runs(c, j.was)
           /\ Single(s) /\ j.step = "drop" /\ j.ran => Runs(c, j.was)
           /\ j.old = j.was /\ j.step \in Frozen => ~Runs(c, j.was)
           /\ j.step = "undo" /\ j.oldRan => s.failures > 0

\* Who may run at each step, while nothing was interrupted, no file request started or
\* stopped anything and at most one call failed.
QuietKept(j, s, c) ==
    s.stops = 0 /\ Single(s) /\ ~s.met =>
      /\ j.step \in {"idle", "create", "stop", "drop", "fail"} =>
           \A h \in Generations : Runs(c, h) => Named(c, h)
      /\ j.step = "restore" => NobodyRuns(c)
      /\ j.step \in {"clone", "install", "start"} /\ j.old = j.was => NobodyRuns(c)
      /\ j.step \in {"health", "aside", "switch", "unname", "undo", "remove"} /\ j.old = j.was =>
           \A h \in Generations : Runs(c, h) => h = j.gen
      /\ j.step \in Frozen /\ j.old # j.was =>
           \A h \in Generations : Runs(c, h) => h \in {j.gen, j.was}
      /\ j.step = "undo" => s.failures = 1

Kept(j, s, c, v) ==
    /\ \A g, h \in Generations : Named(c, g) /\ Named(c, h) => g = h
    /\ \A g, h \in Generations : Runs(c, g) /\ Runs(c, h) => g = h
    /\ j.step \notin {"idle", "restore"} => Told(j, s) /\ NameKept(j, s, c) /\ OldKept(j, s, c, v)
    /\ QuietKept(j, s, c)

\* What the Docker calls do to the names and to what runs.
LEMMA EffectNames ==
  ASSUME RuntimeInv, NEW g \in Generations, Exists(g), NEW name \in ContainerNames
  PROVE  \A h \in Generations :
           /\ Named(Started(g), h) <=> Named(cont, h)
           /\ Runs(Started(g), h) <=> Runs(cont, h) \/ h = g
           /\ Named(Stopped(g), h) <=> Named(cont, h)
           /\ Runs(Stopped(g), h) <=> Runs(cont, h) /\ h # g
           /\ Named(Renamed(g, name), h) <=> IF h = g THEN name = Canonical ELSE Named(cont, h)
           /\ Runs(Renamed(g, name), h) <=> Runs(cont, h)
<1>1. cont \in Containers /\ cont[g] \in ContainerRows /\ cont[g] # NoContainer
  BY ContainerFacts DEF RuntimeInv
<1>2. /\ \A h \in Generations : \A c \in {Started(g), Stopped(g), Renamed(g, name)} :
           (c[h] # NoContainer <=> cont[h] # NoContainer) /\ (h # g => c[h] = cont[h])
  BY EffectFacts
<1>3. /\ Started(g)[g].running = TRUE /\ Started(g)[g].name = cont[g].name
      /\ Stopped(g)[g].running = FALSE /\ Stopped(g)[g].name = cont[g].name
      /\ Renamed(g, name)[g].running = cont[g].running /\ Renamed(g, name)[g].name = name
  BY <1>1 DEF Started, Stopped, Renamed, Containers, ContainerRows
<1> QED BY <1>1, <1>2, <1>3 DEF Named, Runs

\* What a container that is created or removed changes of them.
LEMMA RemovalNames ==
  ASSUME RuntimeInv, NEW g \in Generations, NEW name \in ContainerNames, NEW n \in 0 .. MaxGeneration
  PROVE  \A h \in Generations :
           /\ Named(Removed(g), h) <=> Named(cont, h) /\ h # g
           /\ Runs(Removed(g), h) <=> Runs(cont, h) /\ h # g
           /\ Removed(g)[h] = IF h = g THEN NoContainer ELSE cont[h]
           /\ Named(Created(g, name, n), h) <=> IF h = g THEN name = Canonical ELSE Named(cont, h)
           /\ Runs(Created(g, name, n), h) <=> Runs(cont, h) /\ h # g
           /\ h # g => Created(g, name, n)[h] = cont[h]
<1> DEFINE row == [name |-> name, vol |-> n, running |-> FALSE]
<1>1. cont \in Containers
  BY DEF RuntimeInv
<1>2. row # NoContainer /\ row.name = name /\ row.running = FALSE
  <2>1. row \in ContainerRows
    BY DEF ContainerRows
  <2>2. row.name = name /\ row.running = FALSE
    OBVIOUS
  <2> HIDE DEF row
  <2> QED BY <2>1, <2>2, RuntimeAssumption
<1>3. Created(g, name, n) = [cont EXCEPT ![g] = row]
  BY DEF Created
<1> HIDE DEF row
<1>4. /\ Created(g, name, n)[g] = row /\ Removed(g)[g] = NoContainer
      /\ \A h \in Generations : h # g => Created(g, name, n)[h] = cont[h] /\ Removed(g)[h] = cont[h]
  BY <1>1, <1>3 DEF Removed, Containers
<1> QED BY <1>2, <1>4 DEF Named, Runs

\* A name is canonical or has the generation in it, which is not 0.
LEMMA NamesDiffer ==
  ASSUME NEW g \in Generations
  PROVE  /\ <<"candidate", g>> # Canonical /\ <<"rollback", g>> # Canonical
         /\ {Canonical, <<"candidate", g>>, <<"rollback", g>>} \subseteq ContainerNames
<1>1. g # 0
  BY DEF Generations
<1> QED BY <1>1 DEF Canonical, ContainerNames

\* A failure, lost or not, in numbers.
LEMMA FailureNumbers ==
  ASSUME RuntimeInv, NEW lost \in BOOLEAN, FailsWith(lost)
  PROVE  /\ spent' \in SpentRows /\ spent'.failures = spent.failures + 1
         /\ spent'.stops = spent.stops /\ spent'.met = spent.met
         /\ (spent'.lost <=> spent.lost \/ lost)
<1>1. spent \in SpentRows
  BY DEF RuntimeInv
<1>2. spent' \in SpentRows
  BY FailureCounted
<1>3. /\ spent'.failures = spent.failures + 1 /\ spent'.stops = spent.stops
      /\ spent'.lost = (spent.lost \/ lost) /\ spent'.met = spent.met
  BY <1>1 DEF FailsWith, SpentRows
<1> QED BY <1>2, <1>3

\* A call: it is enough to look at the three ways it may end.
LEMMA CallKept ==
  ASSUME RuntimeInv, job \in JobRows, NEW c, NEW v,
         NEW next \in Steps \ {"idle", "restore"}, NEW error \in Steps \ {"idle", "restore"},
         Call(c, v, next, error),
         Kept(JobAt(next), spent, c, v),
         \A s \in SpentRows : s.failures = spent.failures + 1 /\ s.stops = spent.stops /\ s.met = spent.met =>
            /\ (s.lost <=> spent.lost) => Kept(JobAt(error), s, cont, vol)
            /\ s.lost => Kept(JobAt(error), s, c, v)
  PROVE  Kept(job', spent', cont', vol')
<1>1. CASE cont' = c /\ vol' = v /\ Goto(next) /\ UNCHANGED spent
  BY <1>1, JobAtFacts
<1>2. ASSUME NEW lost \in BOOLEAN, FailsWith(lost),
             cont' = (IF lost THEN c ELSE cont), vol' = (IF lost THEN v ELSE vol), Goto(error)
      PROVE  Kept(job', spent', cont', vol')
  <2>1. job' = JobAt(error)
    BY <1>2, JobAtFacts
  <2>2. /\ spent' \in SpentRows /\ spent'.failures = spent.failures + 1
        /\ spent'.stops = spent.stops /\ spent'.met = spent.met /\ (spent'.lost <=> spent.lost \/ lost)
    BY <1>2, FailureNumbers
  <2>3. CASE lost
    BY <1>2, <2>1, <2>2, <2>3
  <2>4. CASE ~lost
    BY <1>2, <2>1, <2>2, <2>4
  <2> QED BY <2>3, <2>4
<1> QED BY <1>1, <1>2 DEF Call

\* The parts of Kept are expanded from here on, until a step hides them.
USE DEF Kept, Told, NameKept, OldKept, QuietKept, OnlyNamed, NobodyRuns, Single, Early, Frozen

\* Where the operation goes on, with its fields and those of the failures as numbers.
LEMMA KeptFacts ==
  ASSUME RuntimeInv, job.step \notin {"idle", "restore"}
  PROVE  /\ job \in JobRows /\ job.gen \in Generations /\ NoContainer \notin Generations
         /\ job.old \in Generations \cup {NoContainer} /\ job.kind \in {"provision", "reconcile"}
         /\ job.oldRan \in BOOLEAN /\ job.run \in BOOLEAN /\ job.install \in BOOLEAN
         /\ job.was \in Generations \cup {NoContainer} /\ job.ran \in BOOLEAN
         /\ Exists(job.old) <=> job.old # NoContainer
         /\ Exists(job.old) => cont[job.old].vol \in 0 .. MaxGeneration
         /\ job.oldRan => job.old # NoContainer
         /\ job.kind = "provision" => job.old = NoContainer
         /\ spent \in SpentRows /\ spent.failures \in Nat /\ spent.lost \in BOOLEAN
         /\ spent.stops \in Nat /\ spent.met \in BOOLEAN
         /\ \A s \in SpentRows : s.failures \in Nat /\ s.lost \in BOOLEAN /\ s.met \in BOOLEAN
<1>1. ~At("idle") /\ ~At("restore")
  BY DEF At
<1>2. /\ job \in JobRows /\ JobSound(job, cont, vol) /\ job.gen \in Generations
      /\ job.old \in Generations \cup {NoContainer} /\ ~Exists(NoContainer)
      /\ job.old # NoContainer => Exists(job.old)
  BY <1>1, JobFacts
<1>3. /\ job.kind \in {"provision", "reconcile"} /\ job.oldRan \in BOOLEAN
      /\ job.run \in BOOLEAN /\ job.install \in BOOLEAN
      /\ job.was \in Generations \cup {NoContainer} /\ job.ran \in BOOLEAN
  BY <1>2 DEF JobRows
<1>4. spent \in SpentRows /\ spent.stops \in Nat /\ \A s \in SpentRows : s.failures \in Nat /\ s.lost \in BOOLEAN /\ s.met \in BOOLEAN
  BY DEF RuntimeInv, SpentRows
<1>5. NoContainer \notin Generations
  BY RuntimeAssumption DEF Generations
<1>6. Exists(job.old) => cont[job.old].vol \in 0 .. MaxGeneration
  <2>1. ASSUME Exists(job.old) PROVE job.old \in Generations /\ cont[job.old] # NoContainer
    BY <1>2, <2>1 DEF Exists
  <2> QED BY <2>1, ContainerFacts
<1> QED BY <1>2, <1>3, <1>4, <1>5, <1>6 DEF JobSound

\* The freeze.
LEMMA StopKept ==
  ASSUME RuntimeInv, Kept(job, spent, cont, vol), reconcileStop
  PROVE  Kept(job', spent', cont', vol')
<1> DEFINE j1 == JobAt("clone")
           j2 == JobAt("drop")
<1>1. At("stop") /\ job.step = "stop" /\ job.kind # "provision"
  BY DEF reconcileStop, At
<1>2. /\ job \in JobRows /\ job.gen \in Generations /\ NoContainer \notin Generations
      /\ job.old \in Generations \cup {NoContainer} /\ job.oldRan \in BOOLEAN
      /\ job.was \in Generations \cup {NoContainer} /\ job.ran \in BOOLEAN
      /\ Exists(job.old) <=> job.old # NoContainer
      /\ job.oldRan => job.old # NoContainer
      /\ spent \in SpentRows /\ spent.failures \in Nat /\ spent.lost \in BOOLEAN
      /\ \A s \in SpentRows : s.failures \in Nat /\ s.lost \in BOOLEAN
      /\ job.kind = "reconcile"
  BY <1>1, KeptFacts
<1>3. "clone" \in Steps \ {"idle", "restore"} /\ "drop" \in Steps \ {"idle", "restore"}
  BY StepFacts
<1>4. /\ j1.step = "clone" /\ j1.kind = "reconcile" /\ j1.gen = job.gen /\ j1.old = job.old
      /\ j1.was = job.was /\ j1.ran = job.ran /\ j1.oldRan = job.oldRan
      /\ job.old # NoContainer => j1.data = vol[cont[job.old].vol]
  BY <1>1, <1>2, <1>3, JobAtFacts
<1>5. /\ j2.step = "drop" /\ j2.kind = "reconcile" /\ j2.gen = job.gen /\ j2.old = job.old
      /\ j2.was = job.was /\ j2.ran = job.ran /\ j2.oldRan = job.oldRan
      /\ job.old # NoContainer => j2.data = vol[cont[job.old].vol]
  BY <1>1, <1>2, <1>3, JobAtFacts
<1> HIDE DEF j1, j2
<1>6. CASE job.oldRan
  <2> DEFINE c == Stopped(job.old)
  <2>1. /\ job.old \in Generations /\ Exists(job.old) /\ Canonical \in ContainerNames
        /\ job.old = job.was /\ job.ran
    BY <1>1, <1>2, <1>6 DEF ContainerNames
  <2>2. /\ \A h \in Generations : /\ Named(c, h) <=> Named(cont, h)
                                  /\ Runs(c, h) <=> Runs(cont, h) /\ h # job.old
        /\ c[job.old].vol = cont[job.old].vol
    BY <2>1, EffectNames, EffectFacts
  <2>3. Call(c, vol, "clone", "drop")
    BY <1>6 DEF reconcileStop
  <2> HIDE DEF c
  <2>4. Kept(j1, spent, c, vol)
    <3>1. Told(j1, spent) /\ NameKept(j1, spent, c)
      BY <1>1, <1>2, <1>4, <2>1, <2>2
    <3>2. OldKept(j1, spent, c, vol)
      BY <1>1, <1>2, <1>4, <1>6, <2>1, <2>2
    <3>3. QuietKept(j1, spent, c)
      BY <1>1, <1>2, <1>4, <2>1, <2>2
    <3>4. /\ \A g, h \in Generations : Named(c, g) /\ Named(c, h) => g = h
          /\ \A g, h \in Generations : Runs(c, g) /\ Runs(c, h) => g = h
      BY <2>2
    <3> HIDE DEF Told, NameKept, OldKept, QuietKept
    <3> QED BY <3>1, <3>2, <3>3, <3>4
  <2>5. ASSUME NEW s \in SpentRows, s.failures = spent.failures + 1, s.stops = spent.stops, s.met = spent.met,
               (s.lost <=> spent.lost) \/ s.lost,
               NEW d, d = cont \/ (s.lost /\ d = c)
        PROVE  Kept(j2, s, d, vol)
    <3>1. s.failures \in Nat /\ s.failures > 0 /\ s.failures > spent.failures /\ s.lost \in BOOLEAN
      BY <1>2, <2>5
    <3>2. /\ \A h \in Generations : /\ Named(d, h) <=> Named(cont, h)
                                    /\ Runs(d, h) => Runs(cont, h)
                                    /\ ~s.lost => (Runs(d, h) <=> Runs(cont, h))
          /\ d[job.old].vol = cont[job.old].vol
          /\ ~s.lost => ~spent.lost
      BY <1>2, <2>2, <2>5
    <3>3. Told(j2, s) /\ NameKept(j2, s, d)
      BY <1>1, <1>2, <1>5, <2>1, <3>1, <3>2
    <3>4. OldKept(j2, s, d, vol)
      BY <1>1, <1>2, <1>5, <1>6, <2>1, <2>5, <3>1, <3>2
    <3>5. QuietKept(j2, s, d)
      BY <1>1, <1>2, <1>5, <2>1, <2>5, <3>1, <3>2
    <3>6. /\ \A g, h \in Generations : Named(d, g) /\ Named(d, h) => g = h
          /\ \A g, h \in Generations : Runs(d, g) /\ Runs(d, h) => g = h
      BY <3>2
    <3> HIDE DEF Told, NameKept, OldKept, QuietKept
    <3> QED BY <1>5, <3>3, <3>4, <3>5, <3>6
  <2> HIDE DEF Kept
  <2>6. ASSUME NEW s \in SpentRows, s.failures = spent.failures + 1, s.stops = spent.stops, s.met = spent.met
        PROVE  /\ (s.lost <=> spent.lost) => Kept(j2, s, cont, vol)
               /\ s.lost => Kept(j2, s, c, vol)
    BY <2>5, <2>6
  <2> QED BY <1>2, <1>3, <2>3, <2>4, <2>6, CallKept DEF j1, j2
<1>7. CASE ~job.oldRan
  <2>1. Goto("clone") /\ UNCHANGED <<cont, vol, spent>>
    BY <1>7 DEF reconcileStop
  <2>2. job' = j1
    BY <1>2, <1>3, <2>1, JobAtFacts DEF j1
  <2>3. Kept(j1, spent, cont, vol)
    <3>1. Told(j1, spent) /\ NameKept(j1, spent, cont)
      BY <1>1, <1>2, <1>4
    <3>2. OldKept(j1, spent, cont, vol)
      BY <1>1, <1>2, <1>4, <1>7
    <3>3. QuietKept(j1, spent, cont)
      BY <1>1, <1>2, <1>4, <1>7
    <3> HIDE DEF Told, NameKept, OldKept, QuietKept
    <3> QED BY <3>1, <3>2, <3>3
  <2> HIDE DEF Kept
  <2> QED BY <2>1, <2>2, <2>3
<1> QED BY <1>6, <1>7

\* The new container is there, stopped and under a name of its own (reconcile), or
\* under the free name of the server (provision).
LEMMA CreateKept ==
  ASSUME RuntimeInv, Kept(job, spent, cont, vol), provisionCreate \/ reconcileCreate
  PROVE  Kept(job', spent', cont', vol')
<1>1. job.step = "create" /\ ~At("stop")
  BY DEF provisionCreate, reconcileCreate, At
<1>2. /\ job \in JobRows /\ job.gen \in Generations /\ NoContainer \notin Generations
      /\ job.old \in Generations \cup {NoContainer} /\ job.kind \in {"provision", "reconcile"}
      /\ job.was \in Generations \cup {NoContainer} /\ job.ran \in BOOLEAN
      /\ Exists(job.old) <=> job.old # NoContainer
      /\ job.oldRan \in BOOLEAN /\ job.oldRan => job.old # NoContainer
      /\ job.kind = "provision" => job.old = NoContainer
      /\ spent \in SpentRows /\ spent.failures \in Nat /\ spent.lost \in BOOLEAN
      /\ \A s \in SpentRows : s.failures \in Nat /\ s.lost \in BOOLEAN
      /\ job.gen \in 0 .. MaxGeneration /\ 0 \in 0 .. MaxGeneration
  BY <1>1, KeptFacts, ContainerFacts, RuntimeAssumption
<1>3. "install" \in Steps \ {"idle", "restore"} /\ "stop" \in Steps \ {"idle", "restore"}
      /\ "fail" \in Steps \ {"idle", "restore"}
  BY StepFacts
<1> DEFINE j == JobAt("fail")
<1>4. /\ j.step = "fail" /\ j.kind = job.kind /\ j.gen = job.gen /\ j.old = job.old
      /\ j.was = job.was /\ j.ran = job.ran /\ j.oldRan = job.oldRan /\ j.data = job.data
  BY <1>1, <1>2, <1>3, JobAtFacts
<1> HIDE DEF j
<1>5. CASE Goto("fail") /\ UNCHANGED <<cont, vol, spent>>
  <2>1. job' = j
    BY <1>2, <1>3, <1>5, JobAtFacts DEF j
  <2>2. Told(j, spent) /\ NameKept(j, spent, cont)
    BY <1>1, <1>2, <1>4
  <2>3. OldKept(j, spent, cont, vol)
    BY <1>1, <1>2, <1>4
  <2>4. QuietKept(j, spent, cont)
    BY <1>1, <1>2, <1>4
  <2>5. /\ \A g, h \in Generations : Named(cont, g) /\ Named(cont, h) => g = h
        /\ \A g, h \in Generations : Runs(cont, g) /\ Runs(cont, h) => g = h
    OBVIOUS
  <2> HIDE DEF Told, NameKept, OldKept, QuietKept
  <2>6. Kept(j, spent, cont, vol)
    BY <2>2, <2>3, <2>4, <2>5
  <2> HIDE DEF Kept
  <2> QED BY <1>5, <2>1, <2>6
<1>6. ASSUME NEW s \in SpentRows, s.failures = spent.failures + 1, s.stops = spent.stops, s.met = spent.met,
             (s.lost <=> spent.lost) \/ s.lost,
             NEW c, c = cont \/ s.lost,
             \A h \in Generations : Named(cont, h) => Named(c, h),
             \A h \in Generations : /\ Named(c, h) => Named(cont, h) \/ (job.kind = "provision" /\ h = job.gen)
                                    /\ Runs(c, h) => Runs(cont, h)
                                    /\ Runs(cont, h) => Runs(c, h) \/ job.kind = "provision"
                                    /\ h # job.gen => c[h] = cont[h],
             \A g, h \in Generations : Named(c, g) /\ Named(c, h) => g = h
      PROVE  Kept(j, s, c, vol)
  <2>1. s.failures \in Nat /\ s.failures > spent.failures /\ s.failures > 0 /\ s.lost \in BOOLEAN
    BY <1>2, <1>6
  <2>2. Told(j, s) /\ NameKept(j, s, c)
    BY <1>1, <1>2, <1>4, <1>6, <2>1
  <2>3. OldKept(j, s, c, vol)
    BY <1>1, <1>2, <1>4, <1>6, <2>1
  <2>4. QuietKept(j, s, c)
    BY <1>1, <1>2, <1>4, <1>6, <2>1
  <2>5. /\ \A g, h \in Generations : Named(c, g) /\ Named(c, h) => g = h
        /\ \A g, h \in Generations : Runs(c, g) /\ Runs(c, h) => g = h
    BY <1>6
  <2> HIDE DEF Told, NameKept, OldKept, QuietKept
  <2> QED BY <2>2, <2>3, <2>4, <2>5
<1>7. ASSUME NEW s \in SpentRows, s.failures = spent.failures + 1, s.stops = spent.stops, s.met = spent.met,
             s.lost <=> spent.lost
      PROVE  Kept(j, s, cont, vol)
  <2>1. \A g, h \in Generations : Named(cont, g) /\ Named(cont, h) => g = h
    OBVIOUS
  <2> HIDE DEF Kept
  <2> QED BY <1>6, <1>7, <2>1
<1>8. CASE provisionCreate
  <2> DEFINE c == Created(job.gen, Canonical, 0)
             i == JobAt("install")
  <2>1. NameFree(Canonical) => \A h \in Generations : ~Named(cont, h)
    BY <1>2 DEF NameFree, Named, Exists
  <2>2. job.kind = "provision"
    BY <1>8 DEF provisionCreate
  <2>3. CASE NameFree(Canonical)
    <3>1. \A h \in Generations : /\ Named(c, h) <=> h = job.gen
                                 /\ Runs(c, h) <=> Runs(cont, h) /\ h # job.gen
                                 /\ h # job.gen => c[h] = cont[h]
      <4>1. job.gen \in Generations /\ Canonical \in ContainerNames /\ 0 \in 0 .. MaxGeneration
        BY <1>2, NamesDiffer
      <4> HIDE DEF Kept, j
      <4>2. \A h \in Generations :
               /\ Named(c, h) <=> IF h = job.gen THEN Canonical = Canonical ELSE Named(cont, h)
               /\ Runs(c, h) <=> Runs(cont, h) /\ h # job.gen
               /\ h # job.gen => c[h] = cont[h]
        BY <4>1, RemovalNames
      <4> QED BY <2>1, <2>3, <4>2
    <3>2. /\ i.step = "install" /\ i.kind = "provision" /\ i.gen = job.gen /\ i.old = NoContainer
          /\ i.was = job.was /\ i.ran = job.ran /\ i.oldRan = job.oldRan
      BY <1>1, <1>2, <1>3, <2>2, JobAtFacts
    <3>3. Call(c, vol, "install", "fail")
      BY <1>8, <2>3 DEF provisionCreate
    <3> HIDE DEF c, i
    <3>4. Kept(i, spent, c, vol)
      <4>1. Told(i, spent) /\ NameKept(i, spent, c) /\ OldKept(i, spent, c, vol)
        BY <1>1, <1>2, <2>2, <3>1, <3>2
      <4>2. QuietKept(i, spent, c)
        BY <1>1, <1>2, <2>1, <2>2, <2>3, <3>1, <3>2
      <4>3. /\ \A g, h \in Generations : Named(c, g) /\ Named(c, h) => g = h
            /\ \A g, h \in Generations : Runs(c, g) /\ Runs(c, h) => g = h
        BY <3>1
      <4> HIDE DEF Told, NameKept, OldKept, QuietKept
      <4> QED BY <4>1, <4>2, <4>3
    <3> HIDE DEF Kept
    <3>5. ASSUME NEW s \in SpentRows, s.failures = spent.failures + 1, s.stops = spent.stops, s.met = spent.met, s.lost
          PROVE  Kept(j, s, c, vol)
      BY <1>6, <2>1, <2>2, <2>3, <3>1, <3>5
    <3> QED BY <1>2, <1>3, <1>7, <3>3, <3>4, <3>5, CallKept DEF i, j
  <2>4. CASE ~NameFree(Canonical)
    <3> HIDE DEF Kept
    <3> QED BY <1>5, <1>8, <2>4 DEF provisionCreate
  <2> QED BY <2>3, <2>4
<1>9. CASE reconcileCreate
  <2> DEFINE n == IF Exists(job.old) THEN job.gen ELSE 0
             c == Created(job.gen, <<"candidate", job.gen>>, n)
             i == JobAt("stop")
  <2>1. job.kind = "reconcile"
    BY <1>9 DEF reconcileCreate
  <2>2. CASE ~Exists(job.gen)
    <3>1. n \in 0 .. MaxGeneration
      BY <1>2
    <3>2. /\ job.old # job.gen /\ ~Named(cont, job.gen) /\ ~Runs(cont, job.gen)
      BY <1>2, <2>2, ContainerFacts DEF Named, Runs, Exists
    <3>3. /\ <<"candidate", job.gen>> # Canonical /\ <<"candidate", job.gen>> \in ContainerNames
      BY <1>2, NamesDiffer
    <3> HIDE DEF n
    <3>4. \A h \in Generations : /\ Named(c, h) <=> Named(cont, h)
                                 /\ Runs(c, h) <=> Runs(cont, h)
                                 /\ h # job.gen => c[h] = cont[h]
      BY <1>2, <3>1, <3>2, <3>3, RemovalNames
    <3>5. /\ i.step = "stop" /\ i.kind = "reconcile" /\ i.gen = job.gen /\ i.old = job.old
          /\ i.was = job.was /\ i.ran = job.ran /\ i.oldRan = job.oldRan /\ i.data = job.data
      BY <1>1, <1>2, <1>3, <2>1, JobAtFacts
    <3>6. Call(c, vol, "stop", "fail")
      BY <1>9, <2>2 DEF reconcileCreate, n
    <3> HIDE DEF c, i
    <3>7. Kept(i, spent, c, vol)
      <4>1. Told(i, spent) /\ NameKept(i, spent, c)
        BY <1>1, <1>2, <2>1, <3>4, <3>5
      <4>2. OldKept(i, spent, c, vol)
        BY <1>1, <1>2, <2>1, <3>2, <3>4, <3>5
      <4>3. QuietKept(i, spent, c)
        BY <1>1, <1>2, <2>1, <3>4, <3>5
      <4>4. /\ \A g, h \in Generations : Named(c, g) /\ Named(c, h) => g = h
            /\ \A g, h \in Generations : Runs(c, g) /\ Runs(c, h) => g = h
        BY <3>4
      <4> HIDE DEF Told, NameKept, OldKept, QuietKept
      <4> QED BY <4>1, <4>2, <4>3, <4>4
    <3>8. \A g, h \in Generations : Named(c, g) /\ Named(c, h) => g = h
      BY <3>4
    <3> HIDE DEF Kept
    <3>9. ASSUME NEW s \in SpentRows, s.failures = spent.failures + 1, s.stops = spent.stops, s.met = spent.met, s.lost
          PROVE  Kept(j, s, c, vol)
      BY <1>6, <3>4, <3>8, <3>9
    <3> QED BY <1>2, <1>3, <1>7, <3>6, <3>7, <3>9, CallKept DEF i, j
  <2>3. CASE Exists(job.gen)
    <3> HIDE DEF Kept
    <3> QED BY <1>5, <1>9, <2>3 DEF reconcileCreate
  <2> QED BY <2>2, <2>3
<1> QED BY <1>8, <1>9

\* A step on the way to the switch fails: without effect the old container still has its
\* name, and in any case its files and its rest.
LEMMA ErrorKept ==
  ASSUME RuntimeInv, Kept(job, spent, cont, vol),
         job.step \in {"clone", "install", "start", "health", "aside"},
         NEW s \in SpentRows, s.failures = spent.failures + 1, s.stops = spent.stops, s.met = spent.met,
         (s.lost <=> spent.lost) \/ s.lost,
         NEW c, NEW v,
         \A h \in Generations : Named(c, h) => Named(cont, h),
         ~s.lost => \A h \in Generations : (Named(cont, h) => Named(c, h)) /\ (Runs(c, h) => Runs(cont, h)),
         \A h \in Generations : h # job.gen => (Runs(c, h) <=> Runs(cont, h)),
         \A g, h \in Generations : Runs(c, g) /\ Runs(c, h) => g = h,
         job.old # NoContainer =>
            c[job.old].vol = cont[job.old].vol /\ vol[cont[job.old].vol] \subseteq v[cont[job.old].vol]
  PROVE  Kept(JobAt(OnError), s, c, v)
<1>1. job.step \notin {"idle", "restore"} /\ job.step \in Building /\ ~At("stop")
  BY DEF Building, Copying, At
<1>2. /\ job \in JobRows /\ job.gen \in Generations /\ NoContainer \notin Generations
      /\ job.old \in Generations \cup {NoContainer} /\ job.kind \in {"provision", "reconcile"}
      /\ job.was \in Generations \cup {NoContainer} /\ job.ran \in BOOLEAN
      /\ job.oldRan \in BOOLEAN /\ job.old # job.gen
      /\ spent.failures \in Nat /\ spent.lost \in BOOLEAN
      /\ s.failures \in Nat /\ s.lost \in BOOLEAN
  BY <1>1, KeptFacts, BuildingFacts
<1>3. OnError = (IF job.kind = "provision" THEN "drop" ELSE "undo") /\ OnError \in Steps \ {"idle", "restore"}
  BY StepFacts DEF OnError
<1> DEFINE j == JobAt(OnError)
<1>4. /\ j.step = OnError /\ j.kind = job.kind /\ j.gen = job.gen /\ j.old = job.old
      /\ j.was = job.was /\ j.ran = job.ran /\ j.oldRan = job.oldRan /\ j.data = job.data
  BY <1>1, <1>2, <1>3, JobAtFacts
<1>5. s.failures > 0 /\ s.failures > spent.failures /\ (s.failures <= 1 => s.failures = 1)
  BY <1>2
<1> HIDE DEF j
<1>6. \A g, h \in Generations : Named(c, g) /\ Named(c, h) => g = h
  OBVIOUS
<1>7. Told(j, s) /\ NameKept(j, s, c)
  BY <1>2, <1>3, <1>4, <1>5
<1>8. OldKept(j, s, c, v)
  BY <1>2, <1>3, <1>4, <1>5
<1>9. QuietKept(j, s, c)
  <2>1. CASE job.kind = "provision"
    BY <1>2, <1>3, <1>4, <1>5, <2>1
  <2>2. CASE job.kind = "reconcile" /\ job.old = job.was
    BY <1>2, <1>3, <1>4, <1>5, <2>2
  <2>3. CASE job.kind = "reconcile" /\ job.old # job.was
    BY <1>2, <1>3, <1>4, <1>5, <2>3
  <2> QED BY <1>2, <2>1, <2>2, <2>3
<1> HIDE DEF Told, NameKept, OldKept, QuietKept
<1> QED BY <1>6, <1>7, <1>8, <1>9 DEF j

\* What a step on the way from the freeze to the end may rely on.
LEMMA WayFacts ==
  ASSUME RuntimeInv, job.step \in Building, ~At("stop")
  PROVE  /\ job \in JobRows /\ job.gen \in Generations /\ NoContainer \notin Generations
         /\ job.old \in Generations \cup {NoContainer} /\ job.kind \in {"provision", "reconcile"}
         /\ job.was \in Generations \cup {NoContainer} /\ job.ran \in BOOLEAN
         /\ job.oldRan \in BOOLEAN /\ job.old # job.gen /\ Exists(job.gen)
         /\ Exists(job.old) <=> job.old # NoContainer
         /\ job.oldRan => job.old # NoContainer
         /\ job.kind = "provision" => job.old = NoContainer
         /\ spent \in SpentRows /\ spent.failures \in Nat /\ spent.lost \in BOOLEAN
         /\ cont[job.gen].vol \in 0 .. MaxGeneration
         /\ job.old # NoContainer => cont[job.old].vol \in 0 .. MaxGeneration
         /\ vol \in Volumes
         /\ OnError \in Steps \ {"idle", "restore"}
         /\ \A step \in Steps \ {"idle", "restore"} :
              LET j == JobAt(step) IN
              /\ j.step = step /\ j.kind = job.kind /\ j.gen = job.gen /\ j.old = job.old
              /\ j.was = job.was /\ j.ran = job.ran /\ j.oldRan = job.oldRan /\ j.data = job.data
              /\ Goto(step) <=> job' = j
<1>1. job.step \notin {"idle", "restore"}
  BY DEF Building, Copying
<1>2. job \in JobRows
  BY <1>1, KeptFacts
<1>3. \A step \in Steps \ {"idle", "restore"} :
              LET j == JobAt(step) IN
              /\ j.step = step /\ j.kind = job.kind /\ j.gen = job.gen /\ j.old = job.old
              /\ j.was = job.was /\ j.ran = job.ran /\ j.oldRan = job.oldRan /\ j.data = job.data
              /\ Goto(step) <=> job' = j
  BY <1>2, JobAtFacts
<1>4. OnError \in Steps \ {"idle", "restore"}
  BY StepFacts DEF OnError
<1> QED BY <1>1, <1>3, <1>4, KeptFacts, BuildingFacts DEF RuntimeInv

\* The volumes are copied and the artifacts unpacked: nothing is renamed or started.
LEMMA CopyKept ==
  ASSUME RuntimeInv, Kept(job, spent, cont, vol), cloneContainerData \/ installBundleArtifacts
  PROVE  Kept(job', spent', cont', vol')
<1> HIDE DEF Kept
<1>1. /\ job.step \in {"clone", "install"} /\ job.step \in Building /\ ~At("stop")
      /\ cloneContainerData => job.step = "clone"
      /\ installBundleArtifacts => job.step = "install"
  BY DEF cloneContainerData, installBundleArtifacts, At, Building, Copying
<1> DEFINE next == IF job.step = "clone" THEN "install" ELSE AfterInstall
           j == JobAt(next)
<1>2. /\ job \in JobRows /\ job.gen \in Generations /\ NoContainer \notin Generations
      /\ job.old \in Generations \cup {NoContainer} /\ job.was \in Generations \cup {NoContainer}
      /\ job.ran \in BOOLEAN /\ job.kind \in {"provision", "reconcile"}
      /\ job.oldRan \in BOOLEAN /\ job.old # job.gen
      /\ spent.failures \in Nat /\ spent.lost \in BOOLEAN
      /\ job.kind = "provision" => job.old = NoContainer
      /\ cont[job.gen].vol \in 0 .. MaxGeneration
      /\ job.old # NoContainer => cont[job.old].vol \in 0 .. MaxGeneration
      /\ vol \in Volumes /\ OnError \in Steps \ {"idle", "restore"}
  BY <1>1, WayFacts
<1>3. /\ next \in {"install", "start", "remove", "aside"}
      /\ next = "install" => job.step = "clone"
      /\ next = "remove" => job.kind = "provision" /\ job.step = "install"
      /\ next = "aside" => job.kind = "reconcile" /\ job.step = "install"
  BY <1>1, <1>2 DEF AfterInstall
<1>4. next \in Steps \ {"idle", "restore"}
  BY <1>3, StepFacts
<1>5. /\ j.step = next /\ j.kind = job.kind /\ j.gen = job.gen /\ j.old = job.old
      /\ j.was = job.was /\ j.ran = job.ran /\ j.oldRan = job.oldRan /\ j.data = job.data /\ (Goto(next) <=> job' = j)
  BY <1>1, <1>4, WayFacts
<1> HIDE DEF j, next
<1> USE DEF Kept
<1>6. ASSUME NEW v, \A m \in 0 .. MaxGeneration : vol[m] \subseteq v[m]
      PROVE  Kept(j, spent, cont, v)
  <2>1. Told(j, spent) /\ NameKept(j, spent, cont)
    BY <1>1, <1>2, <1>3, <1>5
  <2>2. OldKept(j, spent, cont, v)
    BY <1>1, <1>2, <1>3, <1>5, <1>6
  <2>3. QuietKept(j, spent, cont)
    BY <1>1, <1>2, <1>3, <1>5
  <2>4. /\ \A g, h \in Generations : Named(cont, g) /\ Named(cont, h) => g = h
        /\ \A g, h \in Generations : Runs(cont, g) /\ Runs(cont, h) => g = h
    OBVIOUS
  <2> HIDE DEF Told, NameKept, OldKept, QuietKept
  <2> QED BY <2>1, <2>2, <2>3, <2>4
<1>7. CASE Goto(next) /\ UNCHANGED <<cont, vol, spent>>
  <2>1. Kept(j, spent, cont, vol)
    BY <1>6
  <2> HIDE DEF Kept
  <2> QED BY <1>5, <1>7, <2>1
<1>8. ASSUME NEW files \in SUBSET Files,
             Call(cont, Copied(files, cont[job.gen].vol), next, OnError)
      PROVE  Kept(job', spent', cont', vol')
  <2> DEFINE v == Copied(files, cont[job.gen].vol)
  <2>1. \A m \in 0 .. MaxGeneration : vol[m] \subseteq v[m]
    BY <1>2, CopyFacts
  <2>2. Call(cont, v, next, OnError)
    BY <1>8
  <2> HIDE DEF v
  <2>3. Kept(j, spent, cont, v)
    BY <1>6, <2>1
  <2>4. ASSUME NEW s \in SpentRows, s.failures = spent.failures + 1, s.stops = spent.stops, s.met = spent.met,
               (s.lost <=> spent.lost) \/ s.lost,
               NEW w \in {vol, v}
        PROVE  Kept(JobAt(OnError), s, cont, w)
    <3>1. job.old # NoContainer => cont[job.old].vol = cont[job.old].vol
                                   /\ vol[cont[job.old].vol] \subseteq w[cont[job.old].vol]
      BY <1>2, <2>1, <2>4
    <3>2. /\ \A h \in Generations : Named(cont, h) => Named(cont, h)
          /\ ~s.lost => \A h \in Generations : (Named(cont, h) => Named(cont, h)) /\ (Runs(cont, h) => Runs(cont, h))
          /\ \A h \in Generations : h # job.gen => (Runs(cont, h) <=> Runs(cont, h))
          /\ \A g, h \in Generations : Runs(cont, g) /\ Runs(cont, h) => g = h
          /\ job.step \in {"clone", "install", "start", "health", "aside"}
      BY <1>1
    <3> HIDE DEF Kept
    <3> QED BY <2>4, <3>1, <3>2, ErrorKept
  <2> HIDE DEF Kept
  <2> QED BY <1>2, <1>4, <2>2, <2>3, <2>4, CallKept DEF j
<1>9. CASE cloneContainerData
  <2>1. CASE Exists(job.old)
    <3>1. Call(cont, Copied(vol[cont[job.old].vol], cont[job.gen].vol), next, "undo")
      BY <1>1, <1>9, <2>1 DEF cloneContainerData, next
    <3>2. OnError = "undo"
      BY <1>1, <1>2, <1>9 DEF OnError
    <3>3. vol[cont[job.old].vol] \in SUBSET Files
      BY <1>1, <1>2, <2>1, WayFacts DEF Volumes
    <3> HIDE DEF Kept
    <3> QED BY <1>8, <3>1, <3>2, <3>3
  <2>2. CASE ~Exists(job.old)
    <3>1. Goto(next) /\ UNCHANGED <<cont, vol, spent>>
      BY <1>1, <1>9, <2>2 DEF cloneContainerData, next
    <3> HIDE DEF Kept
    <3> QED BY <1>7, <3>1
  <2> QED BY <2>1, <2>2
<1>10. CASE installBundleArtifacts
  <2>1. next = AfterInstall
    BY <1>1, <1>10 DEF next
  <2>2. {0} \in SUBSET Files
    BY RuntimeAssumption DEF Files
  <2>3. CASE job.install
    <3>1. Call(cont, Copied({0}, cont[job.gen].vol), next, OnError)
      BY <1>10, <2>1, <2>3 DEF installBundleArtifacts
    <3> HIDE DEF Kept
    <3> QED BY <1>8, <2>2, <3>1
  <2>4. CASE ~job.install
    <3>1. Goto(next) /\ UNCHANGED <<cont, vol, spent>>
      BY <1>10, <2>1, <2>4 DEF installBundleArtifacts
    <3> HIDE DEF Kept
    <3> QED BY <1>7, <3>1
  <2> QED BY <2>3, <2>4
<1> QED BY <1>9, <1>10

\* The new container is started, unless another one has the ports: then no call failed,
\* but the old one did not run when the operation began.
LEMMA StartKept ==
  ASSUME RuntimeInv, Kept(job, spent, cont, vol), StartContainer
  PROVE  Kept(job', spent', cont', vol')
<1> HIDE DEF Kept
<1>1. job.step = "start" /\ job.step \in Building /\ ~At("stop")
  BY DEF StartContainer, At, Building, Copying
<1> DEFINE next == IF job.kind = "provision" THEN "remove" ELSE "health"
           j == JobAt(next)
           e == JobAt(OnError)
           c == Started(job.gen)
<1>2. /\ job \in JobRows /\ job.gen \in Generations /\ NoContainer \notin Generations
      /\ job.old \in Generations \cup {NoContainer} /\ job.was \in Generations \cup {NoContainer}
      /\ job.ran \in BOOLEAN /\ job.kind \in {"provision", "reconcile"}
      /\ job.oldRan \in BOOLEAN /\ job.old # job.gen /\ Exists(job.gen)
      /\ spent.failures \in Nat /\ spent.lost \in BOOLEAN
      /\ job.kind = "provision" => job.old = NoContainer
      /\ OnError \in Steps \ {"idle", "restore"}
  BY <1>1, WayFacts
<1>3. next \in Steps \ {"idle", "restore"}
  BY StepFacts
<1>4. /\ j.step = next /\ j.kind = job.kind /\ j.gen = job.gen /\ j.old = job.old
      /\ j.was = job.was /\ j.ran = job.ran /\ j.oldRan = job.oldRan /\ j.data = job.data
      /\ e.step = OnError /\ e.kind = job.kind /\ e.gen = job.gen /\ e.old = job.old
      /\ e.was = job.was /\ e.ran = job.ran /\ e.oldRan = job.oldRan /\ e.data = job.data /\ (Goto(OnError) <=> job' = e)
  BY <1>1, <1>2, <1>3, WayFacts
<1> USE DEF Kept
<1>5. PortsFree(job.gen) <=> \A h \in Generations : Runs(cont, h) => h = job.gen
  BY <1>2 DEF PortsFree, Runs, Exists
<1>6. OnError = IF job.kind = "provision" THEN "drop" ELSE "undo"
  BY DEF OnError
<1>7. CASE PortsFree(job.gen)
  <2>1. Canonical \in ContainerNames
    BY DEF ContainerNames
  <2>2. \A h \in Generations : /\ Named(c, h) <=> Named(cont, h)
                               /\ Runs(c, h) <=> h = job.gen
                               /\ h # job.gen => c[h] = cont[h]
    BY <1>2, <1>5, <1>7, <2>1, EffectNames, EffectFacts
  <2>3. Call(c, vol, next, OnError)
    BY <1>7 DEF StartContainer
  <2>4. next = IF job.kind = "provision" THEN "remove" ELSE "health"
    OBVIOUS
  <2> HIDE DEF c, j, next
  <2>5. Kept(j, spent, c, vol)
    <3>1. Told(j, spent) /\ NameKept(j, spent, c)
      BY <1>1, <1>2, <1>4, <2>2, <2>4
    <3>2. OldKept(j, spent, c, vol)
      BY <1>1, <1>2, <1>4, <1>5, <1>7, <2>2, <2>4
    <3>3. QuietKept(j, spent, c)
      BY <1>1, <1>2, <1>4, <2>2, <2>4
    <3>4. /\ \A g, h \in Generations : Named(c, g) /\ Named(c, h) => g = h
          /\ \A g, h \in Generations : Runs(c, g) /\ Runs(c, h) => g = h
      BY <2>2
    <3> HIDE DEF Told, NameKept, OldKept, QuietKept
    <3> QED BY <3>1, <3>2, <3>3, <3>4
  <2>6. ASSUME NEW s \in SpentRows, s.failures = spent.failures + 1, s.stops = spent.stops, s.met = spent.met,
               (s.lost <=> spent.lost) \/ s.lost,
               NEW d, d = cont \/ (s.lost /\ d = c)
        PROVE  Kept(e, s, d, vol)
    <3>1. /\ \A h \in Generations : Named(d, h) => Named(cont, h)
          /\ ~s.lost => \A h \in Generations : (Named(cont, h) => Named(d, h)) /\ (Runs(d, h) => Runs(cont, h))
          /\ \A h \in Generations : h # job.gen => (Runs(d, h) <=> Runs(cont, h))
          /\ \A g, h \in Generations : Runs(d, g) /\ Runs(d, h) => g = h
          /\ job.step \in {"clone", "install", "start", "health", "aside"}
      BY <1>1, <1>5, <1>7, <2>2, <2>6
    <3>2. job.old # NoContainer =>
            d[job.old].vol = cont[job.old].vol /\ vol[cont[job.old].vol] \subseteq vol[cont[job.old].vol]
      BY <1>2, <2>2, <2>6
    <3> HIDE DEF Kept
    <3> QED BY <2>6, <3>1, <3>2, ErrorKept
  <2> HIDE DEF Kept, e
  <2>7. ASSUME NEW s \in SpentRows, s.failures = spent.failures + 1, s.stops = spent.stops, s.met = spent.met
        PROVE  /\ (s.lost <=> spent.lost) => Kept(e, s, cont, vol)
               /\ s.lost => Kept(e, s, c, vol)
    BY <2>6, <2>7
  <2> QED BY <1>2, <1>3, <2>3, <2>5, <2>7, CallKept DEF j, e
<1>8. CASE ~PortsFree(job.gen)
  <2>1. Goto(OnError) /\ UNCHANGED <<cont, vol, spent>> /\ job' = e
    BY <1>4, <1>8 DEF StartContainer
  <2>2. PICK h \in Generations : Runs(cont, h) /\ h # job.gen
    BY <1>5, <1>8
  <2> HIDE DEF e, j, c, next
  <2>3. Told(e, spent) /\ NameKept(e, spent, cont)
    BY <1>1, <1>2, <1>4, <1>6
  <2>4. OldKept(e, spent, cont, vol)
    BY <1>1, <1>2, <1>4, <1>6, <2>2
  <2>5. QuietKept(e, spent, cont)
    BY <1>1, <1>2, <1>4, <1>6, <2>2
  <2>6. /\ \A g, i \in Generations : Named(cont, g) /\ Named(cont, i) => g = i
        /\ \A g, i \in Generations : Runs(cont, g) /\ Runs(cont, i) => g = i
    OBVIOUS
  <2> HIDE DEF Told, NameKept, OldKept, QuietKept
  <2>7. Kept(e, spent, cont, vol)
    BY <2>3, <2>4, <2>5, <2>6
  <2> HIDE DEF Kept
  <2> QED BY <2>1, <2>7
<1> QED BY <1>7, <1>8

\* The health check: only a reconcile has one.
LEMMA HealthKept ==
  ASSUME RuntimeInv, Kept(job, spent, cont, vol), waitForHealthyRuntime
  PROVE  Kept(job', spent', cont', vol')
<1> HIDE DEF Kept
<1>1. job.step = "health" /\ job.step \in Building /\ ~At("stop") /\ UNCHANGED vol
  BY DEF waitForHealthyRuntime, At, Building, Copying
<1> DEFINE j == JobAt("aside")
<1>2. /\ job \in JobRows /\ job.gen \in Generations /\ NoContainer \notin Generations
      /\ job.old \in Generations \cup {NoContainer} /\ job.was \in Generations \cup {NoContainer}
      /\ job.ran \in BOOLEAN /\ job.kind \in {"provision", "reconcile"}
      /\ job.oldRan \in BOOLEAN /\ job.old # job.gen /\ Exists(job.gen)
      /\ spent.failures \in Nat /\ spent.lost \in BOOLEAN
  BY <1>1, WayFacts
<1>3. "aside" \in Steps \ {"idle", "restore"} /\ "undo" \in Steps \ {"idle", "restore"}
  BY StepFacts
<1>4. /\ j.step = "aside" /\ j.kind = job.kind /\ j.gen = job.gen /\ j.old = job.old
      /\ j.was = job.was /\ j.ran = job.ran /\ j.oldRan = job.oldRan /\ j.data = job.data
      /\ (Goto("aside") <=> job' = j) /\ (Goto("undo") <=> job' = JobAt("undo"))
  BY <1>1, <1>3, WayFacts
<1> HIDE DEF j
<1> USE DEF Kept
<1>0. job.kind = "reconcile"
  BY <1>1, <1>2
<1>5. CASE Goto("aside") /\ UNCHANGED <<cont, spent>>
  <2>1. Kept(j, spent, cont, vol)
    <3>1. Told(j, spent) /\ NameKept(j, spent, cont)
      BY <1>1, <1>0, <1>2, <1>4
    <3>2. OldKept(j, spent, cont, vol)
      BY <1>1, <1>0, <1>2, <1>4
    <3>3. QuietKept(j, spent, cont)
      BY <1>1, <1>0, <1>2, <1>4
    <3>4. /\ \A g, h \in Generations : Named(cont, g) /\ Named(cont, h) => g = h
          /\ \A g, h \in Generations : Runs(cont, g) /\ Runs(cont, h) => g = h
      OBVIOUS
    <3> HIDE DEF Told, NameKept, OldKept, QuietKept
    <3> QED BY <3>1, <3>2, <3>3, <3>4
  <2> HIDE DEF Kept
  <2> QED BY <1>1, <1>4, <1>5, <2>1
<1>6. CASE Fails /\ Goto("undo") /\ cont' \in {cont, Stopped(job.gen)}
  <2>1. OnError = "undo"
    BY <1>0, <1>2 DEF OnError
  <2>2. /\ spent' \in SpentRows /\ spent'.failures = spent.failures + 1
        /\ spent'.stops = spent.stops /\ spent'.met = spent.met /\ (spent'.lost <=> spent.lost \/ FALSE)
    BY <1>6, FailureNumbers DEF Fails
  <2>3. Canonical \in ContainerNames
    BY DEF ContainerNames
  <2>4. \A h \in Generations : /\ Named(cont', h) <=> Named(cont, h)
                               /\ Runs(cont', h) => Runs(cont, h)
                               /\ h # job.gen => (Runs(cont', h) <=> Runs(cont, h))
                               /\ h # job.gen => cont'[h] = cont[h]
    <3>1. CASE cont' = cont
      BY <3>1
    <3>2. CASE cont' = Stopped(job.gen)
      BY <1>0, <1>2, <2>3, <3>2, EffectNames, EffectFacts
    <3> QED BY <1>6, <3>1, <3>2
  <2>5. /\ \A h \in Generations : Named(cont', h) => Named(cont, h)
        /\ ~spent'.lost => \A h \in Generations : (Named(cont, h) => Named(cont', h)) /\ (Runs(cont', h) => Runs(cont, h))
        /\ \A h \in Generations : h # job.gen => (Runs(cont', h) <=> Runs(cont, h))
        /\ \A g, h \in Generations : Runs(cont', g) /\ Runs(cont', h) => g = h
        /\ job.step \in {"clone", "install", "start", "health", "aside"}
        /\ (spent'.lost <=> spent.lost) \/ spent'.lost
    BY <1>1, <2>2, <2>4
  <2>6. job.old # NoContainer =>
          cont'[job.old].vol = cont[job.old].vol /\ vol[cont[job.old].vol] \subseteq vol'[cont[job.old].vol]
    BY <1>1, <1>0, <1>2, <2>4
  <2> HIDE DEF Kept
  <2>7. Kept(JobAt(OnError), spent', cont', vol')
    BY <2>2, <2>5, <2>6, ErrorKept
  <2> QED BY <1>4, <1>6, <2>1, <2>7
<1> QED BY <1>5, <1>6 DEF waitForHealthyRuntime

\* The old container is put aside: from then on nobody has the canonical name.
LEMMA AsideKept ==
  ASSUME RuntimeInv, Kept(job, spent, cont, vol), renameOldAside
  PROVE  Kept(job', spent', cont', vol')
<1> HIDE DEF Kept
<1>1. job.step = "aside" /\ job.step \in Building /\ ~At("stop")
  BY DEF renameOldAside, At, Building, Copying
<1> DEFINE j == JobAt("switch")
           e == JobAt("undo")
           name == <<"rollback", job.gen>>
           c == Renamed(job.old, name)
<1>2. /\ job \in JobRows /\ job.gen \in Generations /\ NoContainer \notin Generations
      /\ job.old \in Generations \cup {NoContainer} /\ job.was \in Generations \cup {NoContainer}
      /\ job.ran \in BOOLEAN /\ job.kind \in {"provision", "reconcile"}
      /\ job.oldRan \in BOOLEAN /\ job.old # job.gen /\ Exists(job.gen)
      /\ Exists(job.old) <=> job.old # NoContainer
      /\ spent.failures \in Nat /\ spent.lost \in BOOLEAN
  BY <1>1, WayFacts
<1>3. "switch" \in Steps \ {"idle", "restore"} /\ "undo" \in Steps \ {"idle", "restore"}
  BY StepFacts
<1>4. /\ j.step = "switch" /\ j.kind = job.kind /\ j.gen = job.gen /\ j.old = job.old
      /\ j.was = job.was /\ j.ran = job.ran /\ j.oldRan = job.oldRan /\ j.data = job.data /\ (Goto("switch") <=> job' = j)
  BY <1>1, <1>3, WayFacts
<1> USE DEF Kept
<1>0. job.kind = "reconcile"
  BY <1>1, <1>2
<1>5. name # Canonical /\ name \in ContainerNames
  BY <1>0, <1>2, NamesDiffer
<1>6. CASE Exists(job.old)
  <2>1. job.old \in Generations
    BY <1>0, <1>2, <1>6
  <2>2. /\ \A h \in Generations : /\ Named(c, h) <=> Named(cont, h) /\ h # job.old
                                  /\ Runs(c, h) <=> Runs(cont, h)
        /\ c[job.old].vol = cont[job.old].vol
    BY <1>5, <1>6, <2>1, EffectNames, EffectFacts
  <2>3. Call(c, vol, "switch", "undo") /\ OnError = "undo"
    BY <1>0, <1>2, <1>6 DEF renameOldAside, OnError
  <2> HIDE DEF c, j, name
  <2>4. Kept(j, spent, c, vol)
    <3>1. Told(j, spent) /\ NameKept(j, spent, c)
      BY <1>1, <1>0, <1>2, <1>4, <2>2
    <3>2. OldKept(j, spent, c, vol)
      BY <1>1, <1>0, <1>2, <1>4, <2>2
    <3>3. QuietKept(j, spent, c)
      BY <1>1, <1>0, <1>2, <1>4, <2>2
    <3>4. /\ \A g, h \in Generations : Named(c, g) /\ Named(c, h) => g = h
          /\ \A g, h \in Generations : Runs(c, g) /\ Runs(c, h) => g = h
      BY <2>2
    <3> HIDE DEF Told, NameKept, OldKept, QuietKept
    <3> QED BY <3>1, <3>2, <3>3, <3>4
  <2>5. ASSUME NEW s \in SpentRows, s.failures = spent.failures + 1, s.stops = spent.stops, s.met = spent.met,
               (s.lost <=> spent.lost) \/ s.lost,
               NEW d, d = cont \/ (s.lost /\ d = c)
        PROVE  Kept(e, s, d, vol)
    <3>1. /\ \A h \in Generations : Named(d, h) => Named(cont, h)
          /\ ~s.lost => \A h \in Generations : (Named(cont, h) => Named(d, h)) /\ (Runs(d, h) => Runs(cont, h))
          /\ \A h \in Generations : h # job.gen => (Runs(d, h) <=> Runs(cont, h))
          /\ \A g, h \in Generations : Runs(d, g) /\ Runs(d, h) => g = h
          /\ job.step \in {"clone", "install", "start", "health", "aside"}
      BY <1>1, <2>2, <2>5
    <3>2. job.old # NoContainer =>
            d[job.old].vol = cont[job.old].vol /\ vol[cont[job.old].vol] \subseteq vol[cont[job.old].vol]
      BY <1>0, <1>2, <2>2, <2>5
    <3> HIDE DEF Kept
    <3> QED BY <2>3, <2>5, <3>1, <3>2, ErrorKept
  <2> HIDE DEF Kept, e
  <2>6. ASSUME NEW s \in SpentRows, s.failures = spent.failures + 1, s.stops = spent.stops, s.met = spent.met
        PROVE  /\ (s.lost <=> spent.lost) => Kept(e, s, cont, vol)
               /\ s.lost => Kept(e, s, c, vol)
    BY <2>5, <2>6
  <2> QED BY <1>0, <1>2, <1>3, <2>3, <2>4, <2>6, CallKept DEF j, e
<1>7. CASE ~Exists(job.old)
  <2>1. Goto("switch") /\ UNCHANGED <<cont, vol, spent>>
    BY <1>7 DEF renameOldAside
  <2> HIDE DEF j
  <2>2. Kept(j, spent, cont, vol)
    <3>1. Told(j, spent) /\ NameKept(j, spent, cont)
      BY <1>1, <1>0, <1>2, <1>4, <1>7
    <3>2. OldKept(j, spent, cont, vol)
      BY <1>1, <1>0, <1>2, <1>4, <1>7
    <3>3. QuietKept(j, spent, cont)
      BY <1>1, <1>0, <1>2, <1>4, <1>7
    <3>4. /\ \A g, h \in Generations : Named(cont, g) /\ Named(cont, h) => g = h
          /\ \A g, h \in Generations : Runs(cont, g) /\ Runs(cont, h) => g = h
      OBVIOUS
    <3> HIDE DEF Told, NameKept, OldKept, QuietKept
    <3> QED BY <3>1, <3>2, <3>3, <3>4
  <2> HIDE DEF Kept
  <2> QED BY <1>4, <2>1, <2>2
<1> QED BY <1>6, <1>7

\* The candidate takes the name when it is free; it is not when the inspection did not
\* find the container that has it.
LEMMA SwitchKept ==
  ASSUME RuntimeInv, Kept(job, spent, cont, vol), renameCandidate
  PROVE  Kept(job', spent', cont', vol')
<1> HIDE DEF Kept
<1>1. job.step = "switch" /\ job.step \in Building /\ ~At("stop")
  BY DEF renameCandidate, At, Building, Copying
<1> DEFINE j == JobAt("remove")
           e == JobAt("unname")
           c == Renamed(job.gen, Canonical)
<1>2. /\ job \in JobRows /\ job.gen \in Generations /\ NoContainer \notin Generations
      /\ job.old \in Generations \cup {NoContainer} /\ job.kind \in {"provision", "reconcile"}
      /\ job.was \in Generations \cup {NoContainer} /\ job.ran \in BOOLEAN
      /\ job.oldRan \in BOOLEAN /\ job.old # job.gen /\ Exists(job.gen)
      /\ spent.failures \in Nat /\ spent.lost \in BOOLEAN
  BY <1>1, WayFacts
<1>3. "remove" \in Steps \ {"idle", "restore"} /\ "unname" \in Steps \ {"idle", "restore"}
  BY StepFacts
<1>4. /\ j.step = "remove" /\ j.kind = job.kind /\ j.gen = job.gen /\ j.old = job.old
      /\ j.was = job.was /\ j.ran = job.ran /\ j.oldRan = job.oldRan /\ j.data = job.data
      /\ e.step = "unname" /\ e.kind = job.kind /\ e.gen = job.gen /\ e.old = job.old
      /\ e.was = job.was /\ e.ran = job.ran /\ e.oldRan = job.oldRan /\ e.data = job.data
      /\ Goto("unname") <=> job' = e
  BY <1>1, <1>3, WayFacts
<1>5. Canonical \in ContainerNames
  BY DEF ContainerNames
<1>6. \A h \in Generations : /\ Named(c, h) <=> h = job.gen \/ Named(cont, h)
                             /\ Runs(c, h) <=> Runs(cont, h)
                             /\ h # job.gen => c[h] = cont[h]
  BY <1>2, <1>5, EffectNames, EffectFacts
<1>7. NameFree(Canonical) <=> \A h \in Generations : ~Named(cont, h)
  BY <1>2 DEF NameFree, Named, Exists
<1> USE DEF Kept
<1>8. job.kind = "reconcile"
  BY <1>1, <1>2
<1> HIDE DEF c, j, e
<1>9. CASE NameFree(Canonical)
  <2>1. Call(c, vol, "remove", "unname")
    BY <1>9 DEF renameCandidate, c
  <2>2. \A h \in Generations : ~Named(cont, h)
    BY <1>7, <1>9
  <2>3. job.old = job.was
    BY <1>1, <1>2, <1>8, <2>2
  <2>4. Kept(j, spent, c, vol)
    <3>1. Told(j, spent) /\ NameKept(j, spent, c)
      BY <1>1, <1>2, <1>4, <1>6, <1>8, <2>2, <2>3
    <3>2. OldKept(j, spent, c, vol)
      BY <1>4
    <3>3. QuietKept(j, spent, c)
      BY <1>1, <1>2, <1>4, <1>6, <2>3
    <3>4. /\ \A g, h \in Generations : Named(c, g) /\ Named(c, h) => g = h
          /\ \A g, h \in Generations : Runs(c, g) /\ Runs(c, h) => g = h
      BY <1>6, <2>2
    <3> HIDE DEF Told, NameKept, OldKept, QuietKept
    <3> QED BY <3>1, <3>2, <3>3, <3>4
  <2>5. ASSUME NEW s \in SpentRows, s.failures = spent.failures + 1, s.stops = spent.stops, s.met = spent.met,
               (s.lost <=> spent.lost) \/ s.lost,
               NEW d, d = cont \/ (s.lost /\ d = c)
        PROVE  Kept(e, s, d, vol)
    <3>1. s.failures \in Nat /\ s.failures > 0 /\ (s.failures <= 1 => s.failures = 1 /\ spent.failures <= 1)
      BY <1>2, <2>5 DEF SpentRows
    <3>2. Told(e, s) /\ NameKept(e, s, d)
      BY <1>1, <1>2, <1>4, <1>6, <1>8, <2>2, <2>3, <2>5, <3>1
    <3>3. OldKept(e, s, d, vol)
      BY <1>1, <1>2, <1>4, <1>6, <2>3, <2>5, <3>1
    <3>4. QuietKept(e, s, d)
      BY <1>1, <1>2, <1>4, <1>6, <2>3, <2>5, <3>1
    <3>5. /\ \A g, h \in Generations : Named(d, g) /\ Named(d, h) => g = h
          /\ \A g, h \in Generations : Runs(d, g) /\ Runs(d, h) => g = h
      BY <1>6, <2>2, <2>5
    <3> HIDE DEF Told, NameKept, OldKept, QuietKept
    <3> QED BY <1>4, <3>2, <3>3, <3>4, <3>5
  <2> HIDE DEF Kept
  <2>6. ASSUME NEW s \in SpentRows, s.failures = spent.failures + 1, s.stops = spent.stops, s.met = spent.met
        PROVE  /\ (s.lost <=> spent.lost) => Kept(e, s, cont, vol)
               /\ s.lost => Kept(e, s, c, vol)
    BY <2>5, <2>6
  <2> QED BY <1>2, <1>3, <2>1, <2>4, <2>6, CallKept DEF j, e
<1>10. CASE ~NameFree(Canonical)
  <2>1. job' = e /\ UNCHANGED <<cont, vol, spent>>
    BY <1>4, <1>10 DEF renameCandidate
  <2>2. PICK h \in Generations : Named(cont, h)
    BY <1>7, <1>10
  <2>3. job.old # job.was
    BY <1>1, <1>2, <1>8, <2>2
  <2>4. Told(e, spent) /\ NameKept(e, spent, cont)
    BY <1>1, <1>2, <1>4, <1>8, <2>3
  <2>5. OldKept(e, spent, cont, vol)
    BY <1>1, <1>2, <1>4, <1>8, <2>3
  <2>6. QuietKept(e, spent, cont)
    BY <1>1, <1>2, <1>4, <1>8, <2>3
  <2>7. /\ \A g, i \in Generations : Named(cont, g) /\ Named(cont, i) => g = i
        /\ \A g, i \in Generations : Runs(cont, g) /\ Runs(cont, i) => g = i
    OBVIOUS
  <2> HIDE DEF Told, NameKept, OldKept, QuietKept
  <2>8. Kept(e, spent, cont, vol)
    BY <2>4, <2>5, <2>6, <2>7
  <2> HIDE DEF Kept
  <2> QED BY <2>1, <2>8
<1> QED BY <1>9, <1>10

\* A call whose error is ignored has its effect, or is a failure without one.
LEMMA BestEffortKept ==
  ASSUME RuntimeInv, NEW c, BestEffort(c)
  PROVE  /\ spent.failures \in Nat /\ spent'.failures \in Nat /\ spent'.stops = spent.stops
         /\ spent'.met = spent.met /\ (spent'.lost <=> spent.lost)
         /\ \/ cont' = c /\ spent'.failures = spent.failures
            \/ cont' = cont /\ spent'.failures = spent.failures + 1
<1>1. spent \in SpentRows /\ spent.failures \in Nat
  BY DEF RuntimeInv, SpentRows
<1>2. CASE cont' = c /\ UNCHANGED spent
  BY <1>1, <1>2
<1>3. CASE Fails /\ UNCHANGED cont
  <2>1. /\ spent' \in SpentRows /\ spent'.failures = spent.failures + 1 /\ spent'.met = spent.met
        /\ spent'.stops = spent.stops /\ (spent'.lost <=> spent.lost \/ FALSE)
    BY <1>3, FailureNumbers DEF Fails
  <2> QED BY <1>1, <1>3, <2>1
<1> QED BY <1>2, <1>3 DEF BestEffort

\* Between operations it is enough to look at the containers.
LEMMA IdleKept ==
  ASSUME job' = Idle,
         \A g, h \in Generations : Named(cont', g) /\ Named(cont', h) => g = h,
         \A g, h \in Generations : Runs(cont', g) /\ Runs(cont', h) => g = h,
         spent'.stops = 0 /\ Single(spent') /\ ~spent'.met =>
            \A h \in Generations : Runs(cont', h) => Named(cont', h)
  PROVE  Kept(job', spent', cont', vol')
  BY DEF Idle

\* The new container has the name: the old one, which does not run, is removed.
LEMMA SuccessKept ==
  ASSUME RuntimeInv, Kept(job, spent, cont, vol), reportSuccess
  PROVE  Kept(job', spent', cont', vol')
<1>1. job.step = "remove" /\ job' = Idle
  BY DEF reportSuccess, Finish, At
<1>2. /\ job.gen \in Generations /\ job.kind \in {"provision", "reconcile"}
      /\ Exists(job.old) => job.old \in Generations
      /\ 0 \in 0 .. MaxGeneration /\ Canonical \in ContainerNames
  BY <1>1, KeptFacts, RuntimeAssumption DEF ContainerNames
<1>3. Named(cont, job.gen) /\ job.old = job.was
  BY <1>1, <1>2
<1>4. /\ spent'.stops = spent.stops /\ (Single(spent') => Single(spent)) /\ spent'.met = spent.met
      /\ \A h \in Generations : /\ Named(cont', h) => Named(cont, h)
                                /\ Runs(cont', h) => Runs(cont, h)
      /\ Named(cont', job.gen)
  <2>1. CASE job.kind = "reconcile" /\ Exists(job.old) /\ job.old # job.gen
    <3> DEFINE c == Removed(job.old)
    <3>1. BestEffort(c)
      BY <2>1 DEF reportSuccess
    <3>2. \A h \in Generations : /\ Named(c, h) <=> Named(cont, h) /\ h # job.old
                                 /\ Runs(c, h) <=> Runs(cont, h) /\ h # job.old
      BY <1>2, <2>1, RemovalNames
    <3> HIDE DEF c, Kept
    <3> QED BY <1>2, <1>3, <2>1, <3>1, <3>2, BestEffortKept
  <2>2. CASE ~(job.kind = "reconcile" /\ Exists(job.old) /\ job.old # job.gen)
    <3> HIDE DEF Kept
    <3> QED BY <1>3, <2>2 DEF reportSuccess
  <2> QED BY <2>1, <2>2
<1>5. spent'.stops = 0 /\ Single(spent') /\ ~spent'.met => \A h \in Generations : Runs(cont', h) => Named(cont', h)
  BY <1>1, <1>3, <1>4
<1>6. /\ \A g, h \in Generations : Named(cont', g) /\ Named(cont', h) => g = h
      /\ \A g, h \in Generations : Runs(cont', g) /\ Runs(cont', h) => g = h
  BY <1>4
<1> HIDE DEF Kept, Single
<1> QED BY <1>1, <1>5, <1>6, IdleKept

\* The old container gets its name back when the candidate could not take it, or that
\* fails too; one that was not found has it still.
LEMMA RestoreNameKept ==
  ASSUME RuntimeInv, Kept(job, spent, cont, vol), restoreName
  PROVE  Kept(job', spent', cont', vol')
<1> HIDE DEF Kept
<1> DEFINE j == JobAt("undo")
<1>1. job.step = "unname" /\ ~At("stop") /\ UNCHANGED vol
  BY DEF restoreName, At
<1>2. /\ job \in JobRows /\ job.gen \in Generations /\ NoContainer \notin Generations
      /\ job.old \in Generations \cup {NoContainer} /\ job.kind \in {"provision", "reconcile"}
      /\ job.was \in Generations \cup {NoContainer} /\ job.ran \in BOOLEAN
      /\ job.oldRan \in BOOLEAN
      /\ Exists(job.old) <=> job.old # NoContainer
      /\ spent.failures \in Nat /\ spent.lost \in BOOLEAN
  BY <1>1, KeptFacts
<1>3. "undo" \in Steps \ {"idle", "restore"}
  BY StepFacts
<1>4. /\ j.step = "undo" /\ j.kind = job.kind /\ j.gen = job.gen /\ j.old = job.old
      /\ j.was = job.was /\ j.ran = job.ran /\ j.oldRan = job.oldRan /\ j.data = job.data /\ job' = j
  BY <1>1, <1>2, <1>3, JobAtFacts DEF restoreName
<1>5. NameFree(Canonical) <=> \A h \in Generations : ~Named(cont, h)
  BY <1>2 DEF NameFree, Named, Exists
<1> HIDE DEF j
<1> USE DEF Kept
<1>6. job.kind = "reconcile" /\ spent.failures > 0
  BY <1>1, <1>2
<1>7. CASE Exists(job.old) /\ NameFree(Canonical)
  <2> DEFINE c == Renamed(job.old, Canonical)
  <2>1. /\ job.old \in Generations /\ Canonical \in ContainerNames /\ BestEffort(c)
        /\ job.old = job.was
    BY <1>1, <1>2, <1>6, <1>7 DEF restoreName, ContainerNames
  <2>2. /\ \A h \in Generations : /\ Named(c, h) <=> h = job.old
                                  /\ Runs(c, h) <=> Runs(cont, h)
        /\ c[job.old].vol = cont[job.old].vol
    BY <1>5, <1>7, <2>1, EffectNames, EffectFacts
  <2>3. /\ spent'.failures \in Nat /\ spent'.stops = spent.stops
        /\ spent'.met = spent.met /\ (spent'.lost <=> spent.lost)
        /\ \/ cont' = c /\ spent'.failures = spent.failures
           \/ cont' = cont /\ spent'.failures = spent.failures + 1
    BY <2>1, BestEffortKept
  <2> HIDE DEF c
  <2>4. CASE cont' = c /\ spent'.failures = spent.failures
    <3>1. Told(j, spent') /\ NameKept(j, spent', c)
      BY <1>1, <1>2, <1>4, <1>6, <2>1, <2>2, <2>3, <2>4
    <3>2. OldKept(j, spent', c, vol)
      BY <1>1, <1>2, <1>4, <1>6, <2>1, <2>2, <2>3, <2>4
    <3>3. QuietKept(j, spent', c)
      BY <1>1, <1>2, <1>4, <1>6, <2>1, <2>2, <2>3, <2>4
    <3>4. /\ \A g, h \in Generations : Named(c, g) /\ Named(c, h) => g = h
          /\ \A g, h \in Generations : Runs(c, g) /\ Runs(c, h) => g = h
      BY <2>2
    <3> HIDE DEF Told, NameKept, OldKept, QuietKept
    <3>5. Kept(j, spent', c, vol)
      BY <3>1, <3>2, <3>3, <3>4
    <3> HIDE DEF Kept
    <3> QED BY <1>1, <1>4, <2>4, <3>5
  <2>5. CASE cont' = cont /\ spent'.failures = spent.failures + 1
    <3>1. spent'.failures > 0 /\ ~(spent'.failures <= 1)
      BY <1>2, <1>6, <2>5
    <3>2. Told(j, spent') /\ NameKept(j, spent', cont)
      BY <1>1, <1>2, <1>4, <1>6, <3>1
    <3>3. OldKept(j, spent', cont, vol)
      BY <1>1, <1>2, <1>4, <1>6, <2>1, <2>3, <3>1
    <3>4. QuietKept(j, spent', cont)
      BY <3>1
    <3>5. /\ \A g, h \in Generations : Named(cont, g) /\ Named(cont, h) => g = h
          /\ \A g, h \in Generations : Runs(cont, g) /\ Runs(cont, h) => g = h
      OBVIOUS
    <3> HIDE DEF Told, NameKept, OldKept, QuietKept
    <3>6. Kept(j, spent', cont, vol)
      BY <3>2, <3>3, <3>4, <3>5
    <3> HIDE DEF Kept
    <3> QED BY <1>1, <1>4, <2>5, <3>6
  <2> QED BY <2>3, <2>4, <2>5
<1>8. CASE ~(Exists(job.old) /\ NameFree(Canonical))
  <2>1. UNCHANGED <<cont, spent>>
    BY <1>8 DEF restoreName
  <2>2. Told(j, spent) /\ NameKept(j, spent, cont)
    BY <1>1, <1>2, <1>4, <1>5, <1>6, <1>8
  <2>3. OldKept(j, spent, cont, vol)
    BY <1>1, <1>2, <1>4, <1>6
  <2>4. QuietKept(j, spent, cont)
    BY <1>1, <1>2, <1>4, <1>6
  <2>5. /\ \A g, h \in Generations : Named(cont, g) /\ Named(cont, h) => g = h
        /\ \A g, h \in Generations : Runs(cont, g) /\ Runs(cont, h) => g = h
    OBVIOUS
  <2> HIDE DEF Told, NameKept, OldKept, QuietKept
  <2>6. Kept(j, spent, cont, vol)
    BY <2>2, <2>3, <2>4, <2>5
  <2> HIDE DEF Kept
  <2> QED BY <1>1, <1>4, <2>1, <2>6
<1> QED BY <1>7, <1>8

\* What a reconcile that fails leaves, in the words of FailedReconcileRestoresOld.
RestoresOld ==
    (ReconcileFails /\ OneFailure' /\ job.was # NoContainer) =>
      /\ cont'[job.was] # NoContainer
      /\ cont'[job.was].name = Canonical
      /\ Found => job.data \subseteq vol'[cont'[job.was].vol]
      /\ ~spent.met => cont'[job.was].running = job.ran

\* The rollback: the old container has its name, and only what ran before runs again.
LEMMA RollbackKept ==
  ASSUME RuntimeInv, Kept(job, spent, cont, vol), rollback
  PROVE  Kept(job', spent', cont', vol') /\ RestoresOld
<1> DEFINE c == [g \in Generations |->
                    IF g = job.gen THEN NoContainer
                    ELSE IF g = job.old THEN [cont[g] EXCEPT !.running = @ \/ job.oldRan]
                    ELSE cont[g]]
<1> HIDE DEF Kept
<1>1. /\ job.step = "undo" /\ job' = Idle /\ UNCHANGED vol /\ BestEffort(c)
      /\ last'.kind = job.kind
  BY DEF rollback, Finish, At
<1>2. /\ job \in JobRows /\ job.gen \in Generations /\ NoContainer \notin Generations
      /\ job.old \in Generations \cup {NoContainer} /\ job.kind \in {"provision", "reconcile"}
      /\ job.was \in Generations \cup {NoContainer} /\ job.ran \in BOOLEAN
      /\ job.oldRan \in BOOLEAN /\ (job.oldRan => job.old # NoContainer)
      /\ Exists(job.old) <=> job.old # NoContainer
      /\ spent.failures \in Nat /\ spent.lost \in BOOLEAN
  BY <1>1, KeptFacts
<1> USE DEF Kept
<1>3. job.kind = "reconcile" /\ (job.was # NoContainer => job.was # job.gen)
      /\ (job.old # NoContainer => job.old = job.was)
  BY <1>1, <1>2
<1> HIDE DEF Kept
<1>4. ASSUME job.old # NoContainer
      PROVE  /\ c[job.old].name = cont[job.old].name /\ c[job.old].vol = cont[job.old].vol
             /\ c[job.old].running = (cont[job.old].running \/ job.oldRan)
             /\ c[job.old] # NoContainer /\ cont[job.old].running \in BOOLEAN
             /\ job.old # job.gen /\ job.old \in Generations
             /\ Runs(cont, job.old) <=> cont[job.old].running
             /\ cont[job.old] # NoContainer
  <2> DEFINE ran == cont[job.old].running \/ job.oldRan
             row == [cont[job.old] EXCEPT !.running = ran]
  <2>1. job.old \in Generations /\ job.old # job.gen /\ cont[job.old] \in ContainerRows
        /\ cont[job.old] # NoContainer
    BY <1>2, <1>3, <1>4, ContainerFacts DEF Exists
  <2>2. cont[job.old].running \in BOOLEAN /\ ran \in BOOLEAN /\ ran = (cont[job.old].running \/ job.oldRan)
    BY <2>1 DEF ContainerRows
  <2>3. c[job.old] = row
    BY <2>1
  <2> HIDE DEF c, ran
  <2>4. /\ row \in ContainerRows /\ row.name = cont[job.old].name /\ row.vol = cont[job.old].vol
        /\ row.running = ran
    BY <2>1, <2>2 DEF ContainerRows
  <2> HIDE DEF row
  <2>5. row # NoContainer
    BY <2>4, RuntimeAssumption
  <2> QED BY <2>1, <2>2, <2>3, <2>4, <2>5 DEF Runs
<1>5. \A h \in Generations : h # job.old => c[h] = IF h = job.gen THEN NoContainer ELSE cont[h]
  OBVIOUS
<1>6. c[job.gen] = NoContainer
  BY <1>2
<1> HIDE DEF c
<1>7. \A h \in Generations :
        /\ Named(c, h) <=> Named(cont, h) /\ h # job.gen
        /\ Runs(c, h) <=> h # job.gen /\ (Runs(cont, h) \/ (h = job.old /\ job.oldRan))
  <2> TAKE h \in Generations
  <2>1. CASE h = job.gen
    BY <1>6, <2>1 DEF Named, Runs
  <2>2. CASE h # job.gen /\ h = job.old
    BY <1>2, <1>4, <2>2 DEF Named, Runs
  <2>3. CASE h # job.gen /\ h # job.old
    BY <1>5, <2>3 DEF Named, Runs
  <2> QED BY <2>1, <2>2, <2>3
<1>8. /\ spent'.failures \in Nat /\ spent'.stops = spent.stops
      /\ spent'.met = spent.met /\ (spent'.lost <=> spent.lost)
      /\ \/ cont' = c /\ spent'.failures = spent.failures
         \/ cont' = cont /\ spent'.failures = spent.failures + 1
  BY <1>1, BestEffortKept
<1> USE DEF Kept
<1>9. /\ \A g, h \in Generations : Named(c, g) /\ Named(c, h) => g = h
      /\ \A g, h \in Generations : Runs(c, g) /\ Runs(c, h) => g = h
  BY <1>1, <1>2, <1>3, <1>7
<1>10. spent'.stops = 0 /\ Single(spent') /\ ~spent'.met => \A h \in Generations : Runs(cont', h) => Named(cont', h)
  <2>1. CASE cont' = c /\ spent'.failures = spent.failures
    BY <1>1, <1>2, <1>3, <1>7, <1>8, <2>1
  <2>2. CASE cont' = cont /\ spent'.failures = spent.failures + 1
    BY <1>1, <1>2, <1>3, <1>8, <2>2
  <2> QED BY <1>8, <2>1, <2>2
<1>11. Kept(job', spent', cont', vol')
  <2>1. /\ \A g, h \in Generations : Named(cont', g) /\ Named(cont', h) => g = h
        /\ \A g, h \in Generations : Runs(cont', g) /\ Runs(cont', h) => g = h
    BY <1>8, <1>9
  <2> HIDE DEF Kept, Single
  <2> QED BY <1>1, <1>10, <2>1, IdleKept
<1>12. RestoresOld
  <2> SUFFICES ASSUME OneFailure', job.was # NoContainer
               PROVE  /\ Named(cont', job.was)
                      /\ job.old = job.was => job.data \subseteq vol'[cont'[job.was].vol]
                      /\ ~spent.met => cont'[job.was].running = job.ran
    BY DEF RestoresOld, Found, Named
  <2>1. Single(spent) /\ spent'.failures <= 1
    BY <1>2, <1>8 DEF OneFailure
  <2>2. /\ Named(cont, job.was) /\ job.was \in Generations /\ cont[job.was] \in ContainerRows
    BY <1>1, <1>2, <1>3, <2>1, ContainerFacts DEF Named
  <2>3. cont[job.was].running \in BOOLEAN /\ (Runs(cont, job.was) <=> cont[job.was].running)
    BY <2>2 DEF ContainerRows, Named, Runs
  <2>4. /\ job.old = job.was => job.data \subseteq vol[cont[job.was].vol]
        /\ ~spent.met => (Runs(cont, job.was) => job.ran)
        /\ ~spent.met /\ job.old # job.was => (job.ran => Runs(cont, job.was))
        /\ ~spent.met /\ job.old = job.was => ~Runs(cont, job.was)
        /\ ~spent.met /\ job.oldRan => spent.failures > 0
        /\ job.oldRan <=> job.old = job.was /\ job.ran
    BY <1>1, <1>2, <1>3, <2>1
  <2> HIDE DEF Kept
  <2>5. CASE cont' = c
    <3>1. CASE job.old = job.was
      <4>1. Named(cont', job.was) /\ (job.data \subseteq vol'[cont'[job.was].vol])
        BY <1>1, <1>2, <1>3, <1>4, <1>7, <2>2, <2>4, <2>5, <3>1
      <4>2. cont'[job.was].running = (cont[job.was].running \/ job.oldRan)
        BY <1>2, <1>4, <2>2, <2>5, <3>1
      <4>3. ASSUME ~spent.met PROVE cont'[job.was].running = job.ran
        <5>1. ~cont[job.was].running /\ (job.oldRan <=> job.ran)
          BY <2>3, <2>4, <3>1, <4>3
        <5> QED BY <1>2, <2>3, <4>2, <5>1
      <4> QED BY <4>1, <4>3
    <3>2. CASE job.old # job.was
      <4>1. c[job.was] = cont[job.was]
        BY <1>3, <1>5, <2>2, <3>2
      <4>2. Named(cont', job.was)
        BY <1>3, <1>7, <2>2, <2>5
      <4>3. ASSUME ~spent.met PROVE cont'[job.was].running = job.ran
        <5>1. cont[job.was].running <=> job.ran
          BY <2>3, <2>4, <3>2, <4>3
        <5> QED BY <1>2, <2>3, <2>5, <4>1, <5>1
      <4> QED BY <3>2, <4>2, <4>3
    <3> QED BY <3>1, <3>2
  <2>6. CASE cont' = cont /\ spent'.failures = spent.failures + 1
    <3>1. ~spent.met => ~job.oldRan
      BY <1>2, <2>1, <2>4, <2>6
    <3> QED BY <1>1, <1>2, <2>2, <2>3, <2>4, <2>6, <3>1
  <2> QED BY <1>8, <2>5, <2>6
<1> QED BY <1>11, <1>12

\* The paths that only remove what was created: the old container has not been touched.
LEMMA RemoveCreatedKept ==
  ASSUME RuntimeInv, Kept(job, spent, cont, vol), removeCreated
  PROVE  Kept(job', spent', cont', vol') /\ RestoresOld
<1> HIDE DEF Kept
<1>1. /\ job.step \in {"drop", "fail"} /\ job' = Idle /\ UNCHANGED vol /\ last'.kind = job.kind
  BY DEF removeCreated, Finish
<1>2. /\ job \in JobRows /\ job.gen \in Generations /\ NoContainer \notin Generations
      /\ job.old \in Generations \cup {NoContainer} /\ job.kind \in {"provision", "reconcile"}
      /\ job.was \in Generations \cup {NoContainer} /\ job.ran \in BOOLEAN
      /\ spent.failures \in Nat /\ spent.lost \in BOOLEAN
      /\ 0 \in 0 .. MaxGeneration /\ Canonical \in ContainerNames
  BY <1>1, KeptFacts, RuntimeAssumption DEF ContainerNames
<1>3. /\ spent'.stops = spent.stops /\ (Single(spent') => Single(spent)) /\ spent'.met = spent.met
      /\ \A h \in Generations :
           /\ Named(cont', h) => Named(cont, h)
           /\ Runs(cont', h) => Runs(cont, h)
           /\ h # job.gen => cont'[h] = cont[h]
           /\ cont'[h] # NoContainer => cont'[h] = cont[h]
  <2>1. CASE At("drop")
    <3> DEFINE c == Removed(job.gen)
    <3>1. BestEffort(c)
      BY <2>1 DEF removeCreated
    <3>2. \A h \in Generations : /\ Named(c, h) <=> Named(cont, h) /\ h # job.gen
                                 /\ Runs(c, h) <=> Runs(cont, h) /\ h # job.gen
                                 /\ c[h] = IF h = job.gen THEN NoContainer ELSE cont[h]
      BY <1>2, RemovalNames
    <3> HIDE DEF c
    <3> QED BY <1>2, <3>1, <3>2, BestEffortKept
  <2>2. CASE ~At("drop")
    BY <2>2 DEF removeCreated
  <2> QED BY <2>1, <2>2
<1> USE DEF Kept
<1>4. spent'.stops = 0 /\ Single(spent') /\ ~spent'.met => \A h \in Generations : Runs(cont', h) => Named(cont', h)
  BY <1>1, <1>3 DEF Named, Runs
<1>5. Kept(job', spent', cont', vol')
  <2>1. /\ \A g, h \in Generations : Named(cont', g) /\ Named(cont', h) => g = h
        /\ \A g, h \in Generations : Runs(cont', g) /\ Runs(cont', h) => g = h
    BY <1>3
  <2> HIDE DEF Kept, Single
  <2> QED BY <1>1, <1>4, <2>1, IdleKept
<1>6. RestoresOld
  <2> SUFFICES ASSUME job.kind = "reconcile", OneFailure', job.was # NoContainer
               PROVE  /\ Named(cont', job.was)
                      /\ job.old = job.was => job.data \subseteq vol'[cont'[job.was].vol]
                      /\ ~spent.met => cont'[job.was].running = job.ran
    BY <1>1 DEF RestoresOld, ReconcileFails, Found, Named
  <2>1. Single(spent)
    BY <1>3 DEF OneFailure
  <2>2. /\ Named(cont, job.was) /\ job.was \in Generations /\ job.was # job.gen
        /\ job.old = job.was => job.data \subseteq vol[cont[job.was].vol]
        /\ ~spent.met => (Runs(cont, job.was) <=> job.ran)
    BY <1>1, <1>2, <2>1
  <2> HIDE DEF Kept
  <2>3. cont[job.was] \in ContainerRows /\ cont[job.was].running \in BOOLEAN
        /\ (Runs(cont, job.was) <=> cont[job.was].running)
    BY <2>2, ContainerFacts DEF ContainerRows, Named, Runs
  <2>4. cont'[job.was] = cont[job.was]
    BY <1>3, <2>2
  <2>5. Named(cont', job.was)
    BY <2>2, <2>4 DEF Named
  <2>6. ASSUME ~spent.met PROVE cont'[job.was].running = job.ran
    BY <1>2, <2>2, <2>3, <2>4, <2>6
  <2> QED BY <1>1, <2>2, <2>4, <2>5, <2>6
<1> QED BY <1>5, <1>6

\* InspectContainer finds the one container with the canonical name.
LEMMA InspectNamed ==
  ASSUME RuntimeInv, \A g, h \in Generations : Named(cont, g) /\ Named(cont, h) => g = h
  PROVE  OnlyNamed(cont, InspectContainer)
<1>1. \A h \in Generations : Named(cont, h) <=> Exists(h) /\ cont[h].name = Canonical
  BY RuntimeAssumption DEF Named, Exists, Generations
<1>2. CASE NameFree(Canonical)
  <2>1. \A h \in Generations : ~Named(cont, h)
    BY <1>1, <1>2 DEF NameFree
  <2>2. InspectContainer = NoContainer /\ NoContainer \notin Generations
    BY <1>2, RuntimeAssumption DEF InspectContainer, Generations
  <2> QED BY <2>1, <2>2
<1>3. CASE ~NameFree(Canonical)
  <2>1. \E g \in Generations : Exists(g) /\ cont[g].name = Canonical
    BY <1>3 DEF NameFree
  <2>2. /\ InspectContainer \in Generations
        /\ Exists(InspectContainer) /\ cont[InspectContainer].name = Canonical
    BY <1>3, <2>1 DEF InspectContainer
  <2> HIDE DEF Named
  <2> QED BY <1>1, <2>2
<1> QED BY <1>2, <1>3

\* A reconcile begins with what it is to replace, which it may not have found; what runs
\* has the name.
LEMMA ReconcileKept ==
  ASSUME RuntimeInv, Kept(job, spent, cont, vol), NEW g \in Generations,
         NEW run \in BOOLEAN, NEW install \in BOOLEAN, NEW old \in {InspectContainer, NoContainer},
         At("idle"), job' = ReconcileOf(g, run, install, old, InspectContainer), UNCHANGED <<cont, vol>>,
         (UNCHANGED spent /\ old = InspectContainer) \/ (Fails /\ InspectContainer # g)
  PROVE  Kept(job', spent', cont', vol')
<1> DEFINE was == InspectContainer
<1>1. OnlyNamed(cont, was) /\ job.step = "idle"
  BY InspectNamed DEF At
<1> HIDE DEF Kept
<1>2. was \in Generations \cup {NoContainer} /\ NoContainer \notin Generations
      /\ (was # NoContainer => Exists(was)) /\ (old # NoContainer => Exists(old))
      /\ old \in {was, NoContainer}
  BY InspectFacts, RuntimeAssumption DEF Generations
<1>3. (UNCHANGED spent /\ old = was) \/ (Fails /\ was # g)
  OBVIOUS
<1>4. job' = ReconcileOf(g, run, install, old, was)
  OBVIOUS
<1> HIDE DEF was
<1>5. /\ job'.kind = "reconcile" /\ job'.gen = g /\ job'.old = old /\ job'.was = was
      /\ job'.step = (IF old = g THEN "remove" ELSE "create")
      /\ job'.oldRan <=> old # NoContainer /\ cont[old].running
      /\ job'.ran <=> was # NoContainer /\ cont[was].running
      /\ old # NoContainer => job'.data = vol[cont[old].vol]
  BY <1>2, <1>4, ReconcileRow
<1>6. /\ spent.failures \in Nat /\ spent'.failures \in Nat
      /\ spent'.stops = spent.stops /\ spent'.met = spent.met /\ (spent'.lost <=> spent.lost)
      /\ (spent' = spent /\ old = was) \/ (spent'.failures = spent.failures + 1 /\ was # g)
  <2>1. spent \in SpentRows /\ spent.failures \in Nat
    BY DEF RuntimeInv, SpentRows
  <2>2. CASE UNCHANGED spent /\ old = was
    BY <2>1, <2>2
  <2>3. CASE Fails /\ was # g
    <3>1. /\ spent'.failures = spent.failures + 1 /\ spent'.met = spent.met
          /\ spent'.stops = spent.stops /\ (spent'.lost <=> spent.lost \/ FALSE)
      BY <2>3, FailureNumbers DEF Fails
    <3> QED BY <2>1, <2>3, <3>1
  <2> QED BY <1>3, <2>2, <2>3
<1>7. was # NoContainer => /\ was \in Generations /\ Named(cont, was)
                           /\ (Runs(cont, was) <=> cont[was].running)
  BY <1>1, <1>2 DEF Named, Runs
<1> USE DEF Kept
<1>8. Told(job', spent')
  BY <1>2, <1>5, <1>6
<1>9. NameKept(job', spent', cont')
  BY <1>1, <1>2, <1>5, <1>6, <1>7
<1>10. OldKept(job', spent', cont', vol')
  <2>1. CASE old = was
    BY <1>1, <1>2, <1>5, <1>6, <1>7, <2>1
  <2>2. CASE old # was
    BY <1>1, <1>2, <1>5, <1>6, <1>7, <2>2
  <2> QED BY <2>1, <2>2
<1>11. QuietKept(job', spent', cont')
  BY <1>1, <1>2, <1>5, <1>6, <1>7
<1>12. /\ \A i, h \in Generations : Named(cont', i) /\ Named(cont', h) => i = h
       /\ \A i, h \in Generations : Runs(cont', i) /\ Runs(cont', h) => i = h
  OBVIOUS
<1> HIDE DEF Told, NameKept, OldKept, QuietKept
<1> QED BY <1>8, <1>9, <1>10, <1>11, <1>12

\* An operation begins, or is refused.
LEMMA OperationKept ==
  ASSUME RuntimeInv, Kept(job, spent, cont, vol), NEW g \in Generations,
         NEW trusted \in BOOLEAN, NEW run \in BOOLEAN, NEW install \in BOOLEAN,
         executeProvision(g, trusted, run, install) \/ executeReconcile(g, trusted, run, install)
  PROVE  Kept(job', spent', cont', vol')
<1>1. UNCHANGED <<cont, vol>> /\ At("idle") /\ job.step = "idle"
  BY DEF executeProvision, executeReconcile, Refuse, At
<1>2. CASE UNCHANGED <<job, spent>>
  <2> HIDE DEF Kept
  <2> QED BY <1>1, <1>2
<1>3. CASE /\ UNCHANGED spent
           /\ job' = [kind |-> "provision", step |-> "create", gen |-> g, run |-> run,
                      install |-> install, old |-> NoContainer, oldRan |-> FALSE, data |-> {},
                      was |-> NoContainer, ran |-> FALSE]
  <2>1. job'.kind = "provision" /\ job'.step = "create" /\ job'.old = NoContainer /\ job'.was = NoContainer
    BY <1>3
  <2> QED BY <1>1, <1>3, <2>1
<1> HIDE DEF Kept
<1>4. CASE executeProvision(g, trusted, run, install)
  BY <1>2, <1>3, <1>4 DEF executeProvision, Refuse
<1>5. CASE executeReconcile(g, trusted, run, install)
  <2>1. \/ UNCHANGED <<job, spent>>
        \/ \E old \in {InspectContainer, NoContainer} :
             /\ job' = ReconcileOf(g, run, install, old, InspectContainer)
             /\ (UNCHANGED spent /\ old = InspectContainer) \/ (Fails /\ InspectContainer # g)
    BY <1>5 DEF executeReconcile, Refuse
  <2> QED BY <1>1, <1>2, <2>1, ReconcileKept
<1> QED BY <1>4, <1>5

\* The container that has the name is started or stopped.
LEMMA TouchKept ==
  ASSUME RuntimeInv, Kept(job, spent, cont, vol), NEW g \in Generations, Exists(g),
         g = InspectContainer,
         cont' = Stopped(g) \/ (PortsFree(g) /\ cont' = Started(g))
  PROVE  /\ \A h \in Generations : Named(cont', h) <=> Named(cont, h)
         /\ \A h \in Generations : Runs(cont', h) => Runs(cont, h) \/ Named(cont, h)
         /\ \A i, h \in Generations : Runs(cont', i) /\ Runs(cont', h) => i = h
<1>1. OnlyNamed(cont, g) /\ Canonical \in ContainerNames
  BY InspectNamed DEF ContainerNames
<1>2. CASE cont' = Stopped(g)
  <2>1. \A h \in Generations : /\ Named(cont', h) <=> Named(cont, h)
                               /\ Runs(cont', h) <=> Runs(cont, h) /\ h # g
    BY <1>1, <1>2, EffectNames
  <2> QED BY <2>1
<1>3. CASE PortsFree(g) /\ cont' = Started(g)
  <2>1. \A h \in Generations : /\ Named(cont', h) <=> Named(cont, h)
                               /\ Runs(cont', h) <=> Runs(cont, h) \/ h = g
    BY <1>1, <1>3, EffectNames
  <2>2. \A h \in Generations : Runs(cont, h) => h = g
    BY <1>3, RuntimeAssumption DEF PortsFree, Runs, Exists, Generations
  <2> QED BY <1>1, <2>1, <2>2
<1> QED BY <1>2, <1>3

\* A power request starts or stops the container that has the name.
LEMMA PowerKept ==
  ASSUME RuntimeInv, Kept(job, spent, cont, vol),
         NEW action \in {"start", "stop", "restart", "kill"}, executePower(action)
  PROVE  Kept(job', spent', cont', vol')
<1> DEFINE g == InspectContainer
<1>1. At("idle") /\ job = Idle /\ job.step = "idle" /\ job' = Idle
  BY JobFacts DEF executePower, At
<1>2. /\ spent'.stops = spent.stops /\ spent'.met = spent.met
      /\ Single(spent') => Single(spent)
  <2>1. spent \in SpentRows /\ spent.failures \in Nat
    BY DEF RuntimeInv, SpentRows
  <2>2. ASSUME Fails
        PROVE  /\ spent'.failures = spent.failures + 1 /\ spent'.stops = spent.stops
               /\ spent'.met = spent.met /\ (spent'.lost <=> spent.lost)
    BY <2>2, FailureNumbers DEF Fails
  <2>3. UNCHANGED spent \/ Fails
    BY DEF executePower
  <2> QED BY <2>1, <2>2, <2>3
<1>3. \/ UNCHANGED cont
      \/ g # NoContainer /\ (cont' = Stopped(g) \/ (PortsFree(g) /\ cont' = Started(g)))
  BY DEF executePower
<1>4. g # NoContainer => g \in Generations /\ Exists(g)
  BY InspectFacts
<1>5. /\ \A h \in Generations : Named(cont', h) <=> Named(cont, h)
      /\ \A h \in Generations : Runs(cont', h) => Runs(cont, h) \/ Named(cont, h)
      /\ \A i, h \in Generations : Runs(cont', i) /\ Runs(cont', h) => i = h
  <2>1. CASE UNCHANGED cont
    BY <2>1
  <2>2. CASE g # NoContainer /\ (cont' = Stopped(g) \/ (PortsFree(g) /\ cont' = Started(g)))
    <3> HIDE DEF Kept
    <3> QED BY <1>4, <2>2, TouchKept
  <2> QED BY <1>3, <2>1, <2>2
<1>6. /\ \A i, h \in Generations : Named(cont', i) /\ Named(cont', h) => i = h
      /\ spent'.stops = 0 /\ Single(spent') /\ ~spent'.met => \A h \in Generations : Runs(cont', h) => Named(cont', h)
  BY <1>1, <1>2, <1>5
<1> HIDE DEF Kept, Single
<1> QED BY <1>1, <1>5, <1>6, IdleKept

\* A backup takes the volume of the running container; a restore begins only when the
\* container that has the name does not run, and then nobody does.
LEMMA BackupsKept ==
  ASSUME RuntimeInv, Kept(job, spent, cont, vol), NEW b \in LocalBackups,
         createBackup(b) \/ restoreBackup(b) \/ deleteBackup(b)
  PROVE  Kept(job', spent', cont', vol')
<1>1. At("idle") /\ job.step = "idle" /\ UNCHANGED <<cont, vol, spent>>
  BY DEF createBackup, restoreBackup, deleteBackup, At
<1>2. CASE UNCHANGED job
  <2> HIDE DEF Kept
  <2> QED BY <1>1, <1>2
<1>3. CASE /\ Exists(InspectContainer) /\ ~cont[InspectContainer].running
           /\ job'.step = "restore" /\ job'.kind = "restore"
  <2> DEFINE g == InspectContainer
  <2>1. OnlyNamed(cont, g) /\ g \in Generations /\ ~Runs(cont, g)
    BY <1>3, InspectNamed, InspectFacts DEF Exists, Runs
  <2> HIDE DEF g
  <2> QED BY <1>1, <1>3, <2>1
<1>4. \/ UNCHANGED job
      \/ /\ Exists(InspectContainer) /\ ~cont[InspectContainer].running
         /\ job'.step = "restore" /\ job'.kind = "restore"
  <2> HIDE DEF Kept
  <2>1. CASE restoreBackup(b)
    <3> DEFINE g == InspectContainer
               j == [kind |-> "restore", step |-> "restore", gen |-> g, old |-> g,
                     oldRan |-> FALSE, data |-> archives[b], was |-> g, ran |-> FALSE]
    <3>1. UNCHANGED job \/ (Exists(g) /\ ~cont[g].running /\ job' = j)
      BY <2>1 DEF restoreBackup
    <3>2. j.step = "restore" /\ j.kind = "restore"
      OBVIOUS
    <3> HIDE DEF j
    <3> QED BY <3>1, <3>2
  <2>2. CASE createBackup(b) \/ deleteBackup(b)
    BY <2>2 DEF createBackup, deleteBackup
  <2> QED BY <2>1, <2>2
<1> HIDE DEF Kept
<1> QED BY <1>2, <1>3, <1>4

\* A restore changes no container.
LEMMA RestoreVolumeKept ==
  ASSUME RuntimeInv, Kept(job, spent, cont, vol), RestoreNamedVolume
  PROVE  Kept(job', spent', cont', vol')
<1>1. job.step = "restore" /\ job' = Idle /\ UNCHANGED cont
  BY DEF RestoreNamedVolume, Finish, At
<1>2. /\ Single(spent') => Single(spent)
      /\ spent'.stops = spent.stops /\ spent'.met = spent.met
  <2>1. spent.failures \in Nat
    BY DEF RuntimeInv, SpentRows
  <2>2. CASE UNCHANGED spent
    BY <2>2
  <2>3. CASE Fails
    <3>1. /\ spent'.failures = spent.failures + 1 /\ spent'.met = spent.met
          /\ spent'.stops = spent.stops /\ (spent'.lost <=> spent.lost \/ FALSE)
      BY <2>3, FailureNumbers DEF Fails
    <3> QED BY <2>1, <3>1
  <2> QED BY <2>2, <2>3 DEF RestoreNamedVolume
<1>3. /\ spent'.stops = 0 /\ Single(spent') /\ ~spent'.met => \A h \in Generations : Runs(cont', h) => Named(cont', h)
      /\ \A g, h \in Generations : Named(cont', g) /\ Named(cont', h) => g = h
      /\ \A g, h \in Generations : Runs(cont', g) /\ Runs(cont', h) => g = h
  BY <1>1, <1>2
<1> HIDE DEF Kept, Single
<1> QED BY <1>1, <1>3, IdleKept

\* A file request starts or stops the container that has the name: between operations
\* that is what a power request may do, during one it is noted.
LEMMA BorrowKept ==
  ASSUME RuntimeInv, Kept(job, spent, cont, vol), fileInspect \/ fileStart \/ fileStop
  PROVE  Kept(job', spent', cont', vol')
<1> HIDE DEF Kept
<1>1. /\ UNCHANGED <<vol, job>> /\ spent'.failures = spent.failures /\ spent'.stops = spent.stops
      /\ spent'.lost = spent.lost /\ (spent.met => spent'.met)
  BY BorrowSteps
<1>2. CASE UNCHANGED <<cont, spent>>
  BY <1>1, <1>2
<1>3. ASSUME InspectContainer \in Generations, Exists(InspectContainer),
             cont' = Stopped(InspectContainer) \/ (PortsFree(InspectContainer) /\ cont' = Started(InspectContainer)),
             ~At("idle") => spent'.met
      PROVE  Kept(job', spent', cont', vol')
  <2> DEFINE g == InspectContainer
  <2>1. /\ \A h \in Generations : Named(cont', h) <=> Named(cont, h)
        /\ \A h \in Generations : Runs(cont', h) => Runs(cont, h) \/ Named(cont, h)
        /\ \A i, h \in Generations : Runs(cont', i) /\ Runs(cont', h) => i = h
    BY <1>3, TouchKept
  <2>2. \A h \in Generations : cont[h] # NoContainer => cont'[h].vol = cont[h].vol
    <3>1. Canonical \in ContainerNames /\ cont' \in {Started(g), Stopped(g), Renamed(g, Canonical)}
          /\ g \in Generations /\ Exists(g)
      BY <1>3 DEF ContainerNames
    <3> HIDE DEF g
    <3> QED BY <3>1, EffectFacts
  <2> HIDE DEF g
  <2>3. CASE job.step = "idle"
    <3>1. Kept(job, spent', cont', vol)
      BY <1>1, <2>1, <2>3 DEF Kept
    <3> QED BY <1>1, <3>1
  <2>4. CASE job.step # "idle"
    <3>1. spent'.met
      BY <1>3, <2>4 DEF At
    <3>2. QuietKept(job, spent', cont')
      BY <3>1
    <3>3. /\ \A i, h \in Generations : Named(cont', i) /\ Named(cont', h) => i = h
      BY <2>1 DEF Kept
    <3>4. CASE job.step = "restore"
      <4>1. Kept(job, spent', cont', vol)
        BY <2>1, <3>2, <3>3, <3>4 DEF Kept
      <4> QED BY <1>1, <4>1
    <3>5. CASE job.step # "restore"
      <4>1. /\ Told(job, spent) /\ NameKept(job, spent, cont) /\ OldKept(job, spent, cont, vol)
        <5> HIDE DEF Told, NameKept, OldKept, QuietKept
        <5> QED BY <2>4, <3>5 DEF Kept
      <4>2. Told(job, spent')
        BY <1>1, <4>1
      <4>3. NameKept(job, spent', cont')
        <5>1. /\ \A x : OnlyNamed(cont', x) <=> OnlyNamed(cont, x)
              /\ Single(spent') <=> Single(spent)
              /\ \A h \in Generations : Named(cont', h) <=> Named(cont, h)
          BY <1>1, <2>1
        <5>2. job.gen \in Generations
          BY <2>4, <3>5, KeptFacts
        <5> HIDE DEF OnlyNamed, Single
        <5> QED BY <1>1, <4>1, <5>1, <5>2
      <4>4. job.was # NoContainer /\ job.old = job.was =>
              job.was \in Generations /\ cont[job.was] # NoContainer
        BY <2>4, <3>5, KeptFacts DEF Exists
      <4>5. OldKept(job, spent', cont', vol)
        BY <1>1, <2>1, <2>2, <3>1, <4>1, <4>4
      <4>6. Kept(job, spent', cont', vol)
        <5> HIDE DEF Told, NameKept, OldKept, QuietKept
        <5> QED BY <2>1, <3>2, <3>3, <4>2, <4>3, <4>5 DEF Kept
      <4> QED BY <1>1, <4>6
    <3> QED BY <3>4, <3>5
  <2> QED BY <2>3, <2>4
<1> QED BY <1>2, <1>3, BorrowSteps

\* The game and file requests only add files.
LEMMA WritingKept ==
  ASSUME RuntimeInv, Kept(job, spent, cont, vol), writeFile \/ \E g \in Generations : GameWrites(g)
  PROVE  Kept(job', spent', cont', vol')
<1>1. PICK g \in Generations : Exists(g) /\ Written(g)
  BY InspectFacts DEF writeFile, GameWrites
<1>2. /\ UNCHANGED <<cont, job>>
      /\ spent'.failures = spent.failures /\ spent'.stops = spent.stops
      /\ spent'.lost = spent.lost /\ spent'.met = spent.met
      /\ \A m \in 0 .. MaxGeneration : vol[m] \subseteq vol'[m]
  BY <1>1, WrittenFacts
<1>3. CASE job.step \in {"idle", "restore"}
  BY <1>2, <1>3
<1>4. CASE job.step \notin {"idle", "restore"}
  <2>1. job.was # NoContainer /\ job.old = job.was => cont[job.was].vol \in 0 .. MaxGeneration
    BY <1>4, KeptFacts
  <2>2. Told(job, spent') /\ NameKept(job, spent', cont)
    BY <1>2, <1>4
  <2>3. OldKept(job, spent', cont, vol')
    BY <1>2, <1>4, <2>1
  <2>4. QuietKept(job, spent', cont)
    BY <1>2, <1>4
  <2>5. /\ \A i, h \in Generations : Named(cont, i) /\ Named(cont, h) => i = h
        /\ \A i, h \in Generations : Runs(cont, i) /\ Runs(cont, h) => i = h
    OBVIOUS
  <2> HIDE DEF Told, NameKept, OldKept, QuietKept
  <2>6. Kept(job, spent', cont, vol')
    BY <2>2, <2>3, <2>4, <2>5
  <2> HIDE DEF Kept
  <2> QED BY <1>2, <2>6
<1> QED BY <1>3, <1>4

\* The Agent stops between two calls, which is counted.
LEMMA AgentStopsKept ==
  ASSUME RuntimeInv, Kept(job, spent, cont, vol), AgentStops
  PROVE  Kept(job', spent', cont', vol')
<1>1. job' = Idle /\ UNCHANGED cont
  BY DEF AgentStops
<1>2. spent'.stops # 0
  <2> DEFINE n == spent.stops + 1
  <2>1. spent \in SpentRows /\ n # 0 /\ spent' = [spent EXCEPT !.stops = n]
    BY DEF AgentStops, RuntimeInv, SpentRows
  <2> HIDE DEF n
  <2> QED BY <2>1 DEF SpentRows
<1>3. /\ \A g, h \in Generations : Named(cont', g) /\ Named(cont', h) => g = h
      /\ \A g, h \in Generations : Runs(cont', g) /\ Runs(cont', h) => g = h
  BY <1>1
<1> HIDE DEF Kept
<1> QED BY <1>1, <1>2, <1>3, IdleKept

\* No other step ends a reconcile as failed.
LEMMA OnlyRollbacksFail ==
  ASSUME RuntimeInv, RuntimeNext, ReconcileFails
  PROVE  rollback \/ removeCreated
<1> USE DEF ReconcileFails
<1>1. job.step # "idle" /\ job' = Idle /\ last'.kind = "reconcile" /\ ~last'.ok /\ job.kind = "reconcile"
  BY DEF At
<1>2. ASSUME job.step # "restore", NEW step \in Steps \ {"idle", "restore"}, Goto(step) PROVE FALSE
  <2>1. job \in JobRows
    BY <1>1, <1>2, KeptFacts
  <2>2. job'.step = step
    BY <1>2, <2>1, JobAtFacts
  <2> QED BY <1>1, <2>2 DEF Idle
<1>3. AfterInstall \in Steps \ {"idle", "restore"} /\ OnError \in Steps \ {"idle", "restore"}
  BY StepFacts DEF AfterInstall, OnError
<1>4. {"install", "fail", "stop", "clone", "drop", "undo", "health", "remove", "aside",
       "switch", "unname"} \subseteq Steps \ {"idle", "restore"}
  BY DEF Steps
<1>5. ASSUME provisionCreate \/ reconcileCreate \/ reconcileStop \/ cloneContainerData
             \/ installBundleArtifacts \/ StartContainer \/ waitForHealthyRuntime
             \/ renameOldAside \/ renameCandidate \/ restoreName
      PROVE  FALSE
  <2>1. job.step # "restore"
    BY <1>5 DEF provisionCreate, reconcileCreate, reconcileStop, cloneContainerData,
         installBundleArtifacts, StartContainer, waitForHealthyRuntime,
         renameOldAside, renameCandidate, restoreName, At
  <2>2. \E step \in Steps \ {"idle", "restore"} : Goto(step)
    <3> HIDE DEF Goto
    <3> QED BY <1>3, <1>4, <1>5
         DEF provisionCreate, reconcileCreate, reconcileStop, cloneContainerData,
             installBundleArtifacts, StartContainer, waitForHealthyRuntime,
             renameOldAside, renameCandidate, restoreName, Call
  <2> QED BY <1>2, <2>1, <2>2
<1>6. ASSUME NEW g \in Generations, NEW trusted \in BOOLEAN, NEW run \in BOOLEAN, NEW install \in BOOLEAN,
             executeProvision(g, trusted, run, install) \/ executeReconcile(g, trusted, run, install)
      PROVE  FALSE
  BY <1>1, <1>6 DEF executeProvision, executeReconcile, At
<1>7. ASSUME NEW action \in {"start", "stop", "restart", "kill"}, executePower(action)
      PROVE  FALSE
  BY <1>1, <1>7 DEF executePower, At
<1>8. ASSUME NEW b \in LocalBackups, createBackup(b) \/ restoreBackup(b) \/ deleteBackup(b)
      PROVE  FALSE
  BY <1>1, <1>8 DEF createBackup, restoreBackup, deleteBackup, At
<1>9. ~RestoreNamedVolume
  <2>1. RestoreNamedVolume => job.kind = "restore"
    BY JobFacts DEF RestoreNamedVolume, RestoreRows
  <2> QED BY <1>1, <2>1
<1>10. ~reportSuccess
  BY <1>1 DEF reportSuccess, Finish
<1>11. ASSUME fileInspect \/ fileStart \/ fileStop \/ writeFile \/ \E g \in Generations : GameWrites(g)
       PROVE  FALSE
  <2>1. UNCHANGED job
    BY <1>11 DEF fileInspect, fileStart, fileStop, writeFile, GameWrites, Written
  <2> QED BY <1>1, <2>1 DEF Idle
<1>12. ~AgentStops
  BY <1>1 DEF AgentStops, At
<1> HIDE DEF ReconcileFails
<1> QED BY <1>5, <1>6, <1>7, <1>8, <1>9, <1>10, <1>11, <1>12 DEF RuntimeNext, TaskStep

\* Which container has the name and which ones run: what the two theorems below rest on,
\* at every step of every operation, with the steps of file requests in between.
THEOREM RuntimeKept == RuntimeSpec => [](RuntimeInv /\ Kept(job, spent, cont, vol))
<1>1. RuntimeInit => Kept(job, spent, cont, vol)
  <2> SUFFICES ASSUME RuntimeInit PROVE Kept(job, spent, cont, vol)
    OBVIOUS
  <2>1. job.step = "idle"
    BY DEF RuntimeInit, Idle
  <2>2. \A h \in Generations : ~Named(cont, h) /\ ~Runs(cont, h)
    BY DEF RuntimeInit, Named, Runs
  <2> QED BY <2>1, <2>2
<1> HIDE DEF Kept
<1>2. RuntimeInv /\ Kept(job, spent, cont, vol) /\ [RuntimeNext]_runtimeVars =>
        Kept(job, spent, cont, vol)'
  <2> SUFFICES ASSUME RuntimeInv, Kept(job, spent, cont, vol), [RuntimeNext]_runtimeVars
               PROVE  Kept(job', spent', cont', vol')
    BY Zenon DEF Kept, Told, NameKept, OldKept, QuietKept, OnlyNamed, NobodyRuns, Single, Named, Runs
  <2>1. CASE UNCHANGED runtimeVars
    BY <2>1 DEF runtimeVars
  <2>2. CASE RuntimeNext
    BY <2>2, OperationKept, CreateKept, StopKept, CopyKept, StartKept, HealthKept, AsideKept,
       SwitchKept, SuccessKept, RestoreNameKept, RollbackKept, RemoveCreatedKept,
       PowerKept, BackupsKept, RestoreVolumeKept, BorrowKept, WritingKept, AgentStopsKept
       DEF RuntimeNext, TaskStep
  <2> QED BY <2>1, <2>2
<1> QED BY <1>1, <1>2, RuntimeInvariant, PTL DEF RuntimeSpec

\* A reconcile that fails at whatever step, because one call, the inspection or the health
\* check did, leaves the container it was to replace with its name, with its files if the
\* inspection found it, and running if and only if it ran unless a file request started or
\* stopped a container meanwhile (executeReconcile and its rollback).
THEOREM OldGenerationRestored == RuntimeSpec => FailedReconcileRestoresOld
<1>1. RuntimeInv /\ Kept(job, spent, cont, vol) /\ [RuntimeNext]_runtimeVars =>
        [(ReconcileFails /\ OneFailure' /\ job.was # NoContainer) =>
          /\ cont'[job.was] # NoContainer
          /\ cont'[job.was].name = Canonical
          /\ Found => job.data \subseteq vol'[cont'[job.was].vol]
          /\ ~spent.met => cont'[job.was].running = job.ran]_runtimeVars
  <2> SUFFICES ASSUME RuntimeInv, Kept(job, spent, cont, vol), RuntimeNext PROVE RestoresOld
    BY DEF RestoresOld
  <2> HIDE DEF Kept
  <2>1. CASE ReconcileFails
    BY <2>1, OnlyRollbacksFail, RollbackKept, RemoveCreatedKept
  <2>2. CASE ~ReconcileFails
    BY <2>2 DEF RestoresOld
  <2> QED BY <2>1, <2>2
<1> HIDE DEF Kept
<1> QED BY <1>1, RuntimeKept, PTL DEF RuntimeSpec, FailedReconcileRestoresOld

\* While a volume is copied, unpacked into or replaced, no container runs that has it, or
\* that it is copied from: unless the Agent was stopped, two calls failed, an answer was
\* lost, the inspection failed or a file request started one meanwhile.
THEOREM VolumesAreQuiet == RuntimeSpec => []QuietVolume
<1>1. Kept(job, spent, cont, vol) => QuietVolume
  BY RuntimeAssumption DEF QuietVolume, OneFailure, Found, Runs, Exists, Generations
<1> HIDE DEF Kept
<1> QED BY <1>1, RuntimeKept, PTL

=============================================================================
