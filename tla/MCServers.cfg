\* Two servers that share three ports, two revisions signed by one key; two schedules
\* of one server and two replicas of which one may die; three generations of a
\* container with one fault and one stop of the agent; two restores and two writers
\* of one archive; two backups with one content, one of
\* which is deleted; two file requests and two tasks.
SPECIFICATION ServersSpec
CONSTANTS
    server1 = server1
    server2 = server2
    revision1 = revision1
    revision2 = revision2
    root = root
    variable = variable
    schedule1 = schedule1
    None = None
    Replicas = {r1, r2}
    Managed = {server1, server2}
    Ports = {1, 2, 3}
    Revisions = {revision1, revision2}
    Roots = {root}
    Signer <- MCSigner
    Declared <- MCDeclared
    MaxGenerations = 3
    MaxReviews = 3
    Schedules = {schedule1, schedule2}
    Servers = {server1}
    ServerOf <- MCServerOf
    Cleanup = {schedule2}
    Missed <- MCMissed
    Concurrency <- MCConcurrency
    Period = 2
    ScheduleBatch = 2
    MaxTime = 4
    MaxSchedulerCrashes = 1
    MaxGeneration = 3
    MaxFiles = 1
    MaxFailures = 1
    MaxAgentStops = 1
    LocalBackups = {b1}
    NoContainer = NoContainer
    MaxRestores = 2
    MaxFsFaults = 2
    MaxFsStops = 2
    Writers = {w1, w2}
    Gone = Gone
    Backups = {1, 2}
    Digests = {1}
    DataKeys = {k1, k2, k3}
    Deletable = {1}
    Flaky = {1}
    StoreFails = TRUE
    KeepsExisting = FALSE
    Prompt = FALSE
    MaxCrashes = 1
    Nothing = Nothing
    DigestOf <- MCDigestOf
    FileRequests = {q1, q2}
    Panels = {p1, p2}
    NoRequest = NoRequest
    MaxTasks = 2
    AgentFails = TRUE
SYMMETRY Symmetric
INVARIANTS
    RunsAreSound
    TaskAppliesDesired
    RevokedRootStopsTasks
    QuietVolume
    RestoreIsAtomic
    ReportedArchiveIsStored
    RemoteReadable
    FilesRespectTasks
PROPERTIES
    FailedReconcileRestoresOld
    SwitchKeepsData
    DeletedStaysDetached
CHECK_DEADLOCK FALSE
