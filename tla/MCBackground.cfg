\* Two replicas; one schedule, or two events, or one notification for two endpoints,
\* or two backups of which one may be deleted; one fault.
SPECIFICATION BackgroundSpec
CONSTANTS
    server1 = server1
    Replicas = {r1, r2}
    None = None
    Schedules = {s1}
    Servers = {server1}
    ServerOf <- MCServerOf
    Cleanup = {}
    Missed <- MCMissed
    Concurrency <- MCConcurrency
    Period = 2
    ScheduleBatch = 1
    MaxTime = 4
    MaxSchedulerCrashes = 1
    Events = {1, 2}
    MaxPublishAttempts = 2
    PublishBatch = 1
    MaxPublishFaults = 1
    MaxReplays = 1
    Notifications = {n1}
    Endpoints = {w1, w2}
    MaxDeliveryAttempts = 2
    DeliveryBatch = 1
    MaxDeliveryFaults = 1
    Backups = {1, 2}
    Digests = {1, 2}
    DataKeys = {k1, k2}
    Deletable = {1}
    Flaky = {}
    StoreFails = FALSE
    KeepsExisting = TRUE
    Prompt = TRUE
    MaxCrashes = 1
    Nothing = Nothing
    DigestOf <- MCDigestOf
INVARIANTS
    PublishingIsSound
PROPERTIES
    SettledIsFinal
    LoopsSettle
    ArchiveSettles
CHECK_DEADLOCK FALSE
