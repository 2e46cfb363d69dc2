\* One server, one recovery point, two bundle revisions and four tasks with two
\* attempts each: enough to create, restore and delete a backup after the server is
\* provisioned, each with a lost lease, or to fail an upgrade on the way.
SPECIFICATION OrderedSpec
CONSTANTS
    s1 = s1
    n1 = n1
    Tasks = {1, 2, 3, 4}
    Servers = {s1}
    Nodes = {n1}
    NodeOf <- MCNodeOf
    Epochs = {1}
    MaxAttempts = 2
    Backups = {b1}
    Bundles = {g1, g2}
    PowerActions = {"stop"}
    Rejectable = {"provision", "reconcile"}
INVARIANTS
    OneActivePerServer
    QueuedIsClaimable
    TaskHoldsItsObjects
    EventsMatchTasks
PROPERTIES
    TerminalIsFinal
    FailedDeleteRestoresStatus
    ImplementsBackupStatus
CHECK_DEADLOCK FALSE
