\* No agent rejects a task: the upgrade fails because its lease lapses twice.
SPECIFICATION OrderedSpec
CONSTANTS
    s1 = s1
    n1 = n1
    Tasks = {1, 2, 3}
    Servers = {s1}
    Nodes = {n1}
    NodeOf <- MCNodeOf
    Epochs = {1}
    MaxAttempts = 2
    Backups = {b1}
    Bundles = {g1, g2}
    PowerActions = {"stop"}
    Rejectable = {}
INVARIANT FailedUpgradeNotAdvertised
CHECK_DEADLOCK FALSE
