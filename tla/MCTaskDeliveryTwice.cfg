\* Two attempts of one task meet two workers; nothing fails.
SPECIFICATION Spec
CONSTANTS
    n1 = n1
    Tasks = {t1}
    Servers = {s1}
    Nodes = {n1}
    NodeOf <- MCNodeOf
    Epochs = {1}
    MaxAttempts = 2
    Workers = {w1, w2}
    SecretTasks = {}
    MaxRequests = 1
    MaxFaults = 0
    MaxRenewals = 0
SYMMETRY WorkerSymmetry
INVARIANT ExecutedAtMostOnce
CHECK_DEADLOCK FALSE
