\* One task at a time, with or without secret handles, two workers that can meet
\* on a redelivery, and two faults: a stream broken or a process killed at any
\* two points.
SPECIFICATION FairSpec
CONSTANTS
    n1 = n1
    Tasks = {t1, t2}
    Servers = {s1}
    Nodes = {n1}
    NodeOf <- MCNodeOf
    Epochs = {1, 2, 3}
    MaxAttempts = 2
    Workers = {w1, w2}
    SecretTasks = {t2}
    MaxRequests = 1
    MaxFaults = 2
    MaxRenewals = 1
INVARIANTS
    OnlyCurrentLeaseMatches
    JournalPreventsReruns
    SucceededMeansDone
PROPERTIES
    DispatchEnds
    TaskEndsUnlessFault
CHECK_DEADLOCK FALSE
