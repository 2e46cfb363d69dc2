\* One panel, no lost session and no crash: two requests and two tasks.
SPECIFICATION FilesSpec
CONSTANTS
    FileRequests = {1, 2}
    Panels = {p1}
    NoRequest = NoRequest
    MaxTasks = 2
    AgentFails = FALSE
INVARIANTS
    PowerPreserved
CHECK_DEADLOCK FALSE
