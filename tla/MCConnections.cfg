\* Two streams of one node, of which the second replaces the first, with a command and
\* a file operation that compete for a queue of one frame; four lines of which two are
\* retained, and two replicas; two agents and one token, with one stop.
SPECIFICATION ConnectionsSpec
CONSTANTS
    Replicas = {r1, r2}
    None = None
    Conns = {1, 2}
    Commands = {c1}
    FileOps = {f1}
    QueueSize = 1
    AgentReplicas = {r1}
    MaxLines = 4
    MaxSessions = 2
    MaxCommands = 1
    Retained = 2
    Buffered = 1
    MaxCuts = 1
    MaxRestarts = 1
    MaxRevocations = 1
    Agents = {a1, a2}
    Tokens = {t1}
    Static = Static
    NoToken = NoToken
    MaxNodes = 1
    MaxKeys = 2
    MaxStops = 1
CONSTRAINTS
    BoundedConsole
INVARIANTS
    StreamIsSound
    NoSilentGap
    TokenEnrollsOneNode
PROPERTIES
    LiveAnswerArrives
    CallsAndWritersEnd
    RevokedStreamCloses
    RevokedNodeStaysOut
CHECK_DEADLOCK FALSE
