\* One replica; one session of the agent, one command.
SPECIFICATION ConsoleSpec
CONSTANTS
    Replicas = {r1}
    None = None
    AgentReplicas = {r1}
    MaxLines = 5
    MaxSessions = 1
    MaxCommands = 1
    Retained = 2
    Buffered = 1
    MaxCuts = 0
    MaxRestarts = 0
    MaxRevocations = 0
PROPERTIES
    EchoIsRecorded
CHECK_DEADLOCK FALSE
