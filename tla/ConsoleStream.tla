---------------------------- MODULE ConsoleStream ---------------------------
(***************************************************************************)
(* The console of one server on its way from the agent to a browser: the   *)
(* numbers the agent gives to log lines and to the echo of a command       *)
(* (internal/agent/agent.go), console_logs and each replica's buffer       *)
(* (internal/store/console_metrics_buffer.go), the Redis stream that every *)
(* replica reads (cmd/control-plane/main.go), the hub's bounded channels   *)
(* (console_hub.go), the WebSocket handler consoleStream                   *)
(* (internal/httpapi/handler.go) and the web console, which reconnects     *)
(* when a number is missing (web/src/pages/ServerWorkspace.tsx).  A line   *)
(* is its number.  The agent keeps one counter per server, in memory: a    *)
(* session draws from it once, for its log follower, which then counts for *)
(* itself, and every echo draws two numbers.                               *)
(***************************************************************************)
EXTENDS Naturals, Sequences, FiniteSets, ControlPlane

CONSTANTS
    AgentReplicas, \* the ones the agent's stream is connected to, in turn
    MaxLines,      \* bound: the largest number of a line
    MaxSessions,   \* bound: sessions of the agent
    MaxCommands,   \* bound: console commands
    Retained,      \* consoleBufferLimit
    Buffered,      \* consoleHubBuffer
    MaxCuts,       \* bound: connections that break, recordings and broadcasts that fail
    MaxRestarts,   \* bound: restarts of a replica
    MaxRevocations \* bound: times access is taken away

ASSUME ConsoleAssumption ==
    /\ AgentReplicas \subseteq Replicas
    /\ MaxLines \in Nat /\ MaxSessions \in Nat /\ MaxCommands \in Nat /\ Retained \in Nat \ {0} /\ Buffered \in Nat \ {0}
    /\ MaxCuts \in Nat /\ MaxRestarts \in Nat /\ MaxRevocations \in Nat

VARIABLES
    drawn,     \* agent.sequences: the last number drawn for the server
    session,   \* the replica the agent is connected to, or None
    tailer,    \* per replica: the next number of the log follower that reports to it, 0: none
    logs,      \* numbers of the lines in console_logs
    recorded,  \* history: numbers whose recording RecordConsoleLines did not report as failed
    ordered,   \* history: every number was larger than all before it when it was inserted
    buffer,    \* lines in the memory of each replica, in their order of arrival
    onStream,  \* lines of the Redis stream each replica has still to read
    socket,    \* the client's connection: replica, step, channel
    client,    \* the client: last number, lines it shows, where its list begins
    allowed,   \* may the user see the console?
    sessions, commands, cuts, restarts, revocations

agentVars == <<drawn, session, tailer, sessions, commands>>
recordVars == <<logs, recorded, ordered, buffer>>
viewVars == <<socket, client, allowed, revocations>>
consoleVars == <<agentVars, recordVars, onStream, viewVars, cuts, restarts>>

Lines == 1 .. MaxLines
NoSocket == [step |-> "closed"]
Open(step) == socket.step = step
Last(s, n) == SubSeq(s, IF Len(s) > n THEN Len(s) - n + 1 ELSE 1, Len(s))

ConsoleInit ==
    /\ drawn = 0 /\ session = None /\ tailer = [r \in Replicas |-> 0]
    /\ logs = {} /\ recorded = {} /\ ordered = TRUE
    /\ buffer = [r \in Replicas |-> <<>>]
    /\ onStream = [r \in Replicas |-> <<>>]
    /\ socket = NoSocket
    /\ client = [last |-> 0, shown |-> {}, from |-> 0]
    /\ allowed = TRUE
    /\ sessions = 0 /\ commands = 0 /\ cuts = 0 /\ restarts = 0 /\ revocations = 0

\* The newest Retained lines.
Trimmed(S) == {n \in S : Cardinality({m \in S : m > n}) < Retained}

\* The numbers of S, smallest first: as many are smaller than the i-th as come before it.
Ascending(S) == [i \in 1 .. Cardinality(S) |-> CHOOSE n \in S : Cardinality({m \in S : m < n}) = i - 1]

\* A batch arrives.  persistConsoleLines inserts and trims in one transaction; a
\* number that is taken is skipped.  Only inserted lines go to the buffer of the
\* replica and to XADD, a pipeline that may lose any of them.  An error drops the
\* batch, though its commit may have succeeded.
RecordConsoleLines(r, numbers) ==
    LET new == numbers \ logs IN
    \/ /\ logs' = Trimmed(logs \cup new) /\ recorded' = recorded \cup new
       /\ ordered' = (ordered /\ \A n \in new, m \in logs : m < n)
       /\ buffer' = [buffer EXCEPT ![r] = Last(@ \o Ascending(new), Retained)]
       /\ \E published \in SUBSET new :
            /\ onStream' = [p \in Replicas |-> onStream[p] \o Ascending(published)]
            /\ \/ published = new /\ UNCHANGED cuts
               \/ published # new /\ cuts < MaxCuts /\ cuts' = cuts + 1
    \/ /\ cuts < MaxCuts /\ cuts' = cuts + 1
       /\ \/ UNCHANGED <<logs, ordered>>
          \/ /\ logs' = Trimmed(logs \cup new)
             /\ ordered' = (ordered /\ \A n \in new, m \in logs : m < n)
       /\ UNCHANGED <<recorded, buffer, onStream>>

\* A Connect session begins, of the same process or of a new one, which counts
\* from 1 again; startLogTailers follows the log of a server that runs.  What the
\* last session sent may still be on its way to its replica.
SessionStarts(r) ==
    /\ sessions < MaxSessions /\ sessions' = sessions + 1
    /\ session' = r
    /\ \E last \in {0, drawn} :
         \/ drawn' = last + 2 /\ tailer' = [tailer EXCEPT ![r] = last + 1]
         \/ drawn' = last /\ tailer' = [tailer EXCEPT ![r] = 0]
    /\ UNCHANGED <<commands, recordVars, onStream, viewVars, cuts, restarts>>

\* The follower sends a batch; handleLogBatch records it.
ReportLines(r) ==
    /\ tailer[r] # 0
    /\ \E n \in Lines :
         /\ n >= tailer[r]
         /\ RecordConsoleLines(r, tailer[r] .. n)
         /\ tailer' = [tailer EXCEPT ![r] = n + 1]
    /\ UNCHANGED <<drawn, session, sessions, commands, viewVars, restarts>>

\* handleConsoleCommand: the command and its output, as two lines.
EchoCommand ==
    /\ session # None /\ drawn + 2 \in Lines
    /\ commands < MaxCommands /\ commands' = commands + 1
    /\ drawn' = drawn + 2
    /\ RecordConsoleLines(session, {drawn + 1, drawn + 2})
    /\ UNCHANGED <<session, tailer, sessions, viewVars, restarts>>

\* A full channel loses its oldest line, never the new one.
hubPublish(channel, n) == Last(Append(channel, n), Buffered)

\* consumeConsoleBroadcasts: hand the line to the subscriber of this replica.
consumeConsoleBroadcasts(r) ==
    /\ onStream[r] # <<>>
    /\ onStream' = [onStream EXCEPT ![r] = Tail(@)]
    /\ socket' = (IF Open("open") /\ socket.replica = r
                  THEN [socket EXCEPT !.channel = hubPublish(@, Head(onStream[r]))] ELSE socket)
    /\ UNCHANGED <<agentVars, recordVars, client, allowed, revocations, cuts, restarts>>

\* A console token is issued and consumed: both check the permission.
Connects(r) ==
    /\ Open("closed") /\ allowed
    /\ socket' = [step |-> "upgraded", replica |-> r, channel |-> <<>>]
    /\ UNCHANGED <<agentVars, recordVars, onStream, client, allowed, revocations, cuts, restarts>>

\* The snapshot the handler sends to a client that asks for lines after its last
\* one, and what the client makes of it.
Snapshot(lines) ==
    LET new == {lines[i] : i \in DOMAIN lines}
        reset == client.last > 0 /\ lines # <<>> /\ client.last < lines[1] - 1
        kept == IF reset THEN new ELSE {n \in new : n > client.last}
        latest == CHOOSE i \in DOMAIN lines :
                     lines[i] \in kept /\ \A j \in DOMAIN lines : j > i => lines[j] \notin kept
    IN  [last |-> IF kept = {} THEN client.last ELSE lines[latest],
         shown |-> IF reset THEN kept ELSE client.shown \cup kept,
         from |-> IF reset \/ client.last = 0
                  THEN (IF kept = {} THEN 0 ELSE CHOOSE n \in kept : \A m \in kept : m >= n)
                  ELSE client.from]

\* The snapshot is read and sent before the handler subscribes.
SendSnapshot ==
    /\ Open("upgraded")
    /\ client' = Snapshot(buffer[socket.replica])
    /\ socket' = [socket EXCEPT !.step = "sent"]
    /\ UNCHANGED <<agentVars, recordVars, onStream, allowed, revocations, cuts, restarts>>

SubscribeConsoleLines ==
    /\ Open("sent")
    /\ socket' = [socket EXCEPT !.step = "open"]
    /\ UNCHANGED <<agentVars, recordVars, onStream, client, allowed, revocations, cuts, restarts>>

\* Variant: the client goes on when a number is missing.
GapAccepted(n) == FALSE

\* A line frame.  The client closes the connection when a number is missing.
Gap(n) == client.last > 0 /\ n > client.last + 1

ForwardLine ==
    /\ Open("open") /\ socket.channel # <<>>
    /\ LET n == Head(socket.channel) IN
       IF Gap(n) THEN socket' = NoSocket /\ UNCHANGED client
       ELSE /\ socket' = [socket EXCEPT !.channel = Tail(@)]
            /\ client' = [last |-> IF n > client.last THEN n ELSE client.last,
                          shown |-> client.shown \cup {n},
                          from |-> IF client.last = 0 THEN n ELSE client.from]
    /\ UNCHANGED <<agentVars, recordVars, onStream, allowed, revocations, cuts, restarts>>

\* Variant: the permission is read before the stream opens only.
ReauthorizeOnce ==
    /\ Open("sent") /\ ~allowed
    /\ socket' = NoSocket
    /\ UNCHANGED <<agentVars, recordVars, onStream, client, allowed, revocations, cuts, restarts>>

\* Every second the permission is read again.
Reauthorize ==
    /\ Open("open") /\ ~allowed
    /\ socket' = NoSocket
    /\ UNCHANGED <<agentVars, recordVars, onStream, client, allowed, revocations, cuts, restarts>>

SocketBreaks ==
    /\ ~Open("closed") /\ cuts < MaxCuts /\ cuts' = cuts + 1
    /\ socket' = NoSocket
    /\ UNCHANGED <<agentVars, recordVars, onStream, client, allowed, revocations, restarts>>

\* RestoreTelemetry: the buffer is read back from console_logs; the replica
\* reads the Redis stream from its end ("$"); a stream of the agent ends.
ReplicaRestarts(r) ==
    /\ restarts < MaxRestarts /\ restarts' = restarts + 1
    /\ buffer' = [buffer EXCEPT ![r] = Ascending(logs)]
    /\ onStream' = [onStream EXCEPT ![r] = <<>>]
    /\ socket' = (IF ~Open("closed") /\ socket.replica = r THEN NoSocket ELSE socket)
    /\ session' = (IF session = r THEN None ELSE session)
    /\ tailer' = [tailer EXCEPT ![r] = 0]
    /\ UNCHANGED <<drawn, sessions, commands, logs, recorded, ordered, client, allowed, revocations, cuts>>

AccessChanges ==
    /\ allowed' = ~allowed
    /\ allowed => revocations < MaxRevocations
    /\ revocations' = (IF allowed THEN revocations + 1 ELSE revocations)
    /\ UNCHANGED <<agentVars, recordVars, onStream, socket, client, cuts, restarts>>

StreamServes == SendSnapshot \/ SubscribeConsoleLines \/ ForwardLine \/ Reauthorize

ConsoleNext ==
    \/ \E r \in AgentReplicas : SessionStarts(r) \/ ReportLines(r)
    \/ EchoCommand
    \/ \E r \in Replicas : consumeConsoleBroadcasts(r) \/ Connects(r) \/ ReplicaRestarts(r)
    \/ StreamServes \/ SocketBreaks \/ AccessChanges

\* The handler's goroutine runs; its tickers fire.
ConsoleFairness == WF_consoleVars(StreamServes) /\ WF_consoleVars(Reauthorize)

ConsoleSpec == ConsoleInit /\ [][ConsoleNext]_consoleVars /\ ConsoleFairness
-----------------------------------------------------------------------------
\* What the stream makes a client show has no hole: between its first line and its
\* last number it has every line that was recorded, though lines get lost between
\* snapshot and subscription, in a full channel, on Redis or with a replica, numbers
\* of a failed batch are missing for ever, and sessions and echoes draw low numbers
\* again ("instead of silently skipping a retention gap", handler.go:1136).  Excepted:
\* a batch that RecordConsoleLines failed to record, which no one can tell from
\* numbers nobody used, and all that comes after a low number was inserted below the
\* numbers that are stored.  True while the agent stays with one replica.
NoSilentGap ==
    ordered => \A n \in recorded : client.from > 0 /\ client.from <= n /\ n <= client.last => n \in client.shown

\* "授权变化或服务器成员移除后立即关闭连接": no stream stays open for ever while
\* its user has no access (docs/design/08-api-contracts.md:142).
RevokedStreamCloses == []<>(~Open("open") \/ allowed)

\* "让控制面日志缓冲出现一条「命令 + 结果」的记录" (agent.go:1044): when nothing fails,
\* the two lines of a command's echo enter the console's buffer.
EchoIsRecorded ==
    [][EchoCommand /\ UNCHANGED cuts =>
         buffer'[session] = Last(buffer[session] \o <<drawn + 1, drawn + 2>>, Retained)]_consoleVars
=============================================================================
