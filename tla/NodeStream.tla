----------------------------- MODULE NodeStream -----------------------------
(***************************************************************************)
(* The Connect streams of one node in the control plane, and the console   *)
(* commands and file operations that are sent over them and wait for an    *)
(* answer (agentrpc/server.go, connect.go, file_dispatcher.go).            *)
(*                                                                         *)
(* A call is a SendConsoleCommand or DispatchFileOperation in progress; it *)
(* stays in the pending table of its stream until it returns.  Tasks and   *)
(* their leases are the subject of TaskDelivery.                           *)
(***************************************************************************)
EXTENDS Naturals, Sequences, ControlPlane

CONSTANTS
    Conns,       \* Connect streams of the node: numbers, in the order of their Hello
    Commands,    \* console commands
    FileOps,     \* file operations
    QueueSize    \* nodeOutboundQueueSize (64 in the code)

Calls == Commands \cup FileOps

ASSUME NodeStreamAssumption ==
    /\ Conns \subseteq Nat \ {0}
    /\ QueueSize \in Nat \ {0}
    /\ Commands \cap FileOps = {}
    /\ None \notin Calls /\ None \notin Conns

VARIABLES
    conn,     \* nodeStream: handler, transport, done, outbound queue, writer
    current,  \* Server.streams[nodeID]
    call,     \* the calls in progress and what they returned
    inbox,    \* frames on their way to the agent, per stream
    up,       \* answers on their way to the control plane, per stream
    ran       \* calls the agent has executed

streamVars == <<conn, current, call, inbox, up, ran>>

NoConn == [handler |-> "absent", broken |-> FALSE, replaced |-> FALSE, done |-> FALSE,
           queue |-> <<>>, writer |-> "idle", frame |-> None]

NoCall == [pc |-> "new", conn |-> None, late |-> FALSE,
           sent |-> "none", answered |-> FALSE, outcome |-> "none"]

StreamInit ==
    /\ conn = [c \in Conns |-> NoConn]
    /\ current = None
    /\ call = [q \in Calls |-> NoCall]
    /\ inbox = [c \in Conns |-> <<>>]
    /\ up = [c \in Conns |-> {}]
    /\ ran = {}

-----------------------------------------------------------------------------
(* Streams *)

Closed(c) == [conn EXCEPT ![c].done = TRUE]

(* registerStream after the Hello of a new stream: it replaces the stream    *)
(* that was there, and closes it once the lock is released.                  *)
Register(c) ==
    /\ conn[c].handler = "absent"
    /\ \A d \in Conns : d < c => conn[d].handler # "absent"
    /\ conn' = [d \in Conns |->
         CASE d = c -> [conn[d] EXCEPT !.handler = "serving"]
           [] d = current -> [conn[d] EXCEPT !.replaced = TRUE]
           [] OTHER -> conn[d]]
    /\ current' = c
    /\ UNCHANGED <<call, inbox, up, ran>>

ClosePrevious(c) ==
    /\ conn[c].replaced /\ ~conn[c].done
    /\ conn' = Closed(c)
    /\ UNCHANGED <<current, call, inbox, up, ran>>

(* The transport breaks: context cancelled, Recv and Send fail. *)
Break(c) ==
    /\ conn[c].handler = "serving" /\ ~conn[c].broken
    /\ conn' = [conn EXCEPT ![c].broken = TRUE]
    /\ UNCHANGED <<current, call, inbox, up, ran>>

(* Variant: unregisterStream removes whatever stream the node has. *)
ReturnAndForget(c) ==
    /\ conn[c].handler = "serving" /\ (conn[c].done \/ conn[c].broken)
    /\ conn' = [conn EXCEPT ![c] = [@ EXCEPT !.handler = "returned", !.done = TRUE]]
    /\ current' = None
    /\ up' = [up EXCEPT ![c] = {}]
    /\ UNCHANGED <<call, inbox, ran>>

(* Variant: the handler sits in Recv and does not see that it was closed. *)
ReturnWhenBroken(c) ==
    /\ conn[c].handler = "serving" /\ conn[c].broken
    /\ conn' = [conn EXCEPT ![c] = [@ EXCEPT !.handler = "returned", !.done = TRUE]]
    /\ current' = IF current = c THEN None ELSE current
    /\ up' = [up EXCEPT ![c] = {}]
    /\ UNCHANGED <<call, inbox, ran>>

(* Connect returns and unregisterStream runs; gRPC cancels the stream. *)
HandlerReturns(c) ==
    /\ conn[c].handler = "serving" /\ (conn[c].done \/ conn[c].broken)
    /\ conn' = [conn EXCEPT ![c] = [@ EXCEPT !.handler = "returned", !.done = TRUE]]
    /\ current' = IF current = c THEN None ELSE current
    /\ up' = [up EXCEPT ![c] = {}]
    /\ UNCHANGED <<call, inbox, ran>>

-----------------------------------------------------------------------------
(* The outbound writer of a stream *)

(* The frame's context has ended: its deadline, or the deferred cancel of a *)
(* console command that returned.                                           *)
Cancelled(q) == call[q].late \/ (q \in Commands /\ call[q].pc = "returned")

(* complete: the result of Send, if the call still waits for it. *)
Transmitted(q, result) == IF call[q].pc = "returned" THEN call ELSE [call EXCEPT ![q].sent = result]

(* The writer takes a frame: it drops one whose context has ended, gives up *)
(* on a closed stream, and calls Send otherwise.                            *)
WriterTakes(c) ==
    LET q == Head(conn[c].queue)
        rest == [conn[c] EXCEPT !.queue = Tail(@)]
    IN
    /\ conn[c].writer = "idle" /\ conn[c].queue # <<>>
    /\ \/ /\ Cancelled(q)
          /\ conn' = [conn EXCEPT ![c] = rest]
          /\ call' = Transmitted(q, "error")
       \/ /\ ~Cancelled(q) /\ conn[c].done
          /\ conn' = [conn EXCEPT ![c] = [rest EXCEPT !.writer = "exited", !.queue = <<>>]]
          /\ call' = Transmitted(q, "error")
       \/ /\ ~Cancelled(q) /\ ~conn[c].done
          /\ conn' = [conn EXCEPT ![c] = [rest EXCEPT !.writer = "sending", !.frame = q]]
          /\ call' = call
    /\ UNCHANGED <<current, inbox, up, ran>>

(* Send returns, at once or after the transport has blocked for any time. *)
WriterSends(c) ==
    /\ conn[c].writer = "sending" /\ ~conn[c].broken /\ conn[c].handler = "serving"
    /\ inbox' = [inbox EXCEPT ![c] = Append(@, conn[c].frame)]
    /\ call' = Transmitted(conn[c].frame, "ok")
    /\ conn' = [conn EXCEPT ![c] = [@ EXCEPT !.writer = "idle", !.frame = None]]
    /\ UNCHANGED <<current, up, ran>>

WriterSendFails(c) ==
    /\ conn[c].writer = "sending" /\ (conn[c].broken \/ conn[c].handler = "returned")
    /\ call' = Transmitted(conn[c].frame, "error")
    /\ conn' = [conn EXCEPT ![c] = [@ EXCEPT !.writer = "exited", !.frame = None, !.done = TRUE, !.queue = <<>>]]
    /\ UNCHANGED <<current, inbox, up, ran>>

WriterExits(c) ==
    /\ conn[c].writer = "idle" /\ conn[c].done
    /\ conn' = [conn EXCEPT ![c].writer = "exited", ![c].queue = <<>>]
    /\ UNCHANGED <<current, call, inbox, up, ran>>

-----------------------------------------------------------------------------
(* A call.  Where several cases of a select are ready, any may be taken. *)

(* Only the frame's context, and what the call returned, outlive it. *)
Returned(q, outcome) ==
    [call EXCEPT ![q] = [NoCall EXCEPT !.pc = "returned", !.late = q \in FileOps /\ call[q].late, !.outcome = outcome]]

(* SendConsoleCommand and DispatchFileOperation look the stream up and      *)
(* enter the call into its pending table.                                   *)
BeginCall(q) ==
    /\ call[q].pc = "new"
    /\ call' = IF current = None THEN Returned(q, "offline")
               ELSE [call EXCEPT ![q] = [@ EXCEPT !.pc = "queueing", !.conn = current]]
    /\ UNCHANGED <<conn, current, inbox, up, ran>>

(* The ten seconds of a command, or the caller's context, are over. *)
DeadlinePasses(q) ==
    /\ call[q].pc \in {"queueing", "sending", "waiting"} /\ ~call[q].late
    /\ call' = [call EXCEPT ![q].late = TRUE]
    /\ UNCHANGED <<conn, current, inbox, up, ran>>

(* sendFrame: the frame goes into the bounded queue. *)
Enqueue(q) ==
    LET c == call[q].conn IN
    /\ call[q].pc = "queueing" /\ Len(conn[c].queue) < QueueSize
    /\ conn' = [conn EXCEPT ![c].queue = Append(@, q)]
    /\ call' = [call EXCEPT ![q].pc = "sending"]
    /\ UNCHANGED <<current, inbox, up, ran>>

(* sendFrame ends with the transport's result. *)
FrameSent(q) ==
    /\ call[q].pc = "sending" /\ call[q].sent = "ok" /\ ~call[q].late
    /\ call' = [call EXCEPT ![q].pc = "waiting"]
    /\ UNCHANGED <<conn, current, inbox, up, ran>>

(* The stream is closed, or Send failed, before the call has an answer. *)
Disconnected(q) ==
    /\ \/ call[q].pc \in {"queueing", "sending", "waiting"} /\ conn[call[q].conn].done
       \/ call[q].pc = "sending" /\ call[q].sent = "error" /\ ~call[q].late
    /\ call' = Returned(q, "offline")
    /\ UNCHANGED <<conn, current, inbox, up, ran>>

(* Variant: the answer of a call is awaited without a deadline. *)
TimesOutSending(q) ==
    /\ call[q].pc \in {"queueing", "sending"} /\ call[q].late
    /\ call' = Returned(q, "timeout")
    /\ conn' = IF q \in Commands THEN Closed(call[q].conn) ELSE conn
    /\ UNCHANGED <<current, inbox, up, ran>>

(* A command that ends before its frame is known to be sent closes the      *)
(* stream; one that waits for its answer does not, nor does a file          *)
(* operation.                                                               *)
TimesOut(q) ==
    /\ call[q].pc \in {"queueing", "sending", "waiting"} /\ call[q].late
    /\ call' = Returned(q, "timeout")
    /\ conn' = IF q \in Commands /\ call[q].pc # "waiting" THEN Closed(call[q].conn) ELSE conn
    /\ UNCHANGED <<current, inbox, up, ran>>

(* The answer arrives; a command whose deadline has passed times out. *)
Answered(q) ==
    /\ call[q].pc = "waiting" /\ call[q].answered
    /\ call' = Returned(q, IF q \in Commands /\ call[q].late THEN "timeout" ELSE "answered")
    /\ UNCHANGED <<conn, current, inbox, up, ran>>

-----------------------------------------------------------------------------
(* Answers *)

(* The agent executes the next frame in its receive loop and answers with   *)
(* the request id.                                                          *)
AgentHandles(c) ==
    /\ inbox[c] # <<>>
    /\ ran' = ran \cup {Head(inbox[c])}
    /\ inbox' = [inbox EXCEPT ![c] = Tail(@)]
    /\ up' = IF conn[c].broken \/ conn[c].handler = "returned" THEN up
             ELSE [up EXCEPT ![c] = @ \cup {Head(inbox[c])}]
    /\ UNCHANGED <<conn, current, call>>

(* q is in the pending table of stream c. *)
Pending(q, c) == call[q].conn = c /\ call[q].pc \in {"queueing", "sending", "waiting"}

(* completeConsoleCommand looks into the table of the stream that received  *)
(* the answer, completeFileOperation into the one of the node's current     *)
(* stream.                                                                  *)
TableFor(q, c) == IF q \in Commands THEN c ELSE current

(* Variant: an answer wakes every call that waits on the stream. *)
CompleteAll(c) ==
    /\ conn[c].handler = "serving"
    /\ \E a \in up[c] :
         /\ up' = [up EXCEPT ![c] = @ \ {a}]
         /\ call' = [q \in Calls |-> IF Pending(q, TableFor(q, c))
                                     THEN [call[q] EXCEPT !.answered = TRUE] ELSE call[q]]
    /\ UNCHANGED <<conn, current, inbox, ran>>

(* Variant: a call enters the pending table only after its frame was sent. *)
CompleteWaiting(c) ==
    /\ conn[c].handler = "serving"
    /\ \E a \in up[c] :
         /\ up' = [up EXCEPT ![c] = @ \ {a}]
         /\ call' = IF call[a].conn = TableFor(a, c) /\ call[a].pc = "waiting"
                    THEN [call EXCEPT ![a].answered = TRUE] ELSE call
    /\ UNCHANGED <<conn, current, inbox, ran>>

(* The handler receives an answer: the first one for a pending call fills   *)
(* its channel, any other is dropped.                                       *)
Complete(c) ==
    /\ conn[c].handler = "serving"
    /\ \E a \in up[c] :
         /\ up' = [up EXCEPT ![c] = @ \ {a}]
         /\ call' = IF Pending(a, TableFor(a, c))
                    THEN [call EXCEPT ![a].answered = TRUE] ELSE call
    /\ UNCHANGED <<conn, current, inbox, ran>>

-----------------------------------------------------------------------------
StreamNext ==
    \/ \E c \in Conns :
         \/ Register(c) \/ ClosePrevious(c) \/ Break(c) \/ HandlerReturns(c)
         \/ WriterTakes(c) \/ WriterSends(c) \/ WriterSendFails(c) \/ WriterExits(c)
         \/ AgentHandles(c) \/ Complete(c)
    \/ \E q \in Calls :
         \/ BeginCall(q) \/ DeadlinePasses(q) \/ Enqueue(q) \/ FrameSent(q)
         \/ Disconnected(q) \/ TimesOut(q) \/ Answered(q)

CallStep(q) ==
    Enqueue(q) \/ FrameSent(q) \/ Disconnected(q) \/ TimesOut(q) \/ Answered(q)

StreamSpec == StreamInit /\ [][StreamNext]_streamVars

(* The goroutines of the control plane make progress and the deadline of a  *)
(* command passes.  Send may block, the agent may never answer, and a file  *)
(* operation has the deadline its caller gives it, possibly none.           *)
StreamFairness ==
    /\ \A c \in Conns :
         /\ WF_streamVars(ClosePrevious(c)) /\ WF_streamVars(HandlerReturns(c))
         /\ WF_streamVars(WriterTakes(c)) /\ WF_streamVars(WriterSendFails(c)) /\ WF_streamVars(WriterExits(c))
    /\ \A q \in Calls :
         WF_streamVars(CallStep(q))
    /\ \A q \in Commands : WF_streamVars(DeadlinePasses(q))

FairStreamSpec == StreamSpec /\ StreamFairness

-----------------------------------------------------------------------------
(* A node has one live stream, the one callers find: a stream that is        *)
(* served, not replaced and not closed is the current one, and the current   *)
(* one is served (registerStream, unregisterStream).                         *)
OneLiveStream ==
    /\ current # None => conn[current].handler = "serving"
    /\ \A c \in Conns : conn[c].handler = "serving" /\ ~conn[c].replaced /\ ~conn[c].done => current = c

(* A call reports what the agent did: success or failure come from the       *)
(* answer to this call, whatever else is sent on the stream                  *)
(* (completeConsoleCommand, completeFileOperation).                          *)
AnswerIsOwn ==
    \A q \in Calls : call[q].outcome = "answered" => q \in ran

(* An answer that arrives on the live stream of a pending call is not        *)
(* dropped, although completeFileOperation looks the stream up again.  Only  *)
(* the answers of a stream that was replaced or closed may be.               *)
LiveAnswerArrives ==
    [][\A c \in Conns : \A a \in up[c] :
         /\ a \notin up'[c] /\ conn'[c].handler = "serving"
         /\ Pending(a, c) /\ ~conn[c].replaced /\ ~conn[c].done
         => call'[a].answered]_streamVars

(* A node has one live stream and a call gets its own answer, whatever       *)
(* streams replace each other meanwhile (registerStream, complete...).       *)
StreamIsSound == OneLiveStream /\ AnswerIsOwn

(* Nobody waits for ever.  Every console command returns: no full queue,    *)
(* blocked Send, replaced stream or silent agent holds it past its deadline  *)
(* (SendConsoleCommand).  The writer of a closed stream ends, even inside a  *)
(* Send that blocks: a connection costs one goroutine and only while it      *)
(* lives (startWriter).  Commands and streams being finitely many, this says *)
(* that at last none is left waiting.                                        *)
CallsAndWritersEnd ==
    <>[](/\ \A q \in Commands : call[q].pc \in {"new", "returned"}
         /\ \A c \in Conns : conn[c].done => conn[c].writer = "exited")
=============================================================================
