--------------------------- MODULE MCConnections ----------------------------
(***************************************************************************)
(* The connections of the control plane, under the fairness their          *)
(* goroutines have: node streams with the calls sent over them, console    *)
(* streams, and agents that enrol and connect.  They share no state, so    *)
(* the kind of connection that moves is chosen at the start.               *)
(***************************************************************************)
EXTENDS NodeStream, ConsoleStream, NodeEnrollment

VARIABLE kind

ConnectionsInit ==
    /\ kind \in {"stream", "console", "enrollment"}
    /\ StreamInit /\ ConsoleInit /\ EnrollmentInit
    /\ kind # "enrollment" => \A a \in Agents : configured[a] = Static

ConnectionsNext ==
    /\ UNCHANGED kind
    /\ \/ kind = "stream" /\ StreamNext /\ UNCHANGED <<consoleVars, enrollmentVars>>
       \/ kind = "console" /\ ConsoleNext /\ UNCHANGED <<streamVars, enrollmentVars>>
       \/ kind = "enrollment" /\ EnrollmentNext /\ UNCHANGED <<streamVars, consoleVars>>

\* The fairness of each kind, as its module states it, when that kind moves.
ConnectionsGoOn ==
    /\ \A c \in Conns :
         /\ WF_streamVars(kind = "stream" /\ ClosePrevious(c))
         /\ WF_streamVars(kind = "stream" /\ HandlerReturns(c))
         /\ WF_streamVars(kind = "stream" /\ WriterTakes(c))
         /\ WF_streamVars(kind = "stream" /\ WriterSendFails(c))
         /\ WF_streamVars(kind = "stream" /\ WriterExits(c))
    /\ \A q \in Calls : WF_streamVars(kind = "stream" /\ CallStep(q))
    /\ \A q \in Commands : WF_streamVars(kind = "stream" /\ DeadlinePasses(q))
    /\ WF_consoleVars(kind = "console" /\ StreamServes)
    /\ WF_consoleVars(kind = "console" /\ Reauthorize)
    /\ \A a \in Agents :
         /\ WF_enrollmentVars(kind = "enrollment" /\ AgentSteps(a))
         /\ WF_enrollmentVars(kind = "enrollment" /\ Heartbeat(a))
         /\ WF_enrollmentVars(kind = "enrollment" /\ Ages(a))

ConnectionsSpec ==
    /\ ConnectionsInit /\ [][ConnectionsNext]_<<kind, streamVars, consoleVars, enrollmentVars>>
    /\ ConnectionsGoOn

\* Bound: two of a second session, a command, a failure, a restart and a revocation on
\* the console, and no replica more than two lines behind.
BoundedConsole ==
    /\ commands + cuts + restarts + revocations + sessions <= 3
    /\ \A r \in Replicas : Len(onStream[r]) <= 2
=============================================================================
