-------------------------- MODULE ConnectionProofs --------------------------
(***************************************************************************)
(* Proofs about the connections of the control plane: agents that enrol    *)
(* with a one-time token (NodeEnrollment), the streams of a node and the   *)
(* calls that are answered over them (NodeStream), and the console of a    *)
(* server on its way to a browser (ConsoleStream).                         *)
(***************************************************************************)
EXTENDS NodeEnrollment, NodeStream, ConsoleStream, SequenceTheorems,
        FiniteSetTheorems, TLAPS

-----------------------------------------------------------------------------
(* Enrollment.                                                              *)

(* The agent has consumed its token and has no row for it yet: the calls    *)
(* between ConsumeEnrollmentToken and the insert of RegisterNode.           *)
HoldsToken(a) == machine[a].at \in {"consumed", "counted"}

(* A token is used by the agent that holds it and by the node it enrolled.  *)
Uses(a, t) == (HoldsToken(a) /\ configured[a] = t) \/ enrolledBy[a] = t

(* A token in use is spent, and one agent uses it.                          *)
UsedOnce ==
    /\ \A a \in Agents, t \in Tokens : Uses(a, t) => token[t] = "spent"
    /\ \A a, b \in Agents, t \in Tokens : Uses(a, t) /\ Uses(b, t) => a = b

EnrollmentInv == EnrollmentTypeOK /\ UsedOnce

(* The initial state: no token is issued and nobody uses one.               *)
LEMMA EnrollmentInitInv ==
  EnrollmentInit => EnrollmentInv
<1> SUFFICES ASSUME EnrollmentInit PROVE EnrollmentInv
    OBVIOUS
<1> USE EnrollmentAssumption DEF EnrollmentInit
<1>1. EnrollmentTypeOK
  BY DEF EnrollmentTypeOK, AtStart, Places, NoFile
<1>2. UsedOnce
  BY DEF UsedOnce, Uses, HoldsToken, AtStart
<1> QED BY <1>1, <1>2 DEF EnrollmentInv

(* A step that leaves tokens, configurations and rows alone, and moves an   *)
(* agent at most away from the calls that hold a token or within them,      *)
(* keeps every token used once.                                             *)
LEMMA StillUsedOnce ==
  ASSUME UsedOnce, UNCHANGED <<configured, token, enrolledBy>>,
         \A a \in Agents : HoldsToken(a)' => HoldsToken(a)
  PROVE  UsedOnce'
<1>1. \A a \in Agents, t \in Tokens : Uses(a, t)' => Uses(a, t)
  BY DEF Uses
<1> QED BY <1>1 DEF UsedOnce

(* Where a process is and with which key pair.                              *)
Machines == [at : Places, key : 0..MaxKeys, cert : 0..MaxKeys]

(* A process that moves stays a process, and no other moves.                *)
LEMMA MachineMoves ==
  ASSUME EnrollmentTypeOK, NEW a \in Agents, NEW m \in Machines,
         machine' = [machine EXCEPT ![a] = m]
  PROVE  /\ machine' \in [Agents -> Machines]
         /\ machine'[a] = m
         /\ \A b \in Agents : b # a => machine'[b] = machine[b]
BY DEF EnrollmentTypeOK, Machines

(* The same for Moves, which keeps the key pair.                            *)
LEMMA MovesTo ==
  ASSUME EnrollmentTypeOK, NEW a \in Agents, NEW p \in Places, Moves(a, p)
  PROVE  /\ machine' \in [Agents -> Machines]
         /\ machine'[a].at = p
         /\ \A b \in Agents : b # a => machine'[b] = machine[b]
<1> DEFINE m == [machine[a] EXCEPT !.at = p]
<1>1. m \in Machines /\ m.at = p
  BY DEF EnrollmentTypeOK, Machines
<1>2. machine' = [machine EXCEPT ![a] = m]
  BY DEF Moves
<1> HIDE DEF m
<1> QED BY <1>1, <1>2, MachineMoves

(* A process that starts over holds no key pair.                            *)
LEMMA StartsOver ==
  ASSUME EnrollmentTypeOK, NEW a \in Agents, machine' = [machine EXCEPT ![a] = AtStart]
  PROVE  /\ machine' \in [Agents -> Machines]
         /\ machine'[a].at = "start"
         /\ \A b \in Agents : b # a => machine'[b] = machine[b]
<1>1. AtStart \in Machines /\ AtStart.at = "start"
  BY EnrollmentAssumption DEF Machines, AtStart, Places
<1> QED BY <1>1, MachineMoves

(* The control plane certifies the key of the request.                      *)
LEMMA Certified ==
  ASSUME EnrollmentTypeOK, NEW a \in Agents, NEW p \in Places,
         IssueAgentCertificateFromCSR(a, p)
  PROVE  /\ machine' \in [Agents -> Machines]
         /\ machine'[a].at = p
         /\ \A b \in Agents : b # a => machine'[b] = machine[b]
         /\ keys' \in [Agents -> 0..MaxKeys]
<1> DEFINE m == [machine[a] EXCEPT !.cert = machine[a].key, !.at = p]
<1>1. m \in Machines /\ m.at = p
  BY DEF EnrollmentTypeOK, Machines
<1>2. machine' = [machine EXCEPT ![a] = m]
  BY DEF IssueAgentCertificateFromCSR, EnrollmentTypeOK
<1>3. keys' \in [Agents -> 0..MaxKeys]
  BY DEF IssueAgentCertificateFromCSR, EnrollmentTypeOK
<1> HIDE DEF m
<1> QED BY <1>1, <1>2, <1>3, MachineMoves

(* A step of one agent that moves its process out of the calls that hold a  *)
(* token, or inside them, keeps every token used once.                      *)
LEMMA MovedUsedOnce ==
  ASSUME UsedOnce, NEW a \in Agents, UNCHANGED <<configured, token, enrolledBy>>,
         machine'[a].at \in {"consumed", "counted"} => HoldsToken(a),
         \A b \in Agents : b # a => machine'[b] = machine[b]
  PROVE  UsedOnce'
BY StillUsedOnce DEF HoldsToken

(* The places that the steps name.                                          *)
LEMMA PlacesOfSteps ==
  {"start", "enrolling", "consumed", "counted", "writeCert", "writeKey", "writeId",
   "connect", "connected", "signing", "rotateCert", "rotateKey"} = Places
BY DEF Places

(* Every step of a token keeps the invariant: it is issued and expires      *)
(* before anybody uses it.                                                  *)
LEMMA TokenStepInv ==
  ASSUME EnrollmentInv, NEW t \in Tokens, IssueEnrollmentToken(t) \/ TokenExpires(t)
  PROVE  EnrollmentInv'
<1> USE DEF EnrollmentInv, IssueEnrollmentToken, TokenExpires
<1>1. EnrollmentTypeOK'
  BY DEF EnrollmentTypeOK
<1>2. UsedOnce'
  <2>1. \A a \in Agents : ~Uses(a, t)
    BY DEF UsedOnce
  <2>2. \A s \in Tokens : s # t => token'[s] = token[s]
    BY DEF EnrollmentTypeOK
  <2>3. UNCHANGED <<machine, configured, enrolledBy>>
    OBVIOUS
  <2>4. \A a \in Agents, s \in Tokens : Uses(a, s)' <=> Uses(a, s)
    BY <2>3 DEF Uses, HoldsToken
  <2> HIDE DEF EnrollmentInv, IssueEnrollmentToken, TokenExpires
  <2>5. UsedOnce
    BY DEF EnrollmentInv
  <2> QED BY <2>1, <2>2, <2>4, <2>5 DEF UsedOnce
<1> QED BY <1>1, <1>2

(* The steps of an agent before it is registered: ensureCredentials, the    *)
(* two checks of Enroll and the insert of RegisterNode.                     *)
LEMMA EnrollStepInv ==
  ASSUME EnrollmentInv, NEW a \in Agents,
         \/ ensureCredentials(a) \/ consumeEnrollmentToken(a)
         \/ registerNodeQuota(a) \/ RegisterNode(a)
  PROVE  EnrollmentInv'
<1> USE DEF EnrollmentInv
<1>1. CASE ensureCredentials(a)
  <2> USE <1>1
  <2>1. PICK m \in Machines : /\ machine' = [machine EXCEPT ![a] = m]
                              /\ m.at \in {"connect", "enrolling"}
    BY EnrollmentAssumption, PlacesOfSteps DEF ensureCredentials, EnrollmentTypeOK, Machines
  <2>2. /\ machine' \in [Agents -> Machines]
        /\ machine'[a] = m
        /\ \A b \in Agents : b # a => machine'[b] = machine[b]
    BY <2>1, MachineMoves
  <2>3. EnrollmentTypeOK'
    BY <2>2 DEF EnrollmentTypeOK, Machines, ensureCredentials
  <2>4. UsedOnce'
    BY <2>1, <2>2, MovedUsedOnce DEF ensureCredentials
  <2> QED BY <2>3, <2>4
<1>2. CASE consumeEnrollmentToken(a)
  <2> USE <1>2
  <2>1. CASE configured[a] \in Tokens /\ ConsumeEnrollmentToken(configured[a])
             /\ token' = [token EXCEPT ![configured[a]] = "spent"]
             /\ Moves(a, "consumed")
    <3> DEFINE t == configured[a]
    <3>1. \A b \in Agents : ~Uses(b, t)
      BY <2>1 DEF UsedOnce, ConsumeEnrollmentToken
    <3>2. /\ machine' \in [Agents -> Machines]
          /\ \A b \in Agents : b # a => machine'[b] = machine[b]
      BY <2>1, MovesTo, PlacesOfSteps
    <3>3. UNCHANGED <<configured, node, enrolledBy, files, keys, age, asked, stops>>
      BY DEF consumeEnrollmentToken
    <3>4. \A b \in Agents, u \in Tokens :
            Uses(b, u)' => Uses(b, u) \/ (b = a /\ u = t)
      BY <3>2, <3>3 DEF Uses, HoldsToken
    <3>5. /\ token' = [token EXCEPT ![t] = "spent"]
          /\ token \in [Tokens -> {"none", "live", "expired", "spent"}]
      BY <2>1 DEF EnrollmentTypeOK
    <3>6. EnrollmentTypeOK'
      BY <3>2, <3>3, <3>5 DEF EnrollmentTypeOK, Machines
    <3> HIDE DEF t
    <3>7. \A b \in Agents, u \in Tokens : Uses(b, u)' => token'[u] = "spent"
      BY <3>4, <3>5 DEF UsedOnce
    <3>8. \A b, c \in Agents, u \in Tokens : Uses(b, u)' /\ Uses(c, u)' => b = c
      BY <3>1, <3>4 DEF UsedOnce
    <3> QED BY <3>6, <3>7, <3>8 DEF UsedOnce
  <2>2. CASE configured[a] \in Tokens /\ Refused(a) /\ UNCHANGED token
    <3>1. /\ machine' \in [Agents -> Machines]
          /\ machine'[a].at = "start"
          /\ \A b \in Agents : b # a => machine'[b] = machine[b]
      BY <2>2, StartsOver DEF Refused
    <3>2. EnrollmentTypeOK'
      BY <2>2, <3>1 DEF EnrollmentTypeOK, Machines, consumeEnrollmentToken
    <3>3. UsedOnce'
      BY <2>2, <3>1, MovedUsedOnce DEF consumeEnrollmentToken
    <3> QED BY <3>2, <3>3
  <2>3. CASE configured[a] = Static /\ Moves(a, "consumed") /\ UNCHANGED token
    <3>1. /\ machine' \in [Agents -> Machines]
          /\ \A b \in Agents : b # a => machine'[b] = machine[b]
      BY <2>3, MovesTo, PlacesOfSteps
    <3>2. EnrollmentTypeOK'
      BY <2>3, <3>1 DEF EnrollmentTypeOK, Machines, consumeEnrollmentToken
    <3>3. \A b \in Agents, u \in Tokens : Uses(b, u)' => Uses(b, u)
      BY <2>3, <3>1, EnrollmentAssumption DEF Uses, HoldsToken, consumeEnrollmentToken
    <3>4. UsedOnce'
      BY <2>3, <3>3 DEF UsedOnce
    <3> QED BY <3>2, <3>4
  <2> QED BY <2>1, <2>2, <2>3 DEF consumeEnrollmentToken
<1>3. CASE registerNodeQuota(a)
  <2> USE <1>3
  <2>1. /\ machine' \in [Agents -> Machines]
        /\ machine'[a].at \in {"counted", "start"}
        /\ \A b \in Agents : b # a => machine'[b] = machine[b]
    BY StartsOver, MovesTo, PlacesOfSteps DEF registerNodeQuota, Refused
  <2>2. EnrollmentTypeOK'
    BY <2>1 DEF EnrollmentTypeOK, Machines, registerNodeQuota
  <2>3. UsedOnce'
    BY <2>1, MovedUsedOnce DEF registerNodeQuota, HoldsToken
  <2> QED BY <2>2, <2>3
<1>4. CASE RegisterNode(a)
  <2> USE <1>4
  <2>1. CASE /\ node' = [node EXCEPT ![a] = "active"]
             /\ enrolledBy' = [enrolledBy EXCEPT ![a] = configured[a]]
             /\ IssueAgentCertificateFromCSR(a, "writeCert")
    <3>1. /\ machine' \in [Agents -> Machines]
          /\ machine'[a].at = "writeCert"
          /\ \A b \in Agents : b # a => machine'[b] = machine[b]
          /\ keys' \in [Agents -> 0..MaxKeys]
      BY <2>1, Certified, PlacesOfSteps
    <3>2. EnrollmentTypeOK'
      BY <2>1, <3>1 DEF EnrollmentTypeOK, Machines, RegisterNode
    <3>3. HoldsToken(a) /\ UNCHANGED <<configured, token>>
      BY DEF RegisterNode, HoldsToken
    <3>4. \A b \in Agents, u \in Tokens : Uses(b, u)' => Uses(b, u)
      BY <2>1, <3>1, <3>3 DEF Uses, HoldsToken, EnrollmentTypeOK
    <3> QED BY <3>2, <3>3, <3>4 DEF UsedOnce
  <2>2. CASE Refused(a) /\ UNCHANGED <<node, enrolledBy, keys>>
    <3>1. /\ machine' \in [Agents -> Machines]
          /\ machine'[a].at = "start"
          /\ \A b \in Agents : b # a => machine'[b] = machine[b]
      BY <2>2, StartsOver DEF Refused
    <3>2. EnrollmentTypeOK'
      BY <2>2, <3>1 DEF EnrollmentTypeOK, Machines, RegisterNode
    <3>3. UsedOnce'
      BY <2>2, <3>1, MovedUsedOnce DEF RegisterNode
    <3> QED BY <3>2, <3>3
  <2> QED BY <2>1, <2>2 DEF RegisterNode
<1> QED BY <1>1, <1>2, <1>3, <1>4

(* The other steps of an agent and of its environment: files, Connect,      *)
(* rotation, heartbeats, revocation, stops and the age of certificates.     *)
LEMMA ConnectedStepInv ==
  ASSUME EnrollmentInv, NEW a \in Agents,
         \/ writeEnrolledCert(a) \/ writeEnrolledKey(a) \/ writeNodeID(a)
         \/ Connect(a) \/ rotateCertificate(a) \/ handleCertificateRotation(a)
         \/ writeRotatedCert(a) \/ writeRotatedKey(a) \/ Heartbeat(a)
         \/ RevokeNode(a) \/ ProcessStops(a) \/ Ages(a)
  PROVE  EnrollmentInv'
<1> USE DEF EnrollmentInv
<1> DEFINE File == [cert : 0..MaxKeys, key : 0..MaxKeys, id : BOOLEAN]
           Moved(P) == /\ machine' \in [Agents -> Machines]
                       /\ machine'[a].at \in P
                       /\ \A b \in Agents : b # a => machine'[b] = machine[b]
<1>1. CASE \/ writeEnrolledCert(a) \/ writeEnrolledKey(a) \/ writeNodeID(a)
           \/ writeRotatedCert(a) \/ writeRotatedKey(a)
  <2> USE <1>1 DEF writeEnrolledCert, writeEnrolledKey, writeNodeID, writeRotatedCert, writeRotatedKey
  <2>1. Moved({"writeKey", "writeId", "connect", "rotateKey", "connected"})
    BY MovesTo, PlacesOfSteps
  <2>2. PICK f \in File : files' = [files EXCEPT ![a] = f]
    <3>1. machine[a] \in Machines /\ files[a] \in File
      BY DEF EnrollmentTypeOK, Machines
    <3> DEFINE fc == [files[a] EXCEPT !.cert = machine[a].cert]
               fk == [files[a] EXCEPT !.key = machine[a].key]
               fi == [files[a] EXCEPT !.id = TRUE]
    <3>2. fc \in File /\ fk \in File /\ fi \in File
      BY <3>1 DEF Machines
    <3>3. \/ files' = [files EXCEPT ![a] = fc]
          \/ files' = [files EXCEPT ![a] = fk]
          \/ files' = [files EXCEPT ![a] = fi]
      OBVIOUS
    <3> HIDE DEF fc, fk, fi, File
    <3> QED BY <3>2, <3>3
  <2>3. files' \in [Agents -> File]
    BY <2>2 DEF EnrollmentTypeOK
  <2>4. EnrollmentTypeOK'
    BY <2>1, <2>3 DEF EnrollmentTypeOK, Machines
  <2>5. UsedOnce'
    BY <2>1, MovedUsedOnce
  <2> QED BY <2>4, <2>5
<1>2. CASE Connect(a) \/ Heartbeat(a) \/ ProcessStops(a)
  <2> USE <1>2 DEF Connect, Heartbeat, ProcessStops, Restarts
  <2>1. Moved({"start", "connected"})
    BY StartsOver, MovesTo, PlacesOfSteps
  <2>2. asked' \in [Agents -> BOOLEAN]
    BY DEF EnrollmentTypeOK
  <2>3. stops' \in 0..MaxStops
    BY EnrollmentAssumption DEF EnrollmentTypeOK
  <2>4. UNCHANGED <<configured, token, node, enrolledBy, files, keys, age>>
    OBVIOUS
  <2>5. EnrollmentTypeOK'
    BY <2>1, <2>2, <2>3, <2>4 DEF EnrollmentTypeOK, Machines
  <2>6. UsedOnce'
    BY <2>1, <2>4, MovedUsedOnce
  <2> QED BY <2>5, <2>6
<1>3. CASE rotateCertificate(a)
  <2> USE <1>3 DEF rotateCertificate
  <2> DEFINE m == [machine[a] EXCEPT !.at = "signing", !.key = keys[a] + 1]
  <2>1. m \in Machines /\ m.at = "signing"
    <3>1. machine[a] \in Machines /\ keys[a] + 1 \in 0..MaxKeys
      BY EnrollmentAssumption DEF EnrollmentTypeOK, Machines
    <3>2. "signing" \in Places
      BY PlacesOfSteps
    <3> QED BY <3>1, <3>2 DEF Machines
  <2>2. machine' = [machine EXCEPT ![a] = m]
    BY DEF EnrollmentTypeOK
  <2> HIDE DEF m
  <2>3. Moved({"signing"})
    BY <2>1, <2>2, MachineMoves
  <2>4. EnrollmentTypeOK'
    BY <2>3 DEF EnrollmentTypeOK, Machines
  <2>5. UsedOnce'
    BY <2>3, MovedUsedOnce
  <2> QED BY <2>4, <2>5
<1>4. CASE handleCertificateRotation(a)
  <2> USE <1>4 DEF handleCertificateRotation
  <2>1. Moved({"rotateCert"}) /\ keys' \in [Agents -> 0..MaxKeys]
    BY Certified, PlacesOfSteps
  <2>2. EnrollmentTypeOK'
    BY <2>1 DEF EnrollmentTypeOK, Machines
  <2>3. UsedOnce'
    BY <2>1, MovedUsedOnce
  <2> QED BY <2>2, <2>3
<1>5. CASE RevokeNode(a)
  <2> USE <1>5 DEF RevokeNode
  <2>1. EnrollmentTypeOK'
    BY DEF EnrollmentTypeOK
  <2>2. UsedOnce'
    BY StillUsedOnce DEF HoldsToken
  <2> QED BY <2>1, <2>2
<1>6. CASE Ages(a)
  <2> USE <1>6 DEF Ages
  <2> DEFINE k == IF machine[a].cert # NoFile THEN machine[a].cert ELSE files[a].cert
             Age == {"fresh", "ageing", "expired"}
             row == [age[a] EXCEPT ![k] = IF @ = "fresh" THEN "ageing" ELSE "expired"]
  <2>1. age[a] \in [1..MaxKeys -> Age] /\ age \in [Agents -> [1..MaxKeys -> Age]]
    BY DEF EnrollmentTypeOK
  <2>2. row \in [1..MaxKeys -> Age] /\ age' = [age EXCEPT ![a] = row]
    <3>1. age' = [age EXCEPT ![a] = row]
      OBVIOUS
    <3> HIDE DEF k
    <3>2. row \in [1..MaxKeys -> Age]
      BY <2>1
    <3> QED BY <3>1, <3>2
  <2> HIDE DEF row, Age
  <2>b. age' \in [Agents -> [1..MaxKeys -> Age]]
    BY <2>1, <2>2
  <2>3. EnrollmentTypeOK'
    BY <2>b DEF EnrollmentTypeOK, Age
  <2>4. UsedOnce'
    BY StillUsedOnce DEF HoldsToken
  <2> QED BY <2>3, <2>4
<1> QED BY <1>1, <1>2, <1>3, <1>4, <1>5, <1>6

(* Enrollment keeps its invariant: however many agents present one token    *)
(* at once and whatever call is cut off and repeated, a consumed token is   *)
(* spent and belongs to one agent, until and after its node is registered.  *)
THEOREM EnrollmentInvariant ==
  EnrollmentSpec => []EnrollmentInv
<1>1. EnrollmentInv /\ [EnrollmentNext]_enrollmentVars => EnrollmentInv'
  <2> SUFFICES ASSUME EnrollmentInv, [EnrollmentNext]_enrollmentVars PROVE EnrollmentInv'
      OBVIOUS
  <2>1. CASE EnrollmentNext
    BY <2>1, TokenStepInv, EnrollStepInv, ConnectedStepInv
       DEF EnrollmentNext, AgentSteps
  <2>2. CASE UNCHANGED enrollmentVars
    BY <2>2 DEF enrollmentVars, EnrollmentInv, EnrollmentTypeOK, UsedOnce, Uses, HoldsToken
  <2> QED BY <2>1, <2>2
<1> QED BY <1>1, EnrollmentInitInv, PTL DEF EnrollmentSpec

(* The state of tokens, rows, files and processes keeps its type.           *)
THEOREM EnrollmentTypeCorrect ==
  EnrollmentSpec => []EnrollmentTypeOK
<1>1. EnrollmentInv => EnrollmentTypeOK
  BY DEF EnrollmentInv
<1> QED BY <1>1, EnrollmentInvariant, PTL

(* A one-time token registers at most one node (ConsumeEnrollmentToken and  *)
(* RegisterNode), for any number of agents, tokens and stops.               *)
THEOREM TokensEnrollOnce ==
  EnrollmentSpec => []TokenEnrollsOneNode
<1>1. EnrollmentInv => TokenEnrollsOneNode
  BY DEF EnrollmentInv, UsedOnce, Uses, TokenEnrollsOneNode
<1> QED BY <1>1, EnrollmentInvariant, PTL

-----------------------------------------------------------------------------
(* The streams of a node.                                                   *)

ConnRows == [handler : {"absent", "serving", "returned"}, broken : BOOLEAN,
             replaced : BOOLEAN, done : BOOLEAN, queue : Seq(Calls),
             writer : {"idle", "sending", "exited"}, frame : Calls \cup {None}]
CallRows == [pc : {"new", "queueing", "sending", "waiting", "returned"},
             conn : Conns \cup {None}, late : BOOLEAN,
             sent : {"none", "ok", "error"}, answered : BOOLEAN,
             outcome : {"none", "offline", "timeout", "answered"}]

StreamTypeOK ==
    /\ conn \in [Conns -> ConnRows]
    /\ current \in Conns \cup {None}
    /\ call \in [Calls -> CallRows]
    /\ inbox \in [Conns -> Seq(Calls)]
    /\ up \in [Conns -> SUBSET Calls]
    /\ ran \subseteq Calls

(* A call that has not returned is in the table of a stream, and a writer   *)
(* inside Send has a frame.                                                 *)
CallsHaveStreams ==
    /\ \A q \in Calls : call[q].pc \in {"queueing", "sending", "waiting"} => call[q].conn \in Conns
    /\ \A c \in Conns : conn[c].writer = "sending" => conn[c].frame \in Calls

(* An answer on its way, and one that was delivered, is of a call that ran. *)
AnswersRan ==
    /\ \A c \in Conns : up[c] \subseteq ran
    /\ \A q \in Calls : call[q].answered => q \in ran

StreamInv ==
    /\ StreamTypeOK /\ CallsHaveStreams
    /\ OneLiveStream /\ AnswersRan /\ AnswerIsOwn

(* A table of calls that agrees with what the agent has run so far.         *)
CallsSound(table) ==
    /\ table \in [Calls -> CallRows]
    /\ \A p \in Calls : table[p].pc \in {"queueing", "sending", "waiting"} => table[p].conn \in Conns
    /\ \A p \in Calls : table[p].answered => p \in ran
    /\ \A p \in Calls : table[p].outcome = "answered" => p \in ran

(* No stream, no call.                                                      *)
LEMMA StreamInitInv ==
  StreamInit => StreamInv
<1> SUFFICES ASSUME StreamInit PROVE StreamInv
    OBVIOUS
<1> USE NodeStreamAssumption DEF StreamInit, NoConn, NoCall
<1>1. <<>> \in Seq(Calls)
  OBVIOUS
<1>2. StreamTypeOK
  BY <1>1 DEF StreamTypeOK, ConnRows, CallRows
<1>3. CallsHaveStreams /\ OneLiveStream /\ AnswersRan /\ AnswerIsOwn
  BY DEF CallsHaveStreams, OneLiveStream, AnswersRan, AnswerIsOwn
<1> QED BY <1>2, <1>3 DEF StreamInv

(* What the steps of a stream do to the streams: one row changes, its       *)
(* handler stays and what closed or replaced it stays.                      *)
LEMMA ConnChanges ==
  ASSUME StreamInv, NEW c \in Conns, NEW row \in ConnRows,
         conn' = [conn EXCEPT ![c] = row],
         row.handler = conn[c].handler,
         conn[c].replaced => row.replaced,
         conn[c].done => row.done,
         row.writer = "sending" => row.frame \in Calls,
         UNCHANGED current
  PROVE  /\ conn' \in [Conns -> ConnRows]
         /\ OneLiveStream'
         /\ \A d \in Conns : conn'[d].writer = "sending" => conn'[d].frame \in Calls
<1>1. /\ conn' \in [Conns -> ConnRows]
      /\ conn'[c] = row /\ \A d \in Conns : d # c => conn'[d] = conn[d]
  BY DEF StreamInv, StreamTypeOK
<1>2. OneLiveStream'
  BY <1>1 DEF StreamInv, StreamTypeOK, OneLiveStream
<1>3. \A d \in Conns : conn'[d].writer = "sending" => conn'[d].frame \in Calls
  BY <1>1 DEF StreamInv, CallsHaveStreams
<1> QED BY <1>1, <1>2, <1>3

(* What the steps of a call do to the calls: one row changes; it is in a    *)
(* table while it has not returned, and no answer comes from nowhere.       *)
LEMMA CallChanges ==
  ASSUME StreamInv, NEW q \in Calls, NEW row \in CallRows,
         call' = [call EXCEPT ![q] = row],
         row.pc \in {"queueing", "sending", "waiting"} => row.conn \in Conns,
         row.answered => q \in ran,
         row.outcome = "answered" => q \in ran
  PROVE  CallsSound(call')
<1>1. /\ call' \in [Calls -> CallRows]
      /\ call'[q] = row /\ \A p \in Calls : p # q => call'[p] = call[p]
  BY DEF StreamInv, StreamTypeOK
<1> QED BY <1>1 DEF StreamInv, CallsHaveStreams, AnswersRan, AnswerIsOwn, CallsSound

(* The same for complete: only what Send returned is noted.                 *)
LEMMA TransmittedKeeps ==
  ASSUME StreamInv, NEW q \in Calls, NEW result \in {"ok", "error"},
         call' = Transmitted(q, result)
  PROVE  CallsSound(call')
<1>1. CASE call[q].pc = "returned"
  BY <1>1 DEF Transmitted, StreamInv, StreamTypeOK, CallsHaveStreams, AnswersRan, AnswerIsOwn, CallsSound
<1>2. CASE call[q].pc # "returned"
  <2> DEFINE row == [call[q] EXCEPT !.sent = result]
  <2>1. call' = [call EXCEPT ![q] = row]
    BY <1>2 DEF Transmitted
  <2>2. call[q] \in CallRows
    BY DEF StreamInv, StreamTypeOK
  <2>3. /\ row \in CallRows /\ row.pc = call[q].pc /\ row.conn = call[q].conn
        /\ row.answered = call[q].answered /\ row.outcome = call[q].outcome
    BY <2>2 DEF CallRows
  <2>4. /\ row.pc \in {"queueing", "sending", "waiting"} => row.conn \in Conns
        /\ row.answered => q \in ran
        /\ row.outcome = "answered" => q \in ran
    BY <2>3 DEF StreamInv, CallsHaveStreams, AnswersRan, AnswerIsOwn
  <2> HIDE DEF row
  <2> QED BY <2>1, <2>3, <2>4, CallChanges
<1> QED BY <1>1, <1>2

(* The same for a call that returns: its channel is gone and its outcome    *)
(* is what it reports.                                                      *)
LEMMA ReturnedKeeps ==
  ASSUME StreamInv, NEW q \in Calls, NEW outcome \in {"offline", "timeout", "answered"},
         outcome = "answered" => q \in ran,
         call' = Returned(q, outcome)
  PROVE  CallsSound(call')
<1> DEFINE row == [NoCall EXCEPT !.pc = "returned", !.late = q \in FileOps /\ call[q].late, !.outcome = outcome]
<1>1. call' = [call EXCEPT ![q] = row]
  BY DEF Returned
<1>2. call[q].late \in BOOLEAN
  BY DEF StreamInv, StreamTypeOK, CallRows
<1>3. /\ row \in CallRows /\ row.pc = "returned" /\ ~row.answered /\ row.outcome = outcome
  BY <1>2 DEF NoCall, CallRows
<1> HIDE DEF row
<1> QED BY <1>1, <1>3, CallChanges

(* Calls as they are agree with what has run.                               *)
LEMMA CallsAreSound ==
  ASSUME StreamInv
  PROVE  CallsSound(call)
BY DEF StreamInv, StreamTypeOK, CallsHaveStreams, AnswersRan, AnswerIsOwn, CallsSound

(* The parts of the invariant put together again after a step.              *)
LEMMA StreamInvAgain ==
  ASSUME StreamInv, CallsSound(call'), OneLiveStream',
         conn' \in [Conns -> ConnRows],
         \A c \in Conns : conn'[c].writer = "sending" => conn'[c].frame \in Calls,
         current' \in Conns \cup {None},
         inbox' \in [Conns -> Seq(Calls)],
         up' \in [Conns -> SUBSET Calls],
         ran \subseteq ran', ran' \subseteq Calls,
         \A c \in Conns : up'[c] \subseteq ran'
  PROVE  StreamInv'
BY DEF StreamInv, StreamTypeOK, CallsHaveStreams, AnswersRan, AnswerIsOwn, CallsSound

(* The steps that register, replace, break and end a stream.                *)
LEMMA RegistryStepInv ==
  ASSUME StreamInv, NEW c \in Conns,
         Register(c) \/ ClosePrevious(c) \/ Break(c) \/ HandlerReturns(c)
  PROVE  StreamInv'
<1> USE NodeStreamAssumption
<1>1. conn \in [Conns -> ConnRows] /\ conn[c] \in ConnRows
  BY DEF StreamInv, StreamTypeOK
<1>2. UNCHANGED <<call, ran, inbox>> /\ CallsSound(call)
  BY CallsAreSound DEF Register, ClosePrevious, Break, HandlerReturns
<1>3. /\ \A d \in Conns : conn[d].writer = "sending" => conn[d].frame \in Calls
      /\ current \in Conns \cup {None} /\ OneLiveStream
      /\ inbox \in [Conns -> Seq(Calls)] /\ up \in [Conns -> SUBSET Calls]
      /\ ran \subseteq Calls /\ \A d \in Conns : up[d] \subseteq ran
  BY DEF StreamInv, StreamTypeOK, CallsHaveStreams, AnswersRan
<1>4. CASE Register(c)
  <2> USE <1>4 DEF Register
  <2>1. current' = c /\ up' = up /\ conn' = [d \in Conns |-> conn'[d]]
    OBVIOUS
  <2>2. ASSUME NEW d \in Conns
        PROVE  /\ conn'[d] \in ConnRows
               /\ conn'[d].writer = conn[d].writer /\ conn'[d].frame = conn[d].frame
               /\ d = c => conn'[d].handler = "serving"
               /\ d # c => /\ conn'[d].handler = conn[d].handler
                           /\ conn'[d].done = conn[d].done
                           /\ conn[d].replaced => conn'[d].replaced
                           /\ d = current => conn'[d].replaced
    <3>1. conn[d] \in ConnRows
      BY <1>1
    <3>2. CASE d = c
      <4>1. c # current
        BY <1>3 DEF OneLiveStream
      <4>2. conn'[d] = [conn[d] EXCEPT !.handler = "serving"]
        BY <3>2, <4>1
      <4> QED BY <3>1, <3>2, <4>2 DEF ConnRows
    <3>3. CASE d # c /\ d = current
      <4>1. conn'[d] = [conn[d] EXCEPT !.replaced = TRUE]
        BY <3>3
      <4> QED BY <3>1, <3>3, <4>1 DEF ConnRows
    <3>4. CASE d # c /\ d # current
      <4>1. conn'[d] = conn[d]
        BY <3>4
      <4> QED BY <3>1, <3>4, <4>1
    <3> QED BY <3>2, <3>3, <3>4
  <2>3. conn' \in [Conns -> ConnRows]
    BY <2>1, <2>2
  <2>4. OneLiveStream'
    BY <1>3, <2>1, <2>2 DEF OneLiveStream
  <2>5. \A d \in Conns : conn'[d].writer = "sending" => conn'[d].frame \in Calls
    BY <1>3, <2>2
  <2> QED BY <1>2, <1>3, <2>1, <2>3, <2>4, <2>5, StreamInvAgain
<1>5. CASE ClosePrevious(c) \/ Break(c)
  <2> USE <1>5 DEF ClosePrevious, Break, Closed
  <2> DEFINE closed == [conn[c] EXCEPT !.done = TRUE]
             broken == [conn[c] EXCEPT !.broken = TRUE]
  <2>1. \A row \in {closed, broken} :
          /\ row \in ConnRows /\ row.handler = conn[c].handler
          /\ conn[c].replaced => row.replaced
          /\ conn[c].done => row.done
          /\ row.writer = "sending" => row.frame \in Calls
    BY <1>1, <1>3 DEF ConnRows
  <2>2. \E row \in {closed, broken} : conn' = [conn EXCEPT ![c] = row]
    OBVIOUS
  <2>3. UNCHANGED <<current, up>>
    OBVIOUS
  <2> HIDE DEF closed, broken
  <2>4. /\ conn' \in [Conns -> ConnRows] /\ OneLiveStream'
        /\ \A d \in Conns : conn'[d].writer = "sending" => conn'[d].frame \in Calls
    BY <2>1, <2>2, <2>3, ConnChanges
  <2> QED BY <1>2, <1>3, <2>3, <2>4, StreamInvAgain
<1>6. CASE HandlerReturns(c)
  <2> USE <1>6 DEF HandlerReturns
  <2> DEFINE row == [conn[c] EXCEPT !.handler = "returned", !.done = TRUE]
  <2>1. conn' = [conn EXCEPT ![c] = row]
    OBVIOUS
  <2>2. /\ row \in ConnRows /\ row.done
        /\ row.writer = conn[c].writer /\ row.frame = conn[c].frame
    BY <1>1 DEF ConnRows
  <2> HIDE DEF row
  <2>3. /\ conn' \in [Conns -> ConnRows] /\ conn'[c] = row
        /\ \A d \in Conns : d # c => conn'[d] = conn[d]
    BY <1>1, <2>1, <2>2
  <2>4. OneLiveStream'
    BY <1>3, <2>2, <2>3 DEF OneLiveStream
  <2>5. \A d \in Conns : conn'[d].writer = "sending" => conn'[d].frame \in Calls
    BY <1>3, <2>2, <2>3
  <2>6. current' \in Conns \cup {None}
    BY <1>3
  <2>7. up' \in [Conns -> SUBSET Calls] /\ \A d \in Conns : up'[d] \subseteq ran
    BY <1>3
  <2> QED BY <1>2, <1>3, <2>3, <2>4, <2>5, <2>6, <2>7, StreamInvAgain
<1> QED BY <1>4, <1>5, <1>6

(* The steps of the writer of a stream.                                     *)
LEMMA WriterStepInv ==
  ASSUME StreamInv, NEW c \in Conns,
         WriterTakes(c) \/ WriterSends(c) \/ WriterSendFails(c) \/ WriterExits(c)
  PROVE  StreamInv'
<1> USE NodeStreamAssumption
<1>1. /\ conn \in [Conns -> ConnRows] /\ conn[c] \in ConnRows
      /\ conn[c].queue \in Seq(Calls)
  BY DEF StreamInv, StreamTypeOK, ConnRows
<1>2. /\ \A d \in Conns : conn[d].writer = "sending" => conn[d].frame \in Calls
      /\ current \in Conns \cup {None} /\ OneLiveStream /\ CallsSound(call)
      /\ inbox \in [Conns -> Seq(Calls)] /\ up \in [Conns -> SUBSET Calls]
      /\ ran \subseteq Calls /\ \A d \in Conns : up[d] \subseteq ran
  BY CallsAreSound DEF StreamInv, StreamTypeOK, CallsHaveStreams, AnswersRan
<1>3. UNCHANGED <<current, up, ran>>
  BY DEF WriterTakes, WriterSends, WriterSendFails, WriterExits
<1>4. <<>> \in Seq(Calls)
  OBVIOUS
<1> DEFINE Kept(row) == /\ row \in ConnRows /\ row.handler = conn[c].handler
                        /\ conn[c].replaced => row.replaced
                        /\ conn[c].done => row.done
                        /\ row.writer = "sending" => row.frame \in Calls
<1>5. ASSUME NEW row, Kept(row), conn' = [conn EXCEPT ![c] = row],
             CallsSound(call'), inbox' \in [Conns -> Seq(Calls)]
      PROVE  StreamInv'
  <2>1. /\ conn' \in [Conns -> ConnRows] /\ OneLiveStream'
        /\ \A d \in Conns : conn'[d].writer = "sending" => conn'[d].frame \in Calls
    BY <1>3, <1>5, ConnChanges
  <2> QED BY <1>2, <1>3, <1>5, <2>1, StreamInvAgain
<1>6. CASE WriterTakes(c)
  <2> USE <1>6 DEF WriterTakes
  <2> DEFINE q == Head(conn[c].queue)
             rest == [conn[c] EXCEPT !.queue = Tail(@)]
             gone == [rest EXCEPT !.writer = "exited", !.queue = <<>>]
             taken == [rest EXCEPT !.writer = "sending", !.frame = q]
  <2>1. q \in Calls /\ Tail(conn[c].queue) \in Seq(Calls)
    BY <1>1, HeadTailProperties
  <2>2. Kept(rest) /\ Kept(gone) /\ Kept(taken)
    BY <1>1, <1>2, <1>4, <2>1 DEF ConnRows
  <2>3. inbox' = inbox
    OBVIOUS
  <2>4. \/ call' = Transmitted(q, "error") /\ conn' = [conn EXCEPT ![c] = rest]
        \/ call' = Transmitted(q, "error") /\ conn' = [conn EXCEPT ![c] = gone]
        \/ call' = call /\ conn' = [conn EXCEPT ![c] = taken]
    OBVIOUS
  <2>5. CallsSound(call')
    <3> HIDE DEF q, rest, gone, taken
    <3> QED BY <1>2, <2>1, <2>4, TransmittedKeeps
  <2> HIDE DEF q, rest, gone, taken, Kept
  <2> QED BY <1>2, <1>5, <2>2, <2>3, <2>4, <2>5
<1>7. CASE WriterSends(c)
  <2> USE <1>7 DEF WriterSends
  <2> DEFINE row == [conn[c] EXCEPT !.writer = "idle", !.frame = None]
  <2>1. conn[c].frame \in Calls
    BY <1>2
  <2>2. Kept(row) /\ conn' = [conn EXCEPT ![c] = row]
    BY <1>1 DEF ConnRows
  <2>3. CallsSound(call')
    BY <2>1, TransmittedKeeps
  <2>4. inbox' \in [Conns -> Seq(Calls)]
    BY <1>2, <2>1, AppendProperties
  <2> HIDE DEF row, Kept
  <2> QED BY <1>5, <2>2, <2>3, <2>4
<1>8. CASE WriterSendFails(c)
  <2> USE <1>8 DEF WriterSendFails
  <2> DEFINE row == [conn[c] EXCEPT !.writer = "exited", !.frame = None, !.done = TRUE, !.queue = <<>>]
  <2>1. conn[c].frame \in Calls
    BY <1>2
  <2>2. Kept(row) /\ conn' = [conn EXCEPT ![c] = row]
    BY <1>1, <1>4 DEF ConnRows
  <2>3. CallsSound(call') /\ inbox' = inbox
    BY <2>1, TransmittedKeeps
  <2> HIDE DEF row, Kept
  <2> QED BY <1>2, <1>5, <2>2, <2>3
<1>9. CASE WriterExits(c)
  <2> USE <1>9 DEF WriterExits
  <2> DEFINE row == [conn[c] EXCEPT !.writer = "exited", !.queue = <<>>]
  <2>1. Kept(row) /\ conn' = [conn EXCEPT ![c] = row]
    BY <1>1, <1>4 DEF ConnRows
  <2>2. call' = call /\ inbox' = inbox
    OBVIOUS
  <2> HIDE DEF row, Kept
  <2> QED BY <1>2, <1>5, <2>1, <2>2
<1> QED BY <1>6, <1>7, <1>8, <1>9

(* The steps of a call.                                                     *)
LEMMA CallStepInv ==
  ASSUME StreamInv, NEW q \in Calls,
         \/ BeginCall(q) \/ DeadlinePasses(q) \/ Enqueue(q) \/ FrameSent(q)
         \/ Disconnected(q) \/ TimesOut(q) \/ Answered(q)
  PROVE  StreamInv'
<1> USE NodeStreamAssumption
<1>1. /\ conn \in [Conns -> ConnRows] /\ call[q] \in CallRows
      /\ \A d \in Conns : conn[d].writer = "sending" => conn[d].frame \in Calls
      /\ current \in Conns \cup {None} /\ OneLiveStream
      /\ inbox \in [Conns -> Seq(Calls)] /\ up \in [Conns -> SUBSET Calls]
      /\ ran \subseteq Calls /\ \A d \in Conns : up[d] \subseteq ran
  BY DEF StreamInv, StreamTypeOK, CallsHaveStreams, AnswersRan
<1>2. /\ call[q].pc \in {"queueing", "sending", "waiting"} => call[q].conn \in Conns
      /\ call[q].answered => q \in ran
      /\ call[q].outcome = "answered" => q \in ran
  BY DEF StreamInv, CallsHaveStreams, AnswersRan, AnswerIsOwn
<1>3. UNCHANGED <<current, inbox, up, ran>>
  BY DEF BeginCall, DeadlinePasses, Enqueue, FrameSent, Disconnected, TimesOut, Answered
<1>4. ASSUME CallsSound(call'), UNCHANGED conn
      PROVE  StreamInv'
  <2>1. OneLiveStream'
    BY <1>1, <1>3, <1>4 DEF OneLiveStream
  <2> QED BY <1>1, <1>3, <1>4, <2>1, StreamInvAgain
<1>5. ASSUME NEW c \in Conns, NEW row \in ConnRows, CallsSound(call'),
             conn' = [conn EXCEPT ![c] = row],
             row.handler = conn[c].handler /\ row.replaced = conn[c].replaced,
             conn[c].done => row.done,
             row.writer = conn[c].writer /\ row.frame = conn[c].frame
      PROVE  StreamInv'
  <2>1. row.writer = "sending" => row.frame \in Calls
    BY <1>1, <1>5
  <2>2. /\ conn' \in [Conns -> ConnRows] /\ OneLiveStream'
        /\ \A d \in Conns : conn'[d].writer = "sending" => conn'[d].frame \in Calls
    BY <1>3, <1>5, <2>1, ConnChanges
  <2> QED BY <1>1, <1>3, <1>5, <2>2, StreamInvAgain
<1>6. CASE BeginCall(q)
  <2> USE <1>6 DEF BeginCall
  <2>1. CASE current = None
    BY <1>4, <2>1, ReturnedKeeps
  <2>2. CASE current # None
    <3> DEFINE row == [call[q] EXCEPT !.pc = "queueing", !.conn = current]
    <3>1. call' = [call EXCEPT ![q] = row]
      BY <2>2
    <3>2. /\ row \in CallRows /\ row.conn \in Conns
          /\ row.answered = call[q].answered /\ row.outcome = call[q].outcome
      BY <1>1, <2>2 DEF CallRows
    <3> HIDE DEF row
    <3>3. CallsSound(call')
      BY <1>2, <3>1, <3>2, CallChanges
    <3> QED BY <1>4, <3>3
  <2> QED BY <2>1, <2>2
<1>7. CASE DeadlinePasses(q) \/ FrameSent(q)
  <2> USE <1>7 DEF DeadlinePasses, FrameSent
  <2> DEFINE late == [call[q] EXCEPT !.late = TRUE]
             sent == [call[q] EXCEPT !.pc = "waiting"]
  <2>1. \E row \in {late, sent} : call' = [call EXCEPT ![q] = row]
    OBVIOUS
  <2>2. \A row \in {late, sent} :
          /\ row \in CallRows /\ row.conn = call[q].conn
          /\ row.answered = call[q].answered /\ row.outcome = call[q].outcome
    BY <1>1 DEF CallRows
  <2>3. call[q].conn \in Conns
    BY <1>2
  <2> HIDE DEF late, sent
  <2>4. CallsSound(call')
    BY <1>2, <2>1, <2>2, <2>3, CallChanges
  <2> QED BY <1>4, <2>4
<1>8. CASE Enqueue(q)
  <2> USE <1>8 DEF Enqueue
  <2> DEFINE c == call[q].conn
             crow == [conn[c] EXCEPT !.queue = Append(@, q)]
             row == [call[q] EXCEPT !.pc = "sending"]
  <2>1. c \in Conns
    BY <1>2
  <2>2. conn[c] \in ConnRows
    BY <1>1, <2>1
  <2>3. Append(conn[c].queue, q) \in Seq(Calls)
    BY <2>2, AppendProperties DEF ConnRows
  <2>4. /\ crow \in ConnRows /\ crow.handler = conn[c].handler
        /\ crow.replaced = conn[c].replaced /\ crow.done = conn[c].done
        /\ crow.writer = conn[c].writer /\ crow.frame = conn[c].frame
    BY <2>2, <2>3 DEF ConnRows
  <2>5. conn' = [conn EXCEPT ![c] = crow] /\ call' = [call EXCEPT ![q] = row]
    OBVIOUS
  <2>6. /\ row \in CallRows /\ row.conn = c
        /\ row.answered = call[q].answered /\ row.outcome = call[q].outcome
    BY <1>1 DEF CallRows
  <2> HIDE DEF c, crow, row
  <2>7. CallsSound(call')
    BY <1>2, <2>1, <2>5, <2>6, CallChanges
  <2> QED BY <1>5, <2>1, <2>4, <2>5, <2>7
<1>9. CASE Disconnected(q) \/ Answered(q)
  <2> USE <1>9 DEF Disconnected, Answered
  <2>1. PICK outcome \in {"offline", "timeout", "answered"} :
          /\ call' = Returned(q, outcome)
          /\ outcome = "answered" => q \in ran
    BY <1>2
  <2>2. CallsSound(call') /\ conn' = conn
    BY <2>1, ReturnedKeeps
  <2> QED BY <1>4, <2>2
<1>10. CASE TimesOut(q)
  <2> USE <1>10 DEF TimesOut, Closed
  <2>1. CallsSound(call')
    BY ReturnedKeeps
  <2>2. CASE conn' = conn
    BY <1>4, <2>1, <2>2
  <2>3. CASE conn' = [conn EXCEPT ![call[q].conn].done = TRUE]
    <3> DEFINE c == call[q].conn
               row == [conn[c] EXCEPT !.done = TRUE]
    <3>1. c \in Conns
      BY <1>2
    <3>2. conn[c] \in ConnRows /\ conn' = [conn EXCEPT ![c] = row]
      BY <1>1, <2>3, <3>1
    <3>3. /\ row \in ConnRows /\ row.handler = conn[c].handler
          /\ row.replaced = conn[c].replaced /\ row.done
          /\ row.writer = conn[c].writer /\ row.frame = conn[c].frame
      BY <3>2 DEF ConnRows
    <3> HIDE DEF c, row
    <3> QED BY <1>5, <2>1, <3>1, <3>2, <3>3
  <2> QED BY <2>2, <2>3
<1> QED BY <1>6, <1>7, <1>8, <1>9, <1>10

(* The agent runs a frame, and the control plane receives its answer.       *)
LEMMA AnswerStepInv ==
  ASSUME StreamInv, NEW c \in Conns, AgentHandles(c) \/ Complete(c)
  PROVE  StreamInv'
<1> USE NodeStreamAssumption
<1>1. /\ conn \in [Conns -> ConnRows] /\ call \in [Calls -> CallRows]
      /\ \A d \in Conns : conn[d].writer = "sending" => conn[d].frame \in Calls
      /\ current \in Conns \cup {None} /\ OneLiveStream
      /\ inbox \in [Conns -> Seq(Calls)] /\ up \in [Conns -> SUBSET Calls]
      /\ ran \subseteq Calls /\ \A d \in Conns : up[d] \subseteq ran
  BY DEF StreamInv, StreamTypeOK, CallsHaveStreams, AnswersRan
<1>2. UNCHANGED <<conn, current>> /\ OneLiveStream'
  BY <1>1 DEF AgentHandles, Complete, OneLiveStream
<1>3. CASE AgentHandles(c)
  <2> USE <1>3 DEF AgentHandles
  <2>1. Head(inbox[c]) \in Calls /\ Tail(inbox[c]) \in Seq(Calls)
    BY <1>1, HeadTailProperties
  <2>2. inbox' \in [Conns -> Seq(Calls)] /\ ran' = ran \cup {Head(inbox[c])} /\ call' = call
    BY <1>1, <2>1
  <2>3. up' \in [Conns -> SUBSET Calls] /\ \A d \in Conns : up'[d] \subseteq ran'
    BY <1>1, <2>1
  <2>4. CallsSound(call')
    BY <2>2, CallsAreSound
  <2> QED BY <1>1, <1>2, <2>1, <2>2, <2>3, <2>4, StreamInvAgain
<1>4. CASE Complete(c)
  <2>1. PICK a \in up[c] :
          /\ up' = [up EXCEPT ![c] = @ \ {a}]
          /\ call' = IF Pending(a, TableFor(a, c)) THEN [call EXCEPT ![a].answered = TRUE] ELSE call
    BY <1>4 DEF Complete
  <2>2. a \in Calls /\ a \in ran /\ UNCHANGED <<inbox, ran>>
    BY <1>1, <1>4 DEF Complete
  <2>3. CASE call' = call
    <3>1. CallsSound(call')
      BY <2>3, CallsAreSound
    <3>2. up' \in [Conns -> SUBSET Calls] /\ \A d \in Conns : up'[d] \subseteq ran
      BY <1>1, <2>1
    <3> QED BY <1>1, <1>2, <2>2, <3>1, <3>2, StreamInvAgain
  <2>4. CASE call' = [call EXCEPT ![a].answered = TRUE]
    <3> DEFINE row == [call[a] EXCEPT !.answered = TRUE]
    <3>1. /\ row \in CallRows /\ row.pc = call[a].pc /\ row.conn = call[a].conn
          /\ row.outcome = call[a].outcome
      <4>1. call[a] \in CallRows
        BY <1>1, <2>2
      <4> QED BY <4>1 DEF CallRows
    <3>2. call' = [call EXCEPT ![a] = row]
      BY <2>4
    <3>3. row.pc \in {"queueing", "sending", "waiting"} => row.conn \in Conns
      BY <2>2, <3>1 DEF StreamInv, CallsHaveStreams
    <3> HIDE DEF row
    <3>4. CallsSound(call')
      BY <2>2, <3>1, <3>2, <3>3, CallChanges
    <3>5. up' \in [Conns -> SUBSET Calls] /\ \A d \in Conns : up'[d] \subseteq ran
      BY <1>1, <2>1
    <3> QED BY <1>1, <1>2, <2>2, <3>4, <3>5, StreamInvAgain
  <2> QED BY <2>1, <2>3, <2>4
<1> QED BY <1>3, <1>4

(* The streams of a node keep their invariant, whatever stream replaces     *)
(* another, breaks or is closed while calls are queued, sent or waiting.    *)
THEOREM StreamInvariant ==
  StreamSpec => []StreamInv
<1>1. StreamInv /\ [StreamNext]_streamVars => StreamInv'
  <2> SUFFICES ASSUME StreamInv, [StreamNext]_streamVars PROVE StreamInv'
      OBVIOUS
  <2>1. CASE StreamNext
    BY <2>1, RegistryStepInv, WriterStepInv, CallStepInv, AnswerStepInv DEF StreamNext
  <2>2. CASE UNCHANGED streamVars
    BY <2>2 DEF streamVars, StreamInv, StreamTypeOK, CallsHaveStreams, OneLiveStream,
                AnswersRan, AnswerIsOwn
  <2> QED BY <2>1, <2>2
<1> QED BY <1>1, StreamInitInv, PTL DEF StreamSpec

(* A node has one live stream, the one callers find, and a call reports the *)
(* answer to itself (registerStream, unregisterStream, complete...), for    *)
(* any number of streams, commands and file operations and any queue size.  *)
THEOREM StreamsAreSound ==
  StreamSpec => []StreamIsSound
<1>1. StreamInv => StreamIsSound
  BY DEF StreamInv, StreamIsSound
<1> QED BY <1>1, StreamInvariant, PTL

(* An answer that arrives on the live stream of a call that is still        *)
(* pending reaches it, although completeFileOperation looks into the table  *)
(* of the node's current stream and not of the one it came on.              *)
THEOREM LiveAnswersArrive ==
  StreamSpec => LiveAnswerArrives
<1> DEFINE Arrives == \A c \in Conns : \A a \in up[c] :
                        /\ a \notin up'[c] /\ conn'[c].handler = "serving"
                        /\ Pending(a, c) /\ ~conn[c].replaced /\ ~conn[c].done
                        => call'[a].answered
<1>1. StreamInv /\ [StreamNext]_streamVars => [Arrives]_streamVars
  <2> SUFFICES ASSUME StreamInv, StreamNext,
                      NEW c \in Conns, NEW a \in up[c], a \notin up'[c],
                      conn'[c].handler = "serving",
                      Pending(a, c), ~conn[c].replaced, ~conn[c].done
               PROVE  call'[a].answered
      OBVIOUS
  <2>1. /\ up \in [Conns -> SUBSET Calls] /\ conn \in [Conns -> ConnRows]
        /\ a \in Calls /\ call \in [Calls -> CallRows]
    BY DEF StreamInv, StreamTypeOK
  <2>2. PICK d \in Conns : HandlerReturns(d) \/ AgentHandles(d) \/ Complete(d)
    BY DEF StreamNext, Register, ClosePrevious, Break, WriterTakes, WriterSends,
           WriterSendFails, WriterExits, BeginCall, DeadlinePasses, Enqueue, FrameSent,
           Disconnected, TimesOut, Answered
  <2>3. ~AgentHandles(d)
    BY <2>1 DEF AgentHandles
  <2>4. ~HandlerReturns(d)
    <3> SUFFICES ASSUME HandlerReturns(d) PROVE FALSE
        OBVIOUS
    <3>1. d = c
      BY <2>1 DEF HandlerReturns
    <3>2. conn'[c] = [conn[c] EXCEPT !.handler = "returned", !.done = TRUE]
      BY <2>1, <3>1 DEF HandlerReturns
    <3>3. conn[c] \in ConnRows
      BY <2>1
    <3> QED BY <3>2, <3>3 DEF ConnRows
  <2>5. PICK b \in up[d] :
          /\ up' = [up EXCEPT ![d] = @ \ {b}]
          /\ call' = IF Pending(b, TableFor(b, d)) THEN [call EXCEPT ![b].answered = TRUE] ELSE call
          /\ conn[d].handler = "serving"
    BY <2>2, <2>3, <2>4 DEF Complete
  <2>6. d = c /\ b = a
    BY <2>1, <2>5
  <2>7. current = c
    BY <2>5, <2>6 DEF StreamInv, OneLiveStream
  <2>8. call' = [call EXCEPT ![a].answered = TRUE]
    BY <2>5, <2>6, <2>7 DEF TableFor
  <2> QED BY <2>1, <2>8 DEF CallRows
<1> QED BY <1>1, StreamInvariant, PTL DEF StreamSpec, LiveAnswerArrives

-----------------------------------------------------------------------------
(* The console of a server.                                                 *)

(* What Ascending makes of a finite set: a sequence of all its numbers,     *)
(* strictly ascending.  Counting the smaller ones is one-to-one from the    *)
(* set to the places before its size, so every place is taken.              *)
LEMMA AscendingSorts ==
  ASSUME NEW S \in SUBSET Nat, IsFiniteSet(S)
  PROVE  /\ Ascending(S) \in Seq(S) /\ Len(Ascending(S)) = Cardinality(S)
         /\ \A i, j \in 1 .. Cardinality(S) : i < j => Ascending(S)[i] < Ascending(S)[j]
         /\ \A n \in S : \E i \in 1 .. Cardinality(S) : Ascending(S)[i] = n
<1> DEFINE k == Cardinality(S)
           below(n) == {m \in S : m < n}
           rank == [n \in S |-> Cardinality(below(n))]
           a == [i \in 1 .. k |-> CHOOSE n \in S : Cardinality(below(n)) = i - 1]
<1>1. k \in Nat
  BY FS_CardinalityType
<1>2. ASSUME NEW n \in S PROVE IsFiniteSet(below(n)) /\ Cardinality(below(n)) \in 0 .. (k - 1)
  <2>1. IsFiniteSet(S \ {n}) /\ Cardinality(S \ {n}) = k - 1
    BY FS_RemoveElement
  <2>2. below(n) \in SUBSET (S \ {n})
    OBVIOUS
  <2>3. IsFiniteSet(below(n)) /\ Cardinality(below(n)) <= k - 1
    BY <2>1, <2>2, FS_Subset
  <2>4. Cardinality(below(n)) \in Nat
    BY <2>3, FS_CardinalityType
  <2> QED BY <1>1, <2>3, <2>4
<1>3. ASSUME NEW n \in S, NEW m \in S, n < m PROVE Cardinality(below(n)) < Cardinality(below(m))
  <2>1. below(n) \cup {n} \in SUBSET below(m)
    <3>1. \A x \in below(n) : x \in S /\ x < m
      <4> SUFFICES ASSUME NEW x \in S, x < n PROVE x < m
          OBVIOUS
      <4>1. x \in Nat /\ n \in Nat /\ m \in Nat
        OBVIOUS
      <4> QED BY <1>3, <4>1
    <3> QED BY <1>3, <3>1
  <2>2. IsFiniteSet(below(n)) /\ n \notin below(n)
    BY <1>2
  <2>3. Cardinality(below(n) \cup {n}) = Cardinality(below(n)) + 1
    BY <2>2, FS_AddElement
  <2>4. IsFiniteSet(below(m)) /\ Cardinality(below(n)) \in Nat /\ Cardinality(below(m)) \in Nat
    BY <1>2
  <2>5. Cardinality(below(n) \cup {n}) <= Cardinality(below(m))
    BY <2>1, <2>4, FS_Subset
  <2> QED BY <2>3, <2>4, <2>5
<1>4. rank \in Injection(S, 0 .. (k - 1))
  <2>1. rank \in [S -> 0 .. (k - 1)]
    BY <1>2
  <2>2. ASSUME NEW n \in S, NEW m \in S, rank[n] = rank[m] PROVE n = m
    <3>1. Cardinality(below(n)) = Cardinality(below(m)) /\ Cardinality(below(n)) \in Nat
      BY <1>2, <2>2
    <3> HIDE DEF below
    <3>2. ~(n < m) /\ ~(m < n)
      BY <1>3, <3>1
    <3> QED BY <3>2
  <2> HIDE DEF rank
  <2> QED BY <2>1, <2>2 DEF Injection, IsInjective
<1>5. rank \in Surjection(S, 0 .. (k - 1))
  <2>1. IsFiniteSet(0 .. (k - 1)) /\ Cardinality(0 .. (k - 1)) = k
    <3>1. 0 \in Int /\ k - 1 \in Int /\ (0 > k - 1 => k = 0) /\ k - 1 - 0 + 1 = k
      BY <1>1
    <3> QED BY <3>1, FS_Interval
  <2> HIDE DEF rank
  <2> QED BY <1>4, <2>1, FS_Injection
<1>6. ASSUME NEW i \in 1 .. k PROVE a[i] \in S /\ Cardinality(below(a[i])) = i - 1
  <2>1. i - 1 \in 0 .. (k - 1)
    BY <1>1
  <2>2. PICK n \in S : rank[n] = i - 1
    BY <1>5, <2>1 DEF Surjection
  <2>3. Cardinality(below(n)) = i - 1
    BY <2>2
  <2>4. a[i] = CHOOSE x \in S : Cardinality(below(x)) = i - 1
    OBVIOUS
  <2> HIDE DEF below, a
  <2> QED BY <2>3, <2>4
<1>7. Ascending(S) = a
  BY DEF Ascending
<1>8. a \in Seq(S) /\ Len(a) = k
  <2>1. a \in [1 .. k -> S]
    BY <1>6
  <2> HIDE DEF a
  <2> QED BY <1>1, <2>1, SeqDef, LenProperties
<1> HIDE DEF a, below
<1>9. ASSUME NEW i \in 1 .. k, NEW j \in 1 .. k, i < j PROVE a[i] < a[j]
  <2>1. /\ a[i] \in S /\ Cardinality(below(a[i])) = i - 1
        /\ a[j] \in S /\ Cardinality(below(a[j])) = j - 1
    BY <1>6
  <2>2. ~(i - 1 = j - 1) /\ ~(j - 1 < i - 1)
    BY <1>1, <1>9
  <2>3. a[i] # a[j] /\ ~(a[j] < a[i])
    BY <1>3, <2>1, <2>2
  <2>4. a[i] \in Nat /\ a[j] \in Nat
    BY <2>1
  <2> QED BY <2>3, <2>4
<1>10. ASSUME NEW n \in S PROVE \E i \in 1 .. k : a[i] = n
  <2>1. Cardinality(below(n)) + 1 \in 1 .. k
    BY <1>1, <1>2
  <2> DEFINE i == Cardinality(below(n)) + 1
  <2>2. a[i] \in S /\ Cardinality(below(a[i])) = Cardinality(below(n))
    <3>1. a[i] \in S /\ Cardinality(below(a[i])) = i - 1
      BY <1>6, <2>1
    <3>2. i - 1 = Cardinality(below(n))
      <4>1. Cardinality(below(n)) \in Nat
        BY <1>2
      <4> QED BY <4>1
    <3> QED BY <3>1, <3>2
  <2>3. Cardinality(below(n)) \in Nat
    BY <1>2
  <2>4. ~(a[i] < n) /\ ~(n < a[i])
    <3>1. ~(Cardinality(below(n)) < Cardinality(below(n)))
      BY <2>3
    <3> HIDE DEF i
    <3> QED BY <1>3, <2>2, <3>1
  <2>5. a[i] = n
    <3>1. a[i] \in Nat /\ n \in Nat
      BY <2>2
    <3> HIDE DEF i
    <3> QED BY <2>4, <3>1
  <2> QED BY <2>1, <2>5
<1> QED BY <1>7, <1>8, <1>9, <1>10

(* A finite set of numbers that is not empty has a largest and a smallest.  *)
LEMMA FirstAndLast ==
  ASSUME NEW S \in SUBSET Nat, IsFiniteSet(S), S # {}
  PROVE  /\ \E b \in S : \A m \in S : m <= b
         /\ \E b \in S : \A m \in S : m >= b
<1> DEFINE a == Ascending(S)
           k == Cardinality(S)
<1>1. /\ a \in Seq(S) /\ Len(a) = k /\ k \in Nat
      /\ \A i, j \in 1 .. k : i < j => a[i] < a[j]
      /\ \A x \in S : \E i \in 1 .. k : a[i] = x
  <2>1. k \in Nat
    BY FS_CardinalityType
  <2> QED BY <2>1, AscendingSorts
<1> HIDE DEF a, k
<1>2. 1 \in 1 .. k /\ k \in 1 .. k
  <2>1. PICK x \in S : TRUE
    OBVIOUS
  <2>2. PICK i \in 1 .. k : a[i] = x
    BY <1>1
  <2> QED BY <1>1, <2>2
<1>3. \A i \in 1 .. k : a[i] \in S /\ a[i] \in Nat
  <2>1. \A i \in 1 .. Len(a) : a[i] \in S
    BY <1>1, ElementOfSeq
  <2> QED BY <1>1, <2>1
<1>4. ASSUME NEW x \in S PROVE x <= a[k] /\ x >= a[1]
  <2>1. PICK i \in 1 .. k : a[i] = x
    BY <1>1
  <2>2. x <= a[k]
    <3>1. CASE i = k
      BY <1>3, <2>1, <3>1
    <3>2. CASE i < k
      <4>1. a[i] < a[k]
        BY <1>1, <1>2, <3>2
      <4> QED BY <1>2, <1>3, <2>1, <4>1
    <3> QED BY <1>1, <3>1, <3>2
  <2>3. x >= a[1]
    <3>1. CASE i = 1
      BY <1>3, <2>1, <3>1
    <3>2. CASE 1 < i
      <4>1. a[1] < a[i]
        BY <1>1, <1>2, <3>2
      <4> QED BY <1>2, <1>3, <2>1, <4>1
    <3> QED BY <1>1, <3>1, <3>2
  <2> QED BY <2>2, <2>3
<1> QED BY <1>2, <1>3, <1>4

(* Lines are numbered from 1, and there are finitely many.                  *)
LEMMA LinesAreNumbers ==
  /\ MaxLines \in Nat /\ Lines = 1 .. MaxLines /\ Retained \in Nat \ {0}
  /\ \A n \in Lines : n \in Nat /\ n >= 1 /\ n <= MaxLines
  /\ \A S \in SUBSET Lines : S \in SUBSET Nat /\ IsFiniteSet(S)
<1>1. MaxLines \in Nat /\ Lines = 1 .. MaxLines /\ Retained \in Nat \ {0}
  BY ConsoleAssumption DEF Lines
<1>2. \A n \in Lines : n \in Nat /\ n >= 1 /\ n <= MaxLines
  BY <1>1
<1>3. IsFiniteSet(1 .. MaxLines)
  BY <1>1, FS_Interval
<1>4. ASSUME NEW S \in SUBSET Lines PROVE S \in SUBSET Nat /\ IsFiniteSet(S)
  <2>1. S \in SUBSET (1 .. MaxLines)
    BY <1>1
  <2>2. IsFiniteSet(S)
    BY <1>3, <2>1, FS_Subset
  <2> QED BY <1>2, <2>2
<1> QED BY <1>1, <1>2, <1>4

(* Trimming a table keeps its largest numbers, and at least the largest.    *)
LEMMA TrimmedKeepsTop ==
  ASSUME NEW S \in SUBSET Lines
  PROVE  /\ Trimmed(S) \subseteq S
         /\ \A n \in S : \E m \in Trimmed(S) : n <= m
         /\ \A n \in S : \A m \in Trimmed(S) : m <= n => n \in Trimmed(S)
<1> DEFINE above(n) == {m \in S : m > n}
<1>1. S \in SUBSET Nat /\ IsFiniteSet(S) /\ Retained \in Nat \ {0}
  BY LinesAreNumbers
<1>2. Trimmed(S) = {n \in S : Cardinality(above(n)) < Retained}
  BY DEF Trimmed
<1>3. \A n \in S : IsFiniteSet(above(n)) /\ Cardinality(above(n)) \in Nat
  <2> SUFFICES ASSUME NEW n \in S PROVE IsFiniteSet(above(n)) /\ Cardinality(above(n)) \in Nat
      OBVIOUS
  <2>1. above(n) \in SUBSET S
    OBVIOUS
  <2>2. IsFiniteSet(above(n))
    BY <1>1, <2>1, FS_Subset
  <2> QED BY <2>2, FS_CardinalityType
<1>4. ASSUME NEW n \in S PROVE \E m \in Trimmed(S) : n <= m
  <2>1. PICK b \in S : \A x \in S : x <= b
    BY <1>1, FirstAndLast
  <2>2. above(b) = {}
    <3>1. \A x \in S : ~(x > b)
      BY <1>1, <2>1
    <3> QED BY <3>1
  <2>3. b \in Trimmed(S)
    BY <1>1, <1>2, <2>2, FS_EmptySet
  <2> QED BY <2>1, <2>3
<1>5. ASSUME NEW n \in S, NEW m \in Trimmed(S), m <= n PROVE n \in Trimmed(S)
  <2>1. m \in S /\ Cardinality(above(m)) < Retained
    BY <1>2
  <2>2. above(n) \in SUBSET above(m)
    <3>1. ASSUME NEW x \in S, x > n PROVE x > m
      <4>1. x \in Nat /\ n \in Nat /\ m \in Nat
        BY <1>1, <2>1
      <4> QED BY <1>5, <3>1, <4>1
    <3> QED BY <3>1
  <2>3. Cardinality(above(n)) <= Cardinality(above(m))
    BY <1>3, <2>1, <2>2, FS_Subset
  <2>4. Cardinality(above(n)) \in Nat /\ Cardinality(above(m)) \in Nat
    BY <1>3, <2>1
  <2> HIDE DEF above
  <2>5. Cardinality(above(n)) < Retained
    BY <1>1, <2>1, <2>3, <2>4
  <2> QED BY <1>2, <2>5
<1>6. Trimmed(S) \subseteq S
  BY <1>2
<1> QED BY <1>4, <1>5, <1>6

(* The numbers up to the largest one that is stored.                        *)
Reached(L) == {n \in Lines : \E m \in L : n <= m}

(* Lines in the order of their numbers.                                     *)
Rising(s) == \A i, j \in 1 .. Len(s) : i < j => s[i] < s[j]
Has(s, n) == \E i \in 1 .. Len(s) : s[i] = n

(* Of the recorded numbers R nothing is missing in s between its first and  *)
(* its last line; from its first line on.                                   *)
Whole(s, R) == \A n \in R : s # <<>> /\ s[1] <= n /\ n <= s[Len(s)] => Has(s, n)
ToTheEnd(s, R) == \A n \in R : s # <<>> /\ s[1] <= n => Has(s, n)

(* What the client shows: a list that begins where it says and has no hole. *)
Shows(c, R) ==
    /\ c.last > 0 => c.from \in 1 .. c.last
    /\ \A n \in R : c.from > 0 /\ c.from <= n /\ n <= c.last => n \in c.shown

Sockets(L) == [step : {"upgraded", "sent", "open"}, replica : Replicas, channel : Seq(Reached(L))]
Clients(L) == [last : Reached(L) \cup {0}, shown : SUBSET Lines, from : 0 .. MaxLines]

ConsoleTypes ==
    /\ drawn \in Nat /\ session \in AgentReplicas \cup {None} /\ tailer \in [Replicas -> Nat]
    /\ logs \in SUBSET Lines /\ recorded \in SUBSET Reached(logs) /\ ordered \in BOOLEAN
    /\ buffer \in [Replicas -> Seq(Reached(logs))]
    /\ onStream \in [Replicas -> Seq(Reached(logs))]
    /\ socket = NoSocket \/ socket \in Sockets(logs)
    /\ client \in Clients(logs)

(* What any replica holds has no hole, and neither has the table it is read *)
(* back from; the replica that has the agent's stream lacks nothing at the  *)
(* end.                                                                     *)
HoleFree ==
    /\ \A n \in recorded : \A m \in logs : m <= n => n \in logs
    /\ \A r \in Replicas : Rising(buffer[r]) /\ Whole(buffer[r], recorded)
    /\ \A r \in AgentReplicas : ToTheEnd(buffer[r], recorded)
    /\ Shows(client, recorded)

ConsoleInv == ConsoleTypes /\ (ordered => HoleFree)

(* The agent's stream stays with one replica: only the replica that has it  *)
(* adds lines to its buffer, and a snapshot of any other lacks the latest.  *)
OneAgentReplica == \A r, s \in AgentReplicas : r = s

(* A record adds to what is reached, also when the table is trimmed.        *)
LEMMA ReachedGrows ==
  ASSUME NEW L \in SUBSET Lines, NEW new \in SUBSET Lines
  PROVE  /\ Trimmed(L \cup new) \in SUBSET Lines
         /\ Reached(L) \subseteq Reached(Trimmed(L \cup new))
         /\ new \subseteq Reached(Trimmed(L \cup new))
<1>1. L \cup new \in SUBSET Lines
  OBVIOUS
<1>2. /\ Trimmed(L \cup new) \subseteq L \cup new
      /\ \A n \in L \cup new : \E m \in Trimmed(L \cup new) : n <= m
  BY <1>1, TrimmedKeepsTop
<1>3. \A n \in Lines : n \in Nat
  BY LinesAreNumbers
<1>4. ASSUME NEW n \in Reached(L) PROVE n \in Reached(Trimmed(L \cup new))
  <2>1. PICK m \in L : n <= m
    BY DEF Reached
  <2>2. PICK t \in Trimmed(L \cup new) : m <= t
    BY <1>2
  <2>3. n \in Nat /\ m \in Nat /\ t \in Nat /\ n \in Lines
    BY <1>2, <1>3 DEF Reached
  <2>4. n <= t
    BY <2>1, <2>2, <2>3
  <2> QED BY <2>3, <2>4 DEF Reached
<1>5. new \subseteq Reached(Trimmed(L \cup new))
  BY <1>2 DEF Reached
<1> QED BY <1>1, <1>2, <1>4, <1>5

(* Trimming a buffer keeps its end, in order.                               *)
LEMMA LastKeepsEnd ==
  ASSUME NEW R \in SUBSET Nat, NEW s \in Seq(R), NEW n \in Nat \ {0}
  PROVE  /\ Last(s, n) \in Seq(R)
         /\ Rising(s) => Rising(Last(s, n))
         /\ Rising(s) /\ Last(s, n) # <<>> => s # <<>> /\ s[1] <= Last(s, n)[1]
         /\ \A x \in Nat : Rising(s) /\ Has(s, x) /\ Last(s, n) # <<>> /\ Last(s, n)[1] <= x
                             => Has(Last(s, n), x)
<1> DEFINE m == IF Len(s) > n THEN Len(s) - n + 1 ELSE 1
           t == SubSeq(s, m, Len(s))
<1>1. Len(s) \in Nat /\ m \in 1 .. (Len(s) + 1)
  OBVIOUS
<1>2. \A i \in m .. Len(s) : s[i] \in R
  BY <1>1
<1>3. \A i \in 1 .. Len(s) : s[i] \in R /\ s[i] \in Nat
  <2>1. \A i \in 1 .. Len(s) : s[i] \in R
    BY ElementOfSeq
  <2> QED BY <2>1
<1>4. /\ t \in Seq(R) /\ Len(t) = Len(s) - m + 1
      /\ \A i \in 1 .. (Len(s) - m + 1) : t[i] = s[m + i - 1]
  <2> HIDE DEF m
  <2> QED BY <1>1, <1>2, SubSeqProperties
<1>5. Last(s, n) = t
  BY DEF Last
<1> HIDE DEF t, m
<1>6. \A i \in 1 .. Len(t) : m + i - 1 \in 1 .. Len(s) /\ t[i] = s[m + i - 1]
  <2>1. \A i \in 1 .. (Len(s) - m + 1) : m + i - 1 \in 1 .. Len(s)
    BY <1>1
  <2> QED BY <1>4, <2>1
<1>7. ASSUME Rising(s) PROVE Rising(t)
  <2> SUFFICES ASSUME NEW i \in 1 .. Len(t), NEW j \in 1 .. Len(t), i < j PROVE t[i] < t[j]
      BY DEF Rising
  <2>1. m + i - 1 < m + j - 1
    BY <1>1, <1>4
  <2> QED BY <1>6, <1>7, <2>1 DEF Rising
<1>8. ASSUME t # <<>> PROVE s # <<>> /\ Len(t) >= 1 /\ Len(s) >= 1 /\ m \in 1 .. Len(s) /\ t[1] = s[m]
  <2>1. Len(t) \in Nat \ {0}
    BY <1>4, <1>8, EmptySeq
  <2>2. 1 \in 1 .. Len(t) /\ m + 1 - 1 = m
    BY <1>1, <2>1
  <2>3. m \in 1 .. Len(s) /\ t[1] = s[m]
    BY <1>6, <2>2
  <2>4. Len(s) # 0
    BY <1>1, <2>3
  <2> QED BY <1>1, <2>1, <2>3, <2>4, EmptySeq
<1>9. ASSUME Rising(s), t # <<>> PROVE s # <<>> /\ s[1] <= t[1]
  <2>1. s # <<>> /\ m \in 1 .. Len(s) /\ 1 \in 1 .. Len(s) /\ t[1] = s[m]
    BY <1>1, <1>8, <1>9
  <2>2. s[1] \in Nat /\ s[m] \in Nat
    BY <1>3, <2>1
  <2>3. CASE m = 1
    BY <2>1, <2>2, <2>3
  <2>4. CASE m > 1
    BY <1>9, <2>1, <2>2, <2>4 DEF Rising
  <2> QED BY <2>1, <2>3, <2>4
<1>10. ASSUME NEW x \in Nat, Rising(s), Has(s, x), t # <<>>, t[1] <= x PROVE Has(t, x)
  <2>1. PICK i \in 1 .. Len(s) : s[i] = x
    BY <1>10 DEF Has
  <2>2. m \in 1 .. Len(s) /\ t[1] = s[m]
    BY <1>8, <1>10
  <2>3. ~(i < m)
    <3> SUFFICES ASSUME i < m PROVE FALSE
        OBVIOUS
    <3>1. s[i] < s[m] /\ s[m] \in Nat
      BY <1>3, <1>10, <2>2 DEF Rising
    <3> QED BY <1>10, <2>1, <2>2, <3>1
  <2>4. i - m + 1 \in 1 .. Len(t) /\ m + (i - m + 1) - 1 = i
    BY <1>1, <1>4, <2>2, <2>3
  <2>5. t[i - m + 1] = x
    BY <1>6, <2>1, <2>4
  <2> QED BY <2>4, <2>5 DEF Has
<1> QED BY <1>4, <1>5, <1>7, <1>9, <1>10

(* Lines that all follow a buffer continue it in order.                     *)
LEMMA JoinedRises ==
  ASSUME NEW R \in SUBSET Nat, NEW s \in Seq(R), NEW t \in Seq(R), Rising(s), Rising(t),
         \A i \in 1 .. Len(s) : \A j \in 1 .. Len(t) : s[i] < t[j]
  PROVE  /\ s \o t \in Seq(R) /\ Rising(s \o t)
         /\ \A x : Has(s, x) \/ Has(t, x) => Has(s \o t, x)
         /\ s # <<>> => (s \o t)[1] = s[1]
         /\ s = <<>> => s \o t = t
<1> DEFINE u == s \o t
<1>1. /\ u \in Seq(R) /\ Len(u) = Len(s) + Len(t)
      /\ \A i \in 1 .. Len(s) + Len(t) : u[i] = IF i <= Len(s) THEN s[i] ELSE t[i - Len(s)]
  BY ConcatProperties
<1>2. Len(s) \in Nat /\ Len(t) \in Nat
  OBVIOUS
<1> HIDE DEF u
<1>3. \A i \in 1 .. Len(s) : i \in 1 .. Len(u) /\ u[i] = s[i]
  BY <1>1, <1>2
<1>4. \A j \in 1 .. Len(t) : Len(s) + j \in 1 .. Len(u) /\ u[Len(s) + j] = t[j]
  <2> SUFFICES ASSUME NEW j \in 1 .. Len(t)
               PROVE  Len(s) + j \in 1 .. Len(u) /\ u[Len(s) + j] = t[j]
      OBVIOUS
  <2>1. Len(s) + j \in 1 .. Len(s) + Len(t) /\ ~(Len(s) + j <= Len(s)) /\ Len(s) + j - Len(s) = j
    BY <1>2
  <2>2. u[Len(s) + j] = t[Len(s) + j - Len(s)]
    BY <1>1, <2>1
  <2> QED BY <1>1, <2>1, <2>2
<1>5. Rising(u)
  <2> SUFFICES ASSUME NEW i \in 1 .. Len(u), NEW j \in 1 .. Len(u), i < j PROVE u[i] < u[j]
      BY DEF Rising
  <2>1. CASE j <= Len(s)
    <3>1. i \in 1 .. Len(s) /\ j \in 1 .. Len(s)
      BY <1>2, <2>1
    <3> QED BY <1>3, <3>1 DEF Rising
  <2>2. CASE i <= Len(s) /\ j > Len(s)
    <3>1. i \in 1 .. Len(s) /\ j - Len(s) \in 1 .. Len(t) /\ Len(s) + (j - Len(s)) = j
      BY <1>1, <1>2, <2>2
    <3>2. u[i] = s[i] /\ u[j] = t[j - Len(s)]
      BY <1>3, <1>4, <3>1
    <3> QED BY <3>1, <3>2
  <2>3. CASE i > Len(s)
    <3> DEFINE p == i - Len(s)
               q == j - Len(s)
    <3>1. p \in 1 .. Len(t) /\ q \in 1 .. Len(t) /\ p < q /\ Len(s) + p = i /\ Len(s) + q = j
      BY <1>1, <1>2, <2>3
    <3> HIDE DEF p, q
    <3>2. u[i] = t[p] /\ u[j] = t[q]
      BY <1>4, <3>1
    <3> QED BY <3>1, <3>2 DEF Rising
  <2> QED BY <1>2, <2>1, <2>2, <2>3
<1>6. \A x : Has(s, x) \/ Has(t, x) => Has(u, x)
  BY <1>3, <1>4 DEF Has
<1>7. s # <<>> => u[1] = s[1]
  <2> SUFFICES ASSUME s # <<>> PROVE 1 \in 1 .. Len(s)
      BY <1>3
  <2>1. Len(s) \in Nat \ {0}
    BY EmptySeq
  <2> QED BY <2>1
<1>8. s = <<>> => u = t
  BY ConcatEmptySeq DEF u
<1> QED BY <1>1, <1>5, <1>6, <1>7, <1>8 DEF u

(* A snapshot without a hole leaves the client with a list without a hole:  *)
(* it follows what the client has, or the client starts over with it.       *)
LEMMA SnapshotShows ==
  ASSUME NEW L \in SUBSET Lines, NEW R \in SUBSET Lines, client \in Clients(L),
         NEW lines \in Seq(Reached(L))
  PROVE  /\ Snapshot(lines) \in Clients(L)
         /\ Shows(client, R) /\ Rising(lines) /\ Whole(lines, R) => Shows(Snapshot(lines), R)
<1> DEFINE new == {lines[i] : i \in DOMAIN lines}
           reset == client.last > 0 /\ lines # <<>> /\ client.last < lines[1] - 1
           kept == IF reset THEN new ELSE {n \in new : n > client.last}
           at == {i \in DOMAIN lines : lines[i] \in kept}
           latest == CHOOSE i \in DOMAIN lines :
                        lines[i] \in kept /\ \A j \in DOMAIN lines : j > i => lines[j] \notin kept
           least == CHOOSE n \in kept : \A m \in kept : m >= n
           last == IF kept = {} THEN client.last ELSE lines[latest]
           shown == IF reset THEN kept ELSE client.shown \cup kept
           from == IF reset \/ client.last = 0
                   THEN (IF kept = {} THEN 0 ELSE least)
                   ELSE client.from
<1>1. Snapshot(lines) = [last |-> last, shown |-> shown, from |-> from]
  BY DEF Snapshot
<1>2. /\ client.last \in Reached(L) \cup {0} /\ client.from \in 0 .. MaxLines /\ client.shown \in SUBSET Lines
      /\ Reached(L) \in SUBSET Lines /\ Reached(L) \in SUBSET Nat /\ MaxLines \in Nat
      /\ \A n \in Lines : n \in Nat /\ n >= 1 /\ n <= MaxLines
  BY LinesAreNumbers DEF Clients, Reached
<1>3. DOMAIN lines = 1 .. Len(lines) /\ Len(lines) \in Nat /\ \A i \in 1 .. Len(lines) : lines[i] \in Reached(L)
  BY LenProperties, ElementOfSeq
<1>4. new \in SUBSET Reached(L) /\ kept \in SUBSET new
  BY <1>3
<1>5. kept \in SUBSET Nat /\ IsFiniteSet(kept)
  <2>1. kept \in SUBSET Lines
    BY <1>2, <1>4
  <2> QED BY <2>1, LinesAreNumbers
<1>6. ASSUME kept # {}
      PROVE  /\ latest \in 1 .. Len(lines) /\ lines[latest] \in kept
             /\ \A j \in 1 .. Len(lines) : j > latest => lines[j] \notin kept
             /\ least \in kept /\ \A m \in kept : m >= least
  <2>1. at \in SUBSET (1 .. Len(lines)) /\ at \in SUBSET Nat
    BY <1>3
  <2>2. at # {}
    <3>1. PICK n \in kept : TRUE
      BY <1>6
    <3>2. PICK i \in DOMAIN lines : lines[i] = n
      BY <1>4, <3>1
    <3> QED BY <3>1, <3>2
  <2>3. IsFiniteSet(at)
    <3>1. IsFiniteSet(1 .. Len(lines))
      BY <1>3, FS_Interval
    <3> QED BY <2>1, <3>1, FS_Subset
  <2>4. PICK i \in at : \A m \in at : m <= i
    BY <2>1, <2>2, <2>3, FirstAndLast
  <2>5. i \in DOMAIN lines /\ lines[i] \in kept /\ \A j \in DOMAIN lines : j > i => lines[j] \notin kept
    <3> SUFFICES ASSUME NEW j \in DOMAIN lines, j > i, lines[j] \in kept PROVE FALSE
        BY <2>4
    <3>1. j \in at /\ j \in Nat /\ i \in Nat
      BY <2>1, <2>4
    <3> QED BY <2>4, <3>1
  <2>6. PICK b \in kept : \A m \in kept : m >= b
    BY <1>5, <1>6, FirstAndLast
  <2> HIDE DEF kept, at
  <2>7. latest \in DOMAIN lines /\ lines[latest] \in kept
        /\ \A j \in DOMAIN lines : j > latest => lines[j] \notin kept
    BY <2>5
  <2>8. least \in kept /\ \A m \in kept : m >= least
    BY <2>6
  <2> QED BY <1>3, <2>7, <2>8
<1>7. last \in Reached(L) \cup {0} /\ shown \in SUBSET Lines /\ from \in 0 .. MaxLines
  <2> HIDE DEF kept, latest, least, reset, new
  <2>1. CASE kept = {}
    BY <1>2, <2>1
  <2>2. CASE kept # {}
    <3>1. least \in Lines /\ least \in 0 .. MaxLines /\ lines[latest] \in Reached(L)
      BY <1>2, <1>4, <1>6, <2>2
    <3> QED BY <1>2, <1>4, <2>2, <3>1
  <2> QED BY <2>1, <2>2
<1>8. ASSUME Shows(client, R), Rising(lines), Whole(lines, R)
      PROVE  /\ last > 0 => from \in 1 .. last
             /\ \A n \in R : from > 0 /\ from <= n /\ n <= last => n \in shown
  <2>1. CASE kept = {}
    <3>1. ~reset
      <4> SUFFICES ASSUME reset PROVE FALSE
          OBVIOUS
      <4>1. Len(lines) \in Nat \ {0}
        BY EmptySeq
      <4>2. lines[1] \in new
        BY <1>3, <4>1
      <4> QED BY <2>1, <4>2
    <3> HIDE DEF kept, latest, least, reset, new
    <3>2. last = client.last /\ shown = client.shown /\ from = IF client.last = 0 THEN 0 ELSE client.from
      BY <2>1, <3>1
    <3> HIDE DEF last, shown, from
    <3> QED BY <1>2, <1>8, <3>2 DEF Shows
  <2>2. CASE kept # {}
    <3>1. /\ lines # <<>> /\ Len(lines) \in 1 .. Len(lines) /\ 1 \in 1 .. Len(lines)
          /\ latest \in 1 .. Len(lines) /\ lines[latest] \in kept
      <4>1. latest \in 1 .. Len(lines) /\ lines[latest] \in kept
        BY <1>6, <2>2
      <4> HIDE DEF latest, kept
      <4> QED BY <1>3, <4>1, EmptySeq
    <3>2. ASSUME NEW i \in 1 .. Len(lines), NEW j \in 1 .. Len(lines), i <= j PROVE lines[i] <= lines[j]
      <4>1. lines[i] \in Nat /\ lines[j] \in Nat
        BY <1>2, <1>3
      <4>2. CASE i = j
        BY <4>1, <4>2
      <4>3. CASE i < j
        BY <1>8, <4>1, <4>3 DEF Rising
      <4>4. i = j \/ i < j
        BY <1>3, <3>2
      <4> QED BY <4>2, <4>3, <4>4
    <3>3. lines[Len(lines)] \in new /\ lines[1] \in new /\ lines[Len(lines)] \in Nat /\ lines[1] \in Nat
      BY <1>2, <1>3, <3>1
    <3>4. lines[Len(lines)] \in kept
      <4>1. lines[latest] <= lines[Len(lines)] /\ lines[latest] \in Nat
        <5>1. latest <= Len(lines)
          BY <1>3, <3>1
        <5> HIDE DEF latest
        <5> QED BY <1>2, <1>3, <3>1, <3>2, <5>1
      <4>2. CASE reset
        BY <3>3, <4>2
      <4>3. CASE ~reset
        <5>1. lines[latest] > client.last
          <6> HIDE DEF latest
          <6> QED BY <3>1, <4>3
        <5> HIDE DEF latest, reset, new
        <5>2. lines[Len(lines)] > client.last
          BY <1>2, <3>3, <4>1, <5>1
        <5> QED BY <3>3, <4>3, <5>2
      <4> QED BY <4>2, <4>3
    <3>5. latest = Len(lines)
      <4>1. ~(Len(lines) > latest)
        <5>1. \A j \in 1 .. Len(lines) : j > latest => lines[j] \notin kept
          BY <1>6, <2>2
        <5> HIDE DEF latest, kept
        <5> QED BY <3>1, <3>4, <5>1
      <4>2. latest \in 1 .. Len(lines)
        BY <3>1
      <4>3. \A i \in 1 .. Len(lines) : ~(Len(lines) > i) => i = Len(lines)
        <5>1. Len(lines) \in Nat
          BY <1>3
        <5> HIDE DEF latest, kept
        <5> QED BY <5>1
      <4> HIDE DEF latest, kept
      <4> QED BY <4>1, <4>2, <4>3
    <3>6. last = lines[Len(lines)] /\ last \in Nat /\ last >= 1
      <4>1. last = lines[Len(lines)]
        BY <2>2, <3>5
      <4>2. lines[Len(lines)] \in Lines
        BY <1>2, <1>3, <3>1
      <4> HIDE DEF last
      <4> QED BY <1>2, <4>1, <4>2
    <3>7. least \in kept /\ (\A m \in kept : m >= least) /\ least \in Nat /\ least >= 1
      <4>1. least \in kept /\ (\A m \in kept : m >= least)
        BY <1>6, <2>2
      <4> HIDE DEF least
      <4>2. least \in Lines
        BY <1>2, <1>4, <4>1
      <4> QED BY <1>2, <4>1, <4>2
    <3>8. least <= lines[Len(lines)]
      BY <3>4, <3>7
    <3> HIDE DEF latest, least
    <3>9. \A n \in R : n \in Nat /\ (lines[1] <= n /\ n <= lines[Len(lines)] => n \in new)
      <4> SUFFICES ASSUME NEW n \in R
                   PROVE  n \in Nat /\ (lines[1] <= n /\ n <= lines[Len(lines)] => n \in new)
          OBVIOUS
      <4>1. n \in Nat
        BY <1>2
      <4>2. lines[1] <= n /\ n <= lines[Len(lines)] => Has(lines, n)
        BY <1>8, <3>1 DEF Whole
      <4>3. Has(lines, n) => n \in new
        BY <1>3 DEF Has
      <4> QED BY <4>1, <4>2, <4>3
    <3>10. ASSUME NEW m \in new PROVE m \in Nat /\ lines[1] <= m
      <4>1. PICK i \in 1 .. Len(lines) : lines[i] = m
        BY <1>3
      <4> QED BY <1>2, <1>3, <3>1, <3>2, <4>1
    <3>11. CASE reset
      <4>1. kept = new /\ shown = new /\ from = least
        BY <2>2, <3>11
      <4>2. lines[1] <= least
        BY <3>7, <3>10, <4>1
      <4> HIDE DEF last, shown, from, new, kept
      <4> QED BY <3>3, <3>6, <3>7, <3>8, <3>9, <4>1, <4>2
    <3>12. CASE ~reset /\ client.last = 0
      <4>1. kept = new
        <5>1. \A n \in new : n > 0
          BY <1>2, <1>4
        <5> QED BY <3>12, <5>1
      <4>2. shown = client.shown \cup new /\ from = least
        BY <2>2, <3>12, <4>1
      <4>3. lines[1] <= least
        BY <3>7, <3>10, <4>1
      <4> HIDE DEF last, shown, from, new, kept
      <4> QED BY <3>3, <3>6, <3>7, <3>8, <3>9, <4>1, <4>2, <4>3
    <3>13. CASE ~reset /\ client.last # 0
      <4>1. /\ client.last \in Nat /\ client.last > 0 /\ client.last >= lines[1] - 1
        <5>1. client.last \in Nat /\ client.last > 0
          BY <1>2, <3>13
        <5>2. ~(client.last < lines[1] - 1)
          BY <3>1, <3>13, <5>1
        <5> QED BY <3>3, <5>1, <5>2
      <4>2. shown = client.shown \cup kept /\ from = client.from /\ kept = {n \in new : n > client.last}
        BY <3>13, <4>1
      <4>3. client.last < lines[Len(lines)]
        BY <3>4, <4>2
      <4>4. from \in 1 .. last
        <5>1. client.from \in 1 .. client.last
          BY <1>8, <4>1 DEF Shows
        <5> HIDE DEF last, shown, from, new, kept
        <5> QED BY <3>3, <3>6, <4>1, <4>2, <4>3, <5>1
      <4>5. ASSUME NEW n \in R, from > 0, from <= n, n <= last PROVE n \in shown
        <5>1. n \in Nat
          BY <3>9
        <5>2. CASE n <= client.last
          <6>1. n \in client.shown
            BY <1>8, <4>2, <4>5, <5>2 DEF Shows
          <6> QED BY <4>2, <6>1
        <5>3. CASE n > client.last
          <6>1. lines[1] <= n /\ n <= lines[Len(lines)]
            <7> HIDE DEF last, shown, from, new, kept
            <7> QED BY <3>3, <3>6, <4>1, <4>5, <5>1, <5>3
          <6>2. n \in new
            BY <3>9, <6>1
          <6>3. n \in kept
            BY <4>2, <5>3, <6>2
          <6> QED BY <4>2, <6>3
        <5> QED BY <4>1, <5>1, <5>2, <5>3
      <4> QED BY <4>4, <4>5
    <3> QED BY <3>11, <3>12, <3>13
  <2> QED BY <2>1, <2>2
<1> HIDE DEF last, shown, from
<1>9. Snapshot(lines) \in Clients(L)
  BY <1>1, <1>7 DEF Clients
<1>10. Shows(client, R) /\ Rising(lines) /\ Whole(lines, R) => Shows(Snapshot(lines), R)
  BY <1>1, <1>8 DEF Shows
<1> QED BY <1>9, <1>10

(* The initial state of the console.                                        *)
LEMMA ConsoleInitInv ==
  ConsoleInit => ConsoleInv
<1> SUFFICES ASSUME ConsoleInit PROVE ConsoleInv
    OBVIOUS
<1> USE DEF ConsoleInit
<1>1. <<>> \in Seq(Reached({})) /\ Len(<<>>) = 0
  BY EmptySeq
<1>2. ConsoleTypes
  BY <1>1, LinesAreNumbers DEF ConsoleTypes, Clients
<1>3. HoleFree
  BY <1>1 DEF HoleFree, Rising, Whole, ToTheEnd, Shows
<1> QED BY <1>2, <1>3 DEF ConsoleInv

(* What the types say stays true when more is reached.                      *)
LEMMA TypesGrow ==
  ASSUME ConsoleTypes, NEW L, Reached(logs) \subseteq Reached(L)
  PROVE  /\ \A r \in Replicas : buffer[r] \in Seq(Reached(L)) /\ onStream[r] \in Seq(Reached(L))
         /\ socket = NoSocket \/ socket \in Sockets(L)
         /\ client \in Clients(L)
         /\ recorded \in SUBSET Reached(L)
<1>1. \A s \in Seq(Reached(logs)) : s \in Seq(Reached(L))
  BY SeqMonotonic
<1>2. \A r \in Replicas : buffer[r] \in Seq(Reached(logs)) /\ onStream[r] \in Seq(Reached(logs))
  BY DEF ConsoleTypes
<1>3. socket = NoSocket \/ socket \in Sockets(L)
  <2>1. CASE socket \in Sockets(logs)
    <3>1. Seq(Reached(logs)) \subseteq Seq(Reached(L))
      BY <1>1
    <3> QED BY <2>1, <3>1 DEF Sockets
  <2> QED BY <2>1 DEF ConsoleTypes
<1> QED BY <1>1, <1>2, <1>3 DEF ConsoleTypes, Clients

(* After an insertion above all stored numbers the table has no hole.       *)
LEMMA TableHasNoHole ==
  ASSUME ConsoleTypes, HoleFree, NEW new \in SUBSET Lines, NEW more \in SUBSET new,
         \A n \in new : \A m \in logs : m < n
  PROVE  \A n \in recorded \cup more : \A m \in Trimmed(logs \cup new) :
            m <= n => n \in Trimmed(logs \cup new)
<1> SUFFICES ASSUME NEW n \in recorded \cup more, NEW m \in Trimmed(logs \cup new), m <= n
             PROVE  n \in Trimmed(logs \cup new)
    OBVIOUS
<1>1. logs \cup new \in SUBSET Lines
  BY DEF ConsoleTypes
<1>2. m \in logs \cup new
  BY <1>1, TrimmedKeepsTop
<1>3. n \in logs \cup new
  <2>1. CASE n \in more
    BY <2>1
  <2>2. CASE n \in recorded /\ m \in logs
    BY <2>2 DEF HoleFree
  <2>3. CASE n \in recorded /\ m \in new
    <3>1. PICK l \in logs : n <= l
      BY <2>3 DEF ConsoleTypes, Reached
    <3>2. l < m
      BY <2>3
    <3>3. n \in Nat /\ m \in Nat /\ l \in Nat
      BY <1>1, <2>3, LinesAreNumbers DEF ConsoleTypes, Reached
    <3> QED BY <3>1, <3>2, <3>3
  <2> QED BY <1>2, <2>1, <2>2, <2>3
<1> QED BY <1>1, <1>3, TrimmedKeepsTop

(* RecordConsoleLines takes the new lines over into a buffer that lacks     *)
(* nothing at its end.                                                      *)
LEMMA BufferTakesOver ==
  ASSUME ConsoleTypes, NEW r \in Replicas, NEW new \in SUBSET Lines
  PROVE  LET s == Last(buffer[r] \o Ascending(new), Retained)
         IN  /\ \A L : Reached(logs) \subseteq Reached(L) /\ new \subseteq Reached(L) => s \in Seq(Reached(L))
             /\ /\ Rising(buffer[r]) /\ ToTheEnd(buffer[r], recorded)
                /\ \A n \in new : \A m \in logs : m < n
                => Rising(s) /\ ToTheEnd(s, recorded \cup new)
<1> DEFINE b == buffer[r]
           a == Ascending(new)
           s == Last(b \o a, Retained)
<1>1. new \in SUBSET Nat /\ IsFiniteSet(new) /\ Retained \in Nat \ {0} /\ Cardinality(new) \in Nat
  BY LinesAreNumbers, FS_CardinalityType
<1>2. /\ a \in Seq(new) /\ Len(a) = Cardinality(new)
      /\ \A i, j \in 1 .. Cardinality(new) : i < j => a[i] < a[j]
      /\ \A n \in new : \E i \in 1 .. Cardinality(new) : a[i] = n
  BY <1>1, AscendingSorts
<1>3. b \in Seq(Reached(logs))
  BY DEF ConsoleTypes
<1> HIDE DEF a, b
<1>4. Rising(a) /\ \A n \in new : Has(a, n)
  BY <1>2 DEF Rising, Has
<1>5. ASSUME NEW L, Reached(logs) \subseteq Reached(L), new \subseteq Reached(L)
      PROVE  s \in Seq(Reached(L))
  <2>1. b \in Seq(Reached(L)) /\ a \in Seq(Reached(L))
    BY <1>2, <1>3, <1>5, SeqMonotonic
  <2>2. b \o a \in Seq(Reached(L))
    BY <2>1, ConcatProperties
  <2>3. Reached(L) \in SUBSET Nat
    BY LinesAreNumbers DEF Reached
  <2> QED BY <1>1, <2>2, <2>3, LastKeepsEnd
<1>6. ASSUME Rising(b), ToTheEnd(b, recorded), \A n \in new : \A m \in logs : m < n
      PROVE  Rising(s) /\ ToTheEnd(s, recorded \cup new)
  <2>1. b \in Seq(Lines) /\ a \in Seq(Lines) /\ Lines \in SUBSET Nat
    <3>1. Reached(logs) \subseteq Lines
      BY DEF Reached
    <3> QED BY <1>2, <1>3, <3>1, SeqMonotonic, LinesAreNumbers
  <2>2. ASSUME NEW n \in Reached(logs), NEW m \in new PROVE n < m
    <3>1. PICK l \in logs : n <= l
      BY DEF Reached
    <3>2. l < m /\ n \in Nat /\ m \in Nat /\ l \in Nat
      BY <1>6, LinesAreNumbers DEF Reached, ConsoleTypes
    <3> QED BY <3>1, <3>2
  <2>3. \A i \in 1 .. Len(b) : \A j \in 1 .. Len(a) : b[i] < a[j]
    <3> SUFFICES ASSUME NEW i \in 1 .. Len(b), NEW j \in 1 .. Len(a) PROVE b[i] < a[j]
        OBVIOUS
    <3>1. b[i] \in Reached(logs) /\ a[j] \in new
      BY <1>2, <1>3, ElementOfSeq
    <3> QED BY <2>2, <3>1
  <2> DEFINE u == b \o a
  <2>4. /\ u \in Seq(Lines) /\ Rising(u)
        /\ \A x : Has(b, x) \/ Has(a, x) => Has(u, x)
        /\ b # <<>> => u[1] = b[1]
        /\ b = <<>> => u = a
    BY <1>4, <1>6, <2>1, <2>3, JoinedRises
  <2>5. /\ Rising(s)
        /\ s # <<>> => u # <<>> /\ u[1] <= s[1]
        /\ \A x \in Nat : Has(u, x) /\ s # <<>> /\ s[1] <= x => Has(s, x)
        /\ s \in Seq(Lines)
    <3> HIDE DEF u
    <3>1. /\ Last(u, Retained) \in Seq(Lines)
          /\ Rising(u) => Rising(Last(u, Retained))
          /\ Rising(u) /\ Last(u, Retained) # <<>> => u # <<>> /\ u[1] <= Last(u, Retained)[1]
          /\ \A x \in Nat : Rising(u) /\ Has(u, x) /\ Last(u, Retained) # <<>> /\ Last(u, Retained)[1] <= x
                              => Has(Last(u, Retained), x)
      BY <1>1, <2>1, <2>4, LastKeepsEnd
    <3> QED BY <2>4, <3>1 DEF u
  <2> HIDE DEF s, u
  <2>6. ASSUME NEW n \in recorded \cup new, s # <<>>, s[1] <= n PROVE Has(s, n)
    <3>1. n \in Nat /\ (n \in recorded => n \in Reached(logs))
      BY LinesAreNumbers DEF ConsoleTypes, Reached
    <3>2. Has(u, n)
      <4>1. CASE n \in new
        BY <1>4, <2>4, <4>1
      <4>2. CASE n \in recorded /\ b # <<>>
        <5>1. u[1] = b[1] /\ u # <<>> /\ u[1] <= s[1]
          BY <2>4, <2>5, <2>6, <4>2
        <5>2. Len(u) \in Nat \ {0} /\ Len(s) \in Nat \ {0}
          BY <2>4, <2>5, <2>6, <5>1, EmptySeq
        <5>3. u[1] \in Nat /\ s[1] \in Nat
          <6>1. 1 \in 1 .. Len(u) /\ 1 \in 1 .. Len(s)
            BY <5>2
          <6>2. u[1] \in Lines /\ s[1] \in Lines
            BY <2>4, <2>5, <6>1, ElementOfSeq
          <6> QED BY <2>1, <6>2
        <5>4. b[1] <= n
          BY <2>6, <3>1, <5>1, <5>3
        <5> QED BY <1>6, <2>4, <4>2, <5>4 DEF ToTheEnd
      <4>3. CASE n \in recorded /\ b = <<>>
        <5>1. u = a /\ u # <<>> /\ u[1] <= s[1]
          BY <2>4, <2>5, <2>6, <4>3
        <5>2. Len(a) \in Nat \ {0} /\ Len(s) \in Nat \ {0}
          BY <1>2, <2>5, <2>6, <5>1, EmptySeq
        <5>3. a[1] \in new /\ s[1] \in Lines
          BY <1>2, <2>5, <5>2, ElementOfSeq
        <5>4. a[1] \in Nat /\ s[1] \in Nat
          BY <5>3, LinesAreNumbers
        <5>5. n < a[1]
          BY <2>2, <3>1, <4>3, <5>3
        <5> QED BY <2>6, <3>1, <5>1, <5>4, <5>5
      <4> QED BY <4>1, <4>2, <4>3
    <3> QED BY <2>5, <2>6, <3>1, <3>2
  <2> QED BY <2>5, <2>6 DEF ToTheEnd
<1> QED BY <1>5, <1>6 DEF a, b

(* RecordConsoleLines: an inserted batch, and one whose recording failed,   *)
(* whether or not its commit took place.                                    *)
LEMMA RecordStepInv ==
  ASSUME OneAgentReplica, ConsoleInv, NEW r \in AgentReplicas, NEW numbers \in SUBSET Lines,
         RecordConsoleLines(r, numbers), UNCHANGED viewVars,
         drawn' \in Nat, session' \in AgentReplicas \cup {None}, tailer' \in [Replicas -> Nat]
  PROVE  ConsoleInv'
<1> DEFINE new == numbers \ logs
           table == Trimmed(logs \cup new)
           above == \A n \in new : \A m \in logs : m < n
           s == Last(buffer[r] \o Ascending(new), Retained)
<1>1. /\ ConsoleTypes /\ logs \in SUBSET Lines /\ new \in SUBSET Lines /\ r \in Replicas
      /\ AgentReplicas \subseteq Replicas /\ ordered \in BOOLEAN
      /\ recorded \in SUBSET Reached(logs) /\ recorded \in SUBSET Lines
  BY ConsoleAssumption DEF ConsoleInv, ConsoleTypes, Reached
<1>2. /\ table \in SUBSET Lines /\ Reached(logs) \subseteq Reached(table) /\ new \subseteq Reached(table)
  BY <1>1, ReachedGrows
<1>3. UNCHANGED <<socket, client>>
  BY DEF viewVars
<1>4. /\ \A p \in Replicas : buffer[p] \in Seq(Reached(table)) /\ onStream[p] \in Seq(Reached(table))
      /\ socket = NoSocket \/ socket \in Sockets(table)
      /\ client \in Clients(table)
      /\ recorded \in SUBSET Reached(table)
  BY <1>1, <1>2, TypesGrow
<1>5. /\ buffer \in [Replicas -> Seq(Reached(logs))] /\ onStream \in [Replicas -> Seq(Reached(logs))]
  BY <1>1 DEF ConsoleTypes
<1>6. ASSUME HoleFree, above, NEW more \in SUBSET new
      PROVE  \A n \in recorded \cup more : \A m \in table : m <= n => n \in table
  BY <1>1, <1>6, TableHasNoHole
<1>7. ASSUME HoleFree, above
      PROVE  /\ \A p \in Replicas : Rising(buffer[p]) /\ Whole(buffer[p], recorded \cup new)
             /\ Shows(client, recorded \cup new)
  <2>1. ASSUME NEW n \in Reached(logs), NEW m \in new PROVE n < m
    <3>1. PICK l \in logs : n <= l
      BY DEF Reached
    <3>2. l < m /\ n \in Nat /\ m \in Nat /\ l \in Nat
      BY <1>1, <1>7, LinesAreNumbers DEF Reached
    <3> QED BY <3>1, <3>2
  <2>2. \A n \in Lines : n \in Nat /\ n >= 1
    BY LinesAreNumbers
  <2>3. ASSUME NEW p \in Replicas PROVE Rising(buffer[p]) /\ Whole(buffer[p], recorded \cup new)
    <3>1. Rising(buffer[p]) /\ Whole(buffer[p], recorded) /\ buffer[p] \in Seq(Reached(logs))
      BY <1>5, <1>7 DEF HoleFree
    <3>2. ASSUME buffer[p] # <<>>, NEW n \in new, n <= buffer[p][Len(buffer[p])] PROVE FALSE
      <4>1. Len(buffer[p]) \in 1 .. Len(buffer[p])
        <5>1. Len(buffer[p]) \in Nat \ {0}
          BY <3>1, <3>2, EmptySeq
        <5> QED BY <5>1
      <4>2. buffer[p][Len(buffer[p])] \in Reached(logs)
        BY <3>1, <4>1, ElementOfSeq
      <4>3. buffer[p][Len(buffer[p])] < n
        BY <2>1, <4>2
      <4>4. buffer[p][Len(buffer[p])] \in Nat /\ n \in Nat
        BY <1>1, <2>2, <4>2 DEF Reached
      <4> QED BY <3>2, <4>3, <4>4
    <3> QED BY <3>1, <3>2 DEF Whole
  <2>4. Shows(client, recorded \cup new)
    <3>1. Shows(client, recorded) /\ client.last \in Reached(logs) \cup {0}
      BY <1>1, <1>7 DEF HoleFree, ConsoleTypes, Clients
    <3>2. ASSUME NEW n \in new, n <= client.last PROVE FALSE
      <4>1. n \in Nat /\ n >= 1
        BY <1>1, <2>2
      <4>2. client.last # 0
        BY <3>2, <4>1
      <4>3. client.last < n /\ client.last \in Nat
        BY <2>1, <2>2, <3>1, <4>2 DEF Reached
      <4> QED BY <3>2, <4>1, <4>3
    <3> QED BY <3>1, <3>2 DEF Shows
  <2> QED BY <2>3, <2>4
<1>8. CASE /\ logs' = table /\ recorded' = recorded \cup new
           /\ ordered' = (ordered /\ above)
           /\ buffer' = [buffer EXCEPT ![r] = s]
           /\ \E published \in SUBSET new :
                onStream' = [p \in Replicas |-> onStream[p] \o Ascending(published)]
  <2>1. s \in Seq(Reached(table))
    BY <1>1, <1>2, BufferTakesOver
  <2>2. ASSUME NEW published \in SUBSET new, NEW p \in Replicas
        PROVE  onStream[p] \o Ascending(published) \in Seq(Reached(table))
    <3>1. published \in SUBSET Nat /\ IsFiniteSet(published)
      BY <1>1, LinesAreNumbers
    <3>2. Ascending(published) \in Seq(published)
      BY <3>1, AscendingSorts
    <3>3. Ascending(published) \in Seq(Reached(table))
      BY <1>2, <3>2, SeqMonotonic
    <3> QED BY <1>4, <3>3, ConcatProperties
  <2>3. PICK published \in SUBSET new : onStream' = [p \in Replicas |-> onStream[p] \o Ascending(published)]
    BY <1>8
  <2> HIDE DEF new, table, above, s
  <2>4. onStream' \in [Replicas -> Seq(Reached(table))]
    BY <2>2, <2>3
  <2>5. buffer' \in [Replicas -> Seq(Reached(table))]
    BY <1>1, <1>4, <1>5, <1>8, <2>1
  <2>6. ConsoleTypes'
    <3>1. recorded' \in SUBSET Reached(table) /\ ordered' \in BOOLEAN
      BY <1>2, <1>4, <1>8
    <3> QED BY <1>2, <1>3, <1>4, <1>8, <2>4, <2>5, <3>1 DEF ConsoleTypes
  <2>7. ASSUME ordered' PROVE HoleFree'
    <3>1. ordered /\ above /\ HoleFree
      BY <1>8, <2>7 DEF ConsoleInv
    <3>2. \A n \in recorded' : \A m \in logs' : m <= n => n \in logs'
      BY <1>6, <1>8, <3>1
    <3>3. Rising(s) /\ ToTheEnd(s, recorded')
      <4>1. Rising(buffer[r]) /\ ToTheEnd(buffer[r], recorded)
        BY <1>1, <3>1 DEF HoleFree
      <4> QED BY <1>1, <1>8, <3>1, <4>1, BufferTakesOver DEF s, new, above
    <3>4. Whole(s, recorded')
      BY <3>3 DEF Whole, ToTheEnd
    <3>5. \A p \in Replicas : Rising(buffer'[p]) /\ Whole(buffer'[p], recorded')
      BY <1>5, <1>7, <1>8, <3>1, <3>3, <3>4
    <3>6. \A p \in AgentReplicas : ToTheEnd(buffer'[p], recorded')
      <4>1. \A p \in AgentReplicas : p = r
        BY DEF OneAgentReplica
      <4>2. buffer'[r] = s
        BY <1>1, <1>5, <1>8
      <4> QED BY <3>3, <4>1, <4>2
    <3>7. Shows(client', recorded')
      BY <1>3, <1>7, <1>8, <3>1
    <3> QED BY <3>2, <3>5, <3>6, <3>7 DEF HoleFree
  <2> QED BY <2>6, <2>7 DEF ConsoleInv
<1>9. CASE /\ logs' = table /\ ordered' = (ordered /\ above)
           /\ UNCHANGED <<recorded, buffer, onStream>>
  <2> HIDE DEF new, table, above, s
  <2>1. ConsoleTypes'
    <3>1. buffer' \in [Replicas -> Seq(Reached(table))] /\ onStream' \in [Replicas -> Seq(Reached(table))]
      BY <1>4, <1>5, <1>9
    <3>2. ordered' \in BOOLEAN
      BY <1>9
    <3> QED BY <1>2, <1>3, <1>4, <1>9, <3>1, <3>2 DEF ConsoleTypes
  <2>2. ASSUME ordered' PROVE HoleFree'
    <3>1. ordered /\ above /\ HoleFree
      BY <1>9, <2>2 DEF ConsoleInv
    <3>2. \A n \in recorded \cup {} : \A m \in table : m <= n => n \in table
      BY <1>6, <3>1
    <3>3. \A n \in recorded' : \A m \in logs' : m <= n => n \in logs'
      BY <1>9, <3>2
    <3> QED BY <1>3, <1>9, <3>1, <3>3 DEF HoleFree
  <2> QED BY <2>1, <2>2 DEF ConsoleInv
<1>10. CASE UNCHANGED <<logs, ordered, recorded, buffer, onStream>>
  <2>1. ConsoleTypes'
    BY <1>1, <1>3, <1>10 DEF ConsoleTypes
  <2>2. ASSUME ordered' PROVE HoleFree'
    BY <1>3, <1>10, <2>2 DEF ConsoleInv, HoleFree
  <2> QED BY <2>1, <2>2 DEF ConsoleInv
<1> QED BY <1>8, <1>9, <1>10 DEF RecordConsoleLines

(* A session begins: nothing is recorded.                                   *)
LEMMA SessionStepInv ==
  ASSUME ConsoleInv, NEW r \in AgentReplicas, SessionStarts(r)
  PROVE  ConsoleInv'
<1>1. /\ drawn \in Nat /\ tailer \in [Replicas -> Nat]
  BY DEF ConsoleInv, ConsoleTypes
<1>2. PICK last \in {0, drawn} :
         \/ drawn' = last + 2 /\ tailer' = [tailer EXCEPT ![r] = last + 1]
         \/ drawn' = last /\ tailer' = [tailer EXCEPT ![r] = 0]
  BY DEF SessionStarts
<1>3. last \in Nat /\ last + 1 \in Nat /\ last + 2 \in Nat /\ 0 \in Nat
  BY <1>1
<1>4. drawn' \in Nat /\ tailer' \in [Replicas -> Nat] /\ session' \in AgentReplicas \cup {None}
  BY <1>1, <1>2, <1>3 DEF SessionStarts
<1>5. UNCHANGED <<logs, recorded, ordered, buffer, onStream, socket, client>>
  BY DEF SessionStarts, recordVars, viewVars
<1>6. ConsoleTypes'
  BY <1>4, <1>5 DEF ConsoleInv, ConsoleTypes
<1>7. ASSUME ordered' PROVE HoleFree'
  BY <1>5, <1>7 DEF ConsoleInv, HoleFree
<1> QED BY <1>6, <1>7 DEF ConsoleInv

(* The follower reports a batch, a command is echoed.                       *)
LEMMA ReportStepInv ==
  ASSUME OneAgentReplica, ConsoleInv, EchoCommand \/ \E r \in AgentReplicas : ReportLines(r)
  PROVE  ConsoleInv'
<1>1. /\ drawn \in Nat /\ session \in AgentReplicas \cup {None} /\ tailer \in [Replicas -> Nat]
      /\ None \notin Replicas /\ AgentReplicas \subseteq Replicas
      /\ MaxLines \in Nat /\ Lines = 1 .. MaxLines
  BY ReplicaAssumption, ConsoleAssumption, LinesAreNumbers DEF ConsoleInv, ConsoleTypes
<1>2. CASE EchoCommand
  <2>1. /\ session \in AgentReplicas /\ drawn + 2 \in Lines /\ drawn' = drawn + 2
        /\ RecordConsoleLines(session, {drawn + 1, drawn + 2})
        /\ UNCHANGED <<session, tailer, viewVars>>
    BY <1>1, <1>2 DEF EchoCommand, viewVars
  <2>2. {drawn + 1, drawn + 2} \in SUBSET Lines
    BY <1>1, <2>1
  <2>3. drawn' \in Nat /\ session' \in AgentReplicas \cup {None} /\ tailer' \in [Replicas -> Nat]
    BY <1>1, <2>1
  <2> QED BY <2>1, <2>2, <2>3, RecordStepInv
<1>3. CASE \E r \in AgentReplicas : ReportLines(r)
  <2>1. PICK r \in AgentReplicas : ReportLines(r)
    BY <1>3
  <2>2. PICK n \in Lines :
          /\ n >= tailer[r] /\ RecordConsoleLines(r, tailer[r] .. n)
          /\ tailer' = [tailer EXCEPT ![r] = n + 1]
    BY <2>1 DEF ReportLines
  <2>3. tailer[r] # 0 /\ UNCHANGED <<drawn, session, viewVars>>
    BY <2>1 DEF ReportLines, viewVars
  <2>4. (tailer[r] .. n) \in SUBSET Lines /\ n + 1 \in Nat
    BY <1>1, <2>3
  <2>5. drawn' \in Nat /\ session' \in AgentReplicas \cup {None} /\ tailer' \in [Replicas -> Nat]
    BY <1>1, <2>2, <2>3, <2>4
  <2> QED BY <2>2, <2>3, <2>4, <2>5, RecordStepInv
<1> QED BY <1>2, <1>3

(* A replica that restarts reads the table back, which has no hole up to    *)
(* its largest number, and nothing is recorded beyond.                      *)
LEMMA RestartStepInv ==
  ASSUME ConsoleInv, NEW r \in Replicas, ReplicaRestarts(r)
  PROVE  ConsoleInv'
<1> DEFINE a == Ascending(logs)
<1>1. /\ ConsoleTypes /\ logs \in SUBSET Lines /\ logs \in SUBSET Nat /\ IsFiniteSet(logs)
      /\ Cardinality(logs) \in Nat
  BY LinesAreNumbers, FS_CardinalityType DEF ConsoleInv, ConsoleTypes
<1>2. /\ a \in Seq(logs) /\ Len(a) = Cardinality(logs)
      /\ \A i, j \in 1 .. Cardinality(logs) : i < j => a[i] < a[j]
      /\ \A n \in logs : \E i \in 1 .. Cardinality(logs) : a[i] = n
  BY <1>1, AscendingSorts
<1>3. buffer' = [buffer EXCEPT ![r] = a] /\ UNCHANGED <<drawn, logs, recorded, ordered, client>>
  BY DEF ReplicaRestarts
<1> HIDE DEF a
<1>4. Rising(a) /\ \A n \in logs : Has(a, n)
  BY <1>2 DEF Rising, Has
<1>5. a \in Seq(Reached(logs))
  <2>1. \A n \in logs : n <= n
    BY <1>1
  <2>2. logs \subseteq Reached(logs)
    BY <1>1, <2>1 DEF Reached
  <2> QED BY <1>2, <2>2, SeqMonotonic
<1>6. ConsoleTypes'
  <2>1. buffer' \in [Replicas -> Seq(Reached(logs))]
    BY <1>1, <1>3, <1>5 DEF ConsoleTypes
  <2>2. onStream' \in [Replicas -> Seq(Reached(logs))]
    <3>1. <<>> \in Seq(Reached(logs))
      BY EmptySeq
    <3> QED BY <1>1, <3>1 DEF ReplicaRestarts, ConsoleTypes
  <2>3. socket' = NoSocket \/ socket' \in Sockets(logs)
    BY <1>1 DEF ReplicaRestarts, ConsoleTypes
  <2>4. session' \in AgentReplicas \cup {None} /\ tailer' \in [Replicas -> Nat]
    BY <1>1 DEF ReplicaRestarts, ConsoleTypes
  <2> QED BY <1>1, <1>3, <2>1, <2>2, <2>3, <2>4 DEF ConsoleTypes
<1>7. ASSUME ordered' PROVE HoleFree'
  <2>1. HoleFree
    BY <1>3, <1>7 DEF ConsoleInv
  <2>2. ToTheEnd(a, recorded)
    <3> SUFFICES ASSUME NEW n \in recorded, a # <<>>, a[1] <= n PROVE Has(a, n)
        BY DEF ToTheEnd
    <3>1. 1 \in 1 .. Len(a)
      <4>1. Len(a) \in Nat \ {0}
        BY <1>2, EmptySeq
      <4> QED BY <4>1
    <3>2. a[1] \in logs
      BY <1>2, <3>1, ElementOfSeq
    <3>3. n \in logs
      BY <2>1, <3>2 DEF HoleFree
    <3> QED BY <1>4, <3>3
  <2>3. Whole(a, recorded)
    BY <2>2 DEF Whole, ToTheEnd
  <2>4. buffer \in [Replicas -> Seq(Reached(logs))] /\ AgentReplicas \subseteq Replicas
    BY <1>1, ConsoleAssumption DEF ConsoleTypes
  <2>5. \A p \in Replicas : Rising(buffer'[p]) /\ Whole(buffer'[p], recorded)
    BY <1>3, <1>4, <2>1, <2>3, <2>4 DEF HoleFree
  <2>6. \A p \in AgentReplicas : ToTheEnd(buffer'[p], recorded)
    BY <1>3, <2>1, <2>2, <2>4 DEF HoleFree
  <2> QED BY <1>3, <2>1, <2>5, <2>6 DEF HoleFree
<1> QED BY <1>6, <1>7 DEF ConsoleInv

(* A client connects, gets its snapshot and its lines, and is cut off.      *)
LEMMA ClientStepInv ==
  ASSUME ConsoleInv,
         \/ \E r \in Replicas : consumeConsoleBroadcasts(r) \/ Connects(r)
         \/ StreamServes \/ SocketBreaks \/ AccessChanges
  PROVE  ConsoleInv'
<1> DEFINE R == Reached(logs)
<1>1. UNCHANGED <<drawn, session, tailer, recordVars>>
  BY DEF agentVars, recordVars, consumeConsoleBroadcasts, Connects, StreamServes, SendSnapshot,
         SubscribeConsoleLines, ForwardLine, Reauthorize, SocketBreaks, AccessChanges
<1>2. ConsoleTypes
  BY DEF ConsoleInv
<1>3. /\ logs \in SUBSET Lines /\ onStream \in [Replicas -> Seq(R)] /\ buffer \in [Replicas -> Seq(R)]
      /\ socket = NoSocket \/ socket \in Sockets(logs)
      /\ client \in Clients(logs) /\ recorded \in SUBSET Lines /\ R \in SUBSET Lines
  BY <1>2 DEF ConsoleTypes, Reached
<1>4. ASSUME socket' = NoSocket \/ socket' \in Sockets(logs), client' \in Clients(logs),
             onStream' \in [Replicas -> Seq(R)],
             ordered => Shows(client', recorded)
      PROVE  ConsoleInv'
  <2>1. UNCHANGED <<drawn, session, tailer, logs, recorded, ordered, buffer>>
    BY <1>1 DEF recordVars
  <2>2. ConsoleTypes'
    BY <1>2, <1>4, <2>1 DEF ConsoleTypes
  <2>3. ASSUME ordered' PROVE HoleFree'
    BY <1>4, <2>1, <2>3 DEF ConsoleInv, HoleFree
  <2> QED BY <2>2, <2>3 DEF ConsoleInv
<1>5. ordered => Shows(client, recorded)
  BY DEF ConsoleInv, HoleFree
<1>6. ASSUME NEW step, Open(step), step \in {"upgraded", "sent", "open"} PROVE socket \in Sockets(logs)
  BY <1>3, <1>6 DEF Open, NoSocket
<1>7. <<>> \in Seq(R)
  BY EmptySeq
<1> HIDE DEF R
<1>8. ASSUME NEW r \in Replicas, consumeConsoleBroadcasts(r) PROVE ConsoleInv'
  <2> USE <1>8 DEF consumeConsoleBroadcasts
  <2>1. Head(onStream[r]) \in R /\ Tail(onStream[r]) \in Seq(R)
    BY <1>3, HeadTailProperties
  <2>2. onStream' \in [Replicas -> Seq(R)]
    BY <1>3, <2>1
  <2>3. socket' = NoSocket \/ socket' \in Sockets(logs)
    <3>1. CASE socket' = socket
      BY <1>3, <3>1
    <3>2. CASE Open("open") /\ socket' = [socket EXCEPT !.channel = hubPublish(@, Head(onStream[r]))]
      <4>1. socket \in Sockets(logs)
        BY <1>6, <3>2
      <4>2. Buffered \in Nat \ {0} /\ R \in SUBSET Nat
        BY <1>3, ConsoleAssumption, LinesAreNumbers
      <4>3. socket.channel \in Seq(R)
        BY <4>1 DEF Sockets, R
      <4>4. Append(socket.channel, Head(onStream[r])) \in Seq(R)
        BY <2>1, <4>3, AppendProperties
      <4>5. hubPublish(socket.channel, Head(onStream[r])) \in Seq(R)
        BY <4>2, <4>4, LastKeepsEnd DEF hubPublish
      <4> QED BY <3>2, <4>1, <4>5 DEF Sockets, R
    <3> QED BY <3>1, <3>2
  <2> QED BY <1>3, <1>4, <1>5, <2>2, <2>3
<1>9. ASSUME NEW r \in Replicas, Connects(r) PROVE ConsoleInv'
  <2>1. socket' \in Sockets(logs)
    BY <1>7, <1>9 DEF Connects, Sockets, R
  <2> QED BY <1>3, <1>4, <1>5, <1>9, <2>1 DEF Connects
<1>10. CASE SendSnapshot
  <2> USE <1>10 DEF SendSnapshot
  <2>1. socket \in Sockets(logs)
    BY <1>6
  <2>2. socket.replica \in Replicas
    BY <2>1 DEF Sockets
  <2> DEFINE lines == buffer[socket.replica]
  <2>3. lines \in Seq(Reached(logs))
    BY <1>3, <2>2 DEF R
  <2>4. client' = Snapshot(lines)
    OBVIOUS
  <2>5. ordered => Shows(client, recorded) /\ Rising(lines) /\ Whole(lines, recorded)
    BY <2>2 DEF ConsoleInv, HoleFree
  <2> HIDE DEF lines
  <2>6. client' \in Clients(logs) /\ (ordered => Shows(client', recorded))
    BY <1>3, <2>3, <2>4, <2>5, SnapshotShows
  <2>7. socket' \in Sockets(logs)
    BY <2>1 DEF Sockets
  <2> QED BY <1>3, <1>4, <2>6, <2>7
<1>11. CASE SubscribeConsoleLines
  <2> USE <1>11 DEF SubscribeConsoleLines
  <2>1. socket \in Sockets(logs)
    BY <1>6
  <2>2. socket' \in Sockets(logs)
    BY <2>1 DEF Sockets
  <2> QED BY <1>3, <1>4, <1>5, <2>2
<1>12. CASE ForwardLine
  <2> USE <1>12 DEF ForwardLine
  <2> DEFINE n == Head(socket.channel)
  <2>1. socket \in Sockets(logs)
    BY <1>6
  <2>2. socket.channel \in Seq(R)
    BY <2>1 DEF Sockets, R
  <2>3. n \in R /\ Tail(socket.channel) \in Seq(R)
    BY <2>2, HeadTailProperties
  <2>4. CASE Gap(n)
    <3>1. socket' = NoSocket /\ client' = client /\ onStream' = onStream
      BY <2>4
    <3> QED BY <1>3, <1>4, <1>5, <3>1
  <2>5. CASE ~Gap(n)
    <3>1. socket' \in Sockets(logs)
      BY <2>1, <2>3, <2>5 DEF Sockets, R
    <3>2. client' = [last |-> IF n > client.last THEN n ELSE client.last,
                     shown |-> client.shown \cup {n},
                     from |-> IF client.last = 0 THEN n ELSE client.from]
      BY <2>5
    <3> HIDE DEF n
    <3>3. /\ client.last \in R \cup {0} /\ client.from \in 0 .. MaxLines /\ client.shown \in SUBSET Lines
          /\ MaxLines \in Nat /\ n \in Lines /\ n \in Nat /\ n >= 1 /\ n <= MaxLines /\ client.last \in Nat
      BY <1>3, <2>3, LinesAreNumbers DEF Clients, R
    <3>4. n <= client.last + 1 \/ client.last = 0
      BY <2>5, <3>3 DEF Gap
    <3>5. client' \in Clients(logs)
      BY <2>3, <3>2, <3>3 DEF Clients, R
    <3>6. ASSUME ordered PROVE Shows(client', recorded)
      <4>1. Shows(client, recorded) /\ \A m \in recorded : m \in Nat
        BY <1>3, <1>5, <3>6, LinesAreNumbers
      <4> QED BY <3>2, <3>3, <3>4, <4>1 DEF Shows
    <3> QED BY <1>3, <1>4, <3>1, <3>5, <3>6
  <2> QED BY <2>4, <2>5
<1>13. CASE Reauthorize \/ SocketBreaks \/ AccessChanges
  BY <1>3, <1>4, <1>5, <1>13 DEF Reauthorize, SocketBreaks, AccessChanges
<1> QED BY <1>8, <1>9, <1>10, <1>11, <1>12, <1>13 DEF StreamServes

(* While the agent's stream stays with one replica, what the stream makes a *)
(* browser show has no hole between recorded lines: whatever is lost        *)
(* between the snapshot and the subscription, in a full channel, on Redis   *)
(* or with a replica that restarts, the client sees the gap and starts over *)
(* (consoleStream, handler.go; ServerWorkspace.tsx:519), for any number of  *)
(* lines, sessions, commands, failed recordings, cuts and restarts, until a *)
(* low number is inserted after a larger one.                               *)
THEOREM ConsoleHasNoHole ==
  ASSUME OneAgentReplica
  PROVE  ConsoleSpec => []NoSilentGap
<1>1. ConsoleInv /\ [ConsoleNext]_consoleVars => ConsoleInv'
  <2> SUFFICES ASSUME ConsoleInv, [ConsoleNext]_consoleVars PROVE ConsoleInv'
      OBVIOUS
  <2>1. CASE ConsoleNext
    BY <2>1, SessionStepInv, ReportStepInv, RestartStepInv, ClientStepInv DEF ConsoleNext
  <2>2. CASE UNCHANGED consoleVars
    <3>1. UNCHANGED <<drawn, session, tailer, logs, recorded, ordered, buffer, onStream, socket, client>>
      BY <2>2 DEF consoleVars, agentVars, recordVars, viewVars
    <3>2. ConsoleTypes'
      BY <3>1 DEF ConsoleInv, ConsoleTypes
    <3>3. ASSUME ordered' PROVE HoleFree'
      BY <3>1, <3>3 DEF ConsoleInv, HoleFree
    <3> QED BY <3>2, <3>3 DEF ConsoleInv
  <2> QED BY <2>1, <2>2
<1>2. ConsoleInv => NoSilentGap
  BY DEF ConsoleInv, HoleFree, Shows, NoSilentGap
<1> QED BY <1>1, <1>2, ConsoleInitInv, PTL DEF ConsoleSpec
=============================================================================
