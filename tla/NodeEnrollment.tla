--------------------------- MODULE NodeEnrollment ---------------------------
(***************************************************************************)
(* How a machine becomes a node and stays one: one-time enrollment tokens  *)
(* (enrollment_tokens.go), the Enroll call of the agent gateway            *)
(* (agentrpc/server.go) with RegisterNode (postgres_entities.go), the      *)
(* credential files the agent writes one after another                     *)
(* (agent.go, ensureCredentials), the checks of a Connect call, the        *)
(* rotation of the 24-hour certificate over an open stream, and the        *)
(* revocation of a node, which an open stream meets at its next heartbeat. *)
(*                                                                         *)
(* A node is named by its unique row name.  A key is the number of the key *)
(* pair the agent generated; a certificate is the key it certifies, the    *)
(* node it names and how far its validity has run.                         *)
(***************************************************************************)
EXTENDS Naturals, FiniteSets

CONSTANTS
    Agents,      \* machines; each is configured with a name of its own
    Tokens,      \* one-time enrollment tokens an administrator may issue
    Static,      \* the registration token of the deployment, never consumed
    NoToken,     \* nothing consumed yet
    MaxNodes,    \* the workspace quota on nodes
    MaxKeys,     \* bound: key pairs certified for an agent
    MaxStops     \* bound: agent processes that stop, over a behaviour

ASSUME EnrollmentAssumption ==
    /\ Static \notin Tokens /\ NoToken \notin Tokens \cup {Static}
    /\ MaxNodes \in Nat \ {0} /\ MaxKeys \in Nat \ {0} /\ MaxStops \in Nat

VARIABLES
    configured,  \* Agents -> the token in the agent's configuration
    token,       \* Tokens -> "none", "live", "expired", "spent"
    node,        \* Agents -> "none", "active", "revoked": the row of that name
    enrolledBy,  \* Agents -> the token the row of that name was registered with
    files,       \* Agents -> [cert, key, id]: what is on the agent's disk
    machine,     \* Agents -> [at, key, cert]: where the agent's process is
    keys,        \* Agents -> key pairs certified so far
    age,         \* Agents -> [1..MaxKeys -> "fresh", "ageing", "expired"]
    asked,       \* Agents -> the server's RotateCertificate is on the stream
    stops        \* agent processes that stopped so far

enrollmentVars ==
    <<configured, token, node, enrolledBy, files, machine, keys, age, asked, stops>>

NoFile == 0
AtStart == [at |-> "start", key |-> 0, cert |-> 0]
Places == {"start", "enrolling", "consumed", "counted", "writeCert", "writeKey",
           "writeId", "connect", "connected", "signing", "rotateCert", "rotateKey"}
OnStream == {"connected", "signing", "rotateCert", "rotateKey"}

EnrollmentInit ==
    /\ configured \in [Agents -> Tokens \cup {Static}]
    /\ token = [t \in Tokens |-> "none"]
    /\ node = [a \in Agents |-> "none"]
    /\ enrolledBy = [a \in Agents |-> NoToken]
    /\ files = [a \in Agents |-> [cert |-> NoFile, key |-> NoFile, id |-> FALSE]]
    /\ machine = [a \in Agents |-> AtStart]
    /\ keys = [a \in Agents |-> 0]
    /\ age = [a \in Agents |-> [k \in 1..MaxKeys |-> "fresh"]]
    /\ asked = [a \in Agents |-> FALSE]
    /\ stops = 0

EnrollmentTypeOK ==
    /\ configured \in [Agents -> Tokens \cup {Static}]
    /\ token \in [Tokens -> {"none", "live", "expired", "spent"}]
    /\ node \in [Agents -> {"none", "active", "revoked"}]
    /\ enrolledBy \in [Agents -> Tokens \cup {Static, NoToken}]
    /\ files \in [Agents -> [cert : 0..MaxKeys, key : 0..MaxKeys, id : BOOLEAN]]
    /\ machine \in [Agents -> [at : Places, key : 0..MaxKeys, cert : 0..MaxKeys]]
    /\ keys \in [Agents -> 0..MaxKeys]
    /\ age \in [Agents -> [1..MaxKeys -> {"fresh", "ageing", "expired"}]]
    /\ asked \in [Agents -> BOOLEAN]
    /\ stops \in 0..MaxStops

(* The agent's process moves; a session that ends starts over after the     *)
(* reconnect delay, because run() loops on serveSession.                    *)
Moves(a, at) == machine' = [machine EXCEPT ![a].at = at]
Refused(a) == machine' = [machine EXCEPT ![a] = AtStart]
Restarts(a) ==
    /\ machine' = [machine EXCEPT ![a] = AtStart]
    /\ asked' = [asked EXCEPT ![a] = FALSE]

-----------------------------------------------------------------------------
(* Tokens.                                                                   *)

IssueEnrollmentToken(t) ==
    /\ token[t] = "none"
    /\ token' = [token EXCEPT ![t] = "live"]
    /\ UNCHANGED <<configured, node, enrolledBy, files, machine, keys, age, asked, stops>>

TokenExpires(t) ==
    /\ token[t] = "live"
    /\ token' = [token EXCEPT ![t] = "expired"]
    /\ UNCHANGED <<configured, node, enrolledBy, files, machine, keys, age, asked, stops>>

(* Variant: the update does not exclude a token that was consumed already.  *)
ConsumeEnrollmentTokenAgain(t) == token[t] \in {"live", "spent"}

(* One UPDATE tests the digest, the consumption and the expiry and marks    *)
(* the row: the token is consumed or the call is refused.                   *)
ConsumeEnrollmentToken(t) == token[t] = "live"

-----------------------------------------------------------------------------
(* ensureCredentials: a certificate and a key that belong together are      *)
(* reused, whatever their age; anything else on disk leads to Enroll.       *)

PairLoads(a) == files[a].cert # NoFile /\ files[a].cert = files[a].key

ensureCredentials(a) ==
    /\ machine[a].at = "start"
    /\ \/ /\ PairLoads(a)
          /\ machine' = [machine EXCEPT ![a] =
                 [at |-> "connect", key |-> files[a].key, cert |-> files[a].cert]]
       \/ /\ ~PairLoads(a) /\ keys[a] < MaxKeys
          /\ machine' = [machine EXCEPT ![a] =
                 [at |-> "enrolling", key |-> keys[a] + 1, cert |-> 0]]
    /\ UNCHANGED <<configured, token, node, enrolledBy, files, keys, age, asked, stops>>

(* Enroll: the deployment's static token is compared first; any other must  *)
(* be a one-time token, and every refusal from here on leaves it consumed.  *)
consumeEnrollmentToken(a) ==
    /\ machine[a].at = "enrolling"
    /\ LET t == configured[a] IN
         \/ /\ t = Static
            /\ Moves(a, "consumed") /\ UNCHANGED token
         \/ /\ t \in Tokens /\ ConsumeEnrollmentToken(t)
            /\ token' = [token EXCEPT ![t] = "spent"]
            /\ Moves(a, "consumed")
         \/ /\ t \in Tokens /\ ~ConsumeEnrollmentToken(t)
            /\ Refused(a) /\ UNCHANGED token
    /\ UNCHANGED <<configured, node, enrolledBy, files, keys, age, asked, stops>>

(* RegisterNode counts the nodes before it opens the transaction ...        *)
registerNodeQuota(a) ==
    /\ machine[a].at = "consumed"
    /\ IF Cardinality({b \in Agents : node[b] = "active"}) < MaxNodes
         THEN Moves(a, "counted") ELSE Refused(a)
    /\ UNCHANGED <<configured, token, node, enrolledBy, files, keys, age, asked, stops>>

(* The response carries the key of the request, signed in the name of the   *)
(* node.                                                                    *)
IssueAgentCertificateFromCSR(a, next) ==
    /\ machine' = [machine EXCEPT ![a].cert = machine[a].key, ![a].at = next]
    /\ keys' = [keys EXCEPT ![a] = machine[a].key]

(* ... that inserts the row.  The name is unique, revoked rows included.    *)
RegisterNode(a) ==
    /\ machine[a].at = "counted"
    /\ \/ /\ node[a] = "none"
          /\ node' = [node EXCEPT ![a] = "active"]
          /\ enrolledBy' = [enrolledBy EXCEPT ![a] = configured[a]]
          /\ IssueAgentCertificateFromCSR(a, "writeCert")
       \/ /\ node[a] # "none"
          /\ Refused(a) /\ UNCHANGED <<node, enrolledBy, keys>>
    /\ UNCHANGED <<configured, token, files, age, asked, stops>>

(* The certificate, the key and the node id are three writes.               *)
writeEnrolledCert(a) ==
    /\ machine[a].at = "writeCert"
    /\ files' = [files EXCEPT ![a].cert = machine[a].cert]
    /\ Moves(a, "writeKey")
    /\ UNCHANGED <<configured, token, node, enrolledBy, keys, age, asked, stops>>

writeEnrolledKey(a) ==
    /\ machine[a].at = "writeKey"
    /\ files' = [files EXCEPT ![a].key = machine[a].key]
    /\ Moves(a, "writeId")
    /\ UNCHANGED <<configured, token, node, enrolledBy, keys, age, asked, stops>>

writeNodeID(a) ==
    /\ machine[a].at = "writeId"
    /\ files' = [files EXCEPT ![a].id = TRUE]
    /\ Moves(a, "connect")
    /\ UNCHANGED <<configured, token, node, enrolledBy, keys, age, asked, stops>>

-----------------------------------------------------------------------------
(* Connect.  The handshake refuses an expired certificate; verifyPeerNode   *)
(* compares the name of the certificate with the node id of the Hello,      *)
(* which is a guess when the node-id file is missing; NodeByID refuses a    *)
(* revoked node.  A certificate with at most a fifth of its validity left   *)
(* is asked to be rotated: here, and nowhere else.                          *)

ConnectAccepted(a) ==
    /\ age[a][machine[a].cert] # "expired" /\ files[a].id /\ node[a] = "active"

Connect(a) ==
    /\ machine[a].at = "connect"
    /\ \/ /\ ConnectAccepted(a)
          /\ Moves(a, "connected")
          /\ asked' = [asked EXCEPT ![a] = age[a][machine[a].cert] = "ageing"]
       \/ /\ ~ConnectAccepted(a)
          /\ Restarts(a)
    /\ UNCHANGED <<configured, token, node, enrolledBy, files, keys, age, stops>>

(* rotateCertificate: the agent generates a key pair and sends the request. *)
rotateCertificate(a) ==
    /\ machine[a].at = "connected" /\ asked[a] /\ keys[a] < MaxKeys
    /\ asked' = [asked EXCEPT ![a] = FALSE]
    /\ machine' = [machine EXCEPT ![a].at = "signing", ![a].key = keys[a] + 1]
    /\ UNCHANGED <<configured, token, node, enrolledBy, files, keys, age, stops>>

(* handleCertificateRotation signs for the node of the stream, revoked or   *)
(* not; applyCertificateResponse writes the certificate, then the key.      *)
handleCertificateRotation(a) ==
    /\ machine[a].at = "signing"
    /\ IssueAgentCertificateFromCSR(a, "rotateCert")
    /\ UNCHANGED <<configured, token, node, enrolledBy, files, age, asked, stops>>

writeRotatedCert(a) ==
    /\ machine[a].at = "rotateCert"
    /\ files' = [files EXCEPT ![a].cert = machine[a].cert]
    /\ Moves(a, "rotateKey")
    /\ UNCHANGED <<configured, token, node, enrolledBy, keys, age, asked, stops>>

writeRotatedKey(a) ==
    /\ machine[a].at = "rotateKey"
    /\ files' = [files EXCEPT ![a].key = machine[a].key]
    /\ Moves(a, "connected")
    /\ UNCHANGED <<configured, token, node, enrolledBy, keys, age, asked, stops>>

-----------------------------------------------------------------------------
(* Variant: the heartbeat does not look the node up again.    *)
nodeRevokedAtHelloOnly(a) == FALSE

nodeRevoked(a) == node[a] = "revoked"

(* A heartbeat of an open stream: a revoked node's stream is closed.        *)
Heartbeat(a) ==
    /\ machine[a].at \in OnStream /\ nodeRevoked(a)
    /\ Restarts(a)
    /\ UNCHANGED <<configured, token, node, enrolledBy, files, keys, age, stops>>

RevokeNode(a) ==
    /\ node[a] = "active"
    /\ node' = [node EXCEPT ![a] = "revoked"]
    /\ UNCHANGED <<configured, token, enrolledBy, files, machine, keys, age, asked, stops>>

(* Environment: the process stops or loses its connection, anywhere;        *)
(* the certificate in use ages from its issue.                              *)
ProcessStops(a) ==
    /\ machine[a].at # "start" /\ stops < MaxStops
    /\ stops' = stops + 1
    /\ Restarts(a)
    /\ UNCHANGED <<configured, token, node, enrolledBy, files, keys, age>>

Ages(a) ==
    /\ LET k == IF machine[a].cert # NoFile THEN machine[a].cert ELSE files[a].cert IN
         /\ k # NoFile /\ age[a][k] # "expired"
         /\ age' = [age EXCEPT ![a][k] = IF @ = "fresh" THEN "ageing" ELSE "expired"]
    /\ UNCHANGED <<configured, token, node, enrolledBy, files, machine, keys, asked, stops>>

AgentSteps(a) ==
    \/ ensureCredentials(a) \/ consumeEnrollmentToken(a) \/ registerNodeQuota(a)
    \/ RegisterNode(a) \/ writeEnrolledCert(a) \/ writeEnrolledKey(a) \/ writeNodeID(a)
    \/ Connect(a) \/ rotateCertificate(a) \/ handleCertificateRotation(a)
    \/ writeRotatedCert(a) \/ writeRotatedKey(a) \/ Heartbeat(a)

EnrollmentNext ==
    \/ \E t \in Tokens : IssueEnrollmentToken(t) \/ TokenExpires(t)
    \/ \E a \in Agents : AgentSteps(a) \/ RevokeNode(a) \/ ProcessStops(a) \/ Ages(a)

(* The agent's loop and the gateway's handlers keep running, heartbeats are *)
(* sent every few seconds for as long as a stream is open, and time passes. *)
EnrollmentFairness ==
    \A a \in Agents : /\ WF_enrollmentVars(AgentSteps(a))
                      /\ WF_enrollmentVars(Heartbeat(a))
                      /\ WF_enrollmentVars(Ages(a))

EnrollmentSpec == EnrollmentInit /\ [][EnrollmentNext]_enrollmentVars /\ EnrollmentFairness

-----------------------------------------------------------------------------
(* A one-time token registers at most one node, whatever agents present it  *)
(* at once and however often a call whose answer was lost is repeated.      *)
TokenEnrollsOneNode ==
    \A a, b \in Agents :
      enrolledBy[a] \in Tokens /\ enrolledBy[a] = enrolledBy[b] => a = b

(* A revoked node ends up cut off for good: its open stream is closed at a  *)
(* heartbeat and neither the certificate it still holds, nor one a rotation *)
(* in flight obtains after the revocation, nor its token lets it back in.   *)
(* No revocation is undone, so this holds of all nodes from some time on.   *)
RevokedNodeStaysOut ==
    <>[](\A a \in Agents : node[a] = "revoked" => machine[a].at \notin OnStream)

(* What 05-agent-runtime.md says of an open connection: when less than a    *)
(* fifth of the validity is left, the certificate is rotated over it.       *)
RotatedOverTheConnection ==
    \A a \in Agents :
      machine[a].at = "connected" /\ age[a][machine[a].cert] = "ageing"
        ~> machine[a].at # "connected" \/ age[a][machine[a].cert] = "fresh"
=============================================================================
