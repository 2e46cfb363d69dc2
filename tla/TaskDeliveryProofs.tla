------------------------- MODULE TaskDeliveryProofs -------------------------
(***************************************************************************)
(* The way of a task to its node and back, for every set of tasks, servers *)
(* and workers and every number of faults: it implements the lease         *)
(* protocol, so that all of TaskLeaseProofs holds of it; a success that is *)
(* recorded was achieved; and the journal keeps an operation from being    *)
(* executed in two sessions of the agent, and one with secret handles from *)
(* being executed twice.                                                   *)
(***************************************************************************)
EXTENDS TaskDelivery, TaskLeaseProofs, SequenceTheorems

-----------------------------------------------------------------------------
(* The invariant.                                                           *)

(* Entries and workers as the code keeps them; a worker that is not idle    *)
(* has a lease that was granted, and so has every frame on the way.         *)
Entries == [status : {"none", "running"} \cup Terminal, digest : Nat]
WorkerRows == [pc : Pcs, lease : Fence \cup {NoLease}, ok : BOOLEAN]
Frames == [kind : {"ack", "renew", "result"}, lease : Fence, ok : BOOLEAN]

Busy(w) == worker[w].pc # "idle"

AgentTypeOK ==
    /\ link \in BOOLEAN /\ handler \in BOOLEAN /\ session \in {"off", "on", "draining"}
    /\ epoch \in Nat /\ faults \in Nat /\ sessions \in Nat
    /\ down \in Seq(Fence) /\ up \in Seq(Frames)
    /\ journal \in [Tasks -> Entries]
    /\ inflight \subseteq Tasks
    /\ worker \in [Workers -> WorkerRows]
    /\ ran \in [Tasks -> Seq(Nat)]
    /\ outcomes \in [Tasks -> SUBSET BOOLEAN]

LeasesAreGranted ==
    /\ \A i \in DOMAIN down : down[i] \in granted
    /\ \A i \in DOMAIN up : up[i].lease \in granted
    /\ \A w \in Workers : Busy(w) => worker[w].lease \in granted

(* Every session but the open one was ended by a fault, so the epochs the   *)
(* control plane counts do not run out.                                     *)
SessionsAreCounted ==
    /\ epoch <= sessions
    /\ faults <= MaxFaults
    /\ sessions <= faults + (IF link THEN 1 ELSE 0)
    /\ session # "on" => ~link
    /\ handler => epoch >= 1
    /\ session = "off" => \A w \in Workers : ~Busy(w)

(* Where a success is reported, an execution of the task succeeded.         *)
SuccessIsDone ==
    /\ SucceededMeansDone
    /\ \A i \in DOMAIN up : up[i].kind = "result" /\ up[i].ok => TRUE \in outcomes[up[i].lease.task]
    /\ \A t \in Tasks : journal[t].status = "succeeded" => TRUE \in outcomes[t]
    /\ \A w \in Workers : worker[w].pc \in {"journaled", "reply"} /\ worker[w].ok
                            => TRUE \in outcomes[worker[w].lease.task]

(* The workers that are past the journal's check, and those that recorded   *)
(* the operation.                                                           *)
Starting == {"looked", "registered", "locking"}
Recorded == {"locking", "executing", "journaled"}

(* What was executed, or is about to be, is in the journal; a worker gets   *)
(* to the executor only if the operation did not run in an earlier session. *)
JournalFirst ==
    /\ \A t \in Tasks : ran[t] # <<>> => journal[t].status # "none"
    /\ \A w \in Workers : worker[w].pc \in Recorded => journal[worker[w].lease.task].status # "none"
    /\ \A w \in Workers : worker[w].pc \in Starting =>
          \A i \in DOMAIN ran[worker[w].lease.task] : ran[worker[w].lease.task][i] = sessions
    /\ NotRunAgainAfterRestart

(* A claim is delivered once: its token is in one place.                    *)
TokensAreApart ==
    /\ \A i, j \in DOMAIN down : down[i].token = down[j].token => i = j
    /\ \A i \in DOMAIN down, w \in Workers : Busy(w) => down[i].token # worker[w].lease.token
    /\ \A v, w \in Workers : Busy(v) /\ Busy(w) /\ worker[v].lease.token = worker[w].lease.token => v = w

(* An operation with secret handles has the digest of one claim for good;   *)
(* once it was executed, nobody else holds that claim.                      *)
SecretsRunOnce ==
    /\ SecretRunsOnce
    /\ \A t \in SecretTasks : journal[t].status # "none" => journal[t].digest \in 1 .. minted
    /\ \A w \in Workers : worker[w].pc \in Recorded /\ worker[w].lease.task \in SecretTasks =>
          journal[worker[w].lease.task].digest = worker[w].lease.token
    /\ \A t \in SecretTasks : ran[t] # <<>> =>
          /\ \A i \in DOMAIN down : down[i].token # journal[t].digest
          /\ \A w \in Workers : Busy(w) /\ worker[w].lease.token = journal[t].digest
                                  => worker[w].pc \in {"executing", "journaled"}

DeliveryInv ==
    /\ AgentTypeOK /\ LeasesAreGranted /\ SessionsAreCounted
    /\ SuccessIsDone /\ JournalFirst /\ TokensAreApart /\ SecretsRunOnce

-----------------------------------------------------------------------------
(* The lease protocol.                                                      *)

(* The epoch of a handler that runs is one of the epochs.                   *)
LEMMA EpochIsOne ==
  ASSUME DeliveryInv, handler
  PROVE  epoch \in Epochs
<1>1. epoch \in 1 .. (MaxFaults + 1)
  BY TaskDeliveryAssumption DEF DeliveryInv, AgentTypeOK, SessionsAreCounted
<1> QED BY <1>1, TaskDeliveryAssumption

(* The frame the control plane handles next is of a lease it granted.       *)
LEMMA NextFrame ==
  ASSUME DeliveryInv, up # <<>>
  PROVE  /\ Head(up) \in Frames /\ Head(up).lease \in granted
         /\ Head(up).kind = "result" /\ Head(up).ok => TRUE \in outcomes[Head(up).lease.task]
<1>1. up \in Seq(Frames)
  BY DEF DeliveryInv, AgentTypeOK
<1>2. 1 \in DOMAIN up /\ Head(up) = up[1] /\ Head(up) \in Frames
  BY <1>1, HeadTailProperties, EmptySeq
<1> QED BY <1>2 DEF DeliveryInv, LeasesAreGranted, SuccessIsDone

(* Every step of the delivery is a step of the lease protocol or leaves the *)
(* task rows alone.                                                         *)
LEMMA DeliveryStepIsLeaseStep ==
  ASSUME DeliveryInv, [Next]_vars
  PROVE  [LeaseNext]_leaseVars
<1>1. CASE UNCHANGED vars
  BY <1>1 DEF vars, leaseVars
<1>2. CASE \E t \in Tasks, s \in Servers : Request(t, s)
  BY <1>2 DEF Request, LeaseNext
<1>3. CASE \E t \in Tasks : ClaimLoop(t)
  BY <1>3, EpochIsOne DEF ClaimLoop, LeaseNext
<1>4. CASE HandleFrame
  <2>1. Head(up).lease \in Presented /\ Head(up).ok \in BOOLEAN
    BY <1>4, NextFrame DEF HandleFrame, Presented, Frames
  <2> QED BY <1>4, <2>1 DEF HandleFrame, LeaseNext
<1>5. CASE Reconcile \/ \E t \in Tasks : LeaseTime(t)
  BY <1>5 DEF Reconcile, LeaseTime, LeaseNext
<1>6. CASE \/ Connect \/ Break \/ HandlerNotices \/ SessionNotices \/ SessionEnds
           \/ AgentCrashes \/ ControlPlaneRestarts
  BY <1>6 DEF Connect, Break, HandlerNotices, SessionNotices, SessionEnds, AgentCrashes,
              ControlPlaneRestarts, leaseVars
<1>7. CASE \E w \in Workers : Work(w) \/ SendRenewal(w)
  BY <1>7 DEF Work, Take, RegisterInflight, RecordRunning, StartExecution, FinishExecution,
              ReturnResult, AwaitInflight, Reply, SendRenewal, leaseVars
<1> QED BY <1>1, <1>2, <1>3, <1>4, <1>5, <1>6, <1>7 DEF Next

-----------------------------------------------------------------------------
(* What steps have in common.                                               *)

(* A granted lease names a task and carries a token that was minted.        *)
LEMMA GrantedLease ==
  ASSUME LeaseInv, NEW f \in granted
  PROVE  f \in Fence /\ f.task \in Tasks /\ f.token \in 1 .. minted /\ f.token \in Nat /\ minted \in Nat
BY DEF LeaseInv, LeaseTypeOK, GrantsArePast, Fence

(* No claim comes to a new place: the channel loses claims at its ends, and *)
(* a worker keeps the claim it has or becomes idle.                         *)
NothingNew ==
    /\ \E k \in Nat : \A i \in DOMAIN down' : i + k \in DOMAIN down /\ down'[i] = down[i + k]
    /\ \A v \in Workers : Busy(v)' => Busy(v) /\ worker'[v].lease = worker[v].lease

(* The journal forgets no operation, and no digest of one with secrets.     *)
JournalGrows ==
    /\ \A t \in Tasks : journal[t].status # "none" => journal'[t].status # "none"
    /\ \A t \in SecretTasks : journal[t].status # "none" => journal'[t].digest = journal[t].digest
    /\ \A t \in SecretTasks : journal[t].status = "none" /\ journal'[t].status # "none"
                                => journal'[t].digest \in 1 .. minted

(* No worker gets past the journal's check but in the session it passed it, *)
(* nor to the executor unless the journal has its claim, and none comes     *)
(* back from the executor.                                                  *)
WorkersAdvance ==
    /\ \A v \in Workers : worker'[v].pc \in Starting => worker[v].pc \in Starting /\ sessions' = sessions
    /\ \A v \in Workers : worker'[v].pc \in Recorded =>
          \/ worker[v].pc \in Recorded
          \/ /\ journal'[worker'[v].lease.task].status # "none"
             /\ worker'[v].lease.task \in SecretTasks =>
                  journal'[worker'[v].lease.task].digest = worker'[v].lease.token
    /\ \A v \in Workers : worker[v].pc \in {"executing", "journaled"} /\ Busy(v)' =>
          worker'[v].pc \in {"executing", "journaled"}

(* Such a step keeps what the invariant says of claims and executions.      *)
LEMMA ClaimsStayApart ==
  ASSUME LeaseInv, DeliveryInv, NothingNew, JournalGrows, WorkersAdvance,
         UNCHANGED <<granted, minted, ran>>, AgentTypeOK'
  PROVE  /\ \A i \in DOMAIN down' : down'[i] \in granted'
         /\ \A w \in Workers : Busy(w)' => worker'[w].lease \in granted'
         /\ TokensAreApart' /\ JournalFirst' /\ SecretsRunOnce'
<1>1. PICK k \in Nat : \A i \in DOMAIN down' : i + k \in DOMAIN down /\ down'[i] = down[i + k]
  BY DEF NothingNew
<1>2. \A v \in Workers : Busy(v)' => Busy(v) /\ worker'[v].lease = worker[v].lease
  BY DEF NothingNew
<1>3. \A w \in Workers : Busy(w) => worker[w].lease \in granted /\ worker[w].lease.task \in Tasks
  BY GrantedLease DEF DeliveryInv, LeasesAreGranted
<1>4. /\ \A i \in DOMAIN down' : down'[i] \in granted'
      /\ \A w \in Workers : Busy(w)' => worker'[w].lease \in granted'
  BY <1>1, <1>2 DEF DeliveryInv, LeasesAreGranted
<1>5. TokensAreApart'
  <2>1. ASSUME NEW i \in DOMAIN down', NEW j \in DOMAIN down', down'[i].token = down'[j].token
        PROVE  i = j
    <3>1. i + k \in DOMAIN down /\ j + k \in DOMAIN down /\ down[i + k].token = down[j + k].token
      BY <1>1, <2>1
    <3>2. i + k = j + k
      BY <3>1 DEF DeliveryInv, TokensAreApart
    <3>3. DOMAIN down' = 1 .. Len(down')
      BY DEF AgentTypeOK
    <3>4. i \in Int /\ j \in Int
      BY <3>3
    <3>5. \A a, b \in Int, c \in Nat : a + c = b + c => a = b
      OBVIOUS
    <3>6. k \in Nat
      OBVIOUS
    <3> QED BY <3>2, <3>4, <3>5, <3>6
  <2>2. \A i \in DOMAIN down', w \in Workers : Busy(w)' => down'[i].token # worker'[w].lease.token
    BY <1>1, <1>2 DEF DeliveryInv, TokensAreApart
  <2>3. \A v, w \in Workers : Busy(v)' /\ Busy(w)' /\ worker'[v].lease.token = worker'[w].lease.token => v = w
    BY <1>2 DEF DeliveryInv, TokensAreApart
  <2> QED BY <2>1, <2>2, <2>3 DEF TokensAreApart
<1>6. \A w \in Workers : worker'[w].pc \in Recorded \cup Starting => Busy(w)'
  BY DEF Busy, Recorded, Starting
<1>7. JournalFirst'
  <2>1. \A t \in Tasks : ran'[t] # <<>> => journal'[t].status # "none"
    BY DEF DeliveryInv, JournalFirst, JournalGrows
  <2>2. \A w \in Workers : worker'[w].pc \in Recorded => journal'[worker'[w].lease.task].status # "none"
    BY <1>2, <1>3, <1>6 DEF DeliveryInv, JournalFirst, JournalGrows, WorkersAdvance
  <2>3. \A w \in Workers : worker'[w].pc \in Starting =>
          \A i \in DOMAIN ran'[worker'[w].lease.task] : ran'[worker'[w].lease.task][i] = sessions'
    BY <1>2, <1>6 DEF DeliveryInv, JournalFirst, WorkersAdvance
  <2>4. NotRunAgainAfterRestart'
    BY DEF DeliveryInv, JournalFirst, NotRunAgainAfterRestart
  <2> QED BY <2>1, <2>2, <2>3, <2>4 DEF JournalFirst
<1>8. SecretsRunOnce'
  <2> USE TaskDeliveryAssumption
  <2>1. SecretRunsOnce'
    BY DEF DeliveryInv, SecretsRunOnce, SecretRunsOnce
  <2>2. \A t \in SecretTasks : journal'[t].status # "none" => journal'[t].digest \in 1 .. minted'
    BY DEF DeliveryInv, SecretsRunOnce, JournalGrows
  <2>3. \A w \in Workers : worker'[w].pc \in Recorded /\ worker'[w].lease.task \in SecretTasks =>
          journal'[worker'[w].lease.task].digest = worker'[w].lease.token
    BY <1>2, <1>3, <1>6 DEF DeliveryInv, SecretsRunOnce, JournalFirst, JournalGrows, WorkersAdvance
  <2>4. ASSUME NEW t \in SecretTasks, ran'[t] # <<>>
        PROVE  /\ \A i \in DOMAIN down' : down'[i].token # journal'[t].digest
               /\ \A w \in Workers : Busy(w)' /\ worker'[w].lease.token = journal'[t].digest
                                       => worker'[w].pc \in {"executing", "journaled"}
    <3>1. journal'[t].digest = journal[t].digest /\ ran[t] # <<>>
      BY <2>4 DEF DeliveryInv, JournalFirst, JournalGrows
    <3>2. \A i \in DOMAIN down' : down'[i].token # journal'[t].digest
      BY <1>1, <3>1 DEF DeliveryInv, SecretsRunOnce
    <3>3. \A w \in Workers : Busy(w)' /\ worker'[w].lease.token = journal'[t].digest
                               => worker'[w].pc \in {"executing", "journaled"}
      BY <1>2, <3>1 DEF DeliveryInv, SecretsRunOnce, WorkersAdvance
    <3> QED BY <3>2, <3>3
  <2> QED BY <2>1, <2>2, <2>3, <2>4 DEF SecretsRunOnce
<1> QED BY <1>4, <1>5, <1>7, <1>8

(* A frame of a granted lease, that reports no success without an execution.*)
FrameSound(m) ==
    /\ m \in Frames /\ m.lease \in granted
    /\ m.kind = "result" /\ m.ok => TRUE \in outcomes[m.lease.task]

(* Send adds sound frames to sound frames, or loses them.                   *)
LEMMA SendKeeps ==
  ASSUME DeliveryInv, NEW frames \in Seq(Frames), Send(frames),
         \A j \in DOMAIN frames : FrameSound(frames[j])
  PROVE  /\ up' \in Seq(Frames)
         /\ \A i \in DOMAIN up' : FrameSound(up'[i])
<1>1. up \in Seq(Frames) /\ \A i \in DOMAIN up : FrameSound(up[i])
  <2>1. up \in Seq(Frames)
    BY DEF DeliveryInv, AgentTypeOK
  <2>2. \A i \in DOMAIN up : up[i] \in Frames
    BY <2>1
  <2> QED BY <2>1, <2>2 DEF DeliveryInv, LeasesAreGranted, SuccessIsDone, FrameSound
<1>2. CASE ~link
  BY <1>1, <1>2 DEF Send
<1>3. CASE link
  <2>1. up' = up \o frames
    BY <1>3 DEF Send
  <2>2. /\ up \o frames \in Seq(Frames)
        /\ Len(up \o frames) = Len(up) + Len(frames)
        /\ \A i \in 1 .. Len(up) + Len(frames) : (up \o frames)[i] =
              IF i <= Len(up) THEN up[i] ELSE frames[i - Len(up)]
    BY <1>1, ConcatProperties
  <2>3. ASSUME NEW i \in DOMAIN up' PROVE FrameSound(up'[i])
    <3>1. i \in 1 .. Len(up) + Len(frames) /\ Len(up) \in Nat /\ Len(frames) \in Nat
      BY <1>1, <2>1, <2>2, LenProperties
    <3>2. CASE i <= Len(up)
      BY <1>1, <2>1, <2>2, <3>1, <3>2, LenProperties
    <3>3. CASE ~(i <= Len(up))
      <4>1. i - Len(up) \in DOMAIN frames /\ up'[i] = frames[i - Len(up)]
        BY <2>1, <2>2, <3>1, <3>3, LenProperties
      <4> QED BY <4>1
    <3> QED BY <3>2, <3>3
  <2> QED BY <2>1, <2>2, <2>3
<1> QED BY <1>2, <1>3

(* One frame, or two.                                                       *)
LEMMA SendOne ==
  ASSUME DeliveryInv, NEW m, FrameSound(m), Send(<<m>>)
  PROVE  up' \in Seq(Frames) /\ \A i \in DOMAIN up' : FrameSound(up'[i])
<1>1. <<m>> \in Seq(Frames) /\ \A j \in DOMAIN <<m>> : FrameSound(<<m>>[j])
  <2>1. m \in Frames
    BY DEF FrameSound
  <2>2. DOMAIN <<m>> = {1} /\ <<m>>[1] = m
    OBVIOUS
  <2> QED BY <2>1, <2>2
<1> QED BY <1>1, SendKeeps

(* The ack and the result of a replayed operation.                          *)
LEMMA SendTwo ==
  ASSUME DeliveryInv, NEW m, FrameSound(m), NEW n, FrameSound(n), Send(<<m, n>>)
  PROVE  up' \in Seq(Frames) /\ \A i \in DOMAIN up' : FrameSound(up'[i])
<1>1. <<m, n>> \in Seq(Frames) /\ \A j \in DOMAIN <<m, n>> : FrameSound(<<m, n>>[j])
  <2>1. m \in Frames /\ n \in Frames
    BY DEF FrameSound
  <2>2. DOMAIN <<m, n>> = {1, 2} /\ <<m, n>>[1] = m /\ <<m, n>>[2] = n
    OBVIOUS
  <2> QED BY <2>1, <2>2
<1> QED BY <1>1, SendKeeps

(* The frames a worker sends for its lease.                                 *)
LEMMA WorkerFrames ==
  ASSUME LeaseInv, NEW f \in granted, NEW ok \in BOOLEAN
  PROVE  /\ FrameSound(Ack(f)) /\ FrameSound(RejectAck(f))
         /\ FrameSound(Frame("renew", f, TRUE))
         /\ (ok => TRUE \in outcomes[f.task]) => FrameSound(Result(f, ok))
<1>1. f \in Fence
  BY GrantedLease
<1> QED BY <1>1 DEF FrameSound, Ack, RejectAck, Result, Frame, Frames

(* The parts of the invariant put together after a step of the agent.       *)
LEMMA AgentInvAgain ==
  ASSUME LeaseInv, DeliveryInv, NothingNew, JournalGrows, WorkersAdvance,
         UNCHANGED <<granted, minted, ran>>,
         AgentTypeOK', SessionsAreCounted',
         \A t \in Tasks : outcomes[t] \subseteq outcomes'[t],
         \A t \in Tasks : tasks'[t].status = "succeeded" => tasks[t].status = "succeeded" \/ TRUE \in outcomes'[t],
         \A i \in DOMAIN up' : FrameSound(up'[i]),
         \A t \in Tasks : journal'[t].status = "succeeded" =>
            journal[t].status = "succeeded" \/ TRUE \in outcomes'[t],
         \A w \in Workers : worker'[w].pc \in {"journaled", "reply"} /\ worker'[w].ok =>
            worker'[w] = worker[w] \/ TRUE \in outcomes'[worker'[w].lease.task]
  PROVE  DeliveryInv'
<1>1. /\ \A i \in DOMAIN down' : down'[i] \in granted'
      /\ \A w \in Workers : Busy(w)' => worker'[w].lease \in granted'
      /\ TokensAreApart' /\ JournalFirst' /\ SecretsRunOnce'
  BY ClaimsStayApart
<1>2. LeasesAreGranted'
  BY <1>1 DEF LeasesAreGranted, FrameSound
<1>3. SuccessIsDone'
  <2>1. SucceededMeansDone'
    BY DEF DeliveryInv, SuccessIsDone, SucceededMeansDone
  <2>2. \A i \in DOMAIN up' : up'[i].kind = "result" /\ up'[i].ok => TRUE \in outcomes'[up'[i].lease.task]
    BY GrantedLease DEF FrameSound
  <2>3. \A t \in Tasks : journal'[t].status = "succeeded" => TRUE \in outcomes'[t]
    BY DEF DeliveryInv, SuccessIsDone
  <2>4. ASSUME NEW w \in Workers, worker'[w].pc \in {"journaled", "reply"}, worker'[w].ok
        PROVE  TRUE \in outcomes'[worker'[w].lease.task]
    <3>1. CASE worker'[w] = worker[w]
      <4>1. worker[w].lease \in granted
        BY <2>4, <3>1 DEF DeliveryInv, LeasesAreGranted, Busy
      <4>2. worker[w].lease.task \in Tasks
        BY <4>1, GrantedLease
      <4> QED BY <2>4, <3>1, <4>2 DEF DeliveryInv, SuccessIsDone
    <3> QED BY <2>4, <3>1
  <2> QED BY <2>1, <2>2, <2>3, <2>4 DEF SuccessIsDone
<1> QED BY <1>1, <1>2, <1>3 DEF DeliveryInv

-----------------------------------------------------------------------------
(* The steps.                                                               *)

(* Nothing is on its way at the start.                                      *)
LEMMA DeliveryInitInv ==
  DeliveryInit => DeliveryInv
<1> SUFFICES ASSUME DeliveryInit PROVE DeliveryInv
    OBVIOUS
<1> USE TaskDeliveryAssumption DEF DeliveryInit
<1>1. /\ \A t \in Tasks : tasks[t].status = "absent"
      /\ minted = 0 /\ granted = {}
  BY DEF LeaseInit
<1>2. NoLease \in Fence \cup {NoLease} /\ Idle \in WorkerRows /\ Idle.pc = "idle"
  BY DEF Idle, WorkerRows, Pcs
<1>3. NoEntry \in Entries /\ NoEntry.status = "none"
  BY DEF NoEntry, Entries
<1>4. AgentTypeOK
  <2>1. <<>> \in Seq(Fence) /\ <<>> \in Seq(Frames) /\ <<>> \in Seq(Nat)
    OBVIOUS
  <2>2. NoEpoch \in Nat
    BY DEF NoEpoch
  <2>3. worker \in [Workers -> WorkerRows] /\ journal \in [Tasks -> Entries]
    BY <1>2, <1>3
  <2>4. ran \in [Tasks -> Seq(Nat)] /\ outcomes \in [Tasks -> SUBSET BOOLEAN]
    BY <2>1
  <2>5. down \in Seq(Fence) /\ up \in Seq(Frames) /\ epoch \in Nat
    BY <2>1, <2>2
  <2>6. /\ link \in BOOLEAN /\ handler \in BOOLEAN /\ session \in {"off", "on", "draining"}
        /\ faults \in Nat /\ sessions \in Nat /\ inflight \subseteq Tasks
    OBVIOUS
  <2> QED BY <2>3, <2>4, <2>5, <2>6 DEF AgentTypeOK
<1>5. \A w \in Workers : worker[w].pc = "idle"
  BY <1>2
<1>6. LeasesAreGranted /\ SessionsAreCounted /\ TokensAreApart
  <2>1. DOMAIN down = {} /\ DOMAIN up = {}
    OBVIOUS
  <2>2. LeasesAreGranted /\ TokensAreApart
    BY <1>5, <2>1 DEF LeasesAreGranted, TokensAreApart, Busy
  <2>3. SessionsAreCounted
    BY <1>5 DEF SessionsAreCounted, Busy, NoEpoch
  <2> QED BY <2>2, <2>3
<1>7. SuccessIsDone
  <2>1. DOMAIN up = {}
    OBVIOUS
  <2>2. \A t \in Tasks : journal[t].status = "none"
    BY <1>3
  <2> QED BY <1>1, <1>5, <2>1, <2>2 DEF SuccessIsDone, SucceededMeansDone
<1>8. JournalFirst
  BY <1>5 DEF JournalFirst, NotRunAgainAfterRestart, Recorded, Starting
<1>9. SecretsRunOnce
  BY <1>3, <1>5 DEF SecretsRunOnce, SecretRunsOnce, Recorded, Busy
<1> QED BY <1>4, <1>6, <1>7, <1>8, <1>9 DEF DeliveryInv

(* The facts of the invariant a step starts from.                           *)
LEMMA BeforeStep ==
  ASSUME DeliveryInv
  PROVE  /\ link \in BOOLEAN /\ handler \in BOOLEAN /\ session \in {"off", "on", "draining"}
         /\ epoch \in Nat /\ faults \in Nat /\ sessions \in Nat /\ MaxFaults \in Nat
         /\ down \in Seq(Fence) /\ up \in Seq(Frames)
         /\ journal \in [Tasks -> Entries] /\ inflight \subseteq Tasks
         /\ worker \in [Workers -> WorkerRows]
         /\ ran \in [Tasks -> Seq(Nat)] /\ outcomes \in [Tasks -> SUBSET BOOLEAN]
         /\ \A i \in DOMAIN up : FrameSound(up[i])
<1>1. up \in Seq(Frames)
  BY DEF DeliveryInv, AgentTypeOK
<1>2. \A i \in DOMAIN up : up[i] \in Frames
  BY <1>1
<1>3. \A i \in DOMAIN up : FrameSound(up[i])
  BY <1>2 DEF DeliveryInv, LeasesAreGranted, SuccessIsDone, FrameSound
<1> QED BY <1>3, TaskDeliveryAssumption DEF DeliveryInv, AgentTypeOK

(* A prefix of the channel, a channel that is emptied, and one that stays.  *)
LEMMA DownShrinks ==
  ASSUME down \in Seq(Fence),
         \/ down' = down \/ down' = <<>>
         \/ \E k \in 0 .. Len(down) : down' = SubSeq(down, 1, k)
  PROVE  /\ down' \in Seq(Fence)
         /\ \A i \in DOMAIN down' : i + 0 \in DOMAIN down /\ down'[i] = down[i + 0]
<1>1. DOMAIN down = 1 .. Len(down) /\ Len(down) \in Nat
  OBVIOUS
<1>2. CASE down' = down
  BY <1>1, <1>2
<1>3. CASE down' = <<>>
  BY <1>3
<1>4. CASE \E k \in 0 .. Len(down) : down' = SubSeq(down, 1, k)
  <2>1. PICK k \in 0 .. Len(down) : down' = SubSeq(down, 1, k)
    BY <1>4
  <2>2. k \in Int /\ 1 \in Int /\ \A i \in 1 .. k : down[i] \in Fence
    <3>1. k \in Nat /\ k <= Len(down)
      BY <1>1
    <3>2. 1 .. k \subseteq DOMAIN down
      BY <1>1, <3>1
    <3> QED BY <3>1, <3>2
  <2>3. /\ SubSeq(down, 1, k) \in Seq(Fence)
        /\ Len(SubSeq(down, 1, k)) = IF 1 <= k THEN k - 1 + 1 ELSE 0
        /\ \A i \in 1 .. k - 1 + 1 : SubSeq(down, 1, k)[i] = down[1 + i - 1]
    BY <2>2, SubSeqProperties
  <2>4. down' \in Seq(Fence) /\ DOMAIN down' = 1 .. k /\ \A i \in 1 .. k : down'[i] = down[i]
    BY <2>1, <2>2, <2>3, LenProperties
  <2>5. k \in Nat /\ k <= Len(down)
    BY <1>1
  <2>6. \A i \in 1 .. k : i + 0 = i /\ i \in 1 .. Len(down)
    BY <1>1, <2>5
  <2>7. \A i \in DOMAIN down' : i + 0 \in DOMAIN down /\ down'[i] = down[i + 0]
    BY <1>1, <2>4, <2>6
  <2> QED BY <2>4, <2>7
<1> QED BY <1>2, <1>3, <1>4

(* The connection opens, breaks and is noticed; processes die.              *)
LEMMA ConnectionStepInv ==
  ASSUME LeaseInv, DeliveryInv,
         \/ Connect \/ Break \/ HandlerNotices \/ SessionNotices \/ SessionEnds
         \/ AgentCrashes \/ ControlPlaneRestarts
  PROVE  DeliveryInv'
<1> USE DEF Connect, Break, HandlerNotices, SessionNotices, SessionEnds, AgentCrashes,
            ControlPlaneRestarts, Fault, leaseVars
<1>1. UNCHANGED <<tasks, granted, minted, journal, ran, outcomes>>
  OBVIOUS
<1>2. down' = down \/ down' = <<>> \/ \E k \in 0 .. Len(down) : down' = SubSeq(down, 1, k)
  OBVIOUS
<1>3. up' = up \/ up' = <<>>
  OBVIOUS
<1>4. Idle \in WorkerRows /\ Idle.pc = "idle"
  BY DEF Idle, WorkerRows, Pcs
<1>5. worker' = worker \/ worker' = [w \in Workers |-> Idle]
  OBVIOUS
<1>6. inflight' \subseteq Tasks /\ link' \in BOOLEAN /\ handler' \in BOOLEAN
      /\ session' \in {"off", "on", "draining"}
  BY BeforeStep
<1>7. epoch' \in Nat /\ faults' \in Nat /\ sessions' \in Nat
  BY BeforeStep DEF NoEpoch
<1>8. \A w \in Workers : worker'[w] = worker[w] \/ worker'[w].pc = "idle"
  BY <1>4, <1>5
<1>9. SessionsAreCounted'
  <2>1. SessionsAreCounted
    BY DEF DeliveryInv
  <2>2. session' = "off" => \A w \in Workers : worker'[w].pc = "idle"
    BY <1>4, <1>5, <2>1 DEF SessionsAreCounted, Busy
  <2>3. /\ epoch' <= sessions' /\ faults' <= MaxFaults
        /\ sessions' <= faults' + (IF link' THEN 1 ELSE 0)
        /\ session' # "on" => ~link'
        /\ handler' => epoch' >= 1
    BY <2>1, BeforeStep DEF SessionsAreCounted, NoEpoch
  <2> QED BY <2>2, <2>3 DEF SessionsAreCounted, Busy
<1>10. sessions' = sessions \/ \A w \in Workers : worker[w].pc = "idle" /\ worker' = worker
  BY DEF DeliveryInv, SessionsAreCounted, Busy
<1> HIDE DEF Connect, Break, HandlerNotices, SessionNotices, SessionEnds, AgentCrashes,
             ControlPlaneRestarts, Fault
<1>11. down' \in Seq(Fence) /\ \A i \in DOMAIN down' : i + 0 \in DOMAIN down /\ down'[i] = down[i + 0]
  <2>1. down \in Seq(Fence)
    BY BeforeStep
  <2> QED BY <1>2, <2>1, DownShrinks
<1>12. up' \in Seq(Frames) /\ \A i \in DOMAIN up' : FrameSound(up'[i])
  <2>1. CASE up' = up
    BY <2>1, BeforeStep
  <2>2. CASE up' = <<>>
    BY <2>2
  <2> QED BY <1>3, <2>1, <2>2
<1>13. worker' \in [Workers -> WorkerRows]
  BY <1>4, <1>5, BeforeStep
<1>14. AgentTypeOK'
  BY <1>1, <1>6, <1>7, <1>11, <1>12, <1>13, BeforeStep DEF AgentTypeOK
<1>15. NothingNew
  BY <1>8, <1>11 DEF NothingNew, Busy
<1>16. JournalGrows
  BY <1>1 DEF JournalGrows
<1>17. WorkersAdvance
  BY <1>8, <1>10 DEF WorkersAdvance, Starting, Recorded, Busy
<1>18. \A w \in Workers : worker'[w].pc \in {"journaled", "reply"} => worker'[w] = worker[w]
  BY <1>8
<1> QED BY <1>1, <1>9, <1>12, <1>14, <1>15, <1>16, <1>17, <1>18, AgentInvAgain

(* The rows a message of the protocol may leave succeeded.                  *)
LEMMA OnlyResultsSucceed ==
  ASSUME LeaseInv, NEW f \in granted,
         \/ AckAccepted(f) \/ AckRejected(f) \/ RenewTaskLease(f)
         \/ \E ok \in BOOLEAN : CompleteTask(f, ok) /\ (ok => TRUE \in outcomes[f.task])
  PROVE  /\ UNCHANGED <<granted, minted>>
         /\ \A t \in Tasks : tasks'[t].status = "succeeded" =>
              tasks[t].status = "succeeded" \/ TRUE \in outcomes[t]
<1>1. tasks \in [Tasks -> Row] /\ f.task \in Tasks
  BY GrantedLease DEF LeaseInv, LeaseTypeOK
<1>2. tasks[f.task] \in Row /\ tasks[f.task].status \in {"absent"} \cup Active \cup Terminal
  BY <1>1 DEF Row
<1>3. /\ Renewed(tasks[f.task], "running").status = "running"
      /\ Renewed(tasks[f.task], tasks[f.task].status).status = tasks[f.task].status
      /\ Released(tasks[f.task], "failed").status = "failed"
  BY <1>2, RowUpdates DEF Active, Open, Terminal
<1>4. CASE AckAccepted(f)
  BY <1>1, <1>3, <1>4 DEF AckAccepted
<1>5. CASE AckRejected(f)
  BY <1>1, <1>3, <1>5 DEF AckRejected
<1>6. CASE RenewTaskLease(f)
  BY <1>1, <1>3, <1>6 DEF RenewTaskLease
<1>7. ASSUME NEW ok \in BOOLEAN, CompleteTask(f, ok), ok => TRUE \in outcomes[f.task]
      PROVE  /\ UNCHANGED <<granted, minted>>
             /\ \A t \in Tasks : tasks'[t].status = "succeeded" =>
                  tasks[t].status = "succeeded" \/ TRUE \in outcomes[t]
  <2>1. CASE ok
    BY <1>1, <1>7, <2>1 DEF CompleteTask
  <2>2. CASE ~ok
    BY <1>1, <1>3, <1>7, <2>2 DEF CompleteTask
  <2> QED BY <2>1, <2>2
<1> QED BY <1>4, <1>5, <1>6, <1>7

(* The control plane: requests, lapses, the reconciler and the frames of    *)
(* the agent.                                                               *)
LEMMA ControlPlaneStepInv ==
  ASSUME LeaseInv, DeliveryInv,
         \/ \E t \in Tasks, s \in Servers : Request(t, s)
         \/ HandleFrame \/ Reconcile
         \/ \E t \in Tasks : LeaseTime(t)
  PROVE  DeliveryInv'
<1>1. UNCHANGED <<link, handler, epoch, session, down, journal, inflight, worker, faults,
                  sessions, ran, outcomes>>
  BY DEF Request, HandleFrame, Reconcile, LeaseTime, agentVars
<1> DEFINE RowsAreSound ==
             /\ UNCHANGED <<granted, minted>>
             /\ \A t \in Tasks : tasks'[t].status = "succeeded" =>
                  tasks[t].status = "succeeded" \/ TRUE \in outcomes[t]
<1>2. RowsAreSound
  <2>1. tasks \in [Tasks -> Row]
    BY DEF LeaseInv, LeaseTypeOK
  <2>2. ASSUME NEW t \in Tasks, NEW s \in Servers, Request(t, s) PROVE RowsAreSound
    BY <2>1, <2>2 DEF Request, EnqueueTask
  <2>3. ASSUME NEW t \in Tasks, LeaseTime(t) PROVE RowsAreSound
    <3>1. tasks[t] \in Row
      BY <2>1
    <3>2. [tasks[t] EXCEPT !.expired = TRUE].status = tasks[t].status
      BY <3>1 DEF Row
    <3> QED BY <2>1, <2>3, <3>2 DEF LeaseTime, LeaseLapses
  <2>4. CASE Reconcile
    <3>1. \A t \in Tasks : /\ Released(tasks[t], "queued").status = "queued"
                           /\ Released(tasks[t], "failed").status = "failed"
      BY <2>1, RowUpdates DEF Active, Terminal
    <3> QED BY <2>4, <3>1 DEF Reconcile, RequeueLapsed, FailExhausted
  <2>5. CASE HandleFrame
    <3> DEFINE m == Head(up)
    <3>1. m.lease \in granted /\ m.ok \in BOOLEAN /\ (m.kind = "result" /\ m.ok => TRUE \in outcomes[m.lease.task])
      BY <2>5, NextFrame DEF HandleFrame, Frames
    <3>2. \/ UNCHANGED leaseVars
          \/ AckAccepted(m.lease) \/ AckRejected(m.lease) \/ RenewTaskLease(m.lease)
          \/ CompleteTask(m.lease, m.ok) /\ (m.ok => TRUE \in outcomes[m.lease.task])
      BY <2>5, <3>1 DEF HandleFrame
    <3> HIDE DEF m
    <3> QED BY <3>1, <3>2, OnlyResultsSucceed DEF leaseVars
  <2> QED BY <2>2, <2>3, <2>4, <2>5
<1>3. up' \in Seq(Frames) /\ \A i \in DOMAIN up' : FrameSound(up'[i])
  <2>1. CASE up' = up
    BY <2>1, BeforeStep
  <2>2. CASE HandleFrame
    <3>1. /\ up \in Seq(Frames) /\ up # <<>> /\ up' = Tail(up)
          /\ \A i \in DOMAIN up : FrameSound(up[i])
      BY <2>2, BeforeStep DEF HandleFrame
    <3>2. /\ Tail(up) \in Seq(Frames) /\ Len(Tail(up)) = Len(up) - 1
          /\ \A i \in 1 .. Len(Tail(up)) : Tail(up)[i] = up[i + 1]
      BY <3>1, HeadTailProperties
    <3>3. \A i \in DOMAIN Tail(up) : i + 1 \in DOMAIN up /\ Tail(up)[i] = up[i + 1]
      BY <3>1, <3>2, LenProperties
    <3> QED BY <3>1, <3>2, <3>3
  <2> QED BY <2>1, <2>2 DEF Request, Reconcile, LeaseTime, agentVars
<1>4. AgentTypeOK'
  BY <1>1, <1>3, BeforeStep DEF AgentTypeOK
<1>5. SessionsAreCounted'
  BY <1>1 DEF DeliveryInv, SessionsAreCounted, Busy
<1>6. NothingNew
  <2>1. \A i \in DOMAIN down' : i + 0 \in DOMAIN down /\ down'[i] = down[i + 0]
    BY <1>1, BeforeStep, DownShrinks
  <2> QED BY <1>1, <2>1 DEF NothingNew, Busy
<1>7. JournalGrows
  BY <1>1 DEF JournalGrows
<1>8. WorkersAdvance
  BY <1>1 DEF WorkersAdvance
<1> QED BY <1>1, <1>2, <1>3, <1>4, <1>5, <1>6, <1>7, <1>8, AgentInvAgain

(* A claim mints a token nobody has, and sends it to the agent.             *)
LEMMA ClaimStepInv ==
  ASSUME LeaseInv, LeaseInv', DeliveryInv, NEW t \in Tasks, ClaimLoop(t)
  PROVE  DeliveryInv'
<1> DEFINE g == [task |-> t, node |-> NodeOf[ServerOf(t)], epoch |-> epoch,
                 attempt |-> tasks[t].attempt + 1, token |-> minted + 1]
<1>1. /\ minted \in Nat /\ minted' = minted + 1
      /\ granted' = granted \cup {g} /\ g.token = minted + 1
  BY DEF ClaimLoop, ClaimTask, ServerOf, LeaseInv, LeaseTypeOK
<1>2. g \in Fence
  BY <1>1 DEF LeaseInv, LeaseTypeOK
<1>3. down' = IF link THEN Append(down, g) ELSE down
  BY DEF ClaimLoop
<1>4. UNCHANGED <<link, handler, epoch, session, up, journal, inflight, worker, faults,
                  sessions, ran, outcomes>>
  BY DEF ClaimLoop
<1>5. \A u \in Tasks : tasks'[u].status = "succeeded" => tasks[u].status = "succeeded"
  <2>1. tasks \in [Tasks -> Row] /\ tasks[t] \in Row
    BY DEF LeaseInv, LeaseTypeOK
  <2>2. [tasks[t] EXCEPT !.status = "leased", !.attempt = tasks[t].attempt + 1,
                         !.token = minted + 1, !.epoch = epoch, !.expired = FALSE].status = "leased"
    BY <2>1 DEF Row
  <2> QED BY <2>1, <2>2 DEF ClaimLoop, ClaimTask
<1> HIDE DEF g
<1>6. /\ down' \in Seq(Fence)
      /\ \A i \in DOMAIN down' : \/ i \in DOMAIN down /\ down'[i] = down[i]
                                 \/ i = Len(down) + 1 /\ down'[i] = g
  <2>1. down \in Seq(Fence) /\ link \in BOOLEAN /\ Len(down) \in Nat
    BY BeforeStep, LenProperties
  <2>2. CASE link
    <3>1. /\ Append(down, g) \in Seq(Fence)
          /\ Len(Append(down, g)) = Len(down) + 1
          /\ \A i \in 1 .. Len(down) : Append(down, g)[i] = down[i]
          /\ Append(down, g)[Len(down) + 1] = g
      BY <1>2, <2>1, AppendProperties
    <3>2. down' = Append(down, g)
      BY <1>3, <2>2
    <3>3. DOMAIN down' = 1 .. (Len(down) + 1) /\ DOMAIN down = 1 .. Len(down)
      BY <2>1, <3>1, <3>2, LenProperties
    <3>4. \A i \in 1 .. (Len(down) + 1) : i \in 1 .. Len(down) \/ i = Len(down) + 1
      BY <2>1
    <3> QED BY <3>1, <3>2, <3>3, <3>4
  <2>3. CASE ~link
    BY <1>3, <2>1, <2>3
  <2> QED BY <2>2, <2>3
<1>7. /\ \A i \in DOMAIN down : down[i] \in granted /\ down[i].token # g.token
      /\ \A w \in Workers : Busy(w) => worker[w].lease \in granted /\ worker[w].lease.token # g.token
  <2>1. \A f \in granted : f.token # g.token
    BY <1>1, GrantedLease
  <2> QED BY <2>1 DEF DeliveryInv, LeasesAreGranted
<1>8. AgentTypeOK'
  BY <1>4, <1>6, BeforeStep DEF AgentTypeOK
<1>9. LeasesAreGranted'
  BY <1>1, <1>4, <1>6, <1>7 DEF DeliveryInv, LeasesAreGranted, Busy
<1>10. SessionsAreCounted'
  BY <1>4 DEF DeliveryInv, SessionsAreCounted, Busy
<1>11. SuccessIsDone'
  BY <1>4, <1>5 DEF DeliveryInv, SuccessIsDone, SucceededMeansDone
<1>12. JournalFirst'
  BY <1>4 DEF DeliveryInv, JournalFirst, NotRunAgainAfterRestart
<1>13. TokensAreApart'
  BY <1>4, <1>6, <1>7 DEF DeliveryInv, TokensAreApart, Busy
<1>14. SecretsRunOnce'
  <2>1. \A u \in SecretTasks : journal[u].status # "none" =>
          journal[u].digest \in 1 .. minted' /\ journal[u].digest # g.token
    BY <1>1 DEF DeliveryInv, SecretsRunOnce
  <2>2. \A u \in SecretTasks : ran[u] # <<>> => journal[u].status # "none"
    BY TaskDeliveryAssumption DEF DeliveryInv, JournalFirst
  <2> QED BY <1>4, <1>6, <2>1, <2>2 DEF DeliveryInv, SecretsRunOnce, SecretRunsOnce, Busy
<1> QED BY <1>8, <1>9, <1>10, <1>11, <1>12, <1>13, <1>14 DEF DeliveryInv

(* The channel without its first claim.                                     *)
LEMMA DownTail ==
  ASSUME down \in Seq(Fence), down # <<>>, down' = Tail(down)
  PROVE  /\ down' \in Seq(Fence) /\ 1 \in DOMAIN down /\ Head(down) = down[1]
         /\ \A i \in DOMAIN down' : i + 1 \in DOMAIN down /\ i + 1 # 1 /\ down'[i] = down[i + 1]
<1>1. /\ Tail(down) \in Seq(Fence) /\ Len(Tail(down)) = Len(down) - 1
      /\ \A i \in 1 .. Len(Tail(down)) : Tail(down)[i] = down[i + 1]
  BY HeadTailProperties
<1>2. Len(down) \in Nat /\ Len(down) # 0 /\ DOMAIN down = 1 .. Len(down) /\ Head(down) = down[1]
  BY EmptySeq, HeadTailProperties, LenProperties
<1>3. DOMAIN down' = 1 .. Len(down) - 1
  BY <1>1, LenProperties
<1>4. \A i \in 1 .. Len(down) - 1 : i + 1 \in 1 .. Len(down) /\ i + 1 # 1
  BY <1>2
<1> QED BY <1>1, <1>2, <1>3, <1>4

(* A step of the workers, in which none gets a new claim.                   *)
LEMMA WorkersStepInv ==
  ASSUME LeaseInv, DeliveryInv,
         UNCHANGED <<tasks, granted, minted, link, handler, epoch, session, faults, sessions, ran>>,
         down' = down \/ (down # <<>> /\ down' = Tail(down)),
         worker' \in [Workers -> WorkerRows], inflight' \subseteq Tasks,
         journal' \in [Tasks -> Entries], outcomes' \in [Tasks -> SUBSET BOOLEAN],
         up' \in Seq(Frames), \A i \in DOMAIN up' : FrameSound(up'[i]),
         \A t \in Tasks : outcomes[t] \subseteq outcomes'[t],
         \A v \in Workers : worker'[v].pc # "idle" =>
            worker[v].pc # "idle" /\ worker'[v].lease = worker[v].lease,
         JournalGrows, WorkersAdvance,
         \A t \in Tasks : journal'[t].status = "succeeded" =>
            journal[t].status = "succeeded" \/ TRUE \in outcomes'[t],
         \A w \in Workers : worker'[w].pc \in {"journaled", "reply"} /\ worker'[w].ok =>
            worker'[w] = worker[w] \/ TRUE \in outcomes'[worker'[w].lease.task]
  PROVE  DeliveryInv'
<1>1. down \in Seq(Fence)
  BY BeforeStep
<1>2. /\ down' \in Seq(Fence)
      /\ \E k \in Nat : \A i \in DOMAIN down' : i + k \in DOMAIN down /\ down'[i] = down[i + k]
  <2>1. CASE down' = down
    <3>1. /\ down' \in Seq(Fence)
          /\ \A i \in DOMAIN down' : i + 0 \in DOMAIN down /\ down'[i] = down[i + 0]
      BY <1>1, <2>1, DownShrinks
    <3> QED BY <3>1
  <2>2. CASE down # <<>> /\ down' = Tail(down)
    BY <1>1, <2>2, DownTail
  <2> QED BY <2>1, <2>2
<1>3. NothingNew
  BY <1>2 DEF NothingNew, Busy
<1>4. AgentTypeOK'
  BY <1>2, BeforeStep DEF AgentTypeOK
<1>5. SessionsAreCounted'
  BY DEF DeliveryInv, SessionsAreCounted, Busy
<1> QED BY <1>3, <1>4, <1>5, AgentInvAgain

(* The journal after an entry of a worker's operation is written over none  *)
(* or over its own.                                                         *)
LEMMA EntryWritten ==
  ASSUME LeaseInv, DeliveryInv, NEW f \in granted, NEW status \in {"running"} \cup Terminal,
         journal[f.task] = NoEntry \/ journal[f.task].digest = TaskPayloadDigest(f),
         journal' = [journal EXCEPT ![f.task] = Entry(f, status)], minted' = minted
  PROVE  /\ journal' \in [Tasks -> Entries] /\ JournalGrows
         /\ journal'[f.task].status # "none"
         /\ f.task \in SecretTasks => journal'[f.task].digest = f.token
         /\ \A t \in Tasks : journal'[t].status = "succeeded" =>
              journal[t].status = "succeeded" \/ (t = f.task /\ status = "succeeded")
<1>1. f.task \in Tasks /\ f.token \in 1 .. minted /\ f.token \in Nat
  BY GrantedLease
<1>2. journal \in [Tasks -> Entries]
  BY BeforeStep
<1>3. TaskPayloadDigest(f) \in Nat /\ (f.task \in SecretTasks => TaskPayloadDigest(f) = f.token)
  BY <1>1 DEF TaskPayloadDigest
<1>4. /\ Entry(f, status) \in Entries /\ Entry(f, status).status = status
      /\ Entry(f, status).digest = TaskPayloadDigest(f) /\ status # "none"
  BY <1>3 DEF Entry, Entries, Terminal
<1>5. journal' \in [Tasks -> Entries] /\ journal'[f.task] = Entry(f, status)
      /\ \A t \in Tasks \ {f.task} : journal'[t] = journal[t]
  BY <1>1, <1>2, <1>4
<1>6. journal[f.task].status # "none" => journal[f.task].digest = TaskPayloadDigest(f)
  BY DEF NoEntry
<1>7. JournalGrows
  BY <1>1, <1>3, <1>4, <1>5, <1>6, TaskDeliveryAssumption DEF JournalGrows
<1> QED BY <1>3, <1>4, <1>5, <1>7

(* journal.Complete, whichever way it goes.                                 *)
LEMMA JournalCompletes ==
  ASSUME LeaseInv, DeliveryInv, NEW f \in granted, NEW ok \in BOOLEAN,
         JournalComplete(f, ok), minted' = minted
  PROVE  /\ journal' \in [Tasks -> Entries] /\ JournalGrows
         /\ \A t \in Tasks : journal'[t].status = "succeeded" =>
              journal[t].status = "succeeded" \/ (t = f.task /\ ok)
<1>1. CASE journal' = journal
  BY <1>1, BeforeStep DEF JournalGrows
<1>2. CASE /\ journal[f.task].digest = TaskPayloadDigest(f)
           /\ journal' = [journal EXCEPT ![f.task] = Entry(f, IF ok THEN "succeeded" ELSE "failed")]
  <2> DEFINE status == IF ok THEN "succeeded" ELSE "failed"
  <2>1. status \in {"running"} \cup Terminal /\ (status = "succeeded" => ok)
    BY DEF Terminal
  <2> HIDE DEF status
  <2>2. journal' = [journal EXCEPT ![f.task] = Entry(f, status)]
    BY <1>2 DEF status
  <2>3. journal[f.task] = NoEntry \/ journal[f.task].digest = TaskPayloadDigest(f)
    BY <1>2
  <2>4. /\ journal' \in [Tasks -> Entries] /\ JournalGrows
        /\ \A t \in Tasks : journal'[t].status = "succeeded" =>
             journal[t].status = "succeeded" \/ (t = f.task /\ status = "succeeded")
    BY <2>1, <2>2, <2>3, EntryWritten
  <2> QED BY <2>1, <2>4
<1> QED BY <1>1, <1>2 DEF JournalComplete

(* A worker that is not idle has a granted lease, and the rows it goes to.  *)
LEMMA WorkerRow ==
  ASSUME LeaseInv, DeliveryInv, NEW w \in Workers, worker[w].pc # "idle"
  PROVE  /\ worker[w] \in WorkerRows /\ worker[w].lease \in granted /\ worker[w].lease.task \in Tasks
         /\ worker[w].ok \in BOOLEAN
         /\ \A pc \in Pcs : /\ At(pc, worker[w].lease) \in WorkerRows
                            /\ At(pc, worker[w].lease).pc = pc
                            /\ At(pc, worker[w].lease).lease = worker[w].lease
                            /\ At(pc, worker[w].lease).ok = FALSE
         /\ Idle \in WorkerRows /\ Idle.pc = "idle"
<1>1. worker[w] \in WorkerRows
  BY BeforeStep
<1>2. worker[w].lease \in granted
  BY DEF DeliveryInv, LeasesAreGranted, Busy
<1>3. worker[w].lease \in Fence /\ worker[w].lease.task \in Tasks
  BY <1>2, GrantedLease
<1>4. Idle \in WorkerRows /\ Idle.pc = "idle"
  BY DEF Idle, WorkerRows, Pcs
<1>5. \A pc \in Pcs : /\ At(pc, worker[w].lease) \in WorkerRows
                      /\ At(pc, worker[w].lease).pc = pc
                      /\ At(pc, worker[w].lease).lease = worker[w].lease
                      /\ At(pc, worker[w].lease).ok = FALSE
  BY <1>3 DEF At, WorkerRows
<1>6. worker[w].ok \in BOOLEAN
  BY <1>1 DEF WorkerRows
<1> QED BY <1>1, <1>2, <1>3, <1>4, <1>5, <1>6

(* One worker goes on with its claim, or becomes idle, and the journal and  *)
(* the in-flight table change as they may.                                  *)
LEMMA GoStepInv ==
  ASSUME LeaseInv, DeliveryInv, NEW w \in Workers, worker[w].pc # "idle",
         NEW row \in WorkerRows, worker' = [worker EXCEPT ![w] = row],
         row.pc # "idle" => row.lease = worker[w].lease,
         UNCHANGED <<tasks, granted, minted, link, handler, epoch, session, down, faults, sessions, ran>>,
         inflight' \subseteq Tasks, journal' \in [Tasks -> Entries], JournalGrows,
         outcomes' \in [Tasks -> SUBSET BOOLEAN], \A t \in Tasks : outcomes[t] \subseteq outcomes'[t],
         up' \in Seq(Frames), \A i \in DOMAIN up' : FrameSound(up'[i]),
         \A t \in Tasks : journal'[t].status = "succeeded" =>
            journal[t].status = "succeeded" \/ TRUE \in outcomes'[t],
         row.pc \in {"journaled", "reply"} /\ row.ok => TRUE \in outcomes'[row.lease.task],
         row.pc \in Starting => worker[w].pc \in Starting,
         row.pc \in Recorded => \/ worker[w].pc \in Recorded
                                \/ /\ journal'[row.lease.task].status # "none"
                                   /\ row.lease.task \in SecretTasks =>
                                        journal'[row.lease.task].digest = row.lease.token,
         worker[w].pc \in {"executing", "journaled"} => row.pc \in {"idle", "executing", "journaled"}
  PROVE  DeliveryInv'
<1>1. worker' \in [Workers -> WorkerRows] /\ worker'[w] = row
      /\ \A v \in Workers \ {w} : worker'[v] = worker[v]
  BY BeforeStep
<1>2. \A v \in Workers : worker'[v].pc # "idle" =>
         worker[v].pc # "idle" /\ worker'[v].lease = worker[v].lease
  BY <1>1
<1>3. WorkersAdvance
  <2>1. ASSUME NEW v \in Workers, v # w
        PROVE  worker'[v] = worker[v]
    BY <1>1, <2>1
  <2> QED BY <1>1, <2>1 DEF WorkersAdvance, Busy
<1>4. \A v \in Workers : worker'[v].pc \in {"journaled", "reply"} /\ worker'[v].ok =>
         worker'[v] = worker[v] \/ TRUE \in outcomes'[worker'[v].lease.task]
  BY <1>1
<1> QED BY <1>1, <1>2, <1>3, <1>4, WorkersStepInv

(* registerInflight: the operation becomes the worker's, or is awaited.     *)
LEMMA RegisterStepInv ==
  ASSUME LeaseInv, DeliveryInv, NEW w \in Workers, RegisterInflight(w)
  PROVE  DeliveryInv'
<1> DEFINE f == worker[w].lease
<1>1. /\ worker[w].pc = "looked"
      /\ UNCHANGED <<tasks, granted, minted, link, handler, epoch, session, down, journal,
                     faults, sessions, ran, outcomes>>
  BY DEF RegisterInflight, leaseVars
<1>2. PICK row \in {At("await", f), At("registered", f)} : worker' = [worker EXCEPT ![w] = row]
  BY DEF RegisterInflight, Go
<1>3. /\ f \in granted /\ f.task \in Tasks
      /\ row \in WorkerRows /\ row.pc \in {"await", "registered"} /\ row.lease = f /\ row.ok = FALSE
  BY <1>1, <1>2, WorkerRow DEF Pcs
<1>4. inflight' \subseteq Tasks
  BY <1>3, BeforeStep DEF RegisterInflight
<1>5. up' \in Seq(Frames) /\ \A i \in DOMAIN up' : FrameSound(up'[i])
  <2>1. CASE up' = up
    BY <2>1, BeforeStep
  <2>2. CASE Send(<<Ack(f)>>)
    BY <1>3, <2>2, SendOne, WorkerFrames
  <2> QED BY <2>1, <2>2 DEF RegisterInflight
<1>6. /\ journal' \in [Tasks -> Entries] /\ outcomes' \in [Tasks -> SUBSET BOOLEAN]
      /\ \A t \in Tasks : outcomes[t] \subseteq outcomes'[t]
  BY <1>1, BeforeStep
<1>7. JournalGrows
  BY <1>1 DEF JournalGrows
<1> HIDE DEF f
<1> QED BY <1>1, <1>2, <1>3, <1>4, <1>5, <1>6, <1>7, GoStepInv DEF Starting, Recorded, f

(* journal.RecordRunning.                                                   *)
LEMMA RecordStepInv ==
  ASSUME LeaseInv, DeliveryInv, NEW w \in Workers, RecordRunning(w)
  PROVE  DeliveryInv'
<1> DEFINE f == worker[w].lease
<1>1. /\ worker[w].pc = "registered"
      /\ UNCHANGED <<tasks, granted, minted, link, handler, epoch, session, down,
                     faults, sessions, ran, outcomes>>
  BY DEF RecordRunning, leaseVars
<1>2. /\ f \in granted /\ f.task \in Tasks /\ Idle \in WorkerRows /\ Idle.pc = "idle"
      /\ At("locking", f) \in WorkerRows /\ At("locking", f).pc = "locking"
      /\ At("locking", f).lease = f
  BY <1>1, WorkerRow DEF Pcs
<1>3. outcomes' \in [Tasks -> SUBSET BOOLEAN] /\ \A t \in Tasks : outcomes[t] \subseteq outcomes'[t]
  BY <1>1, BeforeStep
<1>4. inflight' \subseteq Tasks
  BY BeforeStep DEF RecordRunning
<1>5. CASE /\ Send(<<RejectAck(f)>>) /\ worker' = [worker EXCEPT ![w] = Idle] /\ journal' = journal
  <2>1. up' \in Seq(Frames) /\ \A i \in DOMAIN up' : FrameSound(up'[i])
    BY <1>2, <1>5, SendOne, WorkerFrames
  <2>2. journal' \in [Tasks -> Entries] /\ JournalGrows
    BY <1>5, BeforeStep DEF JournalGrows
  <2> HIDE DEF f
  <2> QED BY <1>1, <1>2, <1>3, <1>4, <1>5, <2>1, <2>2, GoStepInv DEF Starting, Recorded
<1>6. CASE /\ journal[f.task] = NoEntry \/ journal[f.task].digest = TaskPayloadDigest(f)
           /\ journal' = [journal EXCEPT ![f.task] = Entry(f, "running")]
           /\ Send(<<Ack(f)>>)
           /\ worker' = [worker EXCEPT ![w] = At("locking", f)]
  <2>1. up' \in Seq(Frames) /\ \A i \in DOMAIN up' : FrameSound(up'[i])
    BY <1>2, <1>6, SendOne, WorkerFrames
  <2>2. /\ journal' \in [Tasks -> Entries] /\ JournalGrows
        /\ journal'[f.task].status # "none"
        /\ f.task \in SecretTasks => journal'[f.task].digest = f.token
        /\ \A t \in Tasks : journal'[t].status = "succeeded" => journal[t].status = "succeeded"
    <3>1. "running" \in {"running"} \cup Terminal /\ "running" # "succeeded" /\ minted' = minted
      BY <1>1
    <3> HIDE DEF f
    <3> QED BY <1>2, <1>6, <3>1, EntryWritten
  <2> DEFINE row == At("locking", f)
  <2>3. /\ row \in WorkerRows /\ row.pc = "locking" /\ row.lease = worker[w].lease
        /\ worker' = [worker EXCEPT ![w] = row]
        /\ journal'[row.lease.task].status # "none"
        /\ row.lease.task \in SecretTasks => journal'[row.lease.task].digest = row.lease.token
    BY <1>2, <1>6, <2>2
  <2> HIDE DEF f, row
  <2> QED BY <1>1, <1>3, <1>4, <2>1, <2>2, <2>3, GoStepInv DEF Starting, Recorded
<1> QED BY <1>5, <1>6 DEF RecordRunning, Go

(* The executor returns, and its outcome is journaled.                      *)
LEMMA FinishStepInv ==
  ASSUME LeaseInv, DeliveryInv, NEW w \in Workers, NEW ok \in BOOLEAN, FinishExecution(w, ok)
  PROVE  DeliveryInv'
<1> DEFINE f == worker[w].lease
           row == [pc |-> "journaled", lease |-> f, ok |-> ok]
<1>1. /\ worker[w].pc = "executing"
      /\ worker' = [worker EXCEPT ![w] = row]
      /\ UNCHANGED <<tasks, granted, minted, link, handler, epoch, session, down, up, inflight,
                     faults, sessions, ran>>
  BY DEF FinishExecution, leaseVars, Go
<1>2. f \in granted /\ f.task \in Tasks /\ worker[w] \in WorkerRows
  BY <1>1, WorkerRow
<1>3. row \in WorkerRows /\ row.pc = "journaled" /\ row.lease = worker[w].lease /\ row.ok = ok
  <2>1. f \in Fence
    BY <1>2, GrantedLease
  <2> QED BY <2>1 DEF WorkerRows, Pcs
<1>4. /\ journal' \in [Tasks -> Entries] /\ JournalGrows
      /\ \A t \in Tasks : journal'[t].status = "succeeded" =>
           journal[t].status = "succeeded" \/ (t = f.task /\ ok)
  <2>1. JournalComplete(f, ok) /\ minted' = minted
    BY <1>1 DEF FinishExecution
  <2> HIDE DEF f
  <2> QED BY <1>2, <2>1, JournalCompletes
<1>5. /\ outcomes' \in [Tasks -> SUBSET BOOLEAN] /\ \A t \in Tasks : outcomes[t] \subseteq outcomes'[t]
      /\ ok => TRUE \in outcomes'[f.task]
  <2>1. outcomes \in [Tasks -> SUBSET BOOLEAN] /\ outcomes[f.task] \subseteq BOOLEAN
    BY <1>2, BeforeStep
  <2>2. outcomes' = [outcomes EXCEPT ![f.task] = outcomes[f.task] \cup {ok}]
    BY DEF FinishExecution
  <2> HIDE DEF f
  <2>3. outcomes'[f.task] = outcomes[f.task] \cup {ok} /\ \A t \in Tasks \ {f.task} : outcomes'[t] = outcomes[t]
    BY <1>2, <2>1, <2>2
  <2>4. outcomes[f.task] \cup {ok} \in SUBSET BOOLEAN
    BY <2>1
  <2>5. outcomes' \in [Tasks -> SUBSET BOOLEAN]
    BY <1>2, <2>1, <2>2, <2>4
  <2> QED BY <2>3, <2>5
<1>6. up' \in Seq(Frames) /\ (\A i \in DOMAIN up' : FrameSound(up'[i])) /\ inflight' \subseteq Tasks
  BY <1>1, BeforeStep
<1>7. row.pc \in {"journaled", "reply"} /\ row.ok => TRUE \in outcomes'[row.lease.task]
  BY <1>3, <1>5
<1>8. \A t \in Tasks : journal'[t].status = "succeeded" =>
         journal[t].status = "succeeded" \/ TRUE \in outcomes'[t]
  BY <1>4, <1>5
<1> HIDE DEF f, row
<1> QED BY <1>1, <1>3, <1>4, <1>5, <1>6, <1>7, <1>8, GoStepInv DEF Starting, Recorded

(* The result is returned; whoever waits for it gets it.                    *)
LEMMA ReturnStepInv ==
  ASSUME LeaseInv, DeliveryInv, NEW w \in Workers, ReturnResult(w)
  PROVE  DeliveryInv'
<1> DEFINE f == worker[w].lease
           ok == worker[w].ok
           woken(v) == [worker[v] EXCEPT !.pc = "reply", !.ok = ok]
           waits(v) == worker[v].pc = "waiting" /\ worker[v].lease.task = f.task
<1>1. /\ worker[w].pc = "journaled"
      /\ UNCHANGED <<tasks, granted, minted, link, handler, epoch, session, down, journal,
                     faults, sessions, ran, outcomes>>
      /\ Send(<<Result(f, ok)>>)
  BY DEF ReturnResult, leaseVars
<1>2. f \in granted /\ f.task \in Tasks /\ Idle \in WorkerRows /\ Idle.pc = "idle" /\ ok \in BOOLEAN
  BY <1>1, WorkerRow
<1>3. ok => TRUE \in outcomes[f.task]
  BY <1>1 DEF DeliveryInv, SuccessIsDone
<1>4. up' \in Seq(Frames) /\ \A i \in DOMAIN up' : FrameSound(up'[i])
  <2> HIDE DEF f, ok
  <2> QED BY <1>1, <1>2, <1>3, SendOne, WorkerFrames
<1>5. worker \in [Workers -> WorkerRows] /\ inflight' \subseteq Tasks
  BY BeforeStep DEF ReturnResult
<1>6. ASSUME NEW v \in Workers
      PROVE  /\ woken(v) \in WorkerRows /\ woken(v).pc = "reply" /\ woken(v).ok = ok
             /\ woken(v).lease = worker[v].lease
  <2>1. worker[v] \in WorkerRows
    BY <1>5
  <2> HIDE DEF ok
  <2> QED BY <1>2, <2>1 DEF WorkerRows, Pcs
<1>7. /\ worker' \in [Workers -> WorkerRows]
      /\ \A v \in Workers : worker'[v] = IF v = w THEN Idle ELSE IF waits(v) THEN woken(v) ELSE worker[v]
  <2>1. worker' = [v \in Workers |-> IF v = w THEN Idle ELSE IF waits(v) THEN woken(v) ELSE worker[v]]
    BY DEF ReturnResult
  <2> HIDE DEF waits, woken
  <2> QED BY <1>2, <1>5, <1>6, <2>1
<1>8. \A v \in Workers : \/ worker'[v] = worker[v]
                         \/ worker'[v].pc = "idle"
                         \/ /\ worker[v].pc = "waiting" /\ worker[v].lease.task = f.task
                            /\ worker'[v].pc = "reply" /\ worker'[v].ok = ok
                            /\ worker'[v].lease = worker[v].lease
  BY <1>2, <1>6, <1>7
<1> HIDE DEF f, ok, waits, woken
<1>9. WorkersAdvance
  BY <1>1, <1>8 DEF WorkersAdvance, Starting, Recorded, Busy
<1>10. \A v \in Workers : worker'[v].pc # "idle" =>
         worker[v].pc # "idle" /\ worker'[v].lease = worker[v].lease
  BY <1>8
<1>11. \A v \in Workers : worker'[v].pc \in {"journaled", "reply"} /\ worker'[v].ok =>
         worker'[v] = worker[v] \/ TRUE \in outcomes'[worker'[v].lease.task]
  BY <1>1, <1>3, <1>8
<1>12. JournalGrows /\ journal' \in [Tasks -> Entries] /\ outcomes' \in [Tasks -> SUBSET BOOLEAN]
  BY <1>1, BeforeStep DEF JournalGrows
<1> QED BY <1>1, <1>4, <1>5, <1>7, <1>9, <1>10, <1>11, <1>12, WorkersStepInv

(* awaitInflight: an execution is waited for, replayed, given up or         *)
(* forgotten.                                                               *)
LEMMA AwaitStepInv ==
  ASSUME LeaseInv, DeliveryInv, NEW w \in Workers, AwaitInflight(w)
  PROVE  DeliveryInv'
<1> DEFINE f == worker[w].lease
<1>1. /\ worker[w].pc = "await"
      /\ UNCHANGED <<tasks, granted, minted, link, handler, epoch, session, down, inflight,
                     faults, sessions, ran, outcomes>>
  BY DEF AwaitInflight, leaseVars
<1>2. PICK row \in {At("waiting", f), Idle} : worker' = [worker EXCEPT ![w] = row]
  BY DEF AwaitInflight, Go
<1>3. /\ f \in granted /\ f.task \in Tasks /\ row \in WorkerRows
      /\ row.pc \in {"waiting", "idle"} /\ (row.pc # "idle" => row.lease = worker[w].lease)
  BY <1>1, <1>2, WorkerRow DEF Pcs
<1>4. up' \in Seq(Frames) /\ \A i \in DOMAIN up' : FrameSound(up'[i])
  <2>1. CASE up' = up
    BY <2>1, BeforeStep
  <2>2. CASE Send(<<Result(f, FALSE)>>)
    <3> HIDE DEF f
    <3> QED BY <1>3, <2>2, SendOne, WorkerFrames
  <2>3. CASE Send(<<Result(f, journal[f.task].status = "succeeded")>>)
    <3> DEFINE ok == journal[f.task].status = "succeeded"
    <3>1. ok \in BOOLEAN /\ (ok => TRUE \in outcomes[f.task])
      BY <1>3 DEF DeliveryInv, SuccessIsDone
    <3>2. Send(<<Result(f, ok)>>)
      BY <2>3
    <3> HIDE DEF f, ok
    <3> QED BY <1>3, <3>1, <3>2, SendOne, WorkerFrames
  <2> QED BY <2>1, <2>2, <2>3 DEF AwaitInflight, RecoverInterrupted
<1>5. /\ journal' \in [Tasks -> Entries] /\ JournalGrows
      /\ \A t \in Tasks : journal'[t].status = "succeeded" => journal[t].status = "succeeded"
  <2>1. CASE journal' = journal
    BY <2>1, BeforeStep DEF JournalGrows
  <2>2. CASE JournalComplete(f, FALSE)
    <3> HIDE DEF f
    <3> QED BY <1>1, <1>3, <2>2, JournalCompletes
  <2> QED BY <2>1, <2>2 DEF AwaitInflight, RecoverInterrupted
<1>6. /\ inflight' \subseteq Tasks /\ outcomes' \in [Tasks -> SUBSET BOOLEAN]
      /\ \A t \in Tasks : outcomes[t] \subseteq outcomes'[t]
  BY <1>1, BeforeStep
<1> HIDE DEF f
<1> QED BY <1>1, <1>2, <1>3, <1>4, <1>5, <1>6, GoStepInv DEF Starting, Recorded

(* A worker answers for the execution it awaited, or the session ends.      *)
LEMMA ReplyStepInv ==
  ASSUME LeaseInv, DeliveryInv, NEW w \in Workers, Reply(w)
  PROVE  DeliveryInv'
<1> DEFINE f == worker[w].lease
           ok == worker[w].ok
<1>1. /\ worker[w].pc \in {"reply", "waiting"} /\ worker' = [worker EXCEPT ![w] = Idle]
      /\ UNCHANGED <<tasks, granted, minted, link, handler, epoch, session, down, inflight,
                     journal, faults, sessions, ran, outcomes>>
  BY DEF Reply, Go, leaseVars
<1>2. f \in granted /\ Idle \in WorkerRows /\ Idle.pc = "idle" /\ ok \in BOOLEAN
  BY <1>1, WorkerRow
<1>3. up' \in Seq(Frames) /\ \A i \in DOMAIN up' : FrameSound(up'[i])
  <2>1. CASE up' = up
    BY <2>1, BeforeStep
  <2>2. CASE worker[w].pc = "reply" /\ Send(<<Result(f, ok)>>)
    <3>1. ok => TRUE \in outcomes[f.task]
      BY <2>2 DEF DeliveryInv, SuccessIsDone
    <3> HIDE DEF f, ok
    <3> QED BY <1>2, <2>2, <3>1, SendOne, WorkerFrames
  <2> QED BY <2>1, <2>2 DEF Reply
<1>4. /\ journal' \in [Tasks -> Entries] /\ JournalGrows
      /\ inflight' \subseteq Tasks /\ outcomes' \in [Tasks -> SUBSET BOOLEAN]
  BY <1>1, BeforeStep DEF JournalGrows
<1> QED BY <1>1, <1>2, <1>3, <1>4, GoStepInv DEF Starting, Recorded

(* A renewal is a frame and nothing else.                                   *)
LEMMA RenewalStepInv ==
  ASSUME LeaseInv, DeliveryInv, NEW w \in Workers, SendRenewal(w)
  PROVE  DeliveryInv'
<1>1. /\ worker[w].pc = "executing" /\ Send(<<Frame("renew", worker[w].lease, TRUE)>>)
      /\ UNCHANGED <<tasks, granted, minted, link, handler, epoch, session, down, inflight,
                     worker, journal, faults, sessions, ran, outcomes>>
  BY DEF SendRenewal, leaseVars
<1>2. worker[w].lease \in granted
  BY <1>1, WorkerRow
<1>3. up' \in Seq(Frames) /\ \A i \in DOMAIN up' : FrameSound(up'[i])
  BY <1>1, <1>2, SendOne, WorkerFrames
<1>4. /\ journal' \in [Tasks -> Entries] /\ JournalGrows /\ WorkersAdvance
      /\ worker' \in [Workers -> WorkerRows]
      /\ inflight' \subseteq Tasks /\ outcomes' \in [Tasks -> SUBSET BOOLEAN]
  BY <1>1, BeforeStep DEF JournalGrows, WorkersAdvance
<1> QED BY <1>1, <1>3, <1>4, WorkersStepInv

(* A worker takes the first claim of the channel for itself.                *)
LEMMA ClaimTaken ==
  ASSUME LeaseInv, DeliveryInv, NEW w \in Workers, NEW pc \in {"looked", "await"},
         down # <<>>, down' = Tail(down), worker[w] = Idle, session # "off",
         worker' = [worker EXCEPT ![w] = At(pc, Head(down))],
         pc = "looked" => journal[Head(down).task].status = "none",
         up' \in Seq(Frames), \A i \in DOMAIN up' : FrameSound(up'[i]),
         UNCHANGED <<tasks, granted, minted, link, handler, epoch, session, journal, inflight,
                     faults, sessions, ran, outcomes>>
  PROVE  DeliveryInv'
<1> DEFINE f == Head(down)
           row == At(pc, f)
<1>1. down \in Seq(Fence)
  BY BeforeStep
<1>2. /\ down' \in Seq(Fence) /\ 1 \in DOMAIN down /\ f = down[1]
      /\ \A i \in DOMAIN down' : i + 1 \in DOMAIN down /\ i + 1 # 1 /\ down'[i] = down[i + 1]
  BY <1>1, DownTail
<1>3. f \in granted /\ f \in Fence /\ f.task \in Tasks
  BY <1>2, GrantedLease DEF DeliveryInv, LeasesAreGranted
<1>4. row \in WorkerRows /\ row.pc = pc /\ row.lease = f /\ row.ok = FALSE
  <2> HIDE DEF f
  <2> QED BY <1>3 DEF At, WorkerRows, Pcs
<1>5. ~Busy(w)
  BY DEF Idle, Busy
<1>6. /\ worker' \in [Workers -> WorkerRows] /\ worker'[w] = row
      /\ \A v \in Workers : v # w => worker'[v] = worker[v]
  <2>1. worker \in [Workers -> WorkerRows]
    BY BeforeStep
  <2> HIDE DEF row
  <2> QED BY <1>4, <2>1 DEF row
<1> HIDE DEF f, row
<1>7. AgentTypeOK'
  BY <1>2, <1>6, BeforeStep DEF AgentTypeOK
<1>8. LeasesAreGranted'
  <2>1. \A i \in DOMAIN down' : down'[i] \in granted'
    BY <1>2 DEF DeliveryInv, LeasesAreGranted
  <2>2. \A v \in Workers : Busy(v)' => worker'[v].lease \in granted'
    BY <1>3, <1>4, <1>6 DEF DeliveryInv, LeasesAreGranted, Busy
  <2>3. \A i \in DOMAIN up' : up'[i].lease \in granted'
    BY DEF FrameSound
  <2> QED BY <2>1, <2>2, <2>3 DEF LeasesAreGranted
<1>9. SessionsAreCounted'
  BY DEF DeliveryInv, SessionsAreCounted
<1>10. SuccessIsDone'
  <2>1. \A i \in DOMAIN up' : up'[i].kind = "result" /\ up'[i].ok => TRUE \in outcomes'[up'[i].lease.task]
    BY DEF FrameSound
  <2>2. \A v \in Workers : worker'[v].pc \in {"journaled", "reply"} /\ worker'[v].ok
                             => TRUE \in outcomes'[worker'[v].lease.task]
    BY <1>4, <1>6 DEF DeliveryInv, SuccessIsDone
  <2> QED BY <2>1, <2>2 DEF DeliveryInv, SuccessIsDone, SucceededMeansDone
<1>11. JournalFirst'
  <2>1. pc = "looked" => ran[f.task] = <<>>
    BY <1>3 DEF DeliveryInv, JournalFirst, f
  <2>2. ASSUME NEW v \in Workers, worker'[v].pc \in Starting
        PROVE  \A i \in DOMAIN ran'[worker'[v].lease.task] : ran'[worker'[v].lease.task][i] = sessions'
    <3>1. CASE v # w
      BY <1>6, <2>2, <3>1 DEF DeliveryInv, JournalFirst
    <3>2. CASE v = w
      <4>1. ran'[worker'[v].lease.task] = <<>>
        BY <1>4, <1>6, <2>1, <2>2, <3>2 DEF Starting
      <4> QED BY <4>1
    <3> QED BY <3>1, <3>2
  <2>3. \A v \in Workers : worker'[v].pc \in Recorded => v # w
    BY <1>4, <1>6 DEF Recorded
  <2>4. \A v \in Workers : worker'[v].pc \in Recorded => journal'[worker'[v].lease.task].status # "none"
    BY <1>6, <2>3 DEF DeliveryInv, JournalFirst
  <2>5. /\ \A t \in Tasks : ran'[t] # <<>> => journal'[t].status # "none"
        /\ NotRunAgainAfterRestart'
    BY DEF DeliveryInv, JournalFirst, NotRunAgainAfterRestart
  <2> QED BY <2>2, <2>4, <2>5 DEF JournalFirst
<1>12. TokensAreApart'
  <2>1. \A i, j \in DOMAIN down' : down'[i].token = down'[j].token => i = j
    <3>1. SUFFICES ASSUME NEW i \in DOMAIN down', NEW j \in DOMAIN down',
                          down'[i].token = down'[j].token
                   PROVE  i = j
      OBVIOUS
    <3>2. i + 1 = j + 1
      BY <1>2, <3>1 DEF DeliveryInv, TokensAreApart
    <3>3. i \in Int /\ j \in Int
      BY <1>2, LenProperties
    <3> QED BY <3>2, <3>3
  <2>2. \A i \in DOMAIN down' : down'[i].token # f.token
    BY <1>2 DEF DeliveryInv, TokensAreApart
  <2>3. \A i \in DOMAIN down', v \in Workers : Busy(v)' => down'[i].token # worker'[v].lease.token
    BY <1>2, <1>4, <1>6, <2>2 DEF DeliveryInv, TokensAreApart, Busy
  <2>4. \A v \in Workers : Busy(v) => worker[v].lease.token # f.token
    BY <1>2 DEF DeliveryInv, TokensAreApart
  <2>5. \A v, u \in Workers : Busy(v)' /\ Busy(u)' /\ worker'[v].lease.token = worker'[u].lease.token => v = u
    BY <1>4, <1>6, <2>4 DEF DeliveryInv, TokensAreApart, Busy
  <2> QED BY <2>1, <2>3, <2>5 DEF TokensAreApart
<1>13. SecretsRunOnce'
  <2>1. \A v \in Workers : worker'[v].pc \in Recorded => v # w
    BY <1>4, <1>6 DEF Recorded
  <2>2. \A t \in SecretTasks : ran[t] # <<>> => f.token # journal[t].digest
    BY <1>2 DEF DeliveryInv, SecretsRunOnce
  <2>3. ASSUME NEW t \in SecretTasks, ran'[t] # <<>>
        PROVE  /\ \A i \in DOMAIN down' : down'[i].token # journal'[t].digest
               /\ \A v \in Workers : Busy(v)' /\ worker'[v].lease.token = journal'[t].digest
                                       => worker'[v].pc \in {"executing", "journaled"}
    BY <1>2, <1>4, <1>6, <2>2, <2>3 DEF DeliveryInv, SecretsRunOnce, Busy
  <2> QED BY <1>6, <2>1, <2>3 DEF DeliveryInv, SecretsRunOnce, SecretRunsOnce
<1> QED BY <1>7, <1>8, <1>9, <1>10, <1>11, <1>12, <1>13 DEF DeliveryInv

(* A worker takes a claim off the channel: it keeps it, or answers it at    *)
(* once from the journal.                                                   *)
LEMMA TakeStepInv ==
  ASSUME LeaseInv, DeliveryInv, NEW w \in Workers, Take(w)
  PROVE  DeliveryInv'
<1> DEFINE f == Head(down)
           ok == journal[f.task].status = "succeeded"
<1>1. /\ session # "off" /\ down # <<>> /\ worker[w] = Idle /\ down' = Tail(down)
      /\ UNCHANGED <<tasks, granted, minted, link, handler, epoch, session, inflight,
                     journal, faults, sessions, ran, outcomes>>
  BY DEF Take, leaseVars
<1>2. f \in granted /\ f.task \in Tasks
  <2>1. down \in Seq(Fence)
    BY BeforeStep
  <2>2. 1 \in DOMAIN down /\ f = down[1]
    BY <1>1, <2>1, DownTail
  <2> QED BY <2>2, GrantedLease DEF DeliveryInv, LeasesAreGranted
<1>3. ok \in BOOLEAN /\ (ok => TRUE \in outcomes[f.task])
  BY <1>2 DEF DeliveryInv, SuccessIsDone
<1>4. CASE journal[f.task].status = "none" /\ Go(w, At("looked", f)) /\ up' = up
  <2>1. up' \in Seq(Frames) /\ \A i \in DOMAIN up' : FrameSound(up'[i])
    BY <1>4, BeforeStep
  <2> QED BY <1>1, <1>4, <2>1, ClaimTaken DEF Go
<1>5. CASE Send(<<Ack(f)>>) /\ Go(w, At("await", f))
  <2>1. up' \in Seq(Frames) /\ \A i \in DOMAIN up' : FrameSound(up'[i])
    <3> HIDE DEF f
    <3> QED BY <1>2, <1>5, SendOne, WorkerFrames
  <2> QED BY <1>1, <1>5, <2>1, ClaimTaken DEF Go
<1>6. CASE (Send(<<RejectAck(f)>>) \/ Send(<<Ack(f), Result(f, ok)>>)) /\ worker' = worker
  <2>1. up' \in Seq(Frames) /\ \A i \in DOMAIN up' : FrameSound(up'[i])
    <3> HIDE DEF f, ok
    <3>1. CASE Send(<<RejectAck(f)>>)
      BY <1>2, <3>1, SendOne, WorkerFrames
    <3>2. CASE Send(<<Ack(f), Result(f, ok)>>)
      BY <1>2, <1>3, <3>2, SendTwo, WorkerFrames
    <3> QED BY <1>6, <3>1, <3>2
  <2>2. /\ journal' \in [Tasks -> Entries] /\ JournalGrows /\ WorkersAdvance
        /\ worker' \in [Workers -> WorkerRows]
        /\ inflight' \subseteq Tasks /\ outcomes' \in [Tasks -> SUBSET BOOLEAN]
    BY <1>1, <1>6, BeforeStep DEF JournalGrows, WorkersAdvance
  <2> QED BY <1>1, <1>6, <2>1, <2>2, WorkersStepInv
<1> QED BY <1>4, <1>5, <1>6 DEF Take

(* The executor is called: no earlier session called it for the operation,  *)
(* and for one with secret handles nobody has.                              *)
LEMMA StartStepInv ==
  ASSUME LeaseInv, DeliveryInv, NEW w \in Workers, StartExecution(w)
  PROVE  DeliveryInv'
<1> DEFINE f == worker[w].lease
           row == At("executing", f)
           runs == Append(ran[f.task], sessions)
<1>1. /\ worker[w].pc = "locking" /\ worker' = [worker EXCEPT ![w] = row]
      /\ ran' = [ran EXCEPT ![f.task] = runs]
      /\ UNCHANGED <<tasks, granted, minted, link, handler, epoch, session, down, up, inflight,
                     journal, faults, sessions, outcomes>>
  BY DEF StartExecution, Go, leaseVars
<1>2. /\ f \in granted /\ f.task \in Tasks
      /\ row \in WorkerRows /\ row.pc = "executing" /\ row.lease = f
  BY <1>1, WorkerRow DEF Pcs
<1>3. /\ worker' \in [Workers -> WorkerRows] /\ worker'[w] = row
      /\ \A v \in Workers : v # w => worker'[v] = worker[v]
  <2>1. worker \in [Workers -> WorkerRows]
    BY BeforeStep
  <2> HIDE DEF row
  <2> QED BY <1>1, <1>2, <2>1
<1>4. /\ ran[f.task] \in Seq(Nat) /\ sessions \in Nat /\ sessions' = sessions
      /\ ran \in [Tasks -> Seq(Nat)]
  BY <1>1, <1>2, BeforeStep
<1>5. /\ runs \in Seq(Nat) /\ Len(runs) = Len(ran[f.task]) + 1 /\ runs # <<>>
      /\ \A i \in DOMAIN runs : runs[i] = sessions
  <2>1. \A i \in DOMAIN ran[f.task] : ran[f.task][i] = sessions
    BY <1>1 DEF DeliveryInv, JournalFirst, Starting
  <2> DEFINE r == ran[f.task]
  <2>2. r \in Seq(Nat) /\ Len(r) \in Nat /\ DOMAIN r = 1 .. Len(r)
    BY <1>4, LenProperties
  <2> HIDE DEF r
  <2>3. /\ Append(r, sessions) \in Seq(Nat)
        /\ Len(Append(r, sessions)) = Len(r) + 1
        /\ \A i \in 1 .. Len(r) : Append(r, sessions)[i] = r[i]
        /\ Append(r, sessions)[Len(r) + 1] = sessions
    BY <1>4, <2>2, AppendProperties
  <2>4. DOMAIN Append(r, sessions) = 1 .. (Len(r) + 1)
    BY <2>3, LenProperties
  <2>5. \A i \in 1 .. (Len(r) + 1) : i \in 1 .. Len(r) \/ i = Len(r) + 1
    BY <2>2
  <2>6. \A i \in 1 .. Len(r) : r[i] = sessions
    BY <2>1, <2>2 DEF r
  <2>7. \A i \in DOMAIN Append(r, sessions) : Append(r, sessions)[i] = sessions
    BY <2>3, <2>4, <2>5, <2>6
  <2>8. Append(r, sessions) # <<>>
    <3>1. Len(r) + 1 # 0 /\ Len(<<>>) = 0
      BY <2>2
    <3> QED BY <2>3, <3>1
  <2> QED BY <2>3, <2>7, <2>8 DEF r
<1> HIDE DEF row, runs
<1>6. ran' \in [Tasks -> Seq(Nat)] /\ ran'[f.task] = runs
      /\ \A t \in Tasks : t # f.task => ran'[t] = ran[t]
  BY <1>1, <1>2, <1>4, <1>5
<1>7. AgentTypeOK'
  BY <1>1, <1>3, <1>6, BeforeStep DEF AgentTypeOK
<1>8. LeasesAreGranted' /\ SessionsAreCounted'
  <2>1. session # "off"
    BY <1>1 DEF DeliveryInv, SessionsAreCounted, Busy
  <2>2. SessionsAreCounted'
    BY <1>1, <2>1 DEF DeliveryInv, SessionsAreCounted
  <2>3. LeasesAreGranted'
    BY <1>1, <1>2, <1>3 DEF DeliveryInv, LeasesAreGranted, Busy
  <2> QED BY <2>2, <2>3
<1>9. SuccessIsDone'
  BY <1>1, <1>2, <1>3 DEF DeliveryInv, SuccessIsDone, SucceededMeansDone
<1>10. TokensAreApart'
  <2>1. \A v \in Workers : Busy(v)' <=> Busy(v)
    BY <1>1, <1>2, <1>3 DEF Busy
  <2>2. \A v \in Workers : worker'[v].lease = worker[v].lease
    BY <1>2, <1>3
  <2> QED BY <1>1, <2>1, <2>2 DEF DeliveryInv, TokensAreApart
<1>11. JournalFirst'
  <2>1. journal[f.task].status # "none"
    BY <1>1 DEF DeliveryInv, JournalFirst, Recorded
  <2>2. \A t \in Tasks : ran'[t] # <<>> => journal'[t].status # "none"
    BY <1>1, <1>6, <2>1 DEF DeliveryInv, JournalFirst
  <2>3. \A v \in Workers : worker'[v].pc \in Recorded => journal'[worker'[v].lease.task].status # "none"
    BY <1>1, <1>2, <1>3, <2>1 DEF DeliveryInv, JournalFirst
  <2>4. ASSUME NEW v \in Workers, worker'[v].pc \in Starting
        PROVE  \A i \in DOMAIN ran'[worker'[v].lease.task] : ran'[worker'[v].lease.task][i] = sessions'
    <3>1. v # w /\ worker'[v] = worker[v]
      BY <1>2, <1>3, <2>4 DEF Starting
    <3>2. worker[v].lease.task \in Tasks
      BY <2>4, <3>1, WorkerRow DEF Starting
    <3>3. CASE worker[v].lease.task = f.task
      BY <1>4, <1>5, <1>6, <3>1, <3>3
    <3>4. CASE worker[v].lease.task # f.task
      <4>1. ran'[worker'[v].lease.task] = ran[worker[v].lease.task] /\ worker[v].pc \in Starting
        BY <1>6, <2>4, <3>1, <3>2, <3>4
      <4>2. \A i \in DOMAIN ran[worker[v].lease.task] : ran[worker[v].lease.task][i] = sessions
        BY <4>1 DEF DeliveryInv, JournalFirst
      <4> QED BY <1>4, <4>1, <4>2
    <3> QED BY <3>3, <3>4
  <2>5. NotRunAgainAfterRestart'
    <3> SUFFICES ASSUME NEW t \in Tasks, NEW i \in DOMAIN ran'[t], NEW j \in DOMAIN ran'[t]
                 PROVE  ran'[t][i] = ran'[t][j]
      BY DEF NotRunAgainAfterRestart
    <3>1. CASE t = f.task
      BY <1>5, <1>6, <3>1
    <3>2. CASE t # f.task
      <4>1. ran'[t] = ran[t]
        BY <1>6, <3>2
      <4> QED BY <4>1 DEF DeliveryInv, JournalFirst, NotRunAgainAfterRestart
    <3> QED BY <3>1, <3>2
  <2> QED BY <2>2, <2>3, <2>4, <2>5 DEF JournalFirst
<1>12. SecretsRunOnce'
  <2>1. Busy(w)
    BY <1>1 DEF Busy
  <2>2. f.task \in SecretTasks => journal[f.task].digest = f.token
    BY <1>1 DEF DeliveryInv, SecretsRunOnce, Recorded
  <2>3. f.task \in SecretTasks => ran[f.task] = <<>>
    BY <1>1, <2>1, <2>2 DEF DeliveryInv, SecretsRunOnce
  <2>4. SecretRunsOnce'
    <3>1. f.task \in SecretTasks => Len(runs) <= 1
      BY <1>5, <2>3
    <3> QED BY <1>6, <3>1, TaskDeliveryAssumption DEF DeliveryInv, SecretsRunOnce, SecretRunsOnce
  <2>5. \A v \in Workers : worker'[v].pc \in Recorded /\ worker'[v].lease.task \in SecretTasks =>
          journal'[worker'[v].lease.task].digest = worker'[v].lease.token
    BY <1>1, <1>2, <1>3, <2>2 DEF DeliveryInv, SecretsRunOnce
  <2>6. ASSUME NEW t \in SecretTasks, ran'[t] # <<>>
        PROVE  /\ \A i \in DOMAIN down' : down'[i].token # journal'[t].digest
               /\ \A v \in Workers : Busy(v)' /\ worker'[v].lease.token = journal'[t].digest
                                       => worker'[v].pc \in {"executing", "journaled"}
    <3>1. CASE t = f.task
      <4>1. journal'[t].digest = f.token
        BY <1>1, <2>2, <3>1
      <4>2. \A i \in DOMAIN down' : down'[i].token # f.token
        BY <1>1, <2>1 DEF DeliveryInv, TokensAreApart
      <4>3. \A v \in Workers : Busy(v)' /\ worker'[v].lease.token = f.token => v = w
        BY <1>3, <2>1 DEF DeliveryInv, TokensAreApart, Busy
      <4> QED BY <1>2, <1>3, <4>1, <4>2, <4>3
    <3>2. CASE t # f.task
      <4>1. ran[t] # <<>>
        BY <1>6, <2>6, <3>2, TaskDeliveryAssumption
      <4> QED BY <1>1, <1>2, <1>3, <4>1 DEF DeliveryInv, SecretsRunOnce, Busy
    <3> QED BY <3>1, <3>2
  <2>7. \A t \in SecretTasks : journal'[t].status # "none" => journal'[t].digest \in 1 .. minted'
    BY <1>1 DEF DeliveryInv, SecretsRunOnce
  <2> QED BY <2>4, <2>5, <2>6, <2>7 DEF SecretsRunOnce
<1> QED BY <1>7, <1>8, <1>9, <1>10, <1>11, <1>12 DEF DeliveryInv

-----------------------------------------------------------------------------
(* The theorems.                                                            *)

(* Every step of the connection, the control plane and the agent keeps the  *)
(* invariant.                                                               *)
LEMMA DeliveryStepInv ==
  ASSUME LeaseInv, DeliveryInv, [Next]_vars
  PROVE  LeaseInv' /\ DeliveryInv'
<1>1. LeaseInv'
  BY DeliveryStepIsLeaseStep, StepInv
<1>2. CASE UNCHANGED vars
  <2>1. AgentTypeOK' /\ LeasesAreGranted' /\ SessionsAreCounted'
    BY <1>2 DEF vars, DeliveryInv, AgentTypeOK, LeasesAreGranted, SessionsAreCounted, Busy
  <2>2. SuccessIsDone' /\ JournalFirst'
    BY <1>2 DEF vars, DeliveryInv, SuccessIsDone, SucceededMeansDone, JournalFirst,
                NotRunAgainAfterRestart
  <2>3. TokensAreApart' /\ SecretsRunOnce'
    BY <1>2 DEF vars, DeliveryInv, TokensAreApart, SecretsRunOnce, SecretRunsOnce, Busy
  <2> QED BY <1>1, <2>1, <2>2, <2>3 DEF DeliveryInv
<1>3. CASE \/ Connect \/ Break \/ HandlerNotices \/ SessionNotices \/ SessionEnds
           \/ AgentCrashes \/ ControlPlaneRestarts
  BY <1>1, <1>3, ConnectionStepInv
<1>4. CASE \/ \E t \in Tasks, s \in Servers : Request(t, s)
           \/ HandleFrame \/ Reconcile
           \/ \E t \in Tasks : LeaseTime(t)
  BY <1>1, <1>4, ControlPlaneStepInv
<1>5. CASE \E t \in Tasks : ClaimLoop(t)
  BY <1>1, <1>5, ClaimStepInv
<1>6. CASE \E w \in Workers : Work(w) \/ SendRenewal(w)
  <2>1. PICK w \in Workers : Work(w) \/ SendRenewal(w)
    BY <1>6
  <2> QED BY <1>1, <2>1, TakeStepInv, RegisterStepInv, RecordStepInv, StartStepInv, FinishStepInv,
             ReturnStepInv, AwaitStepInv, ReplyStepInv, RenewalStepInv DEF Work
<1> QED BY <1>1, <1>2, <1>3, <1>4, <1>5, <1>6 DEF Next

(* The invariant of the delivery, with that of the lease protocol.          *)
THEOREM DeliveryInvariant == Spec => [](LeaseInv /\ DeliveryInv)
<1>1. DeliveryInit => LeaseInv /\ DeliveryInv
  BY InitInv, DeliveryInitInv DEF DeliveryInit
<1>2. LeaseInv /\ DeliveryInv /\ [Next]_vars => LeaseInv' /\ DeliveryInv'
  BY DeliveryStepInv
<1> QED BY <1>1, <1>2, PTL DEF Spec

(* The queues, the journal and the workers have the shape the code gives    *)
(* them, and the epochs do not run out.                                     *)
THEOREM DeliveryTypeCorrect == Spec => []DeliveryTypeOK
<1>1. LeaseInv /\ DeliveryInv => DeliveryTypeOK
  <2> SUFFICES ASSUME LeaseInv, DeliveryInv PROVE DeliveryTypeOK
    OBVIOUS
  <2>1. LeaseTypeOK
    BY DEF LeaseInv
  <2>2. epoch \in Epochs \cup {NoEpoch}
    <3>1. epoch \in 1 .. (MaxFaults + 1) \/ epoch = 0
      BY TaskDeliveryAssumption DEF DeliveryInv, AgentTypeOK, SessionsAreCounted
    <3> QED BY <3>1, TaskDeliveryAssumption DEF NoEpoch
  <2>3. \A i \in DOMAIN up : up[i] \in [kind : {"ack", "renew", "result"}, lease : granted, ok : BOOLEAN]
    <3>1. \A i \in DOMAIN up : up[i] \in Frames /\ up[i].lease \in granted
      BY BeforeStep DEF FrameSound
    <3> QED BY <3>1 DEF Frames
  <2>4. \A t \in Tasks : journal[t].status \in {"none", "running"} \cup Terminal
    <3>1. \A t \in Tasks : journal[t] \in Entries
      BY BeforeStep
    <3> QED BY <3>1 DEF Entries
  <2>5. \A w \in Workers : worker[w].pc \in Pcs
    <3>1. \A w \in Workers : worker[w] \in WorkerRows
      BY BeforeStep
    <3> QED BY <3>1 DEF WorkerRows
  <2>6. \A t \in Tasks : outcomes[t] \subseteq BOOLEAN
    BY BeforeStep
  <2>7. \A i \in DOMAIN down : down[i] \in granted
    BY DEF DeliveryInv, LeasesAreGranted
  <2> QED BY <2>1, <2>2, <2>3, <2>4, <2>5, <2>6, <2>7, BeforeStep DEF DeliveryTypeOK
<1> QED BY <1>1, DeliveryInvariant, PTL

(* The claim loop, the frame handlers, the stream and the agent implement   *)
(* the lease protocol: acks, rejections, renewals and results only ever     *)
(* present leases that ClaimTask granted.                                   *)
THEOREM DeliveryImplementsLease == Spec => LeaseSpec
<1>1. DeliveryInit => LeaseInit
  BY DEF DeliveryInit
<1>2. DeliveryInv /\ [Next]_vars => [LeaseNext]_leaseVars
  BY DeliveryStepIsLeaseStep
<1> QED BY <1>1, <1>2, DeliveryInvariant, PTL DEF Spec, LeaseSpec

(* Broken streams, crashes, restarts and redeliveries included, the fence   *)
(* of the task table lets only the lease of the latest claim through.       *)
THEOREM DeliveryFenceIsSound == Spec => []OnlyCurrentLeaseMatches
  BY DeliveryImplementsLease, FenceIsSound, PTL

(* A task the control plane records as succeeded was executed with success, *)
(* whichever lease carried the result and however often it was replayed.    *)
THEOREM ReportedSuccessIsReal == Spec => []SucceededMeansDone
  BY DeliveryInvariant, PTL DEF DeliveryInv, SuccessIsDone

(* The journal keeps an operation from being executed in two sessions of    *)
(* the agent, and one with secret handles from being executed twice.        *)
THEOREM JournalKeepsFromRerunning == Spec => []JournalPreventsReruns
<1>1. DeliveryInv => JournalPreventsReruns
  BY DEF DeliveryInv, JournalFirst, SecretsRunOnce, JournalPreventsReruns
<1> QED BY <1>1, DeliveryInvariant, PTL
=============================================================================
