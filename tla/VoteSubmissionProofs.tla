------------------------- MODULE VoteSubmissionProofs -------------------------
(***************************************************************************)
(* The invariants of VoteSubmission, and that it implements BallotBox, for *)
(* every roll, any number of voters and retries, and whatever incidents    *)
(* there are.  One inductive invariant carries them all: it says where a    *)
(* task is when one of its transactions is somewhere on the network, what   *)
(* an executed transaction has left in the account, and what the readers    *)
(* hold.                                                                    *)
(***************************************************************************)
EXTENDS VoteSubmission, ElectionProgramProofs

(* The ballot a submission puts on chain. *)
BallotOf(j) ==
    [voter_index |-> IndexOf(VoterOf(j)),
     voter_hash  |-> VoterHash(VoterOf(j)),
     votes       |-> job[j].votes]

(* A transaction on the network belongs to an attempt its task has made: a  *)
(* queued task has not sent its present attempt yet.                        *)
TxsOfAttempts ==
    /\ \A j \in Job : job[j].pc # "none" => job[j].votes \in Selections
    /\ \A t \in Tx : net[t] # "none" =>
          /\ OnRoll(VoterOf(t[1]))
          /\ t[2] <= job[t[1]].attempt
          /\ t[2] = job[t[1]].attempt =>
                job[t[1]].pc \notin {"none", "enqueueing", "queued"}

(* The ballots in the account are those of the executed transactions.       *)
BallotsLanded ==
    /\ \A t \in Tx : net[t] = "ok" => BallotOf(t[1]) \in ballots
    /\ \A b \in ballots : \E t \in Tx : net[t] = "ok" /\ b = BallotOf(t[1])
    /\ AtMostOneLanded

(* A verdict that is held stays true until it is written, since an executed *)
(* transaction remains so; signatures in vote rows were recorded first.     *)
VerdictsHold ==
    /\ LedgerSound
    /\ \A r \in {poll, sync} :
          r.pc # "idle" /\ r.status = "confirmed" => net[r.tx] = "ok"
    /\ poll.pc = "saved" => poll.status = "confirmed"
    /\ \A j \in Job : job[j].pc = "recorded" => ledger[TxOf(j)] # "none"

(* A voter of the web view has one submission, with the recorded ballot;    *)
(* its signature is written last.                                           *)
WebBallots ==
    \A v \in Credential \ ApiVoters :
        /\ request[v] = 0
        /\ \A n \in 1..MaxCasts : job[<<v, n>>].pc # "none" =>
              job[<<v, n>>].votes = vote[v] /\ vote[v] # NoBallot
        /\ \A m, n \in 1..MaxCasts :
              job[<<v, m>>].pc # "none" /\ job[<<v, n>>].pc # "none" => m = n
        /\ tx_hash[v] # NoTx =>
              VoterOf(tx_hash[v][1]) = v /\ job[tx_hash[v][1]].pc = "done"
        /\ confirmed[v] => tx_hash[v] # NoTx /\ net[tx_hash[v]] = "ok"

SubmissionInv ==
    /\ SubmissionTypeOK /\ ProgramInv
    /\ TxsOfAttempts /\ BallotsLanded /\ VerdictsHold /\ WebBallots

-------------------------------------------------------------------------------
(* A credential of the roll has one index, below the number of voters.      *)
LEMMA IndexOnRoll ==
    ASSUME NEW v, OnRoll(v)
    PROVE  /\ IndexOf(v) \in Nat /\ IndexOf(v) \in 0..(Len(Roll) - 1)
           /\ Roll[IndexOf(v) + 1] = v
<1>1. Roll \in Seq(Credential) /\ Len(Roll) \in Nat
  BY SubmissionAssumption, ProgramAssumption
<1> DEFINE k == CHOOSE k \in DOMAIN Roll : Roll[k] = v
<1>2. k \in DOMAIN Roll /\ Roll[k] = v
  BY DEF OnRoll
<1>3. k \in 1..Len(Roll)
  BY <1>1, <1>2
<1>4. IndexOf(v) = k - 1
  BY DEF IndexOf
<1> HIDE DEF k
<1>5. (k - 1) + 1 = k
  BY <1>3
<1> QED BY <1>1, <1>2, <1>3, <1>4, <1>5

(* The server presents a leaf and a proof of the tree it deployed.          *)
LEMMA PresentedByServer ==
    ASSUME NEW v, OnRoll(v)
    PROVE  [leaf |-> VoterHash(v), proof |-> ProofOf(v)] \in Presented
<1>1. /\ Roll \in Rolls /\ IndexOf(v) \in 0..(Len(Roll) - 1)
  BY IndexOnRoll, SubmissionAssumption
<1>2. VoterHash(v) \in {VoterHash(Roll[k]) : k \in DOMAIN Roll}
  BY DEF OnRoll
<1>3. ProofOf(v) \in {GetMerkleProof(BuildMerkleTree(Leaves(Roll)), j) :
                         j \in 0..(Len(Roll) - 1)}
  BY <1>1 DEF ProofOf, CommittedTree
<1> QED BY <1>1, <1>2, <1>3 DEF Presented

(* A transaction on the network is of a submission that has begun.          *)
LEMMA SentHasBegun ==
    ASSUME SubmissionTypeOK, TxsOfAttempts, NEW t \in Tx, net[t] # "none"
    PROVE  /\ t[1] \in Job /\ t[2] \in 0..MaxRetries /\ t = <<t[1], t[2]>>
           /\ job[t[1]].pc # "none"
           /\ job[t[1]].votes \in Selections
<1>1. t[1] \in Job /\ t[2] \in 0..MaxRetries /\ t = <<t[1], t[2]>>
  BY DEF Tx
<1>2. /\ t[2] <= job[t[1]].attempt
      /\ t[2] = job[t[1]].attempt => job[t[1]].pc # "none"
      /\ job[t[1]].pc = "none" => job[t[1]].attempt = 0
      /\ job[t[1]].pc # "none" => job[t[1]].votes \in Selections
  BY <1>1 DEF TxsOfAttempts, SubmissionTypeOK
<1>3. t[2] \in Int /\ t[2] >= 0
  BY <1>1
<1> QED BY <1>1, <1>2, <1>3

(* An executed transaction is a move of the program.                        *)
LEMMA LandIsMove ==
    ASSUME SubmissionInv, NEW t \in Tx, LandCounted(t)
    PROVE  ProgramMove
<1>1. t[1] \in Job /\ net[t] = "inflight"
  BY DEF LandCounted, Tx
<1>2. OnRoll(VoterOf(t[1])) /\ job[t[1]].votes \in Selections
  BY <1>1, SentHasBegun DEF SubmissionInv, TxsOfAttempts
<1> DEFINE v == VoterOf(t[1])
           p == [leaf |-> VoterHash(v), proof |-> ProofOf(v)]
<1>3. p \in Presented /\ IndexOf(v) \in Nat
  BY <1>2, IndexOnRoll, PresentedByServer
<1>4. CastVote(IndexOf(v), p.leaf, p.proof, job[t[1]].votes)
  BY DEF LandCounted
<1> QED BY <1>2, <1>3, <1>4 DEF OpenMove, ProgramMove

LEMMA SubmissionMoves ==
    ASSUME SubmissionInv, [SubmissionNext]_submissionVars
    PROVE  ProgramMove
<1>1. ASSUME NEW t \in Tx, LandCounted(t)
      PROVE  ProgramMove
  BY <1>1, LandIsMove
<1>2. CASE UNCHANGED programVars
  BY <1>2 DEF OpenMove, ProgramMove
<1>3. CASE TimePasses
  BY <1>3 DEF TimePasses, OpenMove, ProgramMove
<1> QED
  BY <1>1, <1>2, <1>3
  DEF SubmissionNext, submissionVars, WebCast, ApiCast, ApiCommit, ApiRollback,
      Enqueue, NotEnqueued, WorkerStep, Skip, Send, NotSent, GetSignature,
      GiveUpWaiting, RecordTx, LinkVote, BookkeepingFails, WorkerKilled, Land,
      LandRejected, Expire, ForgetStatus, PollStep, SyncStep, PollRead, PollSave, PollConfirm,
      PollKilled, SyncRead, SyncSave

-------------------------------------------------------------------------------
LEMMA InitHasInv == SubmissionInit => SubmissionInv
<1> SUFFICES ASSUME SubmissionInit
             PROVE  SubmissionInv
  OBVIOUS
<1>1. ProgramInv
  <2>1. Roll \in Rolls /\ Layout \in Layouts /\ ChainWindow \in Windows
    BY SubmissionAssumption
  <2> QED BY <2>1, DeployedInv DEF SubmissionInit
<1>2. SubmissionTypeOK
  BY <1>1, SubmissionAssumption
  DEF SubmissionInit, SubmissionTypeOK, ProgramInv, JobPc, Idle
<1>3. TxsOfAttempts /\ BallotsLanded /\ WebBallots
  BY DEF SubmissionInit, TxsOfAttempts, BallotsLanded, AtMostOneLanded, WebBallots,
         Job, Tx
<1>4. VerdictsHold
  BY DEF SubmissionInit, VerdictsHold, LedgerSound, Idle, Job, Tx
<1> QED BY <1>1, <1>2, <1>3, <1>4 DEF SubmissionInv

JobRow ==
    [pc : JobPc, attempt : 0..MaxRetries, votes : Selections \cup {NoBallot}]

(* A retry keeps the ballot, and begins an attempt or gives up.             *)
LEMMA RetriedFacts ==
    ASSUME NEW r \in JobRow
    PROVE  /\ Retried(r) \in JobRow
           /\ Retried(r).votes = r.votes
           /\ \/ Retried(r).pc = "queued" /\ Retried(r).attempt = r.attempt + 1
              \/ Retried(r).pc = "failed" /\ Retried(r).attempt = r.attempt
<1>1. r.attempt \in 0..MaxRetries /\ MaxRetries \in Nat
  BY SubmissionAssumption DEF JobRow
<1>2. CASE r.attempt < MaxRetries
  <2>1. Retried(r) = [r EXCEPT !.pc = "queued", !.attempt = r.attempt + 1]
    BY <1>2 DEF Retried
  <2>2. r.attempt + 1 \in 0..MaxRetries /\ "queued" \in JobPc
    BY <1>1, <1>2 DEF JobPc
  <2> QED BY <2>1, <2>2 DEF JobRow
<1>3. CASE ~(r.attempt < MaxRetries)
  <2>1. Retried(r) = [r EXCEPT !.pc = "failed"] /\ "failed" \in JobPc
    BY <1>3 DEF Retried, JobPc
  <2> QED BY <2>1 DEF JobRow
<1> QED BY <1>2, <1>3

-------------------------------------------------------------------------------
(* What a step does to one task and to the network; the cases of the        *)
(* lemmas below.  Only these three kinds of steps change tasks.             *)
Begins(j) == job[j].pc = "none" /\ job'[j].pc = "enqueueing"

Advances(j) ==
    /\ job[j].pc \notin {"none", "done"} /\ job'[j].pc # "none"
    /\ job'[j].votes = job[j].votes /\ job'[j].attempt = job[j].attempt
    /\ job'[j].pc \in {"none", "enqueueing", "queued"} =>
          job[j].pc \in {"none", "enqueueing", "queued"}

Retries(j) ==
    /\ job[j].pc \notin {"none", "enqueueing", "done"}
    /\ job'[j].pc \in {"queued", "failed"}
    /\ job'[j].votes = job[j].votes
    /\ job'[j].attempt = IF job'[j].pc = "queued" THEN job[j].attempt + 1
                         ELSE job[j].attempt

LEMMA JobSteps ==
    ASSUME SubmissionInv, [SubmissionNext]_submissionVars
    PROVE  \A j \in Job :
              \/ job'[j] = job[j]
              \/ Advances(j)
              \/ Retries(j) /\ UNCHANGED net
              \/ /\ Begins(j) /\ UNCHANGED net
                 /\ job'[j].attempt = 0 /\ job'[j].votes \in Selections
<1> USE DEF ledgerVars, networkVars
<1> SUFFICES ASSUME NEW j \in Job
             PROVE  \/ job'[j] = job[j]
                    \/ Advances(j)
                    \/ Retries(j) /\ UNCHANGED net
                    \/ /\ Begins(j) /\ UNCHANGED net
                       /\ job'[j].attempt = 0 /\ job'[j].votes \in Selections
  OBVIOUS
<1> DEFINE Goal == \/ job'[j] = job[j]
                   \/ Advances(j)
                   \/ Retries(j) /\ UNCHANGED net
                   \/ /\ Begins(j) /\ UNCHANGED net
                      /\ job'[j].attempt = 0 /\ job'[j].votes \in Selections
<1>1. job \in [Job -> JobRow]
  BY DEF SubmissionInv, SubmissionTypeOK, JobRow
<1>2. ASSUME NEW v \in Credential, NEW n \in 1..MaxCasts, NEW b \in Selections,
             WebCast(v, n, b) \/ ApiCast(v, n, b)
      PROVE  Goal
  <2>1. job[<<v, n>>].pc = "none" /\ UNCHANGED net
        /\ job' = [job EXCEPT ![<<v, n>>] =
                     [pc |-> "enqueueing", attempt |-> 0, votes |-> b]]
    BY <1>2 DEF WebCast, ApiCast, Fresh, Begun
  <2> QED BY <1>1, <2>1 DEF Begins
<1>3. ASSUME NEW i \in Job,
             \/ Enqueue(i) \/ NotEnqueued(i) \/ Skip(i) \/ GetSignature(i)
             \/ WorkerKilled(i) \/ Send(i) \/ RecordTx(i) \/ LinkVote(i)
      PROVE  Goal
  <2>1. PICK pc \in {"queued", "unsent", "skipped", "signed", "lost", "waiting",
                     "recorded", "done"} : job' = [job EXCEPT ![i].pc = pc]
    BY <1>3 DEF Enqueue, NotEnqueued, Skip, GetSignature, WorkerKilled, Send,
                RecordTx, LinkVote, GoesTo
  <2>2. /\ job[i].pc \notin {"none", "done"}
        /\ pc = "queued" => job[i].pc = "enqueueing"
    BY <1>1, <1>3, <2>1
    DEF Enqueue, NotEnqueued, Skip, GetSignature, WorkerKilled, Send, RecordTx,
        LinkVote, GoesTo, JobRow
  <2>3. CASE j = i
    <3>1. job'[j] = [job[j] EXCEPT !.pc = pc] /\ job[j] \in JobRow
      BY <1>1, <2>1, <2>3
    <3> QED BY <2>2, <2>3, <3>1 DEF Advances, JobRow
  <2>4. CASE j # i
    BY <1>1, <2>1, <2>4
  <2> QED BY <2>3, <2>4
<1>4. ASSUME NEW i \in Job, NotSent(i) \/ GiveUpWaiting(i) \/ BookkeepingFails(i)
      PROVE  Goal
  <2>1. /\ job' = [job EXCEPT ![i] = Retried(job[i])] /\ UNCHANGED net
        /\ job[i].pc \notin {"none", "enqueueing", "done"}
    BY <1>4 DEF NotSent, GiveUpWaiting, BookkeepingFails, Retry
  <2>2. CASE j = i
    <3>1. job'[j] = Retried(job[j]) /\ job[j] \in JobRow
      BY <1>1, <2>1, <2>2
    <3> QED BY <2>1, <2>2, <3>1, RetriedFacts DEF Retries
  <2>3. CASE j # i
    BY <1>1, <2>1, <2>3
  <2> QED BY <2>2, <2>3
<1>5. CASE UNCHANGED job
  BY <1>5
<1> QED
  BY <1>2, <1>3, <1>4, <1>5
  DEF SubmissionNext, WorkerStep, Land, PollStep, SyncStep, submissionVars, readerVars,
      ApiCommit, ApiRollback, LandCounted, LandRejected, Expire, ForgetStatus, SyncRead, PollRead,
      PollSave, PollConfirm, PollKilled, SyncSave, TimePasses

(* There are finitely many signatures, so those with a row can be counted.  *)
LEMMA PlacesAreNumbers ==
    \A S \in SUBSET Tx : IsFiniteSet(S) /\ Cardinality(S) \in Nat
<1>1. IsFiniteSet(Credential) /\ MaxCasts \in Int /\ MaxRetries \in Int
  BY SubmissionAssumption
<1>2. IsFiniteSet(1..MaxCasts) /\ IsFiniteSet(0..MaxRetries)
  BY <1>1, FS_Interval
<1>3. IsFiniteSet(Job)
  BY <1>1, <1>2, FS_Product DEF Job
<1>4. IsFiniteSet(Tx)
  BY <1>2, <1>3, FS_Product DEF Tx
<1> QED BY <1>4, FS_Subset, FS_CardinalityType

LEMMA TypeKept ==
    ASSUME SubmissionInv, [SubmissionNext]_submissionVars
    PROVE  SubmissionTypeOK'
<1> USE DEF SubmissionTypeOK, ledgerVars, networkVars
<1>1. /\ ProgramTypeOK'
      /\ \A j \in Job : job'[j].pc = "none" =>
            job'[j].attempt = 0 /\ job'[j].votes = NoBallot
  BY SubmissionMoves, MoveKeepsInv, JobSteps
  DEF SubmissionInv, ProgramInv, Advances, Retries, Begins
<1>2. SubmissionTypeOK
  BY DEF SubmissionInv
<1>3. \A j \in Job : /\ j[1] \in Credential /\ j[2] \in 1..MaxCasts
                     /\ \A a \in 0..MaxRetries : <<j, a>> \in Tx
  BY DEF Job, Tx
<1>4. ASSUME NEW v \in Credential, NEW n \in 1..MaxCasts, NEW b \in Selections,
             WebCast(v, n, b) \/ ApiCast(v, n, b)
      PROVE  SubmissionTypeOK'
  <2>1. <<v, n>> \in Job
    BY DEF Job
  <2>2. [pc |-> "enqueueing", attempt |-> 0, votes |-> b] \in JobRow
    BY SubmissionAssumption DEF JobRow, JobPc
  <2>3. Begun(v, n, b) => job' \in [Job -> JobRow]
    BY <1>2, <2>1, <2>2 DEF Begun, JobRow
  <2>4. CASE WebCast(v, n, b)
    BY <1>1, <1>2, <2>3, <2>4 DEF WebCast, voteRefVars, readerVars, JobRow
  <2>5. CASE ApiCast(v, n, b)
    BY <1>1, <1>2, <2>3, <2>5, SubmissionAssumption
    DEF ApiCast, voteRefVars, readerVars, JobRow
  <2> QED BY <1>4, <2>4, <2>5
<1>5. ASSUME NEW v \in Credential, ApiCommit(v) \/ ApiRollback(v)
      PROVE  SubmissionTypeOK'
  <2>1. request[v] \in 1..MaxCasts => <<v, request[v]>> \in Job
    BY DEF Job
  <2> QED BY <1>1, <1>2, <1>5, <2>1, SubmissionAssumption
          DEF ApiCommit, ApiRollback, ReadyToCommit, programVars, voteRefVars,
              readerVars
<1>6. ASSUME NEW j \in Job,
             \/ Enqueue(j) \/ NotEnqueued(j) \/ Skip(j) \/ GetSignature(j)
             \/ WorkerKilled(j)
      PROVE  SubmissionTypeOK'
  BY <1>1, <1>2, <1>6
  DEF Enqueue, NotEnqueued, Skip, GetSignature, WorkerKilled, GoesTo, JobPc,
      programVars, databaseVars, voteRefVars, readerVars
<1>7. ASSUME NEW j \in Job, Send(j) \/ RecordTx(j) \/ LinkVote(j)
      PROVE  SubmissionTypeOK'
  <2>1. TxOf(j) \in Tx /\ VoterOf(j) \in Credential
    BY <1>2, <1>3 DEF TxOf, VoterOf
  <2>2. CASE Send(j)
    BY <1>1, <1>2, <2>1, <2>2
    DEF Send, GoesTo, JobPc, programVars, databaseVars, voteRefVars, readerVars
  <2>3. CASE RecordTx(j)
    BY <1>1, <1>2, <2>1, <2>3, PlacesAreNumbers
    DEF RecordTx, GoesTo, JobPc, programVars, databaseVars, voteRefVars, readerVars
  <2>4. CASE LinkVote(j)
    BY <1>1, <1>2, <2>1, <2>4
    DEF LinkVote, GoesTo, JobPc, programVars, databaseVars, readerVars
  <2> QED BY <1>7, <2>2, <2>3, <2>4
<1>8. ASSUME NEW j \in Job, NotSent(j) \/ GiveUpWaiting(j) \/ BookkeepingFails(j)
      PROVE  SubmissionTypeOK'
  <2>1. Retry(j) /\ UNCHANGED <<databaseVars, voteRefVars, ledgerVars, networkVars, readerVars>>
    BY <1>8 DEF NotSent, GiveUpWaiting, BookkeepingFails
  <2>2. Retried(job[j]) \in [pc : JobPc, attempt : 0..MaxRetries,
                             votes : Selections \cup {NoBallot}]
    BY <1>2, RetriedFacts DEF JobRow
  <2> QED BY <1>1, <1>2, <2>1, <2>2
          DEF Retry, databaseVars, voteRefVars, readerVars
<1>9. ASSUME NEW t \in Tx,
             \/ LandCounted(t) \/ LandRejected(t) \/ Expire(t)
             \/ ForgetStatus(t)
      PROVE  SubmissionTypeOK'
  BY <1>1, <1>2, <1>9
  DEF LandCounted, LandRejected, Expire, ForgetStatus, programVars, databaseVars, voteRefVars,
      readerVars
<1>10. ASSUME NEW t \in Tx, PollRead(t) \/ SyncRead(t)
       PROVE  SubmissionTypeOK'
  BY <1>1, <1>2, <1>10
  DEF PollRead, SyncRead, Verdict, programVars, databaseVars, voteRefVars
<1>11. CASE PollSave \/ PollConfirm \/ PollKilled \/ SyncSave
  <2>1. /\ poll.pc # "idle" => poll \in [pc : {"read", "saved"}, tx : Tx,
                                        status : {"confirmed", "failed"}]
        /\ sync.pc # "idle" => sync \in [pc : {"read", "saved"}, tx : Tx,
                                        status : {"confirmed", "failed"}]
    BY <1>2 DEF Idle
  <2>2. CASE PollSave
    BY <1>1, <1>2, <2>1, <2>2
    DEF PollSave, programVars, databaseVars, voteRefVars
  <2>3. CASE PollConfirm
    BY <1>1, <1>2, <2>3 DEF PollConfirm, programVars, databaseVars, Carries
  <2>4. CASE PollKilled
    BY <1>1, <1>2, <2>4 DEF PollKilled, programVars, databaseVars, voteRefVars
  <2>5. CASE SyncSave
    BY <1>1, <1>2, <2>1, <2>5
    DEF SyncSave, programVars, databaseVars, voteRefVars
  <2> QED BY <1>11, <2>2, <2>3, <2>4, <2>5
<1>12. CASE TimePasses \/ UNCHANGED submissionVars
  BY <1>1, <1>2, <1>12
  DEF TimePasses, submissionVars, databaseVars, voteRefVars, readerVars
<1> QED
  BY <1>4, <1>5, <1>6, <1>7, <1>8, <1>9, <1>10, <1>11, <1>12
  DEF SubmissionNext, WorkerStep, Land, PollStep, SyncStep

-------------------------------------------------------------------------------
(* A transaction is sent by its task, from the queue; then it comes to an   *)
(* end, which stays.                                                        *)
LEMMA NetSteps ==
    ASSUME SubmissionInv, [SubmissionNext]_submissionVars
    PROVE  \A t \in Tx :
              \/ net'[t] = net[t]
              \/ net[t] = "inflight" /\ net'[t] # "none"
              \/ /\ net[t] = "none" /\ net'[t] = "inflight"
                 /\ t = TxOf(t[1]) /\ OnRoll(VoterOf(t[1]))
                 /\ job[t[1]].pc = "queued" /\ job'[t[1]].pc = "waiting"
<1> USE DEF ledgerVars, networkVars
<1> SUFFICES ASSUME NEW t \in Tx
             PROVE  \/ net'[t] = net[t]
                    \/ net[t] = "inflight" /\ net'[t] # "none"
                    \/ /\ net[t] = "none" /\ net'[t] = "inflight"
                       /\ t = TxOf(t[1]) /\ OnRoll(VoterOf(t[1]))
                       /\ job[t[1]].pc = "queued" /\ job'[t[1]].pc = "waiting"
  OBVIOUS
<1>1. /\ job \in [Job -> JobRow]
      /\ net \in [Tx -> {"none", "inflight", "ok", "err", "expired"}]
  BY DEF SubmissionInv, SubmissionTypeOK, JobRow
<1>2. ASSUME NEW j \in Job, Send(j)
      PROVE  \/ net'[t] = net[t]
             \/ /\ net[t] = "none" /\ net'[t] = "inflight"
                /\ t = TxOf(t[1]) /\ OnRoll(VoterOf(t[1]))
                /\ job[t[1]].pc = "queued" /\ job'[t[1]].pc = "waiting"
  <2>1. /\ job[j].pc = "queued" /\ OnRoll(VoterOf(j))
        /\ job' = [job EXCEPT ![j].pc = "waiting"]
        /\ net' = [net EXCEPT ![TxOf(j)] = "inflight"]
    BY <1>2 DEF Send, Submittable, GoesTo
  <2>2. CASE t = TxOf(j)
    <3>1. t[1] = j /\ t[2] = job[j].attempt
      BY <2>2 DEF TxOf
    <3>2. net[t] = "none"
      BY <2>1, <3>1 DEF SubmissionInv, TxsOfAttempts
    <3> QED BY <1>1, <2>1, <2>2, <3>1, <3>2 DEF JobRow
  <2>3. CASE t # TxOf(j)
    BY <1>1, <2>1, <2>3
  <2> QED BY <2>2, <2>3
<1>3. ASSUME NEW u \in Tx, LandCounted(u) \/ LandRejected(u) \/ Expire(u)
      PROVE  net'[t] = net[t] \/ (net[t] = "inflight" /\ net'[t] # "none")
  BY <1>1, <1>3 DEF LandCounted, LandRejected, Expire, ForgetStatus
<1>4. CASE UNCHANGED net
  BY <1>4
<1> QED
  BY <1>2, <1>3, <1>4
  DEF SubmissionNext, WorkerStep, Land, PollStep, SyncStep, submissionVars, readerVars,
      WebCast, ApiCast, ApiCommit, ApiRollback, Enqueue, NotEnqueued, Skip, NotSent,
      GetSignature, GiveUpWaiting, RecordTx, LinkVote, BookkeepingFails,
      WorkerKilled, ForgetStatus, SyncRead, PollRead, PollSave, PollConfirm,
      PollKilled, SyncSave, TimePasses

LEMMA TxsKept ==
    ASSUME SubmissionInv, [SubmissionNext]_submissionVars
    PROVE  TxsOfAttempts'
<1>1. SubmissionTypeOK /\ TxsOfAttempts /\ SubmissionTypeOK'
  BY TypeKept DEF SubmissionInv
<1>2. /\ job \in [Job -> JobRow] /\ job' \in [Job -> JobRow]
  BY <1>1 DEF SubmissionTypeOK, JobRow
<1>3. ASSUME NEW j \in Job
      PROVE  job'[j].pc # "none" => job'[j].votes \in Selections
  BY <1>1, JobSteps DEF TxsOfAttempts, Advances, Retries, Begins
<1>4. ASSUME NEW t \in Tx, net'[t] # "none"
      PROVE  /\ OnRoll(VoterOf(t[1]))
             /\ t[2] <= job'[t[1]].attempt
             /\ t[2] = job'[t[1]].attempt =>
                   job'[t[1]].pc \notin {"none", "enqueueing", "queued"}
  <2>1. /\ t[1] \in Job /\ t[2] \in Nat
        /\ job[t[1]].attempt \in Nat /\ job'[t[1]].attempt \in Nat
    BY <1>2 DEF Tx, JobRow
  <2>2. CASE net[t] # "none"
    <3>1. /\ OnRoll(VoterOf(t[1]))
          /\ t[2] <= job[t[1]].attempt /\ job[t[1]].pc # "none"
          /\ t[2] = job[t[1]].attempt =>
                job[t[1]].pc \notin {"none", "enqueueing", "queued"}
      BY <1>1, <2>2, SentHasBegun DEF TxsOfAttempts
    <3> QED BY <2>1, <3>1, JobSteps DEF Advances, Retries, Begins
  <2>3. CASE net[t] = "none"
    <3>1. /\ t = TxOf(t[1]) /\ OnRoll(VoterOf(t[1]))
          /\ job[t[1]].pc = "queued" /\ job'[t[1]].pc = "waiting"
      BY <1>4, <2>3, NetSteps
    <3>2. job'[t[1]].attempt = job[t[1]].attempt
      BY <2>1, <3>1, JobSteps DEF Advances, Retries, Begins
    <3>3. t[2] = job[t[1]].attempt
      BY <3>1 DEF TxOf
    <3> QED BY <2>1, <3>1, <3>2, <3>3
  <2> QED BY <2>2, <2>3
<1> QED BY <1>3, <1>4 DEF TxsOfAttempts

-------------------------------------------------------------------------------
(* The ballot of a transaction on the network does not change.              *)
LEMMA BallotKept ==
    ASSUME SubmissionInv, [SubmissionNext]_submissionVars,
           NEW t \in Tx, net[t] # "none"
    PROVE  /\ job'[t[1]].votes = job[t[1]].votes
           /\ BallotOf(t[1])' = BallotOf(t[1])
<1>1. t[1] \in Job /\ job[t[1]].pc # "none"
  BY SentHasBegun DEF SubmissionInv
<1>2. job'[t[1]].votes = job[t[1]].votes
  BY <1>1, JobSteps DEF Advances, Retries, Begins
<1> QED BY <1>2 DEF BallotOf, IndexOf, VoterOf, VoterHash

(* Transactions are executed with success, and ballots are counted, in the  *)
(* same steps.                                                              *)
LEMMA OkSteps ==
    ASSUME SubmissionInv, [SubmissionNext]_submissionVars
    PROVE  \/ \E t \in Tx : LandCounted(t)
           \/ /\ UNCHANGED ballots
              /\ \A t \in Tx : net'[t] = "ok" <=> net[t] = "ok"
<1> USE DEF ledgerVars, networkVars
<1>1. net \in [Tx -> {"none", "inflight", "ok", "err", "expired"}]
  BY DEF SubmissionInv, SubmissionTypeOK
<1>2. ASSUME NEW j \in Job, Send(j)
      PROVE  UNCHANGED ballots /\ \A t \in Tx : net'[t] = "ok" <=> net[t] = "ok"
  <2>1. UNCHANGED ballots
    BY <1>2 DEF Send, programVars
  <2>2. net' = [net EXCEPT ![TxOf(j)] = "inflight"] /\ job[j].pc = "queued"
    BY <1>2 DEF Send
  <2>3. \A t \in Tx : t = TxOf(j) => net[t] = "none"
    BY <2>2 DEF TxOf, SubmissionInv, TxsOfAttempts
  <2> QED BY <1>1, <2>1, <2>2, <2>3
<1>3. ASSUME NEW t \in Tx, LandRejected(t) \/ Expire(t)
      PROVE  UNCHANGED ballots /\ \A u \in Tx : net'[u] = "ok" <=> net[u] = "ok"
  BY <1>1, <1>3 DEF LandRejected, Expire, ForgetStatus, programVars
<1>4. CASE UNCHANGED <<ballots, net>>
  BY <1>4
<1> QED
  BY <1>2, <1>3, <1>4
  DEF SubmissionNext, WorkerStep, Land, PollStep, SyncStep, submissionVars, programVars,
      WebCast, ApiCast, ApiCommit, ApiRollback, Enqueue, NotEnqueued, Skip, NotSent,
      GetSignature, GiveUpWaiting, RecordTx, LinkVote, BookkeepingFails,
      WorkerKilled, ForgetStatus, SyncRead, PollRead, PollSave, PollConfirm,
      PollKilled, SyncSave, TimePasses, Tick

(* The transaction that is executed is of a voter whose bit was not set:    *)
(* none of this voter's transactions has been executed with success before. *)
LEMMA FirstToLand ==
    ASSUME SubmissionInv, NEW t \in Tx, LandCounted(t)
    PROVE  /\ ballots' = ballots \cup {BallotOf(t[1])}
           /\ net' = [net EXCEPT ![t] = "ok"] /\ net[t] = "inflight"
           /\ \A b \in ballots : b.voter_index # IndexOf(VoterOf(t[1]))
           /\ \A u \in Tx : net[u] = "ok" => VoterOf(u[1]) # VoterOf(t[1])
<1>1. /\ account # NoAccount /\ NotVoted(account, IndexOf(VoterOf(t[1])))
      /\ ballots' = ballots \cup {BallotOf(t[1])}
      /\ net' = [net EXCEPT ![t] = "ok"] /\ net[t] = "inflight"
  BY DEF LandCounted, CastVote, Accepts, BallotOf
<1>2. account.voted_bitfield = {b.voter_index : b \in ballots}
  BY <1>1 DEF SubmissionInv, ProgramInv, BallotsRegistered
<1>3. \A b \in ballots : b.voter_index # IndexOf(VoterOf(t[1]))
  BY <1>1, <1>2 DEF NotVoted
<1>4. ASSUME NEW u \in Tx, net[u] = "ok", VoterOf(u[1]) = VoterOf(t[1])
      PROVE  FALSE
  <2>1. BallotOf(u[1]) \in ballots
    BY <1>4 DEF SubmissionInv, BallotsLanded
  <2>2. BallotOf(u[1]).voter_index = IndexOf(VoterOf(t[1]))
    BY <1>4 DEF BallotOf
  <2> QED BY <1>3, <2>1, <2>2
<1> QED BY <1>1, <1>3, <1>4

LEMMA LandedKept ==
    ASSUME SubmissionInv, [SubmissionNext]_submissionVars
    PROVE  BallotsLanded'
<1>1. /\ BallotsLanded
      /\ net \in [Tx -> {"none", "inflight", "ok", "err", "expired"}]
  BY DEF SubmissionInv, SubmissionTypeOK
<1>2. ASSUME NEW t \in Tx, LandCounted(t)
      PROVE  BallotsLanded'
  <2>1. /\ ballots' = ballots \cup {BallotOf(t[1])}
        /\ net' = [net EXCEPT ![t] = "ok"] /\ net[t] = "inflight"
        /\ \A u \in Tx : net[u] = "ok" => VoterOf(u[1]) # VoterOf(t[1])
    BY <1>2, FirstToLand
  <2>2. \A u \in Tx : net'[u] = "ok" <=> u = t \/ net[u] = "ok"
    BY <1>1, <2>1
  <2>3. \A u \in Tx : net'[u] = "ok" => BallotOf(u[1])' = BallotOf(u[1])
    BY <2>1, <2>2, BallotKept
  <2>4. ASSUME NEW u \in Tx, net'[u] = "ok"
        PROVE  BallotOf(u[1])' \in ballots'
    BY <1>1, <2>1, <2>2, <2>3, <2>4 DEF BallotsLanded
  <2>5. ASSUME NEW b \in ballots'
        PROVE  \E u \in Tx : net'[u] = "ok" /\ b = BallotOf(u[1])'
    BY <1>1, <2>1, <2>2, <2>3 DEF BallotsLanded
  <2>6. AtMostOneLanded'
    BY <1>1, <2>1, <2>2 DEF BallotsLanded, AtMostOneLanded, VoterOf
  <2> QED BY <2>4, <2>5, <2>6 DEF BallotsLanded
<1>3. ASSUME UNCHANGED ballots, \A t \in Tx : net'[t] = "ok" <=> net[t] = "ok"
      PROVE  BallotsLanded'
  <2>1. \A u \in Tx : net'[u] = "ok" => BallotOf(u[1])' = BallotOf(u[1])
    BY <1>3, BallotKept
  <2>2. AtMostOneLanded'
    BY <1>1, <1>3 DEF BallotsLanded, AtMostOneLanded, VoterOf
  <2>3. \A t \in Tx : net'[t] = "ok" => BallotOf(t[1])' \in ballots'
    BY <1>1, <1>3, <2>1 DEF BallotsLanded
  <2>4. \A b \in ballots' : \E t \in Tx : net'[t] = "ok" /\ b = BallotOf(t[1])'
    BY <1>1, <1>3, <2>1 DEF BallotsLanded
  <2> QED BY <2>2, <2>3, <2>4 DEF BallotsLanded
<1> QED BY <1>2, <1>3, OkSteps

LEMMA OkStays ==
    ASSUME SubmissionInv, [SubmissionNext]_submissionVars,
           NEW t \in Tx, net[t] = "ok"
    PROVE  net'[t] = "ok"
BY OkSteps, FirstToLand DEF SubmissionInv, SubmissionTypeOK

-------------------------------------------------------------------------------
(* Most steps leave the ledger, the vote rows' references and the readers   *)
(* alone, and bring no task to where it links a vote.                       *)
Elsewhere ==
    /\ UNCHANGED <<ledger, voteRefVars, readerVars>>
    /\ \A j \in Job : job'[j].pc \in {"recorded", "done"} => job'[j] = job[j]

LEMMA BookkeepingSteps ==
    ASSUME SubmissionInv, [SubmissionNext]_submissionVars
    PROVE  \/ \E j \in Job : RecordTx(j) \/ LinkVote(j)
           \/ \E t \in Tx : PollRead(t) \/ SyncRead(t)
           \/ PollSave \/ SyncSave \/ PollConfirm \/ PollKilled
           \/ Elsewhere
<1> USE DEF ledgerVars, networkVars
<1>1. job \in [Job -> JobRow]
  BY DEF SubmissionInv, SubmissionTypeOK, JobRow
<1>2. ASSUME NEW v \in Credential, NEW n \in 1..MaxCasts, NEW b \in Selections,
             WebCast(v, n, b) \/ ApiCast(v, n, b)
      PROVE  Elsewhere
  BY <1>1, <1>2 DEF WebCast, ApiCast, Begun, Elsewhere
<1>3. ASSUME NEW i \in Job,
             \/ Enqueue(i) \/ NotEnqueued(i) \/ Skip(i) \/ GetSignature(i)
             \/ WorkerKilled(i) \/ Send(i)
      PROVE  Elsewhere
  <2>1. PICK pc \in {"queued", "unsent", "skipped", "signed", "lost", "waiting"} :
           job' = [job EXCEPT ![i].pc = pc]
    BY <1>3 DEF Enqueue, NotEnqueued, Skip, GetSignature, WorkerKilled, Send, GoesTo
  <2>2. UNCHANGED <<ledger, voteRefVars, readerVars>>
    BY <1>3 DEF Enqueue, NotEnqueued, Skip, GetSignature, WorkerKilled, Send
  <2>3. job'[i].pc = pc /\ \A j \in Job : j # i => job'[j] = job[j]
    BY <1>1, <2>1 DEF JobRow
  <2> QED BY <2>2, <2>3 DEF Elsewhere
<1>4. ASSUME NEW i \in Job, NotSent(i) \/ GiveUpWaiting(i) \/ BookkeepingFails(i)
      PROVE  Elsewhere
  <2>1. /\ UNCHANGED <<ledger, voteRefVars, readerVars>>
        /\ job' = [job EXCEPT ![i] = Retried(job[i])]
    BY <1>4 DEF NotSent, GiveUpWaiting, BookkeepingFails, Retry
  <2>2. Retried(job[i]).pc \in {"queued", "failed"}
    BY <1>1, RetriedFacts
  <2> QED BY <1>1, <2>1, <2>2 DEF Elsewhere
<1>5. CASE UNCHANGED <<ledger, voteRefVars, readerVars, job>>
  BY <1>5 DEF Elsewhere
<1> QED
  BY <1>2, <1>3, <1>4, <1>5
  DEF SubmissionNext, WorkerStep, Land, PollStep, SyncStep, submissionVars,
      ApiCommit, ApiRollback, LandCounted, LandRejected, Expire, ForgetStatus, TimePasses

LEMMA VerdictsKept ==
    ASSUME SubmissionInv, [SubmissionNext]_submissionVars
    PROVE  VerdictsHold'
<1> USE DEF ledgerVars, networkVars
<1>1. /\ VerdictsHold /\ SubmissionTypeOK /\ SubmissionTypeOK'
      /\ \A t \in Tx : net[t] = "ok" => net'[t] = "ok"
  BY TypeKept, OkStays DEF SubmissionInv
<1>2. /\ ledger \in [Tx -> {"none", "pending", "confirmed", "failed"}]
      /\ tx_hash \in [Credential -> Tx \cup {NoTx}]
      /\ job \in [Job -> JobRow]
      /\ poll.pc # "idle" => /\ poll.tx \in Tx
                             /\ poll.status \in {"confirmed", "failed"}
      /\ sync.pc # "idle" => /\ sync.tx \in Tx
                             /\ sync.status \in {"confirmed", "failed"}
  BY <1>1 DEF SubmissionTypeOK, JobRow, Idle
<1>3. \A j \in Job : TxOf(j) \in Tx /\ VoterOf(j) \in Credential
  BY <1>2 DEF Job, Tx, TxOf, VoterOf, JobRow
<1>4. ASSUME NEW i \in Job, RecordTx(i)
      PROVE  VerdictsHold'
  <2>1. /\ ledger' = [ledger EXCEPT ![TxOf(i)] = "pending"]
        /\ job' = [job EXCEPT ![i].pc = "recorded"]
        /\ UNCHANGED <<tx_hash, poll, sync, net>>
    BY <1>4 DEF RecordTx, GoesTo, voteRefVars, readerVars
  <2>2. \A j \in Job : job'[j].pc = "recorded" => ledger'[TxOf(j)'] # "none"
    BY <1>1, <1>2, <1>3, <2>1 DEF VerdictsHold, TxOf, JobRow
  <2>3. LedgerSound'
    BY <1>1, <1>2, <1>3, <2>1 DEF VerdictsHold, LedgerSound
  <2> QED BY <1>1, <2>1, <2>2, <2>3 DEF VerdictsHold
<1>5. ASSUME NEW i \in Job, LinkVote(i)
      PROVE  VerdictsHold'
  <2>1. /\ tx_hash' = [tx_hash EXCEPT ![VoterOf(i)] =
                          IF vote[VoterOf(i)] = NoBallot THEN NoTx ELSE TxOf(i)]
        /\ job' = [job EXCEPT ![i].pc = "done"] /\ job[i].pc = "recorded"
        /\ UNCHANGED <<ledger, poll, sync, net>>
    BY <1>5 DEF LinkVote, GoesTo, readerVars
  <2>2. \A j \in Job : job'[j].pc = "recorded" => ledger'[TxOf(j)'] # "none"
    BY <1>1, <1>2, <2>1 DEF VerdictsHold, TxOf, JobRow
  <2>3. LedgerSound'
    BY <1>1, <1>2, <1>3, <2>1 DEF VerdictsHold, LedgerSound
  <2> QED BY <1>1, <2>1, <2>2, <2>3 DEF VerdictsHold
<1>6. ASSUME NEW t \in Tx, PollRead(t) \/ SyncRead(t)
      PROVE  VerdictsHold'
  <2>1. UNCHANGED <<ledger, tx_hash, net, job>>
    BY <1>6 DEF PollRead, SyncRead, voteRefVars
  <2>2. \/ UNCHANGED poll
        \/ /\ poll'.pc = "read" /\ poll'.tx = t
           /\ poll'.status = "confirmed" => net[t] = "ok"
    BY <1>6 DEF PollRead, SyncRead, Verdict
  <2>3. \/ UNCHANGED sync
        \/ /\ sync'.pc = "read" /\ sync'.tx = t
           /\ sync'.status = "confirmed" => net[t] = "ok"
    BY <1>6 DEF PollRead, SyncRead, Verdict
  <2>4. LedgerSound' /\ (poll'.pc = "saved" => poll'.status = "confirmed")
    BY <1>1, <2>1, <2>2 DEF VerdictsHold, LedgerSound
  <2>5. \A r \in {poll', sync'} :
           r.pc # "idle" /\ r.status = "confirmed" => net'[r.tx] = "ok"
    BY <1>1, <2>1, <2>2, <2>3 DEF VerdictsHold
  <2> QED BY <1>1, <2>1, <2>4, <2>5 DEF VerdictsHold, TxOf
<1>7. CASE PollSave \/ SyncSave
  <2>1. UNCHANGED <<tx_hash, net, job>>
    BY <1>7 DEF PollSave, SyncSave, voteRefVars
  <2>2. PICK t \in Tx, status \in {"confirmed", "failed"} :
           /\ ledger' = [ledger EXCEPT ![t] = status]
           /\ status = "confirmed" => net[t] = "ok"
    BY <1>1, <1>2, <1>7 DEF PollSave, SyncSave, VerdictsHold
  <2>3. LedgerSound' /\ \A u \in Tx : ledger[u] # "none" => ledger'[u] # "none"
    BY <1>1, <1>2, <2>1, <2>2 DEF VerdictsHold, LedgerSound
  <2>4. \A j \in Job : job'[j].pc = "recorded" => ledger'[TxOf(j)'] # "none"
    BY <1>1, <1>3, <2>1, <2>3 DEF VerdictsHold, TxOf
  <2>5. /\ \/ poll' \in {poll, Idle}
           \/ /\ poll' = [poll EXCEPT !.pc = "saved"]
              /\ poll.pc = "read" /\ poll.status = "confirmed"
        /\ sync' \in {sync, Idle}
    BY <1>7 DEF PollSave, SyncSave
  <2>6. /\ poll'.pc = "saved" => poll'.status = "confirmed"
        /\ \A r \in {poll', sync'} :
              r.pc # "idle" /\ r.status = "confirmed" => net'[r.tx] = "ok"
    <3>1. poll \in [pc : {"read", "saved"}, tx : Tx, status : {"confirmed", "failed"}]
             \/ poll = Idle
      BY <1>1 DEF SubmissionTypeOK
    <3>2. poll' \in {poll, Idle} \/ /\ poll'.pc = "saved" /\ poll'.tx = poll.tx
                                    /\ poll'.status = "confirmed"
                                    /\ net[poll.tx] = "ok"
      BY <1>1, <2>5, <3>1 DEF VerdictsHold, Idle
    <3> QED BY <1>1, <2>1, <2>5, <3>2 DEF VerdictsHold, Idle
  <2> QED BY <2>3, <2>4, <2>6 DEF VerdictsHold
<1>8. CASE PollConfirm \/ PollKilled
  BY <1>1, <1>8
  DEF PollConfirm, PollKilled, voteRefVars, VerdictsHold, LedgerSound, Idle, TxOf
<1>9. CASE Elsewhere
  <2>1. \A j \in Job : job'[j].pc = "recorded" => ledger'[TxOf(j)'] # "none"
    BY <1>1, <1>9 DEF Elsewhere, VerdictsHold, TxOf
  <2> QED BY <1>1, <1>2, <1>9, <2>1
          DEF Elsewhere, VerdictsHold, LedgerSound, voteRefVars, readerVars
<1> QED BY <1>4, <1>5, <1>6, <1>7, <1>8, <1>9, BookkeepingSteps

-------------------------------------------------------------------------------
(* A recorded ballot of the web view stays, and no second submission of its *)
(* voter begins.                                                            *)
LEMMA WebSteps ==
    ASSUME SubmissionInv, [SubmissionNext]_submissionVars,
           NEW v \in Credential \ ApiVoters
    PROVE  /\ request'[v] = 0
           /\ \/ \E n \in 1..MaxCasts, b \in Selections : WebCast(v, n, b)
              \/ /\ vote'[v] = vote[v]
                 /\ \A n \in 1..MaxCasts : ~Begins(<<v, n>>)
<1>1. /\ vote \in [Credential -> Selections \cup {NoBallot}]
      /\ request \in [Credential -> 0..MaxCasts]
      /\ job \in [Job -> JobRow]
      /\ request[v] = 0
  BY DEF SubmissionInv, SubmissionTypeOK, JobRow, WebBallots
<1>2. \A n \in 1..MaxCasts : <<v, n>> \in Job
  BY DEF Job
<1>3. ASSUME NEW u \in Credential, NEW n \in 1..MaxCasts, NEW b \in Selections,
             WebCast(u, n, b) \/ ApiCast(u, n, b)
      PROVE  /\ request'[v] = 0
             /\ u = v => WebCast(u, n, b)
             /\ u # v => /\ vote'[v] = vote[v]
                         /\ \A m \in 1..MaxCasts : ~Begins(<<v, m>>)
  <2>1. /\ u = v => WebCast(u, n, b)
        /\ request'[v] = 0
        /\ u # v => vote'[v] = vote[v]
    BY <1>1, <1>3 DEF WebCast, ApiCast
  <2>2. job' = [job EXCEPT ![<<u, n>>] =
                   [pc |-> "enqueueing", attempt |-> 0, votes |-> b]]
    BY <1>3 DEF WebCast, ApiCast, Begun
  <2>3. u # v => \A m \in 1..MaxCasts : job'[<<v, m>>] = job[<<v, m>>]
    BY <1>1, <1>2, <2>2
  <2> QED BY <2>1, <2>3 DEF Begins
<1>4. ASSUME NEW u \in Credential, ApiCommit(u) \/ ApiRollback(u)
      PROVE  /\ request'[v] = 0 /\ vote'[v] = vote[v]
             /\ \A n \in 1..MaxCasts : ~Begins(<<v, n>>)
  BY <1>1, <1>4 DEF ApiCommit, ApiRollback, ReadyToCommit, Begins
<1>5. ASSUME NEW i \in Job,
             \/ Enqueue(i) \/ NotEnqueued(i) \/ WorkerStep(i) \/ WorkerKilled(i)
      PROVE  /\ request'[v] = 0 /\ vote'[v] = vote[v]
             /\ \A n \in 1..MaxCasts : ~Begins(<<v, n>>)
  <2>1. UNCHANGED databaseVars /\ job[i].pc # "none"
        /\ \A j \in Job : j # i => job'[j] = job[j]
    BY <1>1, <1>5
    DEF Enqueue, NotEnqueued, WorkerStep, WorkerKilled, Skip, Send, NotSent,
        GetSignature, GiveUpWaiting, RecordTx, LinkVote, BookkeepingFails, GoesTo,
        Retry
  <2> QED BY <1>1, <1>2, <2>1 DEF databaseVars, Begins
<1>6. CASE UNCHANGED <<databaseVars, job>>
  BY <1>1, <1>6 DEF databaseVars, Begins
<1> QED
  BY <1>3, <1>4, <1>5, <1>6
  DEF SubmissionNext, Land, PollStep, SyncStep, submissionVars, LandCounted, LandRejected,
      Expire, ForgetStatus, PollRead, PollSave, PollConfirm, PollKilled, SyncRead, SyncSave,
      TimePasses

(* The first two parts of WebBallots.                                       *)
LEMMA OneSubmission ==
    ASSUME SubmissionInv, [SubmissionNext]_submissionVars,
           NEW v \in Credential \ ApiVoters
    PROVE  /\ \A n \in 1..MaxCasts : job'[<<v, n>>].pc # "none" =>
                 job'[<<v, n>>].votes = vote'[v] /\ vote'[v] # NoBallot
           /\ \A m, n \in 1..MaxCasts :
                 job'[<<v, m>>].pc # "none" /\ job'[<<v, n>>].pc # "none" => m = n
<1>1. \A n \in 1..MaxCasts : <<v, n>> \in Job
  BY DEF Job
<1>2. /\ vote \in [Credential -> Selections \cup {NoBallot}]
      /\ job \in [Job -> JobRow]
      /\ WebBallots
  BY DEF SubmissionInv, SubmissionTypeOK, JobRow
<1>3. ASSUME NEW n \in 1..MaxCasts, NEW b \in Selections, WebCast(v, n, b)
      PROVE  /\ \A m \in 1..MaxCasts : job'[<<v, m>>].pc # "none" =>
                    job'[<<v, m>>].votes = vote'[v] /\ vote'[v] # NoBallot
             /\ \A m, k \in 1..MaxCasts :
                    job'[<<v, m>>].pc # "none" /\ job'[<<v, k>>].pc # "none" => m = k
  <2>1. /\ vote[v] = NoBallot /\ vote'[v] = b /\ b # NoBallot
        /\ job' = [job EXCEPT ![<<v, n>>] =
                     [pc |-> "enqueueing", attempt |-> 0, votes |-> b]]
    BY <1>2, <1>3, SubmissionAssumption DEF WebCast, MayVote, Begun
  <2>2. \A m \in 1..MaxCasts : job[<<v, m>>].pc = "none"
    BY <1>2, <2>1 DEF WebBallots
  <2>3. /\ job'[<<v, n>>].votes = b
        /\ \A m \in 1..MaxCasts : m # n => job'[<<v, m>>].pc = "none"
    BY <1>1, <1>2, <2>1, <2>2
  <2> QED BY <2>1, <2>3
<1>4. ASSUME vote'[v] = vote[v], \A n \in 1..MaxCasts : ~Begins(<<v, n>>)
      PROVE  \A n \in 1..MaxCasts : job'[<<v, n>>].pc # "none" =>
                job[<<v, n>>].pc # "none"
                /\ job'[<<v, n>>].votes = job[<<v, n>>].votes
  BY <1>1, <1>4, JobSteps DEF Advances, Retries
<1>5. ASSUME vote'[v] = vote[v], \A n \in 1..MaxCasts : ~Begins(<<v, n>>)
      PROVE  /\ \A n \in 1..MaxCasts : job'[<<v, n>>].pc # "none" =>
                    job'[<<v, n>>].votes = vote'[v] /\ vote'[v] # NoBallot
             /\ \A m, n \in 1..MaxCasts :
                    job'[<<v, m>>].pc # "none" /\ job'[<<v, n>>].pc # "none" => m = n
  BY <1>2, <1>4, <1>5 DEF WebBallots
<1> QED BY <1>3, <1>5, WebSteps

(* The last two parts: a signature is written once.                         *)
LEMMA OneSignature ==
    ASSUME SubmissionInv, [SubmissionNext]_submissionVars,
           NEW v \in Credential \ ApiVoters
    PROVE  /\ tx_hash'[v] # NoTx =>
                 VoterOf(tx_hash'[v][1]) = v /\ job'[tx_hash'[v][1]].pc = "done"
           /\ confirmed'[v] => tx_hash'[v] # NoTx /\ net'[tx_hash'[v]] = "ok"
<1>1. /\ tx_hash[v] \in Tx \cup {NoTx} /\ confirmed[v] \in BOOLEAN
      /\ tx_hash \in [Credential -> Tx \cup {NoTx}]
      /\ job \in [Job -> JobRow]
      /\ tx_hash[v] # NoTx =>
            VoterOf(tx_hash[v][1]) = v /\ job[tx_hash[v][1]].pc = "done"
      /\ confirmed[v] => tx_hash[v] # NoTx /\ net[tx_hash[v]] = "ok"
  BY DEF SubmissionInv, SubmissionTypeOK, JobRow, WebBallots
<1>2. \A j \in Job : job[j].pc = "done" => job'[j].pc = "done"
  BY JobSteps DEF Advances, Retries, Begins
<1>3. \A t \in Tx : net[t] = "ok" => net'[t] = "ok"
  BY OkStays
<1>4. \A t \in Tx : t[1] \in Job
  BY DEF Tx
<1>5. ASSUME NEW i \in Job, LinkVote(i), VoterOf(i) = v
      PROVE  /\ tx_hash'[v] = TxOf(i) /\ TxOf(i)[1] = i /\ job'[i].pc = "done"
             /\ ~confirmed'[v]
  <2>1. PICK n \in 1..MaxCasts : i = <<v, n>>
    BY <1>5 DEF Job, VoterOf
  <2>2. job[i].pc = "recorded" /\ vote[v] # NoBallot
    BY <1>5, <2>1 DEF LinkVote, SubmissionInv, WebBallots
  <2>3. tx_hash[v] = NoTx
    <3>1. ASSUME tx_hash[v] # NoTx
          PROVE  FALSE
      <4>1. /\ tx_hash[v][1] \in Job /\ VoterOf(tx_hash[v][1]) = v
            /\ job[tx_hash[v][1]].pc = "done"
        BY <1>1, <1>4, <3>1
      <4>2. PICK m \in 1..MaxCasts : tx_hash[v][1] = <<v, m>>
        BY <4>1 DEF Job, VoterOf
      <4>3. m = n
        BY <2>1, <2>2, <4>1, <4>2 DEF SubmissionInv, WebBallots
      <4> QED BY <2>1, <2>2, <4>1, <4>2, <4>3
    <3> QED BY <3>1
  <2>4. confirmed' = confirmed /\ tx_hash'[v] = TxOf(i)
    BY <1>1, <1>5, <2>2 DEF LinkVote
  <2>5. job'[i].pc = "done"
    BY <1>1, <1>5 DEF LinkVote, GoesTo, JobRow
  <2> QED BY <1>1, <2>3, <2>4, <2>5 DEF TxOf
<1>6. ASSUME NEW i \in Job, LinkVote(i), VoterOf(i) # v
      PROVE  tx_hash'[v] = tx_hash[v] /\ confirmed'[v] = confirmed[v]
  BY <1>1, <1>6 DEF LinkVote
<1>7. CASE PollConfirm
  <2>1. /\ tx_hash' = tx_hash
        /\ confirmed'[v] <=> confirmed[v] \/ tx_hash[v] = poll.tx
    BY <1>7 DEF PollConfirm, Carries
  <2>2. poll.tx \in Tx /\ net[poll.tx] = "ok"
    BY <1>7 DEF PollConfirm, SubmissionInv, SubmissionTypeOK, VerdictsHold, Idle
  <2> QED BY <1>1, <1>2, <1>3, <1>4, <2>1, <2>2, NoTxAssumption
<1>8. ASSUME tx_hash'[v] = tx_hash[v], confirmed'[v] = confirmed[v]
      PROVE  /\ tx_hash'[v] # NoTx =>
                   VoterOf(tx_hash'[v][1]) = v /\ job'[tx_hash'[v][1]].pc = "done"
             /\ confirmed'[v] => tx_hash'[v] # NoTx /\ net'[tx_hash'[v]] = "ok"
  BY <1>1, <1>2, <1>3, <1>4, <1>8
<1> QED
  BY <1>5, <1>6, <1>7, <1>8, BookkeepingSteps
  DEF RecordTx, PollRead, SyncRead, PollSave, SyncSave, PollKilled, Elsewhere,
      voteRefVars

LEMMA StepKeepsInv ==
    SubmissionInv /\ [SubmissionNext]_submissionVars => SubmissionInv'
<1> SUFFICES ASSUME SubmissionInv, [SubmissionNext]_submissionVars
             PROVE  SubmissionInv'
  OBVIOUS
<1>1. ProgramInv'
  BY SubmissionMoves, MoveKeepsInv DEF SubmissionInv
<1>2. WebBallots'
  BY WebSteps, OneSubmission, OneSignature DEF WebBallots, VoterOf
<1> QED BY <1>1, <1>2, TypeKept, TxsKept, LandedKept, VerdictsKept DEF SubmissionInv

(* The inductive invariant.                                                 *)
THEOREM SubmissionInvariant == SubmissionSpec => []SubmissionInv
BY InitHasInv, StepKeepsInv, PTL DEF SubmissionSpec

(* Rows, tasks and transactions stay in the states of their life cycles.    *)
THEOREM SubmissionTypeCorrect == SubmissionSpec => []SubmissionTypeOK
<1>1. SubmissionInv => SubmissionTypeOK
  BY DEF SubmissionInv
<1> QED BY <1>1, SubmissionInvariant, PTL

(* However many transactions retries leave in flight, at most one of a      *)
(* voter's is executed with success.                                        *)
THEOREM OneLands == SubmissionSpec => []AtMostOneLanded
<1>1. SubmissionInv => AtMostOneLanded
  BY DEF SubmissionInv, BallotsLanded
<1> QED BY <1>1, SubmissionInvariant, PTL

(* A CONFIRMED row is a transaction executed with success, and a vote's     *)
(* signature has a row.                                                     *)
THEOREM LedgerIsSound == SubmissionSpec => []LedgerSound
<1>1. SubmissionInv => LedgerSound
  BY DEF SubmissionInv, VerdictsHold
<1> QED BY <1>1, SubmissionInvariant, PTL

(* A vote marked blockchain_confirmed was counted as it was recorded.       *)
THEOREM ConfirmedIsCounted == SubmissionSpec => []ConfirmedMeansCounted
<1>1. SubmissionInv => ConfirmedMeansCounted
  <2> SUFFICES ASSUME SubmissionInv, NEW v \in Credential \ ApiVoters, confirmed[v]
               PROVE  /\ tx_hash[v] # NoTx /\ net[tx_hash[v]] = "ok"
                      /\ [voter_index |-> IndexOf(v), voter_hash |-> VoterHash(v),
                          votes |-> vote[v]] \in ballots
    BY DEF ConfirmedMeansCounted
  <2>1. /\ tx_hash[v] # NoTx /\ net[tx_hash[v]] = "ok"
        /\ VoterOf(tx_hash[v][1]) = v
        /\ job[tx_hash[v][1]].pc = "done" /\ tx_hash[v] \in Tx
    BY DEF SubmissionInv, WebBallots, SubmissionTypeOK
  <2>2. PICK n \in 1..MaxCasts : tx_hash[v][1] = <<v, n>>
    BY <2>1 DEF Tx, Job, VoterOf
  <2>3. job[tx_hash[v][1]].votes = vote[v]
    BY <2>1, <2>2 DEF SubmissionInv, WebBallots
  <2>4. BallotOf(tx_hash[v][1]) \in ballots
    BY <2>1 DEF SubmissionInv, BallotsLanded
  <2> QED BY <2>1, <2>3, <2>4 DEF BallotOf
<1> QED BY <1>1, SubmissionInvariant, PTL

(* What the program promises of its account holds with every interleaving   *)
(* of retries, lost answers and crashes: turnout and tally are exact and    *)
(* no credential counts twice.                                              *)
THEOREM SubmittedTally ==
    SubmissionSpec => [](TurnoutAgrees /\ TallyExact /\ OneBallotPerCredential)
<1>1. SubmissionInv => TurnoutAgrees /\ TallyExact
  BY DEF SubmissionInv, ProgramInv, CountsAgree, BallotsRegistered, TurnoutAgrees,
         TallyExact
<1>2. SubmissionInv => OneBallotPerCredential
  <2> SUFFICES ASSUME SubmissionInv, NEW b \in ballots, NEW c \in ballots,
                      b.voter_hash = c.voter_hash
               PROVE  b = c
    BY DEF OneBallotPerCredential
  <2>1. PICK t \in Tx, u \in Tx :
           /\ net[t] = "ok" /\ b = BallotOf(t[1])
           /\ net[u] = "ok" /\ c = BallotOf(u[1])
    BY DEF SubmissionInv, BallotsLanded
  <2>2. VoterOf(t[1]) = VoterOf(u[1])
    BY <2>1 DEF BallotOf, VoterHash
  <2> QED BY <2>1, <2>2 DEF SubmissionInv, BallotsLanded, AtMostOneLanded
<1> QED BY <1>1, <1>2, SubmissionInvariant, PTL

(***************************************************************************)
(* The refinement                                                          *)
(***************************************************************************)
recordedBar == [v \in Credential \ ApiVoters |-> vote[v]]

countedBar ==
    [v \in Credential \ ApiVoters |->
        IF CountedFor(v) = {} THEN NoBallot
        ELSE CHOOSE b \in CountedFor(v) : TRUE]

(* What the box shows of the ballots counted for a voter. *)
Shown(counted) == IF counted = {} THEN NoBallot ELSE CHOOSE b \in counted : TRUE

LEMMA ShownIsOne ==
    /\ Shown({}) = NoBallot
    /\ \A b : Shown({b}) = b
BY DEF Shown

LEMMA BarShows ==
    /\ \A v \in Credential \ ApiVoters : countedBar[v] = Shown(CountedFor(v))
    /\ \A v \in Credential \ ApiVoters : countedBar'[v] = Shown(CountedFor(v)')
BY DEF countedBar, Shown

LEMMA InitRefines == SubmissionInit => Box!BoxInit
<1> SUFFICES ASSUME SubmissionInit
             PROVE  Box!BoxInit
  OBVIOUS
<1>1. \A v \in Credential : CountedFor(v) = {}
  BY DEF SubmissionInit, CountedFor
<1> QED BY <1>1 DEF SubmissionInit, Box!BoxInit

(* A step that counts nothing leaves the counted side of the box alone.     *)
LEMMA NothingCounted ==
    ASSUME UNCHANGED ballots
    PROVE  countedBar' = countedBar
<1>1. \A v \in Credential : CountedFor(v)' = CountedFor(v)
  BY DEF CountedFor, VoterHash
<1>2. \A v \in Credential \ ApiVoters : countedBar'[v] = countedBar[v]
  BY <1>1, BarShows
<1> QED BY <1>2 DEF countedBar

(* An executed transaction counts the ballot its voter recorded, or one of  *)
(* a voter of the REST API, who is not in the box.                          *)
LEMMA LandRefines ==
    ASSUME SubmissionInv, [SubmissionNext]_submissionVars,
           NEW t \in Tx, LandCounted(t)
    PROVE  /\ recordedBar' = recordedBar
           /\ \/ countedBar' = countedBar
              \/ \E v \in Credential \ ApiVoters :
                    /\ recordedBar[v] # NoBallot /\ countedBar[v] = NoBallot
                    /\ countedBar' = [countedBar EXCEPT ![v] = recordedBar[v]]
<1> DEFINE w == VoterOf(t[1])
<1>1. /\ ballots' = ballots \cup {BallotOf(t[1])}
      /\ \A u \in Tx : net[u] = "ok" => VoterOf(u[1]) # w
      /\ vote' = vote /\ w \in Credential
  BY FirstToLand DEF LandCounted, databaseVars, Tx, Job, VoterOf
<1>2. BallotOf(t[1]).voter_hash = VoterHash(w)
  BY DEF BallotOf
<1>3. ASSUME NEW b \in ballots
      PROVE  b.voter_hash # VoterHash(w)
  <2>1. PICK u \in Tx : net[u] = "ok" /\ b = BallotOf(u[1])
    BY DEF SubmissionInv, BallotsLanded
  <2> QED BY <1>1, <2>1 DEF BallotOf, VoterHash
<1>4. /\ CountedFor(w) = {} /\ CountedFor(w)' = {BallotOf(t[1]).votes}
      /\ \A v \in Credential : v # w => CountedFor(v)' = CountedFor(v)
  <2>1. \A v \in Credential : v # w => VoterHash(v) # VoterHash(w)
    BY DEF VoterHash
  <2>2. \A v : CountedFor(v)' =
                  {b.votes : b \in {c \in ballots' : c.voter_hash = VoterHash(v)}}
    BY DEF CountedFor, VoterHash
  <2> HIDE DEF w
  <2>3. {c \in ballots' : c.voter_hash = VoterHash(w)} = {BallotOf(t[1])}
    BY <1>1, <1>2, <1>3
  <2>4. ASSUME NEW v \in Credential, v # w
        PROVE  {c \in ballots' : c.voter_hash = VoterHash(v)}
                  = {c \in ballots : c.voter_hash = VoterHash(v)}
    BY <1>1, <1>2, <2>1, <2>4
  <2> QED BY <1>3, <2>2, <2>3, <2>4 DEF CountedFor
<1>5. recordedBar' = recordedBar
  BY <1>1 DEF recordedBar
<1>6. \A v \in Credential \ ApiVoters : v # w => countedBar'[v] = countedBar[v]
  BY <1>4, BarShows
<1>7. CASE w \in ApiVoters
  <2>1. \A v \in Credential \ ApiVoters : countedBar'[v] = countedBar[v]
    BY <1>6, <1>7
  <2> QED BY <1>5, <2>1 DEF countedBar
<1>8. CASE w \in Credential \ ApiVoters
  <2>1. BallotOf(t[1]).votes = vote[w] /\ vote[w] # NoBallot
    <3>1. net[t] # "none"
      BY DEF LandCounted
    <3>2. t[1] \in Job /\ job[t[1]].pc # "none"
      BY <3>1, SentHasBegun DEF SubmissionInv
    <3>3. PICK n \in 1..MaxCasts : t[1] = <<w, n>>
      BY <3>2 DEF w, Job, VoterOf
    <3>4. BallotOf(t[1]).votes = job[t[1]].votes
      BY DEF BallotOf
    <3> HIDE DEF w
    <3>5. job[<<w, n>>].votes = vote[w] /\ vote[w] # NoBallot
      BY <1>8, <3>2, <3>3 DEF SubmissionInv, WebBallots
    <3> QED BY <3>3, <3>4, <3>5
  <2>2. /\ countedBar[w] = NoBallot /\ countedBar'[w] = vote[w]
        /\ recordedBar[w] = vote[w]
    BY <1>4, <1>8, <2>1, BarShows, ShownIsOne DEF recordedBar
  <2>3. countedBar' = [countedBar EXCEPT ![w] = recordedBar[w]]
    <3> DEFINE f == countedBar g == countedBar'
    <3>1. f = [v \in Credential \ ApiVoters |-> f[v]]
      BY DEF countedBar
    <3>2. g = [v \in Credential \ ApiVoters |-> g[v]]
      BY DEF countedBar
    <3>3. /\ \A v \in Credential \ ApiVoters : v # w => g[v] = f[v]
          /\ g[w] = recordedBar[w]
      BY <1>6, <2>2
    <3> HIDE DEF f, g
    <3>4. g = [f EXCEPT ![w] = recordedBar[w]]
      BY <1>8, <3>1, <3>2, <3>3
    <3> QED BY <3>4 DEF f, g
  <2> QED BY <1>5, <1>8, <2>1, <2>2, <2>3
<1> QED BY <1>1, <1>7, <1>8

LEMMA StepRefines ==
    SubmissionInv /\ [SubmissionNext]_submissionVars
        => [Box!BoxNext]_(Box!boxVars)
<1> SUFFICES ASSUME SubmissionInv, [SubmissionNext]_submissionVars
             PROVE  Box!BoxNext \/ (recordedBar' = recordedBar /\ countedBar' = countedBar)
  BY DEF Box!boxVars, recordedBar, countedBar
<1>1. ASSUME NEW v \in Credential \ ApiVoters, NEW b \in Selections,
             recordedBar[v] = NoBallot,
             recordedBar' = [recordedBar EXCEPT ![v] = b],
             countedBar' = countedBar
      PROVE  Box!BoxNext
  BY <1>1 DEF Box!BoxNext, Box!Record, recordedBar, countedBar
<1>2. ASSUME NEW v \in Credential \ ApiVoters,
             recordedBar[v] # NoBallot, countedBar[v] = NoBallot,
             countedBar' = [countedBar EXCEPT ![v] = recordedBar[v]],
             recordedBar' = recordedBar
      PROVE  Box!BoxNext
  BY <1>2 DEF Box!BoxNext, Box!Count, recordedBar, countedBar
<1>3. ASSUME NEW t \in Tx, LandCounted(t)
      PROVE  Box!BoxNext \/ (recordedBar' = recordedBar /\ countedBar' = countedBar)
  BY <1>2, <1>3, LandRefines
<1>4. ASSUME NEW v \in Credential \ ApiVoters, NEW n \in 1..MaxCasts,
             NEW b \in Selections, WebCast(v, n, b)
      PROVE  Box!BoxNext
  <2>1. vote' = [vote EXCEPT ![v] = b] /\ vote[v] = NoBallot /\ UNCHANGED ballots
    BY <1>4 DEF WebCast, MayVote, programVars
  <2>2. vote \in [Credential -> Selections \cup {NoBallot}]
    BY DEF SubmissionInv, SubmissionTypeOK
  <2>3. recordedBar' = [recordedBar EXCEPT ![v] = b] /\ recordedBar[v] = NoBallot
    BY <2>1, <2>2 DEF recordedBar
  <2> QED BY <1>1, <2>1, <2>3, NothingCounted
<1>5. ASSUME \A v \in Credential \ ApiVoters : vote'[v] = vote[v], UNCHANGED ballots
      PROVE  recordedBar' = recordedBar /\ countedBar' = countedBar
  BY <1>5, NothingCounted DEF recordedBar
<1>6. UNCHANGED ballots \/ \E t \in Tx : LandCounted(t)
  BY OkSteps
<1> QED BY <1>3, <1>4, <1>5, <1>6, WebSteps

(* For the voters of the web view, the records of the database and of the   *)
(* chain are those of a ballot box: whatever is retried, lost, answered     *)
(* late or killed, the chain counts each recorded ballot at most once and   *)
(* no other (VoteService.cast_votes, submit_votes_to_chain).                *)
THEOREM Refinement == SubmissionSpec => ImplementsBallotBox
BY InitRefines, StepRefines, SubmissionInvariant, PTL
DEF SubmissionSpec, ImplementsBallotBox, Box!BoxSpec

===============================================================================
