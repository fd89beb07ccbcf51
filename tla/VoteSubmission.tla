---------------------------- MODULE VoteSubmission ----------------------------
(***************************************************************************)
(* One ballot's way from a voter's request to the chain and back: the      *)
(* database transaction that records it (VoteService.cast_votes, entered   *)
(* from the web view or inside the API view's transaction), the Celery     *)
(* task that submits it (submit_votes_to_chain, ProgramService.cast_vote), *)
(* the network, the beat task that polls for confirmations and the         *)
(* operator's sync_blockchain.  The account is that of ElectionProgram,    *)
(* deployed for the credentials of Roll.                                   *)
(*                                                                         *)
(* A step between two commits, or between a call and its answer, is an     *)
(* action: a worker can stop and others can run at each of them.           *)
(***************************************************************************)
EXTENDS ElectionProgram

CONSTANTS
    Roll,         \* the credentials the tree was committed for, in order
    ApiVoters,    \* the credentials that vote through the REST API
    Revoked,      \* credentials revoked while the election was a draft
    Layout,       \* candidates_per_post
    ChainWindow,  \* the window of the account
    DbWindow,     \* the window of the Election row (UpdateVotingPeriodView
                  \* moves it without telling the chain)
    Incidents,    \* what may go wrong: a subset of Incident
    SyncRuns,     \* BOOLEAN: the operator runs sync_blockchain
    MaxRetries,   \* max_retries of submit_votes_to_chain
    BatchSize,    \* SOLANA_TX_CONFIRM_BATCH_SIZE
    MaxCasts,     \* bound: submissions of one voter
    NoBallot, NoTx

Incident == {"broker",   \* cache or broker down after the commit, or a crash
             "rollback", \* the API request dies before its COMMIT
             "rpc",      \* a node or database call raises
             "timeout",  \* the answer does not come in time
             "drop",     \* a sent transaction expires
             "forget",   \* the node no longer has a signature's status
             "crash"}    \* a Celery worker is killed

ASSUME SubmissionAssumption ==
    /\ IsFiniteSet(Credential)
    /\ Roll \in Rolls /\ Layout \in Layouts
    /\ ApiVoters \subseteq Credential /\ Revoked \subseteq Credential
    /\ ChainWindow \in Windows /\ DbWindow \in Int \X Int
    /\ Incidents \subseteq Incident
    /\ SyncRuns \in BOOLEAN
    /\ MaxRetries \in Nat /\ {BatchSize, MaxCasts} \subseteq Nat \ {0}
    /\ NoBallot \notin Selections

Job == Credential \X (1..MaxCasts)
Tx == Job \X (0..MaxRetries)

ASSUME NoTxAssumption == NoTx \notin Tx

VARIABLES
    vote,       \* committed Vote rows of a credential (has_voted iff present)
    request,    \* the submission whose API transaction is still open, or 0
    tx_hash,    \* Vote.blockchain_tx_hash
    confirmed,  \* Vote.blockchain_confirmed
    ledger,     \* BlockchainTransaction.status per signature, or "none"
    created,    \* BlockchainTransaction.created_at: places in their order
    net,        \* what became of a transaction on the network
    forgotten,  \* signatures whose status the node no longer has
    job,        \* the submit_votes_to_chain tasks
    poll,       \* confirm_pending_transactions, at one row of its batch
    sync        \* sync_blockchain, at one row

databaseVars == <<vote, request>>
voteRefVars == <<tx_hash, confirmed>>
ledgerVars == <<ledger, created>>
networkVars == <<net, forgotten>>
readerVars == <<poll, sync>>
submissionVars ==
    <<programVars, databaseVars, voteRefVars, ledgerVars, networkVars, job,
      readerVars>>

Idle == [pc |-> "idle"]

SubmissionInit ==
    /\ account = FreshAccount(Roll, Layout, ChainWindow[1], ChainWindow[2])
    /\ ballots = {}
    /\ clock = 0
    /\ vote = [v \in Credential |-> NoBallot]
    /\ request = [v \in Credential |-> 0]
    /\ tx_hash = [v \in Credential |-> NoTx]
    /\ confirmed = [v \in Credential |-> FALSE]
    /\ ledger = [t \in Tx |-> "none"]
    /\ created = [t \in Tx |-> 0]
    /\ net = [t \in Tx |-> "none"]
    /\ forgotten = {}
    /\ job = [j \in Job |-> [pc |-> "none", attempt |-> 0, votes |-> NoBallot]]
    /\ poll = Idle
    /\ sync = Idle

-------------------------------------------------------------------------------
(* Recording the ballot *)

\* Mutant of MayVote: has_voted is not looked at under the lock.
MayVote_Again(v) ==
    /\ request[v] = 0
    /\ v \notin Revoked
    /\ DbWindow[1] <= clock /\ clock <= DbWindow[2]

(* The checks of cast_votes under the credential's row lock; an open API    *)
(* transaction holds that lock.                                             *)
MayVote(v) ==
    /\ request[v] = 0
    /\ vote[v] = NoBallot
    /\ v \notin Revoked
    /\ DbWindow[1] <= clock /\ clock <= DbWindow[2]

(* The next submission of v, not started yet. *)
Fresh(v, n) ==
    /\ job[<<v, n>>].pc = "none"
    /\ \A m \in 1..(n - 1) : job[<<v, m>>].pc # "none"

Begun(v, n, b) ==
    job' = [job EXCEPT ![<<v, n>>] =
                [pc |-> "enqueueing", attempt |-> 0, votes |-> b]]

(* The web view: cast_votes opens and commits the transaction itself. *)
WebCast(v, n, b) ==
    /\ v \notin ApiVoters
    /\ MayVote(v) /\ Fresh(v, n)
    /\ vote' = [vote EXCEPT ![v] = b]
    /\ Begun(v, n, b)
    /\ UNCHANGED <<programVars, request, voteRefVars, ledgerVars, networkVars,
                   readerVars>>

(* The API view: cast_votes runs inside the view's own transaction, so its  *)
(* atomic block ends at a savepoint and nothing is committed yet.           *)
ApiCast(v, n, b) ==
    /\ v \in ApiVoters
    /\ MayVote(v) /\ Fresh(v, n)
    /\ request' = [request EXCEPT ![v] = n]
    /\ Begun(v, n, b)
    /\ UNCHANGED <<programVars, vote, voteRefVars, ledgerVars, networkVars,
                   readerVars>>

GoesTo(j, pc) == job' = [job EXCEPT ![j].pc = pc]

(* submit_votes_to_chain.delay: the last thing cast_votes does. *)
Enqueue(j) ==
    /\ job[j].pc = "enqueueing"
    /\ GoesTo(j, "queued")
    /\ UNCHANGED <<programVars, databaseVars, voteRefVars, ledgerVars,
                   networkVars, readerVars>>

(* The cache or the broker is down, or the process dies: nothing retries    *)
(* the enqueueing.                                                          *)
NotEnqueued(j) ==
    /\ "broker" \in Incidents
    /\ job[j].pc = "enqueueing"
    /\ GoesTo(j, "unsent")
    /\ UNCHANGED <<programVars, databaseVars, voteRefVars, ledgerVars,
                   networkVars, readerVars>>

(* The view's atomic block ends after cast_votes has returned. *)
ReadyToCommit(v) ==
    request[v] # 0 /\ job[<<v, request[v]>>].pc # "enqueueing"

ApiCommit(v) ==
    /\ ReadyToCommit(v)
    /\ vote' = [vote EXCEPT ![v] = job[<<v, request[v]>>].votes]
    /\ request' = [request EXCEPT ![v] = 0]
    /\ UNCHANGED <<programVars, voteRefVars, ledgerVars, networkVars, job,
                   readerVars>>

ApiRollback(v) ==
    /\ "rollback" \in Incidents
    /\ ReadyToCommit(v)
    /\ request' = [request EXCEPT ![v] = 0]
    /\ UNCHANGED <<programVars, vote, voteRefVars, ledgerVars, networkVars,
                   job, readerVars>>

-------------------------------------------------------------------------------
(* The submission task and the transactions it sends *)

VoterOf(j) == j[1]
TxOf(j) == <<j, job[j].attempt>>
OnRoll(v) == \E k \in DOMAIN Roll : Roll[k] = v
IndexOf(v) == (CHOOSE k \in DOMAIN Roll : Roll[k] = v) - 1
CommittedTree == BuildMerkleTree(Leaves(Roll))
ProofOf(v) == GetMerkleProof(CommittedTree, IndexOf(v))

(* The program accepts the ballot in the present state of the account. *)
WouldCount(j) ==
    Accepts(account, clock, IndexOf(VoterOf(j)), VoterHash(VoterOf(j)),
            ProofOf(VoterOf(j)), job[j].votes)

\* Mutant of Retried: request.retries is not counted.
Retried_Forever(r) ==
    [r EXCEPT !.pc = "queued"]

\* Mutant of Retried: one retry too many.
Retried_OffByOne(r) ==
    IF r.attempt <= MaxRetries
    THEN [r EXCEPT !.pc = "queued", !.attempt = r.attempt + 1]
    ELSE [r EXCEPT !.pc = "failed"]

(* self.retry: queued once more, or given up after max_retries. *)
Retried(r) ==
    IF r.attempt < MaxRetries
    THEN [r EXCEPT !.pc = "queued", !.attempt = r.attempt + 1]
    ELSE [r EXCEPT !.pc = "failed"]

Retry(j) == job' = [job EXCEPT ![j] = Retried(job[j])]

Submittable(j) == OnRoll(VoterOf(j)) /\ job[j].votes # <<>>

(* The credential has no hash on the roll, or every post was left blank:    *)
(* the task returns.                                                        *)
Skip(j) ==
    /\ job[j].pc = "queued"
    /\ ~Submittable(j)
    /\ GoesTo(j, "skipped")
    /\ UNCHANGED <<programVars, databaseVars, voteRefVars, ledgerVars,
                   networkVars, readerVars>>

(* The node simulates the transaction (preflight) and sends it. *)
Send(j) ==
    /\ job[j].pc = "queued"
    /\ Submittable(j)
    /\ WouldCount(j)
    /\ net' = [net EXCEPT ![TxOf(j)] = "inflight"]
    /\ GoesTo(j, "waiting")
    /\ UNCHANGED <<programVars, databaseVars, voteRefVars, ledgerVars,
                   forgotten, readerVars>>

(* Preflight fails, or the node cannot be reached: an exception. *)
NotSent(j) ==
    /\ job[j].pc = "queued"
    /\ Submittable(j)
    /\ ~WouldCount(j) \/ "rpc" \in Incidents
    /\ Retry(j)
    /\ UNCHANGED <<programVars, databaseVars, voteRefVars, ledgerVars,
                   networkVars, readerVars>>

(* The transaction is executed, now, whoever is still waiting for it. *)
LandCounted(t) ==
    /\ net[t] = "inflight"
    /\ CastVote(IndexOf(VoterOf(t[1])), VoterHash(VoterOf(t[1])),
                ProofOf(VoterOf(t[1])), job[t[1]].votes)
    /\ net' = [net EXCEPT ![t] = "ok"]
    /\ UNCHANGED <<databaseVars, voteRefVars, ledgerVars, job, forgotten,
                   readerVars>>

LandRejected(t) ==
    /\ net[t] = "inflight"
    /\ ~WouldCount(t[1])
    /\ net' = [net EXCEPT ![t] = "err"]
    /\ UNCHANGED <<programVars, databaseVars, voteRefVars, ledgerVars, job,
                   forgotten, readerVars>>

Expire(t) ==
    /\ "drop" \in Incidents
    /\ net[t] = "inflight"
    /\ net' = [net EXCEPT ![t] = "expired"]
    /\ UNCHANGED <<programVars, databaseVars, voteRefVars, ledgerVars, job,
                   forgotten, readerVars>>

(* program.rpc returns the signature once the transaction is seen, executed *)
(* with success or not.                                                     *)
GetSignature(j) ==
    /\ job[j].pc = "waiting"
    /\ net[TxOf(j)] \in {"ok", "err"}
    /\ GoesTo(j, "signed")
    /\ UNCHANGED <<programVars, databaseVars, voteRefVars, ledgerVars,
                   networkVars, readerVars>>

(* No answer: the 120 s of _run_async, a lost connection, an expired         *)
(* transaction.  The task cannot tell whether the ballot was counted.       *)
GiveUpWaiting(j) ==
    /\ job[j].pc = "waiting"
    /\ net[TxOf(j)] = "expired" \/ "timeout" \in Incidents
    /\ Retry(j)
    /\ UNCHANGED <<programVars, databaseVars, voteRefVars, ledgerVars,
                   networkVars, readerVars>>

(* get_slot, then BlockchainTransaction.objects.create. *)
RecordTx(j) ==
    /\ job[j].pc = "signed"
    /\ ledger' = [ledger EXCEPT ![TxOf(j)] = "pending"]
    /\ created' = [created EXCEPT
                      ![TxOf(j)] = Cardinality({t \in Tx : ledger[t] # "none"})]
    /\ GoesTo(j, "recorded")
    /\ UNCHANGED <<programVars, databaseVars, voteRefVars, networkVars,
                   readerVars>>

(* Vote.objects.filter(...).update: only committed rows are there to match. *)
LinkVote(j) ==
    /\ job[j].pc = "recorded"
    /\ tx_hash' = [tx_hash EXCEPT ![VoterOf(j)] =
                      IF vote[VoterOf(j)] = NoBallot THEN NoTx ELSE TxOf(j)]
    /\ GoesTo(j, "done")
    /\ UNCHANGED <<programVars, databaseVars, confirmed, ledgerVars,
                   networkVars, readerVars>>

(* get_slot or a database write raises after the ballot was counted. *)
BookkeepingFails(j) ==
    /\ "rpc" \in Incidents
    /\ job[j].pc \in {"signed", "recorded"}
    /\ Retry(j)
    /\ UNCHANGED <<programVars, databaseVars, voteRefVars, ledgerVars,
                   networkVars, readerVars>>

(* The message was acknowledged when the task started (no acks_late): a     *)
(* task whose worker is killed is not run again.                            *)
WorkerKilled(j) ==
    /\ "crash" \in Incidents
    /\ job[j].pc \in {"waiting", "signed", "recorded"}
    /\ GoesTo(j, "lost")
    /\ UNCHANGED <<programVars, databaseVars, voteRefVars, ledgerVars,
                   networkVars, readerVars>>

-------------------------------------------------------------------------------
(* Reading the outcome back *)

\* Mutant of Verdict: status.err is not looked at.
Verdict_ErrIgnored(outcome) ==
    IF outcome = "none" THEN "failed" ELSE "confirmed"

(* The row's new status for a signature's status. *)
Verdict(outcome) == IF outcome = "ok" THEN "confirmed" ELSE "failed"

\* Mutant of Resolved: the branch for status.err is missing.
Resolved_OnlySuccess(t) == net[t] = "ok"

(* The transaction was executed. *)
Resolved(t) == net[t] \in {"ok", "err"}

(* getSignatureStatuses without searchTransactionHistory: of the recent      *)
(* slots only.                                                              *)
ForgetStatus(t) ==
    /\ "forget" \in Incidents
    /\ Resolved(t) /\ t \notin forgotten
    /\ forgotten' = forgotten \cup {t}
    /\ UNCHANGED <<programVars, databaseVars, voteRefVars, ledgerVars, net, job,
                   readerVars>>

PendingBefore(t) == {u \in Tx : ledger[u] = "pending" /\ created[u] < created[t]}

(* One row of the batch, which holds the oldest PENDING rows, whose         *)
(* signature has a status.  A row without one is passed over.               *)
PollRead(t) ==
    /\ poll = Idle
    /\ ledger[t] = "pending"
    /\ Cardinality(PendingBefore(t)) < BatchSize
    /\ Resolved(t) /\ t \notin forgotten
    /\ poll' = [pc |-> "read", tx |-> t, status |-> Verdict(net[t])]
    /\ UNCHANGED <<programVars, databaseVars, voteRefVars, ledgerVars,
                   networkVars, job, sync>>

PollSave ==
    /\ poll.pc = "read"
    /\ ledger' = [ledger EXCEPT ![poll.tx] = poll.status]
    /\ poll' = IF poll.status = "confirmed"
               THEN [poll EXCEPT !.pc = "saved"] ELSE Idle
    /\ UNCHANGED <<programVars, databaseVars, voteRefVars, created, networkVars,
                   job, sync>>

\* Mutant of Carries: the vote rows are not filtered by signature.
Carries_AnyHash(v, t) == vote[v] # NoBallot

(* The vote rows that blockchain_tx_hash=tx.tx_signature selects. *)
Carries(v, t) == tx_hash[v] = t

PollConfirm ==
    /\ poll.pc = "saved"
    /\ confirmed' = [v \in Credential |-> confirmed[v] \/ Carries(v, poll.tx)]
    /\ poll' = Idle
    /\ UNCHANGED <<programVars, databaseVars, tx_hash, ledgerVars,
                   networkVars, job, sync>>

(* Killed between its two writes: the row is no longer PENDING, so no later *)
(* poll comes back to it.                                                   *)
PollKilled ==
    /\ "crash" \in Incidents
    /\ poll.pc = "saved"
    /\ poll' = Idle
    /\ UNCHANGED <<programVars, databaseVars, voteRefVars, ledgerVars,
                   networkVars, job, sync>>

(* sync_blockchain at a PENDING row, whatever batch it is in: without a      *)
(* status, or after an exception, a row older than --max-age is failed.     *)
SyncRead(t) ==
    /\ SyncRuns
    /\ sync = Idle
    /\ ledger[t] = "pending"
    /\ \E outcome \in (IF t \in forgotten THEN {} ELSE {net[t]}) \cup {"none"} :
          sync' = [pc |-> "read", tx |-> t, status |-> Verdict(outcome)]
    /\ UNCHANGED <<programVars, databaseVars, voteRefVars, ledgerVars,
                   networkVars, job, poll>>

SyncSave ==
    /\ sync.pc = "read"
    /\ ledger' = [ledger EXCEPT ![sync.tx] = sync.status]
    /\ sync' = Idle
    /\ UNCHANGED <<programVars, databaseVars, voteRefVars, created, networkVars,
                   job, poll>>

-------------------------------------------------------------------------------
TimePasses ==
    /\ Tick
    /\ UNCHANGED <<databaseVars, voteRefVars, ledgerVars, networkVars, job,
                   readerVars>>

WorkerStep(j) ==
    \/ Skip(j) \/ Send(j) \/ NotSent(j)
    \/ GetSignature(j) \/ GiveUpWaiting(j)
    \/ RecordTx(j) \/ LinkVote(j) \/ BookkeepingFails(j)

Land(t) == LandCounted(t) \/ LandRejected(t)

SyncStep == (\E t \in Tx : SyncRead(t)) \/ SyncSave

PollStep == (\E t \in Tx : PollRead(t)) \/ PollSave \/ PollConfirm

SubmissionNext ==
    \/ \E v \in Credential, n \in 1..MaxCasts, b \in Selections :
          WebCast(v, n, b) \/ ApiCast(v, n, b)
    \/ \E v \in Credential : ApiCommit(v) \/ ApiRollback(v)
    \/ \E j \in Job : Enqueue(j) \/ NotEnqueued(j) \/ WorkerStep(j)
                      \/ WorkerKilled(j)
    \/ \E t \in Tx : Land(t) \/ Expire(t) \/ ForgetStatus(t)
    \/ PollStep \/ PollKilled \/ SyncStep
    \/ TimePasses

SubmissionSpec == SubmissionInit /\ [][SubmissionNext]_submissionVars

(* The web process, the workers, the network and beat keep going; nothing   *)
(* is assumed of voters, of the operator, of the clock or of incidents.     *)
SubmissionFairness ==
    /\ WF_submissionVars(\E j \in Job : Enqueue(j) \/ NotEnqueued(j))
    /\ WF_submissionVars(\E v \in Credential : ApiCommit(v) \/ ApiRollback(v))
    /\ WF_submissionVars(\E j \in Job : WorkerStep(j))
    /\ WF_submissionVars(\E t \in Tx : Land(t) \/ Expire(t))
    /\ WF_submissionVars(PollStep)

FairSubmissionSpec == SubmissionSpec /\ SubmissionFairness

-------------------------------------------------------------------------------
JobPc == {"none", "enqueueing", "queued", "waiting", "signed", "recorded",
          "done", "skipped", "failed", "lost", "unsent"}

(* Every row, task and transaction is in a state of its life cycle; a task  *)
(* that has not begun has no ballot and no attempts behind it.              *)
SubmissionTypeOK ==
    /\ ProgramTypeOK
    /\ vote \in [Credential -> Selections \cup {NoBallot}]
    /\ request \in [Credential -> 0..MaxCasts]
    /\ tx_hash \in [Credential -> Tx \cup {NoTx}]
    /\ confirmed \in [Credential -> BOOLEAN]
    /\ ledger \in [Tx -> {"none", "pending", "confirmed", "failed"}]
    /\ created \in [Tx -> Nat]
    /\ net \in [Tx -> {"none", "inflight", "ok", "err", "expired"}]
    /\ forgotten \subseteq Tx
    /\ job \in [Job -> [pc : JobPc, attempt : 0..MaxRetries,
                        votes : Selections \cup {NoBallot}]]
    /\ \A j \in Job :
          job[j].pc = "none" => job[j].attempt = 0 /\ job[j].votes = NoBallot
    /\ \A r \in {poll, sync} :
          r = Idle \/ r \in [pc : {"read", "saved"}, tx : Tx,
                             status : {"confirmed", "failed"}]

(* However many transactions a task's retries leave in flight, at most one  *)
(* of a voter's transactions is executed with success (submit_votes_to_chain *)
(* retrying a ballot that may already be counted).                          *)
AtMostOneLanded ==
    \A t, u \in Tx :
        /\ net[t] = "ok" /\ net[u] = "ok"
        /\ VoterOf(t[1]) = VoterOf(u[1])
        => t = u

(* A CONFIRMED row is a transaction that was executed with success, and a   *)
(* vote's signature has a row: neither a poll that raced sync_blockchain    *)
(* nor a stale read says otherwise.                                         *)
LedgerSound ==
    /\ \A t \in Tx : ledger[t] = "confirmed" => net[t] = "ok"
    /\ \A v \in Credential : tx_hash[v] # NoTx => ledger[tx_hash[v]] # "none"

(* A vote marked blockchain_confirmed is on chain: the program counted the  *)
(* recorded ballot under the voter's hash (confirm_pending_transactions).   *)
ConfirmedMeansCounted ==
    \A v \in Credential \ ApiVoters :
        confirmed[v] =>
            /\ tx_hash[v] # NoTx /\ net[tx_hash[v]] = "ok"
            /\ [voter_index |-> IndexOf(v), voter_hash |-> VoterHash(v),
                votes |-> vote[v]] \in ballots

(* The records of the database and of the chain are those of a ballot box,  *)
(* for the voters of the web view: retries, timeouts and crashes never      *)
(* count a ballot that is not recorded, another one, or one twice.          *)
CountedFor(v) ==
    {b.votes : b \in {c \in ballots : c.voter_hash = VoterHash(v)}}

Box == INSTANCE BallotBox WITH
    Voter <- Credential \ ApiVoters,
    Ballot <- Selections,
    recorded <- [v \in Credential \ ApiVoters |-> vote[v]],
    counted <- [v \in Credential \ ApiVoters |->
                  IF CountedFor(v) = {} THEN NoBallot
                  ELSE CHOOSE b \in CountedFor(v) : TRUE]

ImplementsBallotBox == Box!BoxSpec

(* Every submission comes to rest, whatever fails and however often: done,  *)
(* skipped, given up, lost with its worker or never enqueued (the bounded   *)
(* retries of submit_votes_to_chain).                                       *)
AtRest(j) ==
    job[j].pc \in {"none", "done", "skipped", "failed", "lost", "unsent"}

TasksEnd == <>[](\A j \in Job : AtRest(j))

(* A row stays PENDING only if the node forgot its status before a poll     *)
(* came to it, or if the poller never comes to it: the batch is full of     *)
(* older rows whose status was forgotten, and every later batch is the same *)
(* (confirm_pending_transactions, "if status is None: continue").  If the   *)
(* operator keeps running sync_blockchain no row stays PENDING at all.      *)
OutOfReach(t) ==
    \/ t \in forgotten
    \/ Cardinality(PendingBefore(t) \cap forgotten) >= BatchSize

PendingIsResolved ==
    /\ <>[](\A t \in Tx : ledger[t] = "pending" => OutOfReach(t))
    /\ WF_submissionVars(SyncStep) => <>[](\A t \in Tx : ledger[t] # "pending")

(* README.md: every ballot is committed to Solana with a verifiable         *)
(* transaction signature.                                                   *)
BallotGetsSignature ==
    \A v \in Credential :
        (vote[v] # NoBallot /\ vote[v] # <<>>) ~> (tx_hash[v] # NoTx)

(* vote_service.py: the submission is enqueued after the database commit.   *)
EnqueuedAfterCommit ==
    \A j \in Job :
        job[j].pc = "queued" => vote[VoterOf(j)] = job[j].votes
===============================================================================
