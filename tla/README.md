# ElectON: TLA+ models and proofs

ElectON is a Django application for online elections. It records ballots in a
database, submits each one from a Celery task to a Solana program that counts
it, and archives and closes the program's account when the election is over.
Around that core are the editing and launching of elections, the voters'
credentials and invitations, the administrators' accounts, and what readers are
told of a running election. This directory holds TLA+ modules of all of these,
TLC configurations that check them and TLAPS proofs of their safety.

## Inventory of the system

| component | state | operations | what makes it correct |
|---|---|---|---|
| Solana program (`lib.rs`) | `ElectionState` account: root, window, bitfield, counters, `is_finalized` | `initialize_election`, `cast_vote`, `finalize_election`, `close_election` | a credential counts once; counters, bitfield and turnout agree; nothing changes after finalising |
| Merkle voter tree (`merkle_tree.py`, `lib.rs`) | layers, cached per election | build, prove, verify, climb | a proof verifies exactly for the credential at its index; Python and Rust agree |
| Vote recording (`vote_service.py`, web and API views) | `VoterCredential.has_voted`, `Vote` rows | `cast_votes`, `VoteCastView` | one ballot per credential; enqueued after commit |
| Submission and confirmation (`tasks.py`, `program_service.py`, `sync_blockchain`) | Celery tasks, `BlockchainTransaction` rows, `blockchain_tx_hash`, `blockchain_confirmed` | submit, retry, poll, sync | never counts what is not recorded, nor twice; confirmations are true; tasks end |
| Archive and close (`tasks.py`, `program_service.py`) | `BlockchainArchive` row | trigger, fetch, save, finalise, close, mark | nothing uncounted is archived; what is read after the end is the final tally; the account does go |
| Launch and deployment | `is_launched`, voter indices and hashes, cached tree, account | `LaunchElectionView`, `deploy_election` | the root on chain is that of the voters who vote; a failed launch can be retried; the row lock is given back |
| Election editing | election row, posts, candidates, voters, period | views of `elections`, `candidates` | nothing the chain was given changes after launch; limits and periods hold |
| Credentials and invitations | password hashes, `invitation_sent`, `is_revoked`, queued mails | generate, send, resend, regenerate, revoke | who is shown as invited can log in; decisions are not overwritten |
| Access requests | `VoterAccessRequest.status` | request, approve, reject | an approved request has a credential |
| Mail routing | daily counter in the cache | choose, send, count, fall back | the quota is passed by a bounded number |
| Accounts, second factor, rate limits | sessions, verification rows, codes, attempts, window counters | register, verify, reset, log in, settings | addresses are proven, questions are whole, failures are counted |
| Results and analytics | cached reports; none of their own otherwise | count, cache, invalidate; rank, name winners, export | a cached report is the tally but for races with its invalidation; all reports name the same leaders and totals, and differ in ties as stated |
| Webhooks, SSE | failure counter, channel, the dashboard's totals | send, disable, publish, poll | a failing webhook goes off; only recorded ballots are shown |
| Verification | archive and account | verify, compare | the reported tally is the counted one; a match means that every vote was counted, but for those the API enqueued before their commit |
| Candidate photos | object store, references | upload, confirm, import, delete, clean | no referenced photo is deleted |
| Plan limits | rows per user | create | limits hold but for overlapping requests |

Interaction: the web and API views call `VoteService` in a database
transaction; `VoteService` enqueues the submission in Redis; a worker calls
the RPC node; the program executes; beat runs the poller every 30 s and the
archive trigger every 5 min; operators run `sync_blockchain`. Processes share
the database, the cache and the account, and each can stop between any two of
those calls. The hard behaviours are listed one by one, with their line and the
property that covers them, under `hazards` in `PROJECT.json`.

## Modules

| module | models | composes |
|---|---|---|
| `MerkleTree` | the tree's functions, as recursive functions; hashes are free constructors (`HashPair(l, r) = <<l, r>>`), so they never collide | |
| `MerkleVerification` | the builder's and the program's loops, one iteration per step | `MerkleTree` |
| `ElectionProgram` | the four instructions; each applies whole or not at all, its guard is the conjunction of its `require!`s | `MerkleTree` |
| `BallotBox` | abstract: a ballot is recorded once, and counted at most once, as recorded | |
| `VoteSubmission` | a ballot's way from the request to the chain and back | `ElectionProgram`, refines `BallotBox` |
| `ArchiveClose` | the end of an election, and what verification reads meanwhile | `ElectionProgram` |
| `ElectionSetup` | an election from its draft to its launch: concurrent editing requests, the launch, the deployment | |
| `VoterAccess` | credentials, invitations, mail routing, access requests, the voter's login and vote | |
| `AdminAccounts` | the administrators' registration, password reset, login and settings, with sessions and the rate limiter | |
| `BallotNews` | what is told of a recorded ballot: cached reports, webhook, dashboard | |
| `ElectionResults` | the seven computations of a result, and the comparison of the database with the chain (or its archive) while ballots of the web and of the API come in, are rolled back and counted | |
| `CandidateImages` | photos in the object store and the nightly clean-up | |
| `MerkleTreeProofs`, `ElectionProgramProofs` | proofs about the tree and the program | |
| `VoteSubmissionProofs`, `ArchiveCloseProofs` | proofs about the submission, with the refinement of `BallotBox`, and about the archive | `ElectionProgramProofs` |
| `ElectionSetupProofs`, `VoterAccessProofs` | proofs about drafts and launches, and about credentials and invitations | |
| `AdminAccountsProofs` | proofs about accounts, second factors and the limiter | |
| `StandaloneProofs` | proofs about the modules that no other builds on: `ElectionResults`, `BallotNews`, `CandidateImages`, `MerkleVerification` | `MerkleTreeProofs` |
| `MC*` | constants for TLC | |

Correspondence in short. `account` is the `ElectionState` account; `ballots`
is a history variable, the ballots the account has counted; `vote_counts` is a
function from ballot entries, which the code keeps as a flat vector. In
`VoteSubmission`, `vote[v]` is the committed `Vote` rows of a credential (and
`has_voted`, written in the same transaction), `request[v]` an API transaction
still open, `job` the submission tasks with their program counters, `net` what
became of each transaction, `ledger` the `BlockchainTransaction` rows, `poll`
and `sync` the two readers between their read and their write. A transaction is
named by its task and attempt. The worker's program counter stops after every
call that another process can see: preflight and sending, the answer, the
ledger row, the vote rows. In `ArchiveClose` a task stops after the fetch, the
slot's fetch, the archive row, each instruction's preflight, each execution and
the last transaction; `clock` is the chain's, in seconds, so a row is `Overdue` in
the second of its end already, as by the application's finer clock it is.
Operators named `X_Something` under a comment "Mutant of X" are
deliberately wrong variants of `X`; no specification uses them, they show that
each property fails when the code is changed that way.

In `ElectionSetup`, `VoterAccess` and `AdminAccounts` a web request is a record
with what it read when it opened; a later action writes what the handler decides
from that reading, into rows that may have changed since. That is what the code
does: the views read an object, validate a form or hash passwords, and save,
without a lock. An action that uses the request's copy stands for a value
computed in Python, one that uses the row for an `update()`, a unique constraint
or the columns outside `update_fields`. Actions named `Refuse` or `Stop` are the
early returns (permission, password, form, rate limit). `ElectionSetup` keeps
voters as a number, since credentials are ordered by primary key: a roll is a
prefix. A launch reads the ballot twice, for the configuration hash and for the
layout and the tree, and others may write between. Positions and candidates have identity, order and names, which the
configuration hash and the vote indices depend on. In `VoterAccess` a password is
the how-manieth it is for its credential; `mail` has every invitation queued or
being sent, `inbox` what arrived. In `AdminAccounts` row ids, codes and passwords
are numbers of one counter, and `history` holds what only the properties see.
`BallotNews` represents a total by the set of ballots it counts; an API request
has its transaction open until `CommitRequest`, and its writes to the webhook
row wait in `worker[v].row`. In `ElectionResults` a vote is a row with its voter
hash (the elector), candidate and hour, every report is an operator on the rows
and flags, and `audit` is a comparison between its reads. A candidate is counted
on chain under `SlotOf`, the places of its post and of itself that the code
converts it to; `open` has the API requests whose rows are not committed,
`enqueued` what a worker may submit whatever becomes of them. Three runs check
two modules that share nothing side by side, to keep one run per question about
a part: `MCReports` has `BallotNews` and `CandidateImages`, `MCElectionProgram`
has `ElectionProgram` and `ElectionResults`, `MCAdminAccounts` has
`AdminAccounts` and `MerkleVerification`. A behaviour belongs to one of the two.

External parts are modelled from their use: the RPC node rejects in a preflight
what the program would refuse in its present state; `program.rpc` returns the
signature of an executed transaction whether or not it succeeded, and raises
when it saw none; a late answer says nothing about the transaction. Celery
acknowledges a task when it starts, so a killed worker loses it.

## What the runs check

| run | bounds | shows |
|---|---|---|
| `program` | rolls of 3 (padded) and 2, two posts, three windows, indices past the roll, counters up to 3; or the reports on three voters, a post with three candidates and one with one, two hours; or one comparison of a web voter's and an API voter's ballots, the latter enqueued at most twice, archived meanwhile | `TurnoutAgrees`, `TallyExact`, `OneBallotPerCredential`, `FinalizedIsFinal`; `ReportsAgree`, `MatchMeansCounted` |
| `submission` | two web voters, a ballot with a choice and an empty one, one retry, all incidents but forgotten statuses, a batch of one row, poller and sync | `ImplementsBallotBox`, `AtMostOneLanded`, `LedgerSound`, `ConfirmedMeansCounted` |
| `submission_live` | an API voter, one added after the launch whose ballot is queued, one whose ballot is counted and whose row waits; all incidents, a batch of one row | `TasksEnd`, `PendingIsResolved` |
| `setup` | two requests at a time and three in all, drafts with none, one or two posts, two failures, two voters, limits of two | `RollAsDeployed`, `LaunchedIsDeployed`, `BallotAsDeployed`, `OneLaunchAtATime`, `OnlyRacesBreakLimits`, `LockIsReleased` |
| `access` | a voter with an address and a printed credential, two requests at a time and three in all, two senders, quota one, two incidents | `InvitedCanLogin`, `DecisionsSurvive`, `ApprovedHasCredential`, `QuotaOvershootIsBounded` |
| `accounts` | two addresses, browsers and requests at a time, six requests in all, one incident; register, register with settings, log in, or reset with settings; or the tree of 1 to 7 voters (all parity patterns up to height 3), indices to 8, every claim | `MailboxIsProven`, `QuestionsAreOneSet`, `TriesAreBounded`; `TreeIsReference`, `VerdictIsMembership`, `ReferenceAgrees`: the tree is the reference tree, acceptance is membership at that index, `verify_merkle_proof` agrees with the program |
| `reports` | three ballots and two readers before one audience, one incident, a webhook that goes off after two failures; or two candidates of one name, three photos, two clean-ups | `CachedReportsAreHonest`, `ShownIsRecorded`, `FailingIsDisabled`, `ReferencedSurvive` |
| `archive` | two voters, two tasks at a time, one retry, two failures, the database's end at the chain's or a second before, the clock to one second after | `ArchiveIsFinalTally`, `MarkedMeansClosed`, `ClosedArchiveStays`, `RentRecovered` |

Why the bounds are enough: two voters are the least with a tree of more than
one leaf and with interference through one account; one retry gives two
transactions of one ballot in flight, the smallest case in which they race, and
more retries repeat it; the clock has the second inside the window, the last
second and one after it, and the database's window is longer than the
chain's in the submission runs. In the archive run the account ends in second 1
and the row in second 1 or 0: a row that ends later only makes the tasks come
later. An archive can be taken before the last second, in it, and after it.
`MaxCasts = 2` lets a web voter try a second ballot. A batch of one row is full
with one row whose status was forgotten, and the live run starts with such a row
about to be. Two archive tasks are the worker pool's concurrency. Two failures let
a task exhaust its retries once, so beat has to queue another.

Two overlapping requests are enough for every race of a reading and a write;
the third in `setup` and `access` lets a launch or a decision follow on what a
race has left. Two incidents in `setup` are a lost deployment and a failed
second launch, the case in which the account exists already. The quota of one
makes two senders meet at the limit. `MaxAttempts = 2` with two requests gives
a second factor the most wrong codes that lost increments allow,
MaxAttempts * (MaxAttempts + 3) / 2. Three ballots let a webhook's failure fall
between two deliveries, and make every kind of tie of three candidates; two
posts make ballots that are blank in part. Symmetry is used in safety runs only,
over voters, electors, readers, browsers, accounts and requests, which no
definition tells apart.

Four runs are expected to be violated; each is a disagreement between the code
and what the repository says, quoted under `findings`:

* `ballot_signature`: README.md promises every ballot a verifiable signature. A
  transaction that is executed after the worker stopped waiting makes every
  retry fail with `AlreadyVoted`; the ballot counts, its rows never get one.
* `enqueued_after_commit`: `vote_service.py` says the submission is enqueued
  after the commit. The API view wraps `cast_votes` in its own transaction.
* `archive_last_second`: `BlockchainArchive` is called the permanent record of the
  final tally, and `lib.rs` wants it taken between finalising and closing. The
  trigger compares the row's end with a clock of microseconds, the account has it
  in whole seconds and counts ballots up to and in its last one, and the task
  saves the archive before it finalises. So in the last second the account may be
  archived and count another ballot; by the time the task finalises, the second
  may be over, and the account is closed with that ballot in no record.
* `archive_async`: `_async_archive_and_close` uses the ORM inside a coroutine.
  Django refuses that unless `DJANGO_ALLOW_ASYNC_UNSAFE` is set, which nothing
  in the repository does; archiving fails at its first write, every time. The
  runs `archive` and `archive_last_second` have the variable set, and show what
  the rest of the design does.

Races that contradict no statement in the repository are in the models and in
`hazards`, and no property claims they cannot happen: the poller may confirm a
ledger row before the task has written the signature, so
`blockchain_confirmed` stays false; a failure right after `close_election`
leaves `account_closed_at` unset and beat queues the election for ever; on the
API path a rolled-back request may leave a counted ballot without a recorded
one, so `BallotBox` is implemented for the web voters only, and a comparison may
report a match over it (`MatchMeansCounted` allows as many missing votes as were
counted before or without their commit, none if nobody votes through the API). A
voter approved after the launch has no place in the tree, and the ballot ends as
skipped.

In more places the code does less than a comment says. The properties of the
passing runs name the excuse, so what remains is checked:

* The launch is called irreversible (`elections/views.py:459`), but
  `EditElectionView` saves the whole row it read (line 185): saved after a
  launch, it makes the election a draft again, with an account on chain.
  `LaunchedIsDeployed` holds because the row loses its flag and its signature
  together; `raced` marks the change for `BallotAsDeployed`.
* The comment at lines 512-514 says that a failed deploy rolls the transaction
  back; the response is returned inside the atomic block, so indices and hashes
  of the failed attempt are committed. The next attempt overwrites them
  (`RollAsDeployed`), but when the first one's transaction landed, the account
  is only recorded (`PdaAlreadyExisted`) and the root may be of another roll:
  the property is about elections whose row names the creating transaction.
* `candidates/views.py:357` says that counting again inside an atomic block
  removes the race between counting and creating; nothing is locked, so two
  requests at the limit pass it, and so do two that add positions.
  `OnlyRacesBreakLimits` says of positions that only they can. Two updates of
  one end of the voting period can leave an empty period in the same way. The
  bulk import of positions does not look at the limit of candidates.
* `UpdateVotingPeriodView` (`elections/views.py:597`) lets the owner of a launched
  election that has not started give the row another end, and the account keeps
  the one it was deployed with. If the row ends first, beat archives while ballots
  are still counted, as it does in the last second of an election whose ends
  agree. `ArchiveIsFinalTally` therefore says of any archive that it tells no vote
  that was not counted, and of one taken after the account's window that it is
  the final tally. A slower task may save over a closed archive what it read
  before, with a slot of its own (`on_chain_slot` is among the defaults of
  `update_or_create`, `program_service.py:347`): `ClosedArchiveStays` says that the
  mark stays and the tally too, unless one of the two was taken too early.
* The poller passes over a row whose status the node no longer has (`tasks.py:206`;
  the node is asked without the transaction history) and sees the oldest
  `SOLANA_TX_CONFIRM_BATCH_SIZE` rows only. `PendingIsResolved` says that a row
  stays pending only for one of these reasons, and that none does if the
  operator keeps running `sync_blockchain`.
* The last step of a password reset calls `timezone.now()` in a module that does
  not import `timezone` (`accounts/views/password.py:343`): the request ends in a
  `NameError` before anything is saved. `ResetPassword` is modelled as that, so
  `MailboxIsProven` speaks of who comes to that step, and no reset ever changes
  a password.
* `accounts/models.py:195` promises exactly three questions per user. Overlapping
  updates, or an update while the registration has yet to write its questions,
  leave two sets, and a crash in registration leaves none; `QuestionsAreOneSet`
  excepts exactly those accounts. A deleted account's key is not given out again.
* The session's confirmed flag is not tied to its verification row: registering
  again in one session with another address skips that address's code. The set
  `carried` of `MailboxIsProven` holds these addresses.
* `settings/base.py:144` says UUIDs make object keys unique; imported photos are
  named after the candidate, so namesakes share an object and deleting one
  deletes both photos.
* `ConfirmUploadView` says it verifies that the object exists; line 279 says it
  does not. A photo confirmed an hour late can be cleaned up under its row.
* `ElectionResultsView` counts as votes cast the distinct hashes of the vote rows,
  so a voter who abstained from every post is in the turnout of every report but
  the API's (`SameTotals` says so). The reports differ in ties, and `SameWinners`
  says how. The exported rows, the chart and the audit trail mark a tie;
  `get_winner`, the results PDF, the voters' page and the API do not. Of tied
  leaders `get_winner` and the chart name the one created first, the others list
  the first by name. Tied candidates share a rank in the chart; the Rank columns
  of the results PDF (`pdf_service.py:109`), of the audit trail (line 268) and of the
  voters' page number them one after the other. A match of the integrity check
  says nothing of blank ballots, which are never sent.
* Reports computed while a ballot is recorded through the API stay stale until
  they expire, since the invalidation precedes the commit. Events of two ballots
  can reach a dashboard in the wrong order; nothing promises otherwise.

Fairness: the submission runs assume weak fairness of enqueueing, of the API
requests, of the workers, of the network (a sent transaction is executed or
expires) and of the poller, each as a whole. That is what running processes,
the worker pool and beat give. Nothing is assumed of voters, the operator, the
clock, or incidents; the second half of `PendingIsResolved` is an implication whose
hypothesis is that the operator's command keeps running. `setup` assumes weak fairness of each request's launch once it has begun and
of the network. `program`, `access`, `accounts` and `reports` check safety only.
`archive` assumes it of beat, of each task and of the clock, since real
time goes on (the program of the other runs may stop at any second), and bounds
the failures by `MaxIncidents`: if RPC calls fail for ever, nothing is closed.
Runs with `CHECK_DEADLOCK FALSE` model things that end: a verdict, a submitted
ballot, a closed election.

## What is proved

Every proof is checked by TLAPS for all values of the constants, from the
assumptions named in the modules (`ProgramAssumption`: rolls are non-empty and
without repetitions, selections are sequences of entries, bounds are naturals).

* `MerkleBinding`: if a proof, of whatever length, verifies for a credential at
  an index of the roll against the roll's root, the credential is the one at
  that index. The argument follows the climb: the layers of the tree
  (`LayersShape`, `TreeHeightFacts`) and the climb (`ClimbUnfold`) are unfolded
  from their recursive definitions; a proof that reaches the root has the
  tree's height (`ProofHasFullHeight`), and going down from the root each
  computed node must be the layer's node at the climb's index
  (`PairedAtIndex`), since a pair determines its halves. Induction goes through
  the least counterexample of a set of naturals (`SetInduction`).
* `HonestProofVerifies`: the converse. The proof cut for an index of the roll has
  one sibling per layer (`ProofFacts`), the indices on its way are those of the
  climb (`PathDef`), and a node and its sibling make the node above also where the
  layer is padded (`SiblingsMakeNode`), so the climb ends in the root.
* `BuiltIsReference`, `LoopIsReference`, `AcceptedAreMembers` about the loops of
  `MerkleVerification`, from `LoopsInv`: the layers built so far are the first ones
  of the tree, the loop stops at its height (`BuildStops`), and the climb stands
  where `Climb` is after the siblings consumed. What is accepted is then a member
  by `MerkleBinding`, and what is rejected was no honest claim by
  `HonestProofVerifies`.
* `ProgramTypeCorrect`: the account's shape, by one step per instruction.
* `BallotsAreRegistered`: the inductive invariant of the next theorem. Each
  counted ballot's hash is that of the credential at its index of a roll with
  the account's root and size, and its index is set in the bitfield. It needs
  `MerkleBinding`; `OneBallotPerCredential` alone is not inductive, because it
  does not say why two indices cannot carry one credential.
* `CountedOnce`, from that invariant and the absence of repetitions in a roll.
* `TurnoutCorrect` and `TallyCorrect`, from `CountsAgree`, which relates the
  counters, the bitfield and `ballots`; the duplicate-post guard is what makes
  a ballot add at most one to a slot (`OccurrencesAtMostOne`).
* `FinalizedStays`: with type correctness, a finalised account is past its end,
  so no ballot is accepted.
* `OneLands`, `LedgerIsSound`, `ConfirmedIsCounted`, `SubmittedTally` about
  `VoteSubmission`, from `SubmissionInv`. None of the properties is inductive: that
  at most one transaction lands needs that an executed one has left its bit in
  the account (`BallotsLanded`), that a confirmation is true needs that what the
  poller and the operator hold between reading and writing came from an executed
  transaction (`VerdictsHold`), and both need where a task is while one of its
  transactions is on the network (`TxsOfAttempts`). `LandIsMove` shows that a
  landing transaction is a step of `ElectionProgram`, so its theorems carry over.
* `Refinement`: the submission implements `BallotBox`, with the recorded and the
  counted ballots of the web voters as the mapping. `InitRefines` and
  `StepRefines` are the simulation; `WebBallots` says why a web voter's ballot on
  its way is the recorded one, and every step but recording and landing stutters.
* `ArchiveCorrect`, `MarkedIsClosed`, `ClosedStays` from `ArchiveInv`: a snapshot is
  honest (`Honest`), since it was the tally when it was read (`SnapshotIsTally`)
  and ballots only come in (`HonestStays`); one taken after the account's window
  stays the tally, because no ballot comes in any more. So two such snapshots
  agree (`ExactAgree`) and it does not matter which task saves last. An account is
  gone only after a task that had saved sent the close (`ClosesOnce`).
* `LaunchDeploys`, `RollIsDeployed`, `BallotIsDeployed`, `LaunchesAlone` from
  `SetupInv`: what a launch that holds the row knows of roll, tree and ballot, which
  it reads twice, for the hash and for the layout and the tree, and
  that its transaction is the last one sent (`LaunchSound`, `TxSound`). The edits
  are many and alike, so the lemmas from `PostEdits` to `EveryEdit` show once what
  every one of them leaves well formed, and the proof of a step uses only that.
  `OnlyRaces` is an action property: `AddedWithinLimit` counts the rows that a
  request adds whose readings are still current.
* `InvitedOpenBallot`, `ApprovedAreRegistered`, `QuotaHolds`, `DecisionsHold` from
  `AccessInv`. `Newest` follows a password from the request that drew it to the
  mail and the inbox, `Distinct` says that an address has one credential, and
  `Quota` adds to the counter the mails that Brevo has taken and not yet counted.
  The actions fall into three classes, which change nothing a mail depends on
  (`QuietKeeps`), hand a mail over (`HandOverKeeps`) or renew a password
  (`RenewalKeeps`).
* `MatchIsCounted`, from `ResultsInv`: what a comparison read, of the account or
  of an archive, is no more than is on chain at its end, every vote there
  has its row or is one of `early` (`CountOnChainKeeps`), and a candidate's slot
  tells the candidate (`SlotsDiffer`). So equal counts leave room for as many
  missing votes as are early, and the rows that come in meanwhile take none of it
  (`MissingShrinks`, `CountsMatch`). Without API voters nothing is early.
* `SameResult`: the seven reports agree in every state, and differ in ties as
  stated. A report is an operator on
  the rows, so the work is in the operators: a finite set is enumerated by any
  strict order (`Enumeration`), sorting candidates gives the ranking
  (`RankingSorts`), whose ranks, defined by recursion, are one more than the
  number of candidates with more votes (`RanksByVotes`), while a row's number adds
  those with as many votes and an earlier name (`NumberInTable`); the totals are equal
  because one row per voter, post or hash can be chosen (`ResultsSameTotals`).
  `Least`, the least element of a finite set of naturals, stands in for
  induction.
* `CachedAreHonest`, `ShownAreRecorded`, `FailingHookIsOff` from `NewsInv`: a report
  in the making is as honest as a cached one (`ReadersAreHonest`), every total on
  its way is known to be of recorded ballots (`TotalsAreKnown`), and of two open
  transactions only one has written the webhook's row (`HookIsWatched`).
* `MailboxProven` from `Copies`: every copy a session, a row or a request holds of
  an address or a code says only what has been mailed, entered or answered, and
  nothing of that is ever taken back (`Grows`), so a copy that has gone stale is
  still true. An address that a session carries past its code is in `carried`. Of a
  reset it says who comes to its last step; that step changes nothing.
* `OneSetOfQuestions` from `Copies` and `Questions`: an account without questions is
  one whose registration has yet to write them (`Unfinished`), and a request that
  would write over another's is one that the account's exception names.
* `TriesBounded` from `Bounded`, `Counted` and `Tries`. For the limiter, the counter
  of a key and the requests past its check that have yet to count together stay
  within the limit and the number of requests (`Passed`): a request that passes
  raises the second, one that counts moves from it to the first. For a second
  factor, `Room(a)` is twice what two requests can still try from a row with `a` attempts: a
  wrong code spends at least as much of it as it adds, and a save of an old number
  over a new one gives back no more than the overlap had paid for (`Overlapped`).
  That part is about two requests, as the property is; the other two parts hold
  for any number.
* `ReferencedStay` from `ImagesInv`: a key that a row has come to refer to since the
  clean-up read the rows is not old, or the change was a race (`CleanupSpares`).

The assumptions are about constants only: electors, nominees, post and candidate
names are finite sets, bounds are naturals, limits are positive, windows are pairs
of integers, the rolls that trees are built over are not empty
(`RollsAssumption`), and the values that stand for `None` (`NoAccount`,
`NoArchive`, `NoElection`, `Nothing`, `None` and the like) are no value of the
column. TLC evaluates each of them.

Only model-checked is liveness: `TasksEnd`, `PendingIsResolved`, `RentRecovered`,
`LockIsReleased`, which is out of the prover's reach. Every other property of a
passing run, invariant or action property, is the statement of a theorem. The
proofs about recursive functions unfold them by one lemma each (`ClimbUnfold`,
`PathDef`, those of the layers and of the ranks), so that the induction is over a
set of naturals and not over the data.

## Not modelled

* Hash collisions, the byte layout of the account, rent, signatures; retry delays;
  skew between the server's clock and the chain's, beyond the second in which the
  one is past the end and the other is not.
* The validation of posts and candidates in `cast_votes` (ballots are the valid
  ones); ledger receipts of finalise and close.
* Admin message, abstain switch and `DuplicateElectionView`: no property is
  about their columns. The `election.launched` webhook.
* Parsing and formatting: spreadsheets, percentages, layout of PDF and charts,
  image conversion, the guarded fetch of addresses. `verify_config_hash`, which
  nothing calls; `verify_integrity` is a loop over `compare_db_and_chain`.
* Plans themselves and the limit on elections; which voters are revoked, and so
  not counted towards the limit on voters (any number may be); the separate limiter
  key of the settings page (a request there may be refused at any time); the
  audit log, which nothing reads back; configuration; presentation code.
* Offline batch numbers, which are compared as strings and can repeat when two
  batches are generated at once: only the credentials of a batch matter here.

Components without a module are listed with the reason in `PROJECT.json`.

## Plan

The model is complete but for the list above, and every safety property of it is
proved. What is worth doing next:

1. Sharper statements where a property excepts a race: that the excepted state is
   one which the race alone explains, as `OnlyRacesBreakLimits` does for limits.
2. The second factor's bound for any number of overlapping requests, of which
   `TriesAreBounded` speaks for two.
