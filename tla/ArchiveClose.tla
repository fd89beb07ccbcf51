----------------------------- MODULE ArchiveClose -----------------------------
(***************************************************************************)
(* The end of an election: beat queues archive_and_close_election for      *)
(* every ended election whose account is not known to be closed, and each  *)
(* such task copies the account of ElectionProgram into a                  *)
(* BlockchainArchive row, finalises the election, closes the account and   *)
(* writes that down (ProgramService.archive_and_close).  Beat does not     *)
(* look at the tasks already queued, so several run at once.               *)
(***************************************************************************)
EXTENDS ElectionProgram

CONSTANTS
    Task,              \* the tasks that can be queued or running at a time
    Roll, Layout,      \* what the account was deployed for
    ChainWindow,       \* the window of the account
    DbEnds,            \* values of the Election row's end_time
    MaxRetries,        \* max_retries of archive_and_close_election
    MaxIncidents,      \* bound: RPC failures and killed workers
    AllowAsyncUnsafe,  \* BOOLEAN: DJANGO_ALLOW_ASYNC_UNSAFE is set; without
                       \* it the ORM raises inside a coroutine
    NoArchive

ASSUME ArchiveAssumption ==
    /\ Roll \in Rolls /\ Layout \in Layouts
    /\ ChainWindow \in Windows /\ DbEnds \subseteq Int
    /\ MaxRetries \in Nat /\ MaxIncidents \in Nat
    /\ AllowAsyncUnsafe \in BOOLEAN

(* What the archive copies of the account, and a row.  taken is the second  *)
(* in which the account was read, which only the properties see; a slot is  *)
(* told by its second.                                                      *)
AnySnapshot ==
    [total_votes    : Nat,
     vote_counts    : UNION {[Slots(l) -> 0..U32Max] : l \in Layouts},
     voted_bitfield : SUBSET (0..(U32Max - 1)),
     taken          : Nat]

ArchiveRow ==
    [data : AnySnapshot, on_chain_slot : Nat, account_closed : BOOLEAN]

ASSUME NoArchiveAssumption == NoArchive \notin ArchiveRow

VARIABLES
    end_time,   \* Election.end_time
    archive,    \* the BlockchainArchive row, or NoArchive
    task,       \* the archive_and_close_election tasks
    incidents   \* how many failures there were

archiveVars == <<programVars, end_time, archive, task, incidents>>

Snapshot(state) ==
    [total_votes    |-> state.total_votes,
     vote_counts    |-> state.vote_counts,
     voted_bitfield |-> state.voted_bitfield,
     taken          |-> clock]

NoTask == [pc |-> "idle"]
Queued(retries) == [pc |-> "queued", retries |-> retries]

ArchiveInit ==
    /\ account = FreshAccount(Roll, Layout, ChainWindow[1], ChainWindow[2])
    /\ ballots = {}
    /\ clock = 0
    /\ end_time \in DbEnds
    /\ archive = NoArchive
    /\ task = [k \in Task |-> NoTask]
    /\ incidents = 0

Becomes(k, r) == task' = [task EXCEPT ![k] = r]
GoesTo(k, pc) == Becomes(k, [task[k] EXCEPT !.pc = pc])

(* self.retry, up to max_retries times. *)
Retry(k) ==
    Becomes(k, IF task[k].retries < MaxRetries
               THEN Queued(task[k].retries + 1) ELSE NoTask)

-------------------------------------------------------------------------------
(* account_closed_at of the row, if there is one. *)
MarkedClosed == archive # NoArchive /\ archive.account_closed

\* Mutant of Overdue: elections without an archive, as the docstring says.
Overdue_NoArchive == end_time <= clock /\ archive = NoArchive

(* end_time__lt=timezone.now() compares microseconds; the account has the   *)
(* end in whole seconds and clock is the chain's.  The row is overdue once  *)
(* its second has begun, while the program still accepts ballots in it.     *)
Overdue == end_time <= clock /\ ~MarkedClosed

(* trigger_archive_ended_elections *)
Trigger(k) ==
    /\ task[k] = NoTask
    /\ Overdue
    /\ Becomes(k, Queued(0))
    /\ UNCHANGED <<programVars, end_time, archive, incidents>>

(* The task finds the row marked, or the account gone: it returns. *)
NothingToDo(k) ==
    /\ task[k].pc = "queued"
    /\ MarkedClosed \/ account = NoAccount
    /\ Becomes(k, NoTask)
    /\ UNCHANGED <<programVars, end_time, archive, incidents>>

FetchState(k) ==
    /\ task[k].pc = "queued"
    /\ ~MarkedClosed
    /\ account # NoAccount
    /\ Becomes(k, [pc |-> "fetched", retries |-> task[k].retries,
                   snapshot |-> Snapshot(account), slot |-> 0,
                   is_finalized |-> account.is_finalized])
    /\ UNCHANGED <<programVars, end_time, archive, incidents>>

(* A call of its own, after the account was read. *)
GetSlot(k) ==
    /\ task[k].pc = "fetched"
    /\ Becomes(k, [task[k] EXCEPT !.pc = "read", !.slot = clock])
    /\ UNCHANGED <<programVars, end_time, archive, incidents>>

\* Mutant of Archived: a new row replaces the old one.
Archived_Fresh(snapshot, slot) ==
    [data |-> snapshot, on_chain_slot |-> slot, account_closed |-> FALSE]

\* Mutant of Archived: the numbers of two tasks are added up.
Archived_Added(snapshot, slot) ==
    [data |-> IF archive = NoArchive THEN snapshot
              ELSE [snapshot EXCEPT
                      !.vote_counts = [s \in DOMAIN @ |->
                         @[s] + archive.data.vote_counts[s]]],
     on_chain_slot |-> slot, account_closed |-> MarkedClosed]

(* update_or_create: account_closed_at is not among the defaults, all the   *)
(* rest is, on_chain_slot too.                                              *)
Archived(snapshot, slot) ==
    [data |-> snapshot, on_chain_slot |-> slot, account_closed |-> MarkedClosed]

SaveArchive(k) ==
    /\ task[k].pc = "read"
    /\ IF AllowAsyncUnsafe
       THEN /\ archive' = Archived(task[k].snapshot, task[k].slot)
            /\ Becomes(k, [pc |-> "saved", retries |-> task[k].retries,
                           is_finalized |-> task[k].is_finalized])
       ELSE UNCHANGED archive /\ Retry(k)  \* SynchronousOnlyOperation
    /\ UNCHANGED <<programVars, end_time, incidents>>

-------------------------------------------------------------------------------
(* The two instructions: a preflight, then the execution.  An error at the  *)
(* execution does not raise: program.rpc returns the signature all the same. *)

CanFinalize ==
    account # NoAccount /\ Ended(account, clock) /\ ~account.is_finalized

CanClose ==
    account # NoAccount /\ Ended(account, clock) /\ account.is_finalized

SkipFinalize(k) ==
    /\ task[k].pc = "saved"
    /\ task[k].is_finalized
    /\ GoesTo(k, "finalized")
    /\ UNCHANGED <<programVars, end_time, archive, incidents>>

SendFinalize(k) ==
    /\ task[k].pc = "saved"
    /\ ~task[k].is_finalized
    /\ IF CanFinalize THEN GoesTo(k, "finalizing") ELSE Retry(k)
    /\ UNCHANGED <<programVars, end_time, archive, incidents>>

FinalizeLands(k) ==
    /\ task[k].pc = "finalizing"
    /\ FinalizeElection \/ (~CanFinalize /\ UNCHANGED programVars)
    /\ GoesTo(k, "finalized")
    /\ UNCHANGED <<end_time, archive, incidents>>

SendClose(k) ==
    /\ task[k].pc = "finalized"
    /\ IF CanClose THEN GoesTo(k, "closing") ELSE Retry(k)
    /\ UNCHANGED <<programVars, end_time, archive, incidents>>

CloseLands(k) ==
    /\ task[k].pc = "closing"
    /\ CloseElection \/ (~CanClose /\ UNCHANGED programVars)
    /\ GoesTo(k, "closed")
    /\ UNCHANGED <<end_time, archive, incidents>>

\* Mutant of CloseSeen: the row is marked as soon as the transaction is sent.
CloseSeen_WhenSent(k) == task[k].pc \in {"closing", "closed"}

CloseSeen(k) == task[k].pc = "closed"

(* The last database transaction: the receipts and account_closed_at. *)
MarkClosed(k) ==
    /\ CloseSeen(k)
    /\ archive' = [archive EXCEPT !.account_closed = TRUE]
    /\ Becomes(k, NoTask)
    /\ UNCHANGED <<programVars, end_time, incidents>>

(* An RPC call raises; a worker is killed, and its task is not run again. *)
Fails(k) ==
    /\ incidents < MaxIncidents
    /\ task[k] # NoTask
    /\ incidents' = incidents + 1
    /\ Retry(k) \/ Becomes(k, NoTask)
    /\ UNCHANGED <<programVars, end_time, archive>>

-------------------------------------------------------------------------------
(* Submissions still under way, and time. *)
StillCounted ==
    /\ \E i \in 0..MaxIndex, p \in Presented, v \in Selections :
          CastVote(i, p.leaf, p.proof, v)
    /\ UNCHANGED <<end_time, archive, task, incidents>>

TimePasses ==
    /\ Tick
    /\ UNCHANGED <<end_time, archive, task, incidents>>

TaskStep(k) ==
    \/ NothingToDo(k) \/ FetchState(k) \/ GetSlot(k) \/ SaveArchive(k)
    \/ SkipFinalize(k) \/ SendFinalize(k) \/ FinalizeLands(k)
    \/ SendClose(k) \/ CloseLands(k) \/ MarkClosed(k)

ArchiveNext ==
    \/ \E k \in Task : Trigger(k) \/ TaskStep(k) \/ Fails(k)
    \/ StillCounted
    \/ TimePasses

(* Beat, the workers and the clock keep going; failures are finitely many.  *)
ArchiveSpec ==
    /\ ArchiveInit /\ [][ArchiveNext]_archiveVars
    /\ WF_archiveVars(\E k \in Task : Trigger(k))
    /\ \A k \in Task : WF_archiveVars(TaskStep(k))
    /\ WF_archiveVars(TimePasses)

-------------------------------------------------------------------------------
(* The readers.  state is what the RPC node answers: the account, or         *)
(* NoAccount when the read fails as well as when the account is closed.      *)

Answerable(state) == state # NoAccount \/ archive # NoArchive

(* VerificationService.verify_vote of the voter at an index: the account     *)
(* first.                                                                    *)
VerifyVote(voter_index, state) ==
    voter_index \in (IF state # NoAccount
                     THEN state.voted_bitfield ELSE archive.data.voted_bitfield)

(* ProgramService.get_on_chain_vote_counts: the archive first.               *)
OnChainVoteCounts(state) ==
    IF archive # NoArchive THEN archive.data.vote_counts ELSE state.vote_counts

-------------------------------------------------------------------------------
TaskPc == {"idle", "queued", "fetched", "read", "saved", "finalizing",
           "finalized", "closing", "closed"}

(* A task that holds a snapshot of the account took it in a state the       *)
(* account has been in: never more votes than the account counted, and a    *)
(* task past its archive step finds the row there.                          *)
ArchiveTypeOK ==
    /\ ProgramTypeOK
    /\ end_time \in DbEnds
    /\ incidents \in 0..MaxIncidents
    /\ archive \in ArchiveRow \cup {NoArchive}
    /\ \A k \in Task :
          /\ task[k].pc \in TaskPc
          /\ task[k].pc \in {"fetched", "read"} =>
                task[k].snapshot.total_votes <= Cardinality(ballots)
          /\ task[k].pc \in {"saved", "finalizing", "finalized", "closing",
                             "closed"} => archive # NoArchive

(* The account was read when the program counted no more: after the second  *)
(* in which it ends.                                                        *)
TakenAfterEnd(row) == row.data.taken > ChainWindow[2]

(* What the readers are told.                                               *)
ToldVoters(state) == {i \in 0..MaxIndex : VerifyVote(i, state)}
Voters == {b.voter_index : b \in ballots}
VotesFor(s) == Cardinality({b \in ballots : Names(b, s)})

(* Once the account is gone there is an archive to tell what was counted.   *)
(* No reader is told of a vote that was not counted, from the account or    *)
(* from the archive, whichever of the concurrent tasks wrote it last; what  *)
(* the account or an archive taken after its end tells is the final tally.  *)
(* An archive taken before - in the last second, or because the Election    *)
(* row was given an earlier end - may lack votes, and is preferred to the   *)
(* account all the same (get_on_chain_vote_counts, verify_vote,             *)
(* BlockchainArchive).                                                      *)
ArchiveIsFinalTally ==
    /\ account = NoAccount => archive # NoArchive
    /\ \A state \in {account, NoAccount} : Answerable(state) =>
          /\ ToldVoters(state) \subseteq Voters
          /\ \A s \in Slots(Layout) : OnChainVoteCounts(state)[s] <= VotesFor(s)
          /\ state # NoAccount => ToldVoters(state) = Voters
          /\ archive # NoArchive /\ TakenAfterEnd(archive) =>
                /\ ToldVoters(state) = Voters
                /\ \A s \in Slots(Layout) :
                      OnChainVoteCounts(state)[s] = VotesFor(s)

(* "This model is the permanent record of the final tally and vote          *)
(* bitfield" (BlockchainArchive, blockchain/models.py), where the row ends  *)
(* with the account.  A run shows that it need not be: ballots are counted  *)
(* in the second of the end after the account was read.                     *)
ArchiveIsPermanentRecord ==
    end_time = ChainWindow[2] /\ account = NoAccount =>
        /\ ToldVoters(NoAccount) = Voters
        /\ \A s \in Slots(Layout) : OnChainVoteCounts(NoAccount)[s] = VotesFor(s)

(* account_closed_at is set only when the account is really gone: the       *)
(* trigger never looks at the election again (archive_and_close).           *)
MarkedMeansClosed == MarkedClosed => account = NoAccount

(* A slower task saves its snapshot over a closed archive, with a slot of   *)
(* its own.  The mark stays, or beat would come back to the election for    *)
(* ever, and the tally changes only if one of the two snapshots was taken   *)
(* before the account's window was over.                                    *)
SameTally(row, other) ==
    /\ row.data.total_votes = other.data.total_votes
    /\ row.data.vote_counts = other.data.vote_counts
    /\ row.data.voted_bitfield = other.data.voted_bitfield

ClosedArchiveStays ==
    [][MarkedClosed =>
          /\ MarkedClosed'
          /\ TakenAfterEnd(archive) /\ TakenAfterEnd(archive') =>
                SameTally(archive, archive')]_archiveVars

(* After the end of the election the account is closed and its rent comes   *)
(* back, though tasks fail, give up and are killed: beat queues new ones    *)
(* (README.md: after elections end, finalize then close recovers the rent). *)
RentRecovered == (end_time < clock) ~> (account = NoAccount)
===============================================================================
