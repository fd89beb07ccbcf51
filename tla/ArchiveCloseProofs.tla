-------------------------- MODULE ArchiveCloseProofs --------------------------
(***************************************************************************)
(* The safety properties of ArchiveClose, for any number of concurrent     *)
(* archive tasks, retries and failures and any end of the Election row.  A *)
(* snapshot, held by a task or saved, has no vote that was not counted,    *)
(* and one taken after the account's window is the final tally, because no *)
(* ballot is counted any more; so it does not matter which task saves last *)
(* unless one of them read the account too early.                          *)
(***************************************************************************)
EXTENDS ArchiveClose, ElectionProgramProofs

Reading == {"fetched", "read"}
Saving == {"saved", "finalizing", "finalized", "closing", "closed"}

QueuedRow == [pc : {"queued"}, retries : 0..MaxRetries]
ReadingRow ==
    [pc : Reading, retries : 0..MaxRetries, snapshot : AnySnapshot, slot : Nat,
     is_finalized : BOOLEAN]
SavingRow == [pc : Saving, retries : 0..MaxRetries, is_finalized : BOOLEAN]

TaskRow == {NoTask} \cup QueuedRow \cup ReadingRow \cup SavingRow

TasksTyped ==
    /\ end_time \in DbEnds
    /\ incidents \in 0..MaxIncidents
    /\ archive \in ArchiveRow \cup {NoArchive}
    /\ task \in [Task -> TaskRow]

(* The account is the one deployed, and its ballots are finitely many even  *)
(* when it is gone.                                                         *)
Deployed ==
    /\ account # NoAccount => /\ account.end_time = ChainWindow[2]
                              /\ account.candidates_per_post = Layout
    /\ \A b \in ballots : b.voter_index \in 0..MaxIndex
    /\ IsFiniteSet(ballots)

(* A snapshot tells nothing that is not in the ballots, and all that is in  *)
(* them if it was taken after the end.                                      *)
Exact(snap, bs) ==
    /\ snap.total_votes = Cardinality(bs)
    /\ snap.voted_bitfield = {b.voter_index : b \in bs}
    /\ \A s \in Slots(Layout) :
          snap.vote_counts[s] = Cardinality({b \in bs : Names(b, s)})

Honest(snap, bs, time) ==
    /\ snap.taken <= time
    /\ snap.vote_counts \in [Slots(Layout) -> Nat]
    /\ snap.total_votes <= Cardinality(bs)
    /\ snap.voted_bitfield \subseteq {b.voter_index : b \in bs}
    /\ \A s \in Slots(Layout) :
          snap.vote_counts[s] <= Cardinality({b \in bs : Names(b, s)})
    /\ snap.taken > ChainWindow[2] => Exact(snap, bs)

SnapshotsHold ==
    \A k \in Task : task[k].pc \in Reading =>
        Honest(task[k].snapshot, ballots, clock)

ArchiveHolds ==
    /\ archive # NoArchive => Honest(archive.data, ballots, clock)
    /\ \A k \in Task : task[k].pc \in Saving => archive # NoArchive

(* A close that was sent succeeds unless another one did.                   *)
ClosesOnce ==
    /\ account = NoAccount => archive # NoArchive
    /\ \A k \in Task : task[k].pc = "closing" => account = NoAccount \/ CanClose
    /\ \A k \in Task : task[k].pc = "closed" => account = NoAccount
    /\ MarkedMeansClosed

ArchiveInv ==
    /\ ProgramInv /\ TasksTyped /\ Deployed
    /\ SnapshotsHold /\ ArchiveHolds /\ ClosesOnce

-------------------------------------------------------------------------------
(* The account read is the tally so far.                                    *)
LEMMA SnapshotIsTally ==
    ASSUME ProgramInv, Deployed, account # NoAccount
    PROVE  /\ Snapshot(account) \in AnySnapshot
           /\ Exact(Snapshot(account), ballots)
           /\ Honest(Snapshot(account), ballots, clock)
<1>1. /\ account \in ElectionState /\ clock \in Nat
      /\ DOMAIN account.vote_counts = Slots(account.candidates_per_post)
      /\ account.candidates_per_post = Layout
  BY DEF ProgramInv, ProgramTypeOK, Deployed
<1>2. /\ account.total_votes = Cardinality(ballots)
      /\ \A s \in Slots(Layout) :
            account.vote_counts[s] = Cardinality({b \in ballots : Names(b, s)})
      /\ account.voted_bitfield = {b.voter_index : b \in ballots}
  BY <1>1 DEF ProgramInv, CountsAgree, BallotsRegistered
<1> DEFINE snap == Snapshot(account)
<1>3. /\ snap.total_votes = account.total_votes
      /\ snap.vote_counts = account.vote_counts
      /\ snap.voted_bitfield = account.voted_bitfield
      /\ snap.taken = clock
  BY DEF Snapshot
<1>4. snap \in AnySnapshot
  BY <1>1 DEF Snapshot, AnySnapshot, ElectionState
<1> HIDE DEF snap
<1>5. Exact(snap, ballots)
  BY <1>2, <1>3 DEF Exact
<1>6. /\ snap.total_votes \in Nat
      /\ snap.vote_counts \in [Slots(Layout) -> Nat]
  <2>1. /\ account.vote_counts \in UNION {[Slots(l) -> 0..U32Max] : l \in Layouts}
        /\ account.total_votes \in Nat
    BY <1>1 DEF ElectionState
  <2>2. PICK l \in Layouts : account.vote_counts \in [Slots(l) -> 0..U32Max]
    BY <2>1
  <2>3. account.vote_counts \in [Slots(Layout) -> 0..U32Max]
    BY <1>1, <2>2
  <2>4. 0..U32Max \subseteq Nat
    OBVIOUS
  <2>5. account.vote_counts \in [Slots(Layout) -> Nat]
    BY <2>3, <2>4
  <2> QED BY <1>3, <2>1, <2>5
<1>7. Honest(snap, ballots, clock)
  <2>1. \A s \in Slots(Layout) : snap.vote_counts[s] \in Nat
    BY <1>6
  <2>2. /\ snap.total_votes <= Cardinality(ballots)
        /\ \A s \in Slots(Layout) :
              snap.vote_counts[s] <= Cardinality({b \in ballots : Names(b, s)})
    BY <1>5, <1>6, <2>1 DEF Exact
  <2> QED BY <1>1, <1>3, <1>5, <1>6, <2>2 DEF Honest, Exact
<1> QED BY <1>4, <1>5, <1>7 DEF snap

LEMMA ArchiveMoves ==
    ASSUME [ArchiveNext]_archiveVars
    PROVE  ProgramMove /\ end_time' = end_time
<1>1. 0..MaxIndex \subseteq Nat
  OBVIOUS
<1>2. CASE UNCHANGED programVars
  BY <1>2
  DEF OpenMove, ProgramMove, ArchiveNext, archiveVars, Trigger, TaskStep, Fails, NothingToDo,
      FetchState, GetSlot, SaveArchive, SkipFinalize, SendFinalize, FinalizeLands, SendClose,
      CloseLands, MarkClosed, StillCounted, TimePasses
<1> QED
  BY <1>1, <1>2
  DEF OpenMove, ProgramMove, ArchiveNext, archiveVars, Trigger, TaskStep, Fails, NothingToDo,
      FetchState, GetSlot, SaveArchive, SkipFinalize, SendFinalize, FinalizeLands, SendClose,
      CloseLands, MarkClosed, StillCounted, TimePasses

(* Ballots are added one at a time, none once the account has ended.        *)
LEMMA BallotSteps ==
    ASSUME ArchiveInv, [ArchiveNext]_archiveVars
    PROVE  /\ IsFiniteSet(ballots')
           /\ ballots \subseteq ballots'
           /\ \A b \in ballots' : b.voter_index \in 0..MaxIndex
           /\ clock \in Nat /\ clock' \in Nat /\ clock <= clock'
           /\ clock > ChainWindow[2] => ballots' = ballots
<1>1. /\ IsFiniteSet(ballots) /\ clock \in Nat
      /\ \A b \in ballots : b.voter_index \in 0..MaxIndex
  BY DEF ArchiveInv, Deployed, ProgramInv, ProgramTypeOK
<1>2. ASSUME NEW i \in 0..MaxIndex, NEW p \in Presented, NEW v \in Selections,
             CastVote(i, p.leaf, p.proof, v)
      PROVE  /\ IsFiniteSet(ballots')
             /\ \A b \in ballots' : b.voter_index \in 0..MaxIndex
             /\ ballots \subseteq ballots' /\ clock' = clock
             /\ ~(clock > ChainWindow[2])
  <2> DEFINE b == [voter_index |-> i, voter_hash |-> p.leaf, votes |-> v]
  <2>1. /\ ballots' = ballots \cup {b} /\ clock' = clock
        /\ account # NoAccount /\ clock <= account.end_time
    BY <1>2 DEF CastVote, Accepts, InWindow
  <2>2. IsFiniteSet(ballots \cup {b})
    BY <1>1, FS_AddElement
  <2>3. account.end_time = ChainWindow[2] /\ ChainWindow[2] \in Int
    BY <2>1, ArchiveAssumption, ProgramAssumption DEF ArchiveInv, Deployed
  <2>4. ~(clock > ChainWindow[2])
    BY <1>1, <2>1, <2>3
  <2> QED BY <1>1, <2>1, <2>2, <2>4
<1>3. ASSUME ballots' = ballots, clock' = clock \/ clock' = clock + 1
      PROVE  /\ IsFiniteSet(ballots') /\ ballots \subseteq ballots'
             /\ \A b \in ballots' : b.voter_index \in 0..MaxIndex
             /\ clock' \in Nat /\ clock <= clock'
  BY <1>1, <1>3
<1>4. \/ \E i \in 0..MaxIndex, p \in Presented, v \in Selections :
            CastVote(i, p.leaf, p.proof, v)
      \/ ballots' = ballots /\ (clock' = clock \/ clock' = clock + 1)
  BY DEF ArchiveNext, archiveVars, programVars, Trigger, TaskStep, Fails, NothingToDo,
      FetchState, GetSlot, SaveArchive, SkipFinalize, SendFinalize, FinalizeLands,
      SendClose, CloseLands, MarkClosed, StillCounted, TimePasses, FinalizeElection,
      CloseElection, Tick
<1> QED BY <1>1, <1>2, <1>3, <1>4

(* What is honest stays so, whatever is counted next.                       *)
LEMMA HonestStays ==
    ASSUME NEW snap \in AnySnapshot, NEW bs, NEW cs, NEW m \in Nat, NEW n \in Nat,
           IsFiniteSet(cs), bs \subseteq cs, m <= n, m > ChainWindow[2] => cs = bs,
           Honest(snap, bs, m)
    PROVE  Honest(snap, cs, n)
<1>1. /\ snap.taken \in Nat /\ snap.total_votes \in Nat
      /\ ChainWindow[2] \in Int
  BY ArchiveAssumption, ProgramAssumption DEF AnySnapshot
<1>2. ASSUME NEW X, NEW Y, X \subseteq Y, IsFiniteSet(Y), NEW x \in Nat,
             x <= Cardinality(X)
      PROVE  x <= Cardinality(Y)
  <2>1. IsFiniteSet(X) /\ Cardinality(X) <= Cardinality(Y)
    BY <1>2, FS_Subset
  <2>2. Cardinality(X) \in Nat /\ Cardinality(Y) \in Nat
    BY <1>2, <2>1, FS_CardinalityType
  <2> QED BY <1>2, <2>1, <2>2
<1>3. snap.taken <= n
  BY <1>1 DEF Honest
<1>4. snap.total_votes <= Cardinality(cs)
  BY <1>1, <1>2 DEF Honest
<1>5. snap.voted_bitfield \subseteq {b.voter_index : b \in cs}
  BY DEF Honest
<1>6. ASSUME NEW s \in Slots(Layout)
      PROVE  snap.vote_counts[s] <= Cardinality({b \in cs : Names(b, s)})
  <2>1. /\ snap.vote_counts[s] \in Nat
        /\ snap.vote_counts[s] <= Cardinality({b \in bs : Names(b, s)})
    BY <1>6 DEF Honest
  <2>2. {b \in bs : Names(b, s)} \subseteq {b \in cs : Names(b, s)}
    OBVIOUS
  <2>3. IsFiniteSet({b \in cs : Names(b, s)})
    BY FS_Subset
  <2> QED BY <1>2, <2>1, <2>2, <2>3
<1>7. snap.taken > ChainWindow[2] => Exact(snap, cs)
  <2>1. snap.taken > ChainWindow[2] => m > ChainWindow[2]
    BY <1>1 DEF Honest
  <2> QED BY <2>1 DEF Honest
<1> QED BY <1>3, <1>4, <1>5, <1>6, <1>7 DEF Honest

(* One task moves: it is queued, reads the account, or goes on with what it *)
(* holds.                                                                   *)
LEMMA TaskSteps ==
    ASSUME ArchiveInv, [ArchiveNext]_archiveVars
    PROVE  \/ task' = task
           \/ \E k \in Task, r \in TaskRow :
                 /\ task' = [task EXCEPT ![k] = r]
                 /\ r.pc \in Reading =>
                       \/ account # NoAccount /\ r.snapshot = Snapshot(account)
                       \/ /\ task[k].pc \in Reading
                          /\ r.snapshot = task[k].snapshot
<1>1. /\ task \in [Task -> TaskRow] /\ MaxRetries \in Nat
  BY ArchiveAssumption DEF ArchiveInv, TasksTyped
<1> DEFINE Moves(k, r) ==
              /\ r \in TaskRow
              /\ task' = [task EXCEPT ![k] = r]
              /\ r.pc \in Reading =>
                    \/ account # NoAccount /\ r.snapshot = Snapshot(account)
                    \/ /\ task[k].pc \in Reading
                       /\ r.snapshot = task[k].snapshot
<1>2. ASSUME NEW k \in Task, Retry(k), task[k].pc # "idle"
      PROVE  \E r : Moves(k, r)
  <2>1. task[k].retries \in 0..MaxRetries
    BY <1>1, <1>2 DEF TaskRow, NoTask, QueuedRow, ReadingRow, SavingRow
  <2> DEFINE r == IF task[k].retries < MaxRetries
                  THEN Queued(task[k].retries + 1) ELSE NoTask
  <2>2. r = NoTask \/ r \in QueuedRow
    BY <1>1, <2>1 DEF Queued, QueuedRow
  <2>3. task' = [task EXCEPT ![k] = r]
    BY <1>2 DEF Retry, Becomes
  <2> HIDE DEF r
  <2>4. r \in TaskRow /\ r.pc \notin Reading
    BY <2>2 DEF TaskRow, NoTask, QueuedRow, Reading
  <2>5. Moves(k, r)
    BY <1>1, <1>2, <2>3, <2>4
  <2> QED BY <2>5
<1>3. ASSUME NEW k \in Task, Becomes(k, NoTask)
      PROVE  \E r : Moves(k, r)
  <2>1. NoTask \in TaskRow /\ NoTask.pc \notin Reading
    BY DEF TaskRow, NoTask, Reading
  <2>2. Moves(k, NoTask)
    BY <1>1, <1>3, <2>1 DEF Becomes
  <2> QED BY <2>2
<1>4. ASSUME NEW k \in Task, NEW pc \in Saving, GoesTo(k, pc),
             task[k].pc \in Saving
      PROVE  \E r : Moves(k, r)
  <2>1. task[k] \in SavingRow
    BY <1>1, <1>4 DEF TaskRow, NoTask, QueuedRow, ReadingRow, Reading, Saving
  <2> DEFINE r == [task[k] EXCEPT !.pc = pc]
  <2>2. r \in SavingRow /\ r.pc = pc
    BY <2>1 DEF SavingRow
  <2>3. task' = [task EXCEPT ![k] = r]
    BY <1>4 DEF GoesTo, Becomes
  <2>4. pc \notin Reading
    BY DEF Saving, Reading
  <2> HIDE DEF r
  <2>5. Moves(k, r)
    BY <1>1, <1>4, <2>2, <2>3, <2>4 DEF TaskRow
  <2> QED BY <2>5
<1>5. ASSUME NEW k \in Task, Trigger(k)
      PROVE  \E r : Moves(k, r)
  <2>1. Queued(0) \in QueuedRow /\ Queued(0).pc \notin Reading
    BY <1>1 DEF Queued, QueuedRow, Reading
  <2>2. Moves(k, Queued(0))
    BY <1>5, <2>1 DEF Trigger, Becomes, TaskRow
  <2> QED BY <2>2
<1>6. ASSUME NEW k \in Task, FetchState(k)
      PROVE  \E r : Moves(k, r)
  <2> DEFINE r == [pc |-> "fetched", retries |-> task[k].retries,
                   snapshot |-> Snapshot(account), slot |-> 0,
                   is_finalized |-> account.is_finalized]
  <2>1. /\ account # NoAccount /\ task[k].pc = "queued"
        /\ task' = [task EXCEPT ![k] = r]
    BY <1>6 DEF FetchState, Becomes
  <2>2. /\ Snapshot(account) \in AnySnapshot /\ account \in ElectionState
    BY <2>1, SnapshotIsTally DEF ArchiveInv, ProgramInv, ProgramTypeOK
  <2>3. task[k].retries \in 0..MaxRetries
    BY <1>1, <2>1 DEF TaskRow, NoTask, QueuedRow, ReadingRow, SavingRow
  <2>4. r \in ReadingRow
    BY <2>2, <2>3 DEF ReadingRow, Reading, ElectionState
  <2>5. r.pc = "fetched" /\ r.snapshot = Snapshot(account)
    OBVIOUS
  <2> HIDE DEF r
  <2>6. Moves(k, r)
    BY <1>1, <2>1, <2>4, <2>5 DEF TaskRow
  <2> QED BY <2>6
<1>7. ASSUME NEW k \in Task, GetSlot(k)
      PROVE  \E r : Moves(k, r)
  <2> DEFINE r == [task[k] EXCEPT !.pc = "read", !.slot = clock]
  <2>1. task[k].pc = "fetched" /\ task' = [task EXCEPT ![k] = r]
    BY <1>7 DEF GetSlot, Becomes
  <2>2. task[k] \in ReadingRow /\ clock \in Nat
    BY <1>1, <2>1, BallotSteps DEF TaskRow, NoTask, QueuedRow, SavingRow, Saving
  <2>3. r \in ReadingRow /\ r.snapshot = task[k].snapshot
    BY <2>2 DEF ReadingRow, Reading
  <2> HIDE DEF r
  <2>4. task[k].pc \in Reading
    BY <2>1 DEF Reading
  <2>5. Moves(k, r)
    BY <2>1, <2>3, <2>4 DEF TaskRow
  <2> QED BY <2>5
<1>8. ASSUME NEW k \in Task, SaveArchive(k)
      PROVE  \E r : Moves(k, r)
  <2> DEFINE r == [pc |-> "saved", retries |-> task[k].retries,
                   is_finalized |-> task[k].is_finalized]
  <2>1. task[k].pc = "read" /\ (Retry(k) \/ task' = [task EXCEPT ![k] = r])
    BY <1>8 DEF SaveArchive, Becomes
  <2>2. CASE Retry(k)
    BY <1>2, <2>1, <2>2
  <2>3. CASE task' = [task EXCEPT ![k] = r]
    <3>1. task[k] \in ReadingRow
      BY <1>1, <2>1 DEF TaskRow, NoTask, QueuedRow, SavingRow, Saving
    <3>2. r \in SavingRow /\ r.pc \notin Reading
      BY <3>1 DEF ReadingRow, SavingRow, Saving, Reading
    <3> HIDE DEF r
    <3>3. Moves(k, r)
      BY <2>3, <3>2 DEF TaskRow
    <3> QED BY <3>3
  <2> QED BY <2>1, <2>2, <2>3
<1>9. ASSUME NEW k \in Task, TaskStep(k)
      PROVE  \E r : Moves(k, r)
  <2>1. \/ FetchState(k) \/ GetSlot(k) \/ SaveArchive(k)
        \/ Becomes(k, NoTask)
        \/ Retry(k) /\ task[k].pc # "idle"
        \/ \E pc \in Saving : GoesTo(k, pc) /\ task[k].pc \in Saving
    BY <1>9 DEF TaskStep, NothingToDo, SkipFinalize, SendFinalize,
       FinalizeLands, SendClose, CloseLands, MarkClosed, CloseSeen, Saving
  <2> QED BY <1>2, <1>3, <1>4, <1>6, <1>7, <1>8, <2>1
<1>10. ASSUME NEW k \in Task, Fails(k)
      PROVE  \E r : Moves(k, r)
  <2>1. task[k].pc # "idle"
    BY <1>1, <1>10 DEF Fails, TaskRow, NoTask, QueuedRow, ReadingRow, SavingRow,
       Reading, Saving
  <2> QED BY <1>2, <1>3, <1>10, <2>1 DEF Fails
<1>11. task' = task \/ \E k \in Task : \E r : Moves(k, r)
  BY <1>5, <1>9, <1>10 DEF ArchiveNext, archiveVars, StillCounted, TimePasses
<1> QED BY <1>11

(* What a step does to the row: it is saved from a task's snapshot, or      *)
(* marked by a task that has seen the account closed.                       *)
LEMMA RowSteps ==
    ASSUME ArchiveInv, [ArchiveNext]_archiveVars
    PROVE  \/ archive' = archive
           \/ \E k \in Task :
                 /\ task[k].pc = "read"
                 /\ archive' = Archived(task[k].snapshot, task[k].slot)
           \/ \E k \in Task : /\ task[k].pc = "closed"
                              /\ archive' = [archive EXCEPT !.account_closed = TRUE]
BY DEF ArchiveNext, archiveVars, Trigger, TaskStep, Fails, NothingToDo, FetchState,
       GetSlot, SaveArchive, SkipFinalize, SendFinalize, FinalizeLands, SendClose,
       CloseLands, MarkClosed, CloseSeen, StillCounted, TimePasses

(* Two tallies taken after the end are the same.                            *)
LEMMA ExactAgree ==
    ASSUME NEW snap, NEW other, NEW bs, NEW m, NEW n,
           Honest(snap, bs, m), Honest(other, bs, n),
           snap.taken > ChainWindow[2], other.taken > ChainWindow[2]
    PROVE  /\ snap.total_votes = other.total_votes
           /\ snap.vote_counts = other.vote_counts
           /\ snap.voted_bitfield = other.voted_bitfield
<1>1. Exact(snap, bs) /\ Exact(other, bs)
  BY DEF Honest
<1>2. /\ snap.vote_counts \in [Slots(Layout) -> Nat]
      /\ other.vote_counts \in [Slots(Layout) -> Nat]
  BY DEF Honest
<1>3. \A s \in Slots(Layout) : snap.vote_counts[s] = other.vote_counts[s]
  BY <1>1 DEF Exact
<1>4. snap.vote_counts = other.vote_counts
  BY <1>2, <1>3
<1> QED BY <1>1, <1>4 DEF Exact

(* The row stays a row, keeps or is given an honest tally, and is marked    *)
(* only if the account is gone.                                             *)
LEMMA RowKept ==
    ASSUME ArchiveInv, [ArchiveNext]_archiveVars
    PROVE  /\ archive' \in ArchiveRow \cup {NoArchive}
           /\ archive # NoArchive => archive' # NoArchive
           /\ archive' # NoArchive => Honest(archive'.data, ballots, clock)
           /\ MarkedClosed' => account = NoAccount
           /\ MarkedClosed =>
                 /\ MarkedClosed'
                 /\ TakenAfterEnd(archive) /\ TakenAfterEnd(archive') =>
                       SameTally(archive, archive')
<1>1. /\ task \in [Task -> TaskRow] /\ archive \in ArchiveRow \cup {NoArchive}
      /\ archive # NoArchive => Honest(archive.data, ballots, clock)
      /\ MarkedClosed => account = NoAccount
  BY DEF ArchiveInv, TasksTyped, ArchiveHolds, ClosesOnce, MarkedMeansClosed
<1>2. CASE archive' = archive
  BY <1>1, <1>2 DEF MarkedClosed, SameTally
<1>3. ASSUME NEW k \in Task, task[k].pc = "read",
             archive' = Archived(task[k].snapshot, task[k].slot)
      PROVE  /\ archive' \in ArchiveRow
             /\ Honest(archive'.data, ballots, clock)
             /\ MarkedClosed' => account = NoAccount
             /\ MarkedClosed =>
                   /\ MarkedClosed'
                   /\ TakenAfterEnd(archive) /\ TakenAfterEnd(archive') =>
                         SameTally(archive, archive')
  <2>1. task[k].snapshot \in AnySnapshot /\ task[k].slot \in Nat
    BY <1>1, <1>3 DEF TaskRow, NoTask, QueuedRow, ReadingRow, SavingRow, Saving
  <2>2. MarkedClosed \in BOOLEAN
    BY <1>1 DEF MarkedClosed, ArchiveRow
  <2>3. /\ archive' \in ArchiveRow /\ archive'.data = task[k].snapshot
        /\ archive'.account_closed = MarkedClosed
    BY <1>3, <2>1, <2>2 DEF Archived, ArchiveRow
  <2>4. Honest(task[k].snapshot, ballots, clock)
    BY <1>3 DEF ArchiveInv, SnapshotsHold, Reading
  <2>5. MarkedClosed' = MarkedClosed
    BY <2>3, NoArchiveAssumption DEF MarkedClosed
  <2>6. MarkedClosed /\ TakenAfterEnd(archive) /\ TakenAfterEnd(archive') =>
           SameTally(archive, archive')
    <3> SUFFICES ASSUME MarkedClosed, TakenAfterEnd(archive), TakenAfterEnd(archive')
                 PROVE  SameTally(archive, archive')
      OBVIOUS
    <3>1. Honest(archive.data, ballots, clock)
      BY <1>1 DEF MarkedClosed
    <3>2. /\ archive.data.taken > ChainWindow[2]
          /\ task[k].snapshot.taken > ChainWindow[2]
      BY <2>3 DEF TakenAfterEnd
    <3> QED BY <2>3, <2>4, <3>1, <3>2, ExactAgree DEF SameTally
  <2> QED BY <1>1, <2>3, <2>4, <2>5, <2>6
<1>4. ASSUME NEW k \in Task, task[k].pc = "closed",
             archive' = [archive EXCEPT !.account_closed = TRUE]
      PROVE  /\ archive' \in ArchiveRow
             /\ Honest(archive'.data, ballots, clock)
             /\ account = NoAccount /\ MarkedClosed'
             /\ SameTally(archive, archive')
  <2>1. archive # NoArchive /\ account = NoAccount
    BY <1>4 DEF ArchiveInv, ArchiveHolds, ClosesOnce, Saving
  <2>2. /\ archive' \in ArchiveRow /\ archive'.data = archive.data
        /\ archive'.account_closed
    BY <1>1, <1>4, <2>1 DEF ArchiveRow
  <2>3. MarkedClosed' /\ SameTally(archive, archive')
    BY <2>2, NoArchiveAssumption DEF MarkedClosed, SameTally
  <2> QED BY <1>1, <2>1, <2>2, <2>3
<1> QED BY <1>2, <1>3, <1>4, RowSteps, NoArchiveAssumption

-------------------------------------------------------------------------------
LEMMA InitHasArchiveInv == ArchiveInit => ArchiveInv
<1> SUFFICES ASSUME ArchiveInit
             PROVE  ArchiveInv
  OBVIOUS
<1>1. ProgramInv
  <2>1. Roll \in Rolls /\ Layout \in Layouts /\ ChainWindow \in Windows
    BY ArchiveAssumption
  <2> QED BY <2>1, DeployedInv DEF ArchiveInit
<1>2. TasksTyped
  BY ArchiveAssumption DEF ArchiveInit, TasksTyped, TaskRow
<1>3. Deployed
  <2>1. /\ account = FreshAccount(Roll, Layout, ChainWindow[1], ChainWindow[2])
        /\ ballots = {}
    BY DEF ArchiveInit
  <2>2. account.end_time = ChainWindow[2] /\ account.candidates_per_post = Layout
    BY <2>1 DEF FreshAccount
  <2> QED BY <2>1, <2>2, FS_EmptySet DEF Deployed
<1>4. /\ archive = NoArchive /\ \A k \in Task : task[k].pc = "idle"
      /\ account # NoAccount
  <2>1. account \in ElectionState
    <3>1. /\ Roll \in Rolls /\ Layout \in Layouts /\ ChainWindow \in Windows
      BY ArchiveAssumption
    <3> QED BY <3>1, FreshShaped DEF ArchiveInit, Shaped
  <2> QED BY <2>1, NoAccountAssumption DEF ArchiveInit, NoTask
<1>5. SnapshotsHold /\ ArchiveHolds /\ ClosesOnce
  BY <1>4 DEF SnapshotsHold, ArchiveHolds, ClosesOnce, Reading, Saving,
              MarkedMeansClosed, MarkedClosed
<1> QED BY <1>1, <1>2, <1>3, <1>5 DEF ArchiveInv

LEMMA DeployedKept ==
    ASSUME ArchiveInv, [ArchiveNext]_archiveVars
    PROVE  Deployed'
<1>1. ProgramMove /\ ProgramTypeOK
  BY ArchiveMoves DEF ArchiveInv, ProgramInv
<1>2. ASSUME account' # NoAccount, account # NoAccount
      PROVE  /\ account'.end_time = account.end_time
             /\ account'.candidates_per_post = account.candidates_per_post
  <2>1. OpenMove
    BY <1>1, <1>2 DEF ProgramMove, CloseElection
  <2> QED BY <1>1, <1>2, <2>1, MoveKeepsLayout
<1>3. account' # NoAccount => account # NoAccount
  BY <1>1 DEF OpenMove, ProgramMove, CastVote, Accepts, FinalizeElection, CloseElection, Tick,
              programVars
<1> QED BY <1>2, <1>3, BallotSteps DEF ArchiveInv, Deployed

LEMMA TasksTypedKept ==
    ASSUME ArchiveInv, [ArchiveNext]_archiveVars
    PROVE  TasksTyped'
<1>1. task' \in [Task -> TaskRow]
  BY TaskSteps DEF ArchiveInv, TasksTyped
<1>2. \/ incidents' = incidents
      \/ incidents < MaxIncidents /\ incidents' = incidents + 1
  BY DEF ArchiveNext, archiveVars, Trigger, TaskStep, Fails,
      NothingToDo, FetchState, GetSlot, SaveArchive, SkipFinalize, SendFinalize, FinalizeLands,
      SendClose, CloseLands, MarkClosed, StillCounted, TimePasses
<1>3. incidents' \in 0..MaxIncidents
  BY <1>2, ArchiveAssumption DEF ArchiveInv, TasksTyped
<1> QED BY <1>1, <1>3, RowKept, ArchiveMoves DEF ArchiveInv, TasksTyped

(* What a task holds stays honest.                                          *)
LEMMA SnapshotsKept ==
    ASSUME ArchiveInv, [ArchiveNext]_archiveVars
    PROVE  SnapshotsHold'
<1>1. /\ task \in [Task -> TaskRow]
      /\ \A j \in Task : task[j].pc \in Reading =>
            /\ Honest(task[j].snapshot, ballots, clock)
            /\ task[j].snapshot \in AnySnapshot
  BY DEF ArchiveInv, TasksTyped, SnapshotsHold, TaskRow, NoTask, QueuedRow,
         ReadingRow, SavingRow, Reading, Saving
<1>2. ASSUME NEW snap \in AnySnapshot, Honest(snap, ballots, clock)
      PROVE  Honest(snap, ballots', clock')
  BY <1>2, BallotSteps, HonestStays
<1>3. ASSUME NEW k \in Task, task'[k].pc \in Reading
      PROVE  Honest(task'[k].snapshot, ballots', clock')
  <2>1. \/ \E j \in Task : /\ task[j].pc \in Reading
                           /\ task'[k].snapshot = task[j].snapshot
        \/ /\ account # NoAccount
           /\ task'[k].snapshot = Snapshot(account)
    BY <1>1, <1>3, TaskSteps
  <2>2. /\ task'[k].snapshot \in AnySnapshot
        /\ Honest(task'[k].snapshot, ballots, clock)
    BY <1>1, <2>1, SnapshotIsTally DEF ArchiveInv
  <2> QED BY <1>2, <2>2
<1> QED BY <1>3 DEF SnapshotsHold

-------------------------------------------------------------------------------
(* A task passes its archive step with a row, sends a close only if it is   *)
(* possible, and is past the close only when the account is gone.           *)
LEMMA ClosingSteps ==
    ASSUME ArchiveInv, [ArchiveNext]_archiveVars, NEW k \in Task
    PROVE  /\ task'[k].pc \in Saving => task[k].pc \in Saving \/ archive' # NoArchive
           /\ task'[k].pc = "closing" =>
                 task[k].pc = "closing" \/ (CanClose /\ UNCHANGED programVars)
           /\ task'[k].pc = "closed" =>
                 task[k].pc = "closed" \/ account' = NoAccount
<1>1. /\ task \in [Task -> TaskRow] /\ archive \in ArchiveRow \cup {NoArchive}
      /\ \A j \in Task : task[j].pc = "closing" => account = NoAccount \/ CanClose
  BY DEF ArchiveInv, TasksTyped, ClosesOnce
<1> DEFINE Claim ==
              /\ task'[k].pc \in Saving => task[k].pc \in Saving \/ archive' # NoArchive
              /\ task'[k].pc = "closing" =>
                    task[k].pc = "closing" \/ (CanClose /\ UNCHANGED programVars)
              /\ task'[k].pc = "closed" =>
                    task[k].pc = "closed" \/ account' = NoAccount
<1>2. ASSUME task'[k] = task[k]
      PROVE  Claim
  BY <1>2
<1>3. ASSUME task'[k].pc \in {"idle", "queued", "fetched", "read"}
      PROVE  Claim
  BY <1>3 DEF Saving
<1>4. ASSUME NEW j \in Task, NEW r, task' = [task EXCEPT ![j] = r]
      PROVE  task'[k] = IF k = j THEN r ELSE task[k]
  BY <1>1, <1>4
<1>5. ASSUME NEW j \in Task, Retry(j) \/ Becomes(j, NoTask)
      PROVE  task'[k] = task[k] \/ task'[k].pc \in {"idle", "queued"}
  BY <1>4, <1>5 DEF Retry, Becomes, Queued, NoTask
<1>6. ASSUME NEW j \in Task, NEW pc \in Saving, GoesTo(j, pc),
             task[j].pc \in Saving
      PROVE  task'[k] = task[k] \/ (k = j /\ task'[k].pc = pc)
  <2>1. task[j] \in SavingRow
    BY <1>1, <1>6 DEF TaskRow, NoTask, QueuedRow, ReadingRow, Reading, Saving
  <2>2. [task[j] EXCEPT !.pc = pc].pc = pc
    BY <2>1 DEF SavingRow
  <2> QED BY <1>4, <1>6, <2>2 DEF GoesTo, Becomes
<1>7. ASSUME NEW j \in Task, Trigger(j) \/ FetchState(j) \/ GetSlot(j) \/ Fails(j)
                             \/ NothingToDo(j) \/ MarkClosed(j)
      PROVE  Claim
  <2>1. \/ \E r : task' = [task EXCEPT ![j] = r] /\ r.pc \in {"queued", "fetched"}
        \/ GetSlot(j) \/ Retry(j) \/ Becomes(j, NoTask)
    BY <1>7 DEF Trigger, FetchState, Fails, NothingToDo, MarkClosed, Becomes, Queued
  <2>2. ASSUME GetSlot(j)
        PROVE  task'[k] = task[k] \/ task'[k].pc = "read"
    <3>1. task[j] \in ReadingRow
      BY <1>1, <2>2 DEF GetSlot, TaskRow, NoTask, QueuedRow, SavingRow, Saving
    <3>2. [task[j] EXCEPT !.pc = "read", !.slot = clock].pc = "read"
      BY <3>1 DEF ReadingRow
    <3> QED BY <1>4, <2>2, <3>2 DEF GetSlot, Becomes
  <2> QED BY <1>2, <1>3, <1>4, <1>5, <2>1, <2>2
<1>8. ASSUME NEW j \in Task, SaveArchive(j)
      PROVE  Claim
  <2> DEFINE r == [pc |-> "saved", retries |-> task[j].retries,
                   is_finalized |-> task[j].is_finalized]
  <2>1. \/ Retry(j)
        \/ /\ task' = [task EXCEPT ![j] = r] /\ task[j].pc = "read"
           /\ archive' = Archived(task[j].snapshot, task[j].slot)
    BY <1>8 DEF SaveArchive, Becomes
  <2>2. task[j].pc = "read" => task[j].snapshot \in AnySnapshot /\ task[j].slot \in Nat
    BY <1>1 DEF TaskRow, NoTask, QueuedRow, ReadingRow, SavingRow, Saving
  <2>3. task[j].pc = "read" => Archived(task[j].snapshot, task[j].slot) # NoArchive
    <3>1. MarkedClosed \in BOOLEAN
      BY <1>1 DEF MarkedClosed, ArchiveRow
    <3>2. task[j].pc = "read" =>
             Archived(task[j].snapshot, task[j].slot) \in ArchiveRow
      BY <2>2, <3>1 DEF Archived, ArchiveRow
    <3> QED BY <3>2, NoArchiveAssumption
  <2>4. r.pc = "saved"
    OBVIOUS
  <2> HIDE DEF r
  <2>5. CASE Retry(j)
    BY <1>2, <1>3, <1>5, <2>5
  <2>6. CASE /\ task' = [task EXCEPT ![j] = r] /\ task[j].pc = "read"
             /\ archive' = Archived(task[j].snapshot, task[j].slot)
    <3>1. task'[k] = task[k] \/ task'[k].pc = "saved"
      BY <1>4, <2>4, <2>6
    <3> QED BY <1>2, <2>3, <2>6, <3>1
  <2> QED BY <2>1, <2>5, <2>6
<1>9. ASSUME NEW j \in Task, SkipFinalize(j) \/ SendFinalize(j) \/ FinalizeLands(j)
      PROVE  Claim
  <2>1. \/ Retry(j)
        \/ \E pc \in {"finalizing", "finalized"} :
              GoesTo(j, pc) /\ task[j].pc \in {"saved", "finalizing"}
    BY <1>9 DEF SkipFinalize, SendFinalize, FinalizeLands
  <2>2. CASE Retry(j)
    BY <1>2, <1>3, <1>5, <2>2
  <2>3. ASSUME NEW pc \in {"finalizing", "finalized"}, GoesTo(j, pc),
               task[j].pc \in {"saved", "finalizing"}
        PROVE  Claim
    <3>1. pc \in Saving /\ task[j].pc \in Saving
      BY <2>3 DEF Saving
    <3>2. task'[k] = task[k] \/ (k = j /\ task'[k].pc = pc)
      BY <1>6, <2>3, <3>1
    <3> QED BY <1>2, <2>3, <3>1, <3>2
  <2> QED BY <2>1, <2>2, <2>3
<1>10. ASSUME NEW j \in Task, SendClose(j)
       PROVE  Claim
  <2>1. CASE Retry(j)
    BY <1>2, <1>3, <1>5, <2>1
  <2>2. CASE GoesTo(j, "closing") /\ CanClose
    <3>1. /\ "closing" \in Saving /\ task[j].pc \in Saving
          /\ UNCHANGED programVars
      BY <1>10 DEF SendClose, Saving
    <3>2. task'[k] = task[k] \/ (k = j /\ task'[k].pc = "closing")
      BY <1>6, <2>2, <3>1
    <3> QED BY <1>2, <2>2, <3>1, <3>2
  <2> QED BY <1>10, <2>1, <2>2 DEF SendClose
<1>11. ASSUME NEW j \in Task, CloseLands(j)
       PROVE  Claim
  <2>1. /\ "closed" \in Saving /\ task[j].pc \in Saving
        /\ GoesTo(j, "closed") /\ task[j].pc = "closing"
    BY <1>11 DEF CloseLands, Saving
  <2>2. account' = NoAccount
    BY <1>1, <1>11, <2>1 DEF CloseLands, CloseElection, CanClose, programVars
  <2>3. task'[k] = task[k] \/ (k = j /\ task'[k].pc = "closed")
    BY <1>6, <2>1
  <2> QED BY <1>2, <2>1, <2>2, <2>3
<1> QED BY <1>2, <1>7, <1>8, <1>9, <1>10, <1>11
        DEF ArchiveNext, archiveVars, TaskStep, StillCounted, TimePasses

(* Only a task's close makes the account disappear.                         *)
LEMMA ClosedByTask ==
    ASSUME ArchiveInv, [ArchiveNext]_archiveVars
    PROVE  OpenMove \/ \E k \in Task : task[k].pc = "closing" /\ CloseElection
<1>1. 0..MaxIndex \subseteq Nat
  OBVIOUS
<1>2. ASSUME ~UNCHANGED programVars
      PROVE  OpenMove \/ \E k \in Task : task[k].pc = "closing" /\ CloseElection
  BY <1>1, <1>2
  DEF OpenMove, ArchiveNext, archiveVars, Trigger, TaskStep, Fails, NothingToDo,
      FetchState, GetSlot, SaveArchive, SkipFinalize, SendFinalize, FinalizeLands, SendClose,
      CloseLands, MarkClosed, StillCounted, TimePasses
<1> QED BY <1>2 DEF OpenMove

LEMMA ClosesKept ==
    ASSUME ArchiveInv, [ArchiveNext]_archiveVars
    PROVE  ArchiveHolds' /\ ClosesOnce'
<1>1. /\ ProgramTypeOK /\ ArchiveHolds /\ ClosesOnce
  BY DEF ArchiveInv, ProgramInv
<1>2. account = NoAccount => account' = NoAccount
  BY ArchiveMoves
  DEF OpenMove, ProgramMove, CastVote, Accepts, FinalizeElection, CloseElection, Tick,
      programVars
<1>3. CanClose => account' = NoAccount \/ CanClose'
  <2>1. CASE OpenMove
    BY <1>1, <2>1, FinalizedKept DEF CanClose
  <2>2. CASE CloseElection
    BY <2>2 DEF CloseElection
  <2> QED BY <2>1, <2>2, ArchiveMoves DEF ProgramMove
<1>4. account' = NoAccount => archive' # NoArchive
  <2>1. CASE account = NoAccount
    BY <1>1, <2>1, RowKept DEF ClosesOnce
  <2>2. CASE account # NoAccount /\ OpenMove
    BY <1>1, <2>2, MoveKeepsLayout
  <2>3. ASSUME NEW k \in Task, task[k].pc = "closing"
        PROVE  archive' # NoArchive
    BY <1>1, <2>3, RowKept DEF ArchiveHolds, Saving
  <2> QED BY <2>1, <2>2, <2>3, ClosedByTask
<1>5. ArchiveHolds'
  <2>1. archive' # NoArchive => Honest(archive'.data, ballots', clock')
    <3> SUFFICES ASSUME archive' # NoArchive
                 PROVE  Honest(archive'.data, ballots', clock')
      OBVIOUS
    <3>1. archive'.data \in AnySnapshot
      BY RowKept DEF ArchiveRow
    <3>2. Honest(archive'.data, ballots, clock)
      BY RowKept
    <3> QED BY <3>1, <3>2, BallotSteps, HonestStays
  <2>2. \A k \in Task : task'[k].pc \in Saving => archive' # NoArchive
    BY <1>1, ClosingSteps, RowKept DEF ArchiveHolds
  <2> QED BY <1>1, <2>1, <2>2 DEF ArchiveHolds
<1>6. \A k \in Task : task'[k].pc = "closing" => account' = NoAccount \/ CanClose'
  BY <1>1, <1>2, <1>3, ClosingSteps DEF ClosesOnce
<1>7. \A k \in Task : task'[k].pc = "closed" => account' = NoAccount
  BY <1>1, <1>2, ClosingSteps DEF ClosesOnce
<1>8. MarkedMeansClosed'
  BY <1>2, RowKept DEF MarkedMeansClosed
<1> QED BY <1>4, <1>5, <1>6, <1>7, <1>8 DEF ClosesOnce

LEMMA ArchiveInvKept ==
    ArchiveInv /\ [ArchiveNext]_archiveVars => ArchiveInv'
<1> SUFFICES ASSUME ArchiveInv, [ArchiveNext]_archiveVars
             PROVE  ArchiveInv'
  OBVIOUS
<1>1. ProgramInv'
  BY ArchiveMoves, MoveKeepsInv DEF ArchiveInv
<1> QED BY <1>1, TasksTypedKept, DeployedKept, SnapshotsKept,
           ClosesKept DEF ArchiveInv

(* The inductive invariant.                                                 *)
THEOREM ArchiveInvariant == ArchiveSpec => []ArchiveInv
BY InitHasArchiveInv, ArchiveInvKept, PTL DEF ArchiveSpec

(* Tasks, row and account keep their shapes; a snapshot never has more      *)
(* votes than were counted, and a task past its archive step finds the row. *)
THEOREM ArchiveTypeCorrect == ArchiveSpec => []ArchiveTypeOK
<1>1. ArchiveInv => ArchiveTypeOK
  <2> SUFFICES ASSUME ArchiveInv
               PROVE  ArchiveTypeOK
    OBVIOUS
  <2>1. ASSUME NEW k \in Task
        PROVE  task[k].pc \in TaskPc
    BY DEF ArchiveInv, TasksTyped, TaskRow, NoTask, QueuedRow, ReadingRow, SavingRow,
           TaskPc, Reading, Saving
  <2>2. \A k \in Task : task[k].pc \in {"fetched", "read"} =>
           task[k].snapshot.total_votes <= Cardinality(ballots)
    BY DEF ArchiveInv, SnapshotsHold, Honest, Reading
  <2> QED BY <2>1, <2>2 DEF ArchiveInv, ProgramInv, TasksTyped, ArchiveHolds,
                      ArchiveTypeOK, Saving
<1> QED BY <1>1, ArchiveInvariant, PTL

(* No reader is told of a vote that was not counted, by the account or by   *)
(* an archive; the account, and an archive taken after its end, tell the    *)
(* final tally, whichever of the concurrent tasks wrote the row last.       *)
THEOREM ArchiveCorrect == ArchiveSpec => []ArchiveIsFinalTally
<1>1. ArchiveInv => ArchiveIsFinalTally
  <2> SUFFICES ASSUME ArchiveInv, NEW state \in {account, NoAccount},
                      Answerable(state)
               PROVE  /\ ToldVoters(state) \subseteq Voters
                      /\ \A s \in Slots(Layout) :
                            OnChainVoteCounts(state)[s] <= VotesFor(s)
                      /\ state # NoAccount => ToldVoters(state) = Voters
                      /\ archive # NoArchive /\ TakenAfterEnd(archive) =>
                            /\ ToldVoters(state) = Voters
                            /\ \A s \in Slots(Layout) :
                                  OnChainVoteCounts(state)[s] = VotesFor(s)
    BY DEF ArchiveInv, ClosesOnce, ArchiveIsFinalTally
  <2>1. archive # NoArchive => Honest(archive.data, ballots, clock)
    BY DEF ArchiveInv, ArchiveHolds
  <2>2. state # NoAccount => /\ Exact(Snapshot(state), ballots)
                             /\ Honest(Snapshot(state), ballots, clock)
    BY SnapshotIsTally DEF ArchiveInv
  <2>3. Voters \subseteq 0..MaxIndex
    BY DEF Voters, ArchiveInv, Deployed
  <2>4. CASE state # NoAccount
    <3>1. /\ state.voted_bitfield = Voters
          /\ \A s \in Slots(Layout) : /\ state.vote_counts[s] = VotesFor(s)
                                     /\ state.vote_counts[s] <= VotesFor(s)
      BY <2>2, <2>4 DEF Exact, Honest, Snapshot, Voters, VotesFor
    <3>2. ToldVoters(state) = Voters
      BY <2>3, <2>4, <3>1 DEF ToldVoters, VerifyVote
    <3>3. CASE archive = NoArchive
      BY <3>1, <3>2, <3>3 DEF OnChainVoteCounts
    <3>4. CASE archive # NoArchive
      <4>1. /\ \A s \in Slots(Layout) : archive.data.vote_counts[s] <= VotesFor(s)
            /\ TakenAfterEnd(archive) =>
                  \A s \in Slots(Layout) : archive.data.vote_counts[s] = VotesFor(s)
        BY <2>1, <3>4 DEF Honest, Exact, TakenAfterEnd, VotesFor
      <4> QED BY <3>2, <3>4, <4>1 DEF OnChainVoteCounts
    <3> QED BY <3>3, <3>4
  <2>5. CASE state = NoAccount
    <3>1. archive # NoArchive
      BY <2>5 DEF Answerable
    <3>2. /\ archive.data.voted_bitfield \subseteq Voters
          /\ \A s \in Slots(Layout) : archive.data.vote_counts[s] <= VotesFor(s)
          /\ TakenAfterEnd(archive) =>
                /\ archive.data.voted_bitfield = Voters
                /\ \A s \in Slots(Layout) :
                      archive.data.vote_counts[s] = VotesFor(s)
      BY <2>1, <3>1 DEF Honest, Exact, TakenAfterEnd, Voters, VotesFor
    <3>3. /\ ToldVoters(state) \subseteq Voters
          /\ TakenAfterEnd(archive) => ToldVoters(state) = Voters
      BY <2>3, <2>5, <3>2 DEF ToldVoters, VerifyVote
    <3>4. OnChainVoteCounts(state) = archive.data.vote_counts
      BY <3>1 DEF OnChainVoteCounts
    <3> QED BY <2>5, <3>2, <3>3, <3>4
  <2> QED BY <2>4, <2>5
<1> QED BY <1>1, ArchiveInvariant, PTL

(* account_closed_at is set only when the account is gone.                  *)
THEOREM MarkedIsClosed == ArchiveSpec => []MarkedMeansClosed
<1>1. ArchiveInv => MarkedMeansClosed
  BY DEF ArchiveInv, ClosesOnce
<1> QED BY <1>1, ArchiveInvariant, PTL

(* A closed archive stays marked, and a slower task that saves over it      *)
(* changes the tally only if one of the two was read too early.             *)
THEOREM ClosedStays == ArchiveSpec => ClosedArchiveStays
<1>1. ArchiveInv /\ [ArchiveNext]_archiveVars
         => (MarkedClosed =>
                /\ MarkedClosed'
                /\ TakenAfterEnd(archive) /\ TakenAfterEnd(archive') =>
                      SameTally(archive, archive'))
  BY RowKept
<1> QED BY <1>1, ArchiveInvariant, PTL DEF ArchiveSpec, ClosedArchiveStays

===============================================================================
