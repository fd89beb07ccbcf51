---------------------------- MODULE ElectionResults ----------------------------
(***************************************************************************)
(* The result of an election, which the application computes in seven       *)
(* places: CSV rows, the model's get_winner, chart data, two tables of the  *)
(* PDF reports, the public API and the voters' page.  Each is an operator   *)
(* here; beside them the comparison of the database's counts with those on  *)
(* chain, which takes several reads while ballots come in.                  *)
(*                                                                         *)
(* An Elector is a VoterCredential (and its voter_hash), a Nominee a        *)
(* Candidate row.  Of all that precedes a count only the Vote rows, the     *)
(* has_voted flags, the API's open transactions, the submissions enqueued   *)
(* and the votes the program has counted are kept.                          *)
(***************************************************************************)
EXTENDS Integers, Sequences, FiniteSets

CONSTANTS
    Elector, Nominee, Nobody,
    PostOf,            \* the post of each nominee
    PostOrder,         \* posts by order and created_at
    Created, Named,    \* places of the nominees by created_at and by name
    Listed,            \* their places by order and name
    Electorates,       \* the credentials an election may have
    ByApi,             \* the electors who vote through the REST API
    NotArchived,       \* no BlockchainArchive row
    LastHour,          \* bound: hours of voting
    MaxBallots,        \* bound: ballots one elector has enqueued
    MaxAudits          \* bound: comparisons

ASSUME ResultsAssumption ==
    /\ IsFiniteSet(Elector) /\ IsFiniteSet(Nominee)
    /\ DOMAIN PostOrder = 1..Len(PostOrder) /\ Len(PostOrder) \in Nat
    /\ \A i, j \in 1..Len(PostOrder) : PostOrder[i] = PostOrder[j] => i = j
    /\ \A c \in Nominee : \E i \in 1..Len(PostOrder) : PostOf[c] = PostOrder[i]
    /\ {Created, Named, Listed} \subseteq [Nominee -> Nat]
    /\ \A place \in {Created, Named, Listed} : \A c, d \in Nominee :
          place[c] = place[d] => c = d
    /\ Electorates \subseteq SUBSET Elector
    /\ {LastHour, MaxBallots, MaxAudits} \subseteq Nat
    /\ Nobody \notin Nominee

VARIABLES
    allow_abstain, electorate, revoked,
    has_voted,  \* credentials with the flag
    votes,      \* Vote rows
    open,       \* API requests whose transaction is open, with their rows
    enqueued,   \* ballots given to submit_votes_to_chain
    now,
    counted,    \* votes the program has counted: an elector and a slot
    early,      \* those of them that had no row, which only the property sees
    archive,    \* BlockchainArchive.vote_counts, or NotArchived
    audit,      \* compare_db_and_chain
    audits

setupVars == <<allow_abstain, electorate, revoked>>
rowVars == <<has_voted, votes, open>>
chainVars == <<counted, early, archive>>
auditVars == <<audit, audits>>
resultsVars == <<setupVars, rowVars, enqueued, now, chainVars, auditVars>>

Post == {PostOrder[i] : i \in 1..Len(PostOrder)}
CandidatesOf(p) == {c \in Nominee : PostOf[c] = p}

(* Where the program counts the votes of a candidate: the places of its post *)
(* and, within the post, of the candidate.                                  *)
SlotOf ==
    [c \in Nominee |->
       <<CHOOSE i \in 1..Len(PostOrder) : PostOrder[i] = PostOf[c],
         Cardinality({d \in CandidatesOf(PostOf[c]) : Listed[d] < Listed[c]})>>]

AllSlots == {SlotOf[c] : c \in Nominee}

(* Credentials are revoked before the launch, if at all.  The hour and the  *)
(* number of comparisons begin anywhere within their bounds.                *)
ResultsInit ==
    /\ allow_abstain \in BOOLEAN
    /\ electorate \in Electorates
    /\ revoked \in SUBSET electorate
    /\ has_voted = {} /\ votes = {} /\ open = {} /\ enqueued = {}
    /\ now \in 0..LastHour
    /\ counted = {} /\ early = {} /\ archive = NotArchived
    /\ audit = [pc |-> 0, chain |-> <<>>, match |-> FALSE, due |-> {}]
    /\ audits \in 0..MaxAudits

-------------------------------------------------------------------------------
(* Ballots *)

(* A ballot names at most one candidate of a post.  An abstention leaves no *)
(* row, nor does a post that the request leaves out; a request with no      *)
(* votes at all is refused before it comes here.                            *)
Acceptable(ballot) ==
    /\ \A c, d \in ballot : PostOf[c] = PostOf[d] => c = d
    /\ ballot # {} \/ allow_abstain

(* The checks under the credential's row lock, which an open transaction    *)
(* holds.  There is an archive only after the end of the voting.            *)
MayVote(e) ==
    /\ e \in electorate \ (has_voted \cup revoked)
    /\ \A request \in open : request.elector # e
    /\ archive = NotArchived

(* Every row takes its own timestamp: those in late are made after the hour. *)
Rows(e, ballot, late) ==
    {[elector |-> e, nominee |-> c,
      hour |-> IF c \in late THEN now + 1 ELSE now] : c \in ballot}

TimeFor(late) ==
    /\ late = {} \/ now < LastHour
    /\ now' = IF late = {} THEN now ELSE now + 1

Enqueues(e, ballot) ==
    enqueued' = enqueued \cup {[elector |-> e, ballot |-> ballot]}

(* The web view: the ballot is committed, then enqueued.                    *)
CastBallot(e) ==
    /\ e \notin ByApi
    /\ MayVote(e)
    /\ \E ballot \in SUBSET Nominee : \E late \in SUBSET ballot :
          /\ Acceptable(ballot)
          /\ TimeFor(late)
          /\ votes' = votes \cup Rows(e, ballot, late)
          /\ Enqueues(e, ballot)
    /\ has_voted' = has_voted \cup {e}
    /\ UNCHANGED <<setupVars, open, chainVars, auditVars>>

(* The API view: cast_votes enqueues the ballot inside the view's own       *)
(* transaction, which is then still to be committed.                        *)
ApiCast(e) ==
    /\ e \in ByApi
    /\ MayVote(e)
    /\ Cardinality({q \in enqueued : q.elector = e}) < MaxBallots
    /\ \E ballot \in SUBSET Nominee : \E late \in SUBSET ballot :
          /\ Acceptable(ballot)
          /\ TimeFor(late)
          /\ open' = open \cup {[elector |-> e, rows |-> Rows(e, ballot, late)]}
          /\ Enqueues(e, ballot)
    /\ UNCHANGED <<setupVars, has_voted, votes, chainVars, auditVars>>

ApiCommit(request) ==
    /\ votes' = votes \cup request.rows
    /\ has_voted' = has_voted \cup {request.elector}
    /\ open' = open \ {request}
    /\ UNCHANGED <<setupVars, enqueued, now, chainVars, auditVars>>

(* The request ends without its COMMIT: the rows are gone and the elector   *)
(* may vote again, but what was enqueued stays so.                          *)
ApiRollback(request) ==
    /\ open' = open \ {request}
    /\ UNCHANGED <<setupVars, has_voted, votes, enqueued, now, chainVars, auditVars>>

HourTurns ==
    /\ electorate # {} /\ now < LastHour
    /\ now' = now + 1
    /\ UNCHANGED <<setupVars, rowVars, enqueued, chainVars, auditVars>>

-------------------------------------------------------------------------------
(* What is on chain *)

VotesOn(ballot, e) == {[elector |-> e, slot |-> SlotOf[c]] : c \in ballot}

HasRow(vote) ==
    \E r \in votes : r.elector = vote.elector /\ SlotOf[r.nominee] = vote.slot

(* submit_votes_to_chain sends a ballot with all its votes or, where there   *)
(* are none, not at all; the program counts one ballot of an elector.       *)
CountOnChain(q) ==
    /\ q.ballot # {}
    /\ \A vote \in counted : vote.elector # q.elector
    /\ counted' = counted \cup VotesOn(q.ballot, q.elector)
    /\ early' = early \cup {vote \in VotesOn(q.ballot, q.elector) : ~HasRow(vote)}
    /\ UNCHANGED <<setupVars, rowVars, enqueued, now, archive, auditVars>>

ChainCounts ==
    [slot \in AllSlots |-> Cardinality({vote \in counted : vote.slot = slot})]

(* archive_and_close_election, after the end by the application's clock: a   *)
(* later task writes the row again.                                         *)
ArchiveCounts ==
    /\ electorate # {} /\ now = LastHour
    /\ archive' = ChainCounts
    /\ UNCHANGED <<setupVars, rowVars, enqueued, now, counted, early, auditVars>>

-------------------------------------------------------------------------------
(* Counts every report starts from *)

VoteCount(c) == Cardinality({r \in votes : r.nominee = c})

VotesOf(p) == {r \in votes : PostOf[r.nominee] = p}

(* .values('voter_hash').distinct() *)
VoterHashes(rows) == {r.elector : r \in rows}

MaxVotes(p) ==
    CHOOSE n \in 0..Cardinality(votes) :
       /\ n = 0 \/ \E c \in CandidatesOf(p) : VoteCount(c) = n
       /\ \A c \in CandidatesOf(p) : VoteCount(c) <= n

(* The row NOTA: who voted, less who chose a candidate of the post. *)
Nota(p) ==
    LET missing == Cardinality(has_voted) - Cardinality(VoterHashes(VotesOf(p)))
    IN  IF allow_abstain /\ missing > 0 THEN missing ELSE 0

Ahead(count, place, c, d) ==
    \/ count[c] > count[d]
    \/ count[c] = count[d] /\ place[c] < place[d]

Ranking(p, place) ==
    LET count == [c \in CandidatesOf(p) |-> VoteCount(c)]
    IN  CHOOSE ranking \in [1..Cardinality(CandidatesOf(p)) -> CandidatesOf(p)] :
           \A i, j \in DOMAIN ranking :
              i < j => Ahead(count, place, ranking[i], ranking[j])

-------------------------------------------------------------------------------
(* The reports *)

(* _get_results_data, of the CSV and Excel exports: the Winner column. *)
ResultsData(p) ==
    LET most == MaxVotes(p)
        Top == {c \in CandidatesOf(p) : VoteCount(c) = most}
    IN  [c \in CandidatesOf(p) |->
           IF most = 0 \/ c \notin Top THEN ""
           ELSE IF Cardinality(Top) > 1 THEN "Tied" ELSE "Yes"]

(* Post.get_winner: of a tie, the earliest. *)
GetWinner(p) ==
    LET ranking == Ranking(p, Created)
    IN  IF ranking = <<>> \/ VoteCount(Head(ranking)) = 0 THEN Nobody
        ELSE Head(ranking)

(* get_pie_data: a candidate with as many votes as the one before shares   *)
(* its rank; the slices are of the candidates and of NOTA.                  *)
PieData(p) ==
    LET most == MaxVotes(p)
        ranking == Ranking(p, Created)
        rank[i \in 1..Len(ranking)] ==
           IF i > 1 /\ VoteCount(ranking[i]) = VoteCount(ranking[i - 1])
           THEN rank[i - 1] ELSE i
    IN  [ranking |-> ranking, ranks |-> rank,
         is_tied |-> most > 0 /\ \E i, j \in 1..Len(ranking) :
                        i # j /\ VoteCount(ranking[i]) = most
                              /\ VoteCount(ranking[j]) = most,
         winner |-> IF ranking # <<>> /\ VoteCount(Head(ranking)) > 0
                    THEN Head(ranking) ELSE Nobody,
         total |-> Cardinality(VotesOf(p)) + Nota(p)]

(* The Rank column of a table by votes and name is the row's number, tied   *)
(* or not.                                                                  *)
Numbered(ranking) ==
    [i \in 1..Len(ranking) |-> [rank |-> i, name |-> ranking[i]]]

(* The table of the results PDF, which says of nobody that they won or tied. *)
ResultsTable(p) == Numbered(Ranking(p, Named))

(* The audit trail: the same table, where the first row has a status.       *)
PositionResults(p) ==
    LET ranking == Ranking(p, Named)
        first == IF ranking = <<>> \/ VoteCount(Head(ranking)) = 0
                 THEN Nobody ELSE Head(ranking)
    IN  [rows |-> Numbered(ranking), first |-> first,
         status |-> IF first = Nobody THEN ""
                    ELSE IF \E i \in 2..Len(ranking) :
                               VoteCount(ranking[i]) = VoteCount(first)
                         THEN "TIED" ELSE "WINNER"]

(* The voters' page numbers the rows as well and has the badge Winner on    *)
(* the first, without a word on ties.                                       *)
ResultsPage(p) ==
    LET ranking == Ranking(p, Named)
    IN  [rows |-> Numbered(ranking),
         winner |-> IF ranking # <<>> /\ VoteCount(Head(ranking)) > 0
                    THEN Head(ranking) ELSE Nobody]

(* The API lists the candidates in that order, without ranks.               *)
ApiCandidates(p) == Ranking(p, Named)

(* get_turnout_data and the results PDF. *)
TurnoutData ==
    [total |-> Cardinality(electorate), voted |-> Cardinality(has_voted),
     not_voted |-> Cardinality(electorate) - Cardinality(has_voted)]

(* VoterElectionResultsView and the audit trail leave revoked credentials   *)
(* out.                                                                     *)
ActiveTurnout ==
    [total |-> Cardinality(electorate \ revoked),
     voted |-> Cardinality(has_voted \ revoked)]

(* ElectionResultsView of the API: votes cast are the hashes of the rows.  *)
ApiVotesCast == Cardinality(VoterHashes(votes))

\* Mutant of FirstVotes: every row is a voter, what the comment warns of.
FirstVotes_Rows == {<<r.elector, r.hour, r.nominee>> : r \in votes}

(* Min('timestamp') per voter_hash, as <<elector, hour>>. *)
FirstVotes ==
    {<<e, CHOOSE h \in 0..LastHour :
             /\ \E r \in votes : r.elector = e /\ r.hour = h
             /\ \A r \in votes : r.elector = e => h <= r.hour>> :
       e \in VoterHashes(votes)}

(* get_timeline_data *)
Timeline ==
    LET first == FirstVotes
    IN  [hourly |-> [h \in 0..LastHour |-> Cardinality({f \in first : f[2] = h})],
         cumulative |-> [h \in 0..LastHour |->
                           Cardinality({f \in first : f[2] <= h})]]

-------------------------------------------------------------------------------
(* VerificationService.compare_db_and_chain, of the integrity page and of   *)
(* verify_integrity                                                         *)

(* pc: the post it comes to next, 0 before the first comparison. *)
Compared == audit.pc \notin 1..Len(PostOrder)

(* get_on_chain_vote_counts prefers the archive.  due: the ballots recorded  *)
(* when it began, which only the property sees.                             *)
ReadChain ==
    /\ Compared
    /\ electorate # {} /\ audits < MaxAudits
    /\ audits' = audits + 1
    /\ audit' = [pc |-> 1, match |-> TRUE, due |-> has_voted,
                 chain |-> IF archive # NotArchived THEN archive ELSE ChainCounts]
    /\ UNCHANGED <<setupVars, rowVars, enqueued, now, chainVars>>

(* No on-chain data available, or an exception on the way. *)
ComparisonFails ==
    /\ ~Compared
    /\ audit' = [audit EXCEPT !.pc = Len(PostOrder) + 1, !.match = FALSE, !.chain = <<>>]
    /\ UNCHANGED <<setupVars, rowVars, enqueued, now, chainVars, audits>>

PostMatches(p) == \A c \in CandidatesOf(p) : VoteCount(c) = audit.chain[SlotOf[c]]

\* Mutant of AllMatch: the verdict is that of the last post.
AllMatch_Last(p) == PostMatches(p)

AllMatch(p) == audit.match /\ PostMatches(p)

(* One query for the votes of each post. *)
ComparePost ==
    /\ ~Compared
    /\ LET last == audit.pc = Len(PostOrder)
       IN  audit' = [audit EXCEPT
              !.match = AllMatch(PostOrder[audit.pc]),
              !.pc = @ + 1,
              !.chain = IF last THEN <<>> ELSE @]
    /\ UNCHANGED <<setupVars, rowVars, enqueued, now, chainVars, audits>>

-------------------------------------------------------------------------------
ResultsNext ==
    \/ \E e \in Elector : CastBallot(e) \/ ApiCast(e)
    \/ \E request \in open : ApiCommit(request) \/ ApiRollback(request)
    \/ \E q \in enqueued : CountOnChain(q)
    \/ HourTurns \/ ArchiveCounts
    \/ ReadChain \/ ComparePost \/ ComparisonFails

ResultsSpec == ResultsInit /\ [][ResultsNext]_resultsVars

-------------------------------------------------------------------------------
Leaders(p) ==
    {c \in CandidatesOf(p) :
       /\ VoteCount(c) > 0
       /\ \A d \in CandidatesOf(p) : VoteCount(d) <= VoteCount(c)}

WithMoreVotes(c) == {d \in CandidatesOf(PostOf[c]) : VoteCount(d) > VoteCount(c)}

TiedBefore(c) ==
    {d \in CandidatesOf(PostOf[c]) : VoteCount(d) = VoteCount(c) /\ Named[d] < Named[c]}

(* The CSV rows, the chart and the audit trail mark the leaders, and mark   *)
(* them as tied exactly when there are several.  The others never say so:   *)
(* in a tie get_winner, and the chart's winner, name the leader created     *)
(* first, the voters' page and the list of the API begin with the first by  *)
(* name.  The chart's rank of a candidate is how many have more votes, and  *)
(* one; the Rank columns of the results PDF, the audit trail and the        *)
(* voters' page add the candidates with as many votes and an earlier name:  *)
(* in a tie they differ from the chart.                                     *)
SameWinners ==
    \A p \in Post :
       LET data == ResultsData(p)
           pie == PieData(p)
           table == ResultsTable(p)
           trail == PositionResults(p)
           page == ResultsPage(p)
           winner == GetWinner(p)
           leaders == Leaders(p)
           tied == Cardinality(leaders) > 1
       IN  /\ {c \in CandidatesOf(p) : data[c] # ""} = leaders
           /\ \A c \in leaders : data[c] = IF tied THEN "Tied" ELSE "Yes"
           /\ pie.is_tied = tied
           /\ pie.winner = winner /\ trail.first = page.winner
           /\ IF leaders = {} THEN winner = Nobody /\ page.winner = Nobody
              ELSE /\ trail.status = IF tied THEN "TIED" ELSE "WINNER"
                   /\ {winner, page.winner} \subseteq leaders
                   /\ \A c \in leaders : /\ Created[winner] <= Created[c]
                                         /\ Named[page.winner] <= Named[c]
                   /\ ApiCandidates(p)[1] = page.winner
           /\ \A i \in 1..Len(pie.ranking) :
                 pie.ranks[i] = 1 + Cardinality(WithMoreVotes(pie.ranking[i]))
           /\ \A i \in 1..Len(table) :
                 table[i].rank = 1 + Cardinality(WithMoreVotes(table[i].name))
                                   + Cardinality(TiedBefore(table[i].name))
           /\ trail.rows = table /\ page.rows = table

(* Every ballot is in every total once: the slices of a post are the        *)
(* voters (fewer only where abstaining is not offered and a post was left   *)
(* out), the turnouts agree, and the timeline ends at the API's count,      *)
(* which alone has no voter whose ballot is blank.                          *)
SameTotals ==
    /\ \A p \in Post :
          LET total == PieData(p).total
          IN  /\ total <= Cardinality(has_voted)
              /\ allow_abstain => total = Cardinality(has_voted)
    /\ ActiveTurnout.voted = TurnoutData.voted
    /\ ActiveTurnout.total = TurnoutData.total - Cardinality(revoked)
    /\ Timeline.cumulative[LastHour] = ApiVotesCast
    /\ ApiVotesCast = Cardinality({e \in has_voted : \E r \in votes : r.elector = e})

(* The reports of a result tell the same totals and leaders, and differ in   *)
(* ties as stated, and there only (results/views.py, elections/models.py,   *)
(* analytics_service.py, pdf_service.py, api/views.py, voting/views.py and  *)
(* voting/results.html).                                                    *)
ReportsAgree == SameWinners /\ SameTotals

(* The votes for a candidate recorded when the comparison began that are not *)
(* on chain, and those of the API's electors that had no row when they were *)
(* counted there.                                                           *)
Missing(c) ==
    {vote \in {[elector |-> e, slot |-> SlotOf[c]] : e \in audit.due} :
       vote \notin counted
       /\ \E r \in votes : r.elector = vote.elector /\ r.nominee = c}

Early(c) == {vote \in early : vote.slot = SlotOf[c] /\ vote.elector \in ByApi}

(* When the comparison reports a match, at most as many votes of a candidate *)
(* are missing on chain as were counted there before, or without, the        *)
(* commit of an API request: where nobody votes through the API all are     *)
(* there, as they were recorded (compare_db_and_chain reads the chain first, *)
(* while ballots are recorded and counted).                                 *)
MatchMeansCounted ==
    audit.pc > Len(PostOrder) /\ audit.match =>
        \A c \in Nominee : Cardinality(Missing(c)) <= Cardinality(Early(c))
===============================================================================
