-------------------------- MODULE MCVoteSubmission --------------------------
(* Two voters of the web view; or one of the API, after another one's       *)
(* ballot was counted and recorded, and one added after the launch, whom    *)
(* the tree does not know and whose ballot is queued.                       *)
EXTENDS VoteSubmission

CONSTANTS v1, v2, late

Entry(p, c) == [post_index |-> p, candidate_index |-> c]

(* The ballot window is prolonged in the database only. *)
MCRoll == <<v1, v2>>
MCRolls == {MCRoll}
MCLayout == <<2>>
MCLayouts == {MCLayout}
MCWindows == {<<0, 0>>, <<0, 1>>}
MCChainWindow == <<0, 1>>
MCDbWindow == <<0, 2>>
ShortWindow == <<0, 0>>

(* One candidate, or every post left blank. *)
MCSelections == {<<Entry(0, 0)>>, <<>>}
OneChoice == {<<Entry(0, 0)>>}

WebVoters == {v1, v2}
WithLateVoter == {v1, v2, late}
Nobody == {}
FirstVoter == {v1}

AllIncidents == Incident
WithoutForgetting == Incident \ {"forget"}
Timeouts == {"timeout"}
NoIncident == {}

(* The second voter's ballot is counted and its row still PENDING; the late  *)
(* one's is recorded and queued.                                            *)
SecondBallot == <<Entry(0, 0)>>
SecondJob == <<v2, 1>>
SecondTx == <<SecondJob, 0>>
LateJob == <<late, 1>>

CountedSecond ==
    LET fresh == FreshAccount(Roll, Layout, ChainWindow[1], ChainWindow[2])
    IN  [fresh EXCEPT !.total_votes = 1, !.voted_bitfield = {1},
                      !.vote_counts[Entry(0, 0)] = 1]

AfterSecond ==
    /\ account = CountedSecond
    /\ ballots = {[voter_index |-> 1, voter_hash |-> VoterHash(v2),
                   votes |-> SecondBallot]}
    /\ clock = 0
    /\ vote = [v \in Credential |-> IF v = v1 THEN NoBallot ELSE SecondBallot]
    /\ request = [v \in Credential |-> 0]
    /\ tx_hash = [v \in Credential |-> IF v = v2 THEN SecondTx ELSE NoTx]
    /\ confirmed = [v \in Credential |-> FALSE]
    /\ ledger = [t \in Tx |-> IF t = SecondTx THEN "pending" ELSE "none"]
    /\ created = [t \in Tx |-> 0]
    /\ net = [t \in Tx |-> IF t = SecondTx THEN "ok" ELSE "none"]
    /\ forgotten = {}
    /\ job = [j \in Job |->
                 CASE j = SecondJob ->
                         [pc |-> "done", attempt |-> 0, votes |-> SecondBallot]
                   [] j = LateJob ->
                         [pc |-> "queued", attempt |-> 0, votes |-> SecondBallot]
                   [] OTHER ->
                         [pc |-> "none", attempt |-> 0, votes |-> NoBallot]]
    /\ poll = Idle
    /\ sync = Idle

AfterSecondSpec ==
    AfterSecond /\ [][SubmissionNext]_submissionVars /\ SubmissionFairness
=============================================================================
