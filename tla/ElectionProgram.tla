--------------------------- MODULE ElectionProgram ---------------------------
(***************************************************************************)
(* The Solana program that counts the ballots of one election              *)
(* (solana-program/programs/electon_voting/src/lib.rs).  An instruction    *)
(* either applies as a whole or fails and changes nothing, so each one is  *)
(* an action whose guard is the conjunction of its require!s.  One signer, *)
(* the server's wallet, sends every instruction (has_one = authority).     *)
(* The flat vote_counts vector is the function from ballot entries it      *)
(* stands for.                                                             *)
(***************************************************************************)
EXTENDS MerkleTree, FiniteSets

CONSTANTS
    Credential, \* the voter credentials
    Rolls,      \* rolls a tree may be committed for, as sequences of credentials
    Layouts,    \* candidates_per_post vectors
    Windows,    \* pairs <<start_time, end_time>>
    Selections, \* the votes vectors presented to cast_vote
    MaxIndex,   \* bound: the largest voter_index presented
    U32Max,     \* the largest value of a vote count
    MaxClock,   \* bound: the clock stops here
    NoAccount   \* the election's address holds no account

VoteEntry == [post_index : 0..255, candidate_index : 0..255]

ASSUME ProgramAssumption ==
    /\ \A r \in Rolls : r \in Seq(Credential) /\ Len(r) \in 1..U32Max
    /\ \A r \in Rolls : \A j, k \in 1..Len(r) : r[j] = r[k] => j = k
    /\ \A l \in Layouts : l \in Seq(0..255)
    /\ \A w \in Windows : w \in Int \X Int
    /\ \A s \in Selections : s \in Seq(VoteEntry)
    /\ MaxIndex \in Nat /\ U32Max \in Nat /\ MaxClock \in Nat

VARIABLES
    account,    \* the ElectionState account, or NoAccount
    ballots,    \* the ballots counted into this account (not stored on chain)
    clock       \* Clock::unix_timestamp

programVars == <<account, ballots, clock>>

(* The slots of vote_counts: every candidate of every post. *)
Slots(candidates_per_post) ==
    UNION {[post_index : {p},
            candidate_index : 0..(candidates_per_post[p + 1] - 1)] :
           p \in 0..(Len(candidates_per_post) - 1)}

FreshAccount(roll, candidates_per_post, start_time, end_time) ==
    [merkle_root         |-> RootOf(roll),
     num_voters          |-> Len(roll),
     candidates_per_post |-> candidates_per_post,
     start_time          |-> start_time,
     end_time            |-> end_time,
     is_finalized        |-> FALSE,
     total_votes         |-> 0,
     voted_bitfield      |-> {},
     vote_counts         |-> [s \in Slots(candidates_per_post) |-> 0]]

ProgramInit ==
    /\ account = NoAccount
    /\ ballots = {}
    /\ clock = 0

(* initialize_election: init fails while the address is taken. *)
Initialize(roll, candidates_per_post, start_time, end_time) ==
    /\ account = NoAccount
    /\ start_time < end_time
    /\ Len(roll) > 0
    /\ account' = FreshAccount(roll, candidates_per_post, start_time, end_time)
    /\ ballots' = {}
    /\ UNCHANGED clock

-------------------------------------------------------------------------------
(* The guards of cast_vote *)

InWindow(state, now) == now >= state.start_time /\ now <= state.end_time

\* Mutant of Registered: the bound admits one index past the roll.
Registered_OffByOne(state, voter_index) == voter_index <= state.num_voters

Registered(state, voter_index) == voter_index < state.num_voters

\* Mutant of NotVoted: the bitfield is not consulted.
NotVoted_Dropped(state, voter_index) == TRUE

NotVoted(state, voter_index) == voter_index \notin state.voted_bitfield

\* Mutant of ProofVerifies: left and right are not taken from voter_index.
ProofVerifies_AnyIndex(state, voter_index, voter_hash, merkle_proof) ==
    \E i \in 0..MaxIndex :
        VerifyMerkleProof(voter_hash, merkle_proof, i, state.merkle_root)

ProofVerifies(state, voter_index, voter_hash, merkle_proof) ==
    VerifyMerkleProof(voter_hash, merkle_proof, voter_index, state.merkle_root)

\* Mutant of ValidVotes: seen_posts is not consulted.
ValidVotes_DuplicatePost(state, votes) ==
    \A k \in DOMAIN votes :
        /\ votes[k] \in Slots(state.candidates_per_post)
        /\ state.vote_counts[votes[k]] < U32Max

(* Every entry names a slot, no post twice, and checked_add(1) succeeds. *)
ValidVotes(state, votes) ==
    /\ \A k \in DOMAIN votes :
          /\ votes[k] \in Slots(state.candidates_per_post)
          /\ state.vote_counts[votes[k]] < U32Max
    /\ \A j, k \in DOMAIN votes :
          j # k => votes[j].post_index # votes[k].post_index

(* Entries of votes that name the slot s. *)
Occurrences(votes, s) == Cardinality({k \in DOMAIN votes : votes[k] = s})

CountsAfter(state, votes) ==
    [s \in DOMAIN state.vote_counts |->
        state.vote_counts[s] + Occurrences(votes, s)]

(* The account after the ballot: its slots, its bit, one more vote. *)
Counted(state, voter_index, votes) ==
    [state EXCEPT
        !.vote_counts = CountsAfter(state, votes),
        !.voted_bitfield = state.voted_bitfield \cup {voter_index},
        !.total_votes = state.total_votes + 1]

Accepts(state, now, voter_index, voter_hash, merkle_proof, votes) ==
    /\ state # NoAccount
    /\ InWindow(state, now)
    /\ Registered(state, voter_index)
    /\ NotVoted(state, voter_index)
    /\ ProofVerifies(state, voter_index, voter_hash, merkle_proof)
    /\ ValidVotes(state, votes)

CastVote(voter_index, voter_hash, merkle_proof, votes) ==
    /\ Accepts(account, clock, voter_index, voter_hash, merkle_proof, votes)
    /\ account' = Counted(account, voter_index, votes)
    /\ ballots' = ballots \cup {[voter_index |-> voter_index,
                                 voter_hash  |-> voter_hash,
                                 votes       |-> votes]}
    /\ UNCHANGED clock

-------------------------------------------------------------------------------
\* Mutant of Ended: an election may be finalised at its last second.
Ended_AtEnd(state, now) == now >= state.end_time

Ended(state, now) == now > state.end_time

FinalizeElection ==
    /\ account # NoAccount
    /\ Ended(account, clock)
    /\ ~account.is_finalized
    /\ account' = [account EXCEPT !.is_finalized = TRUE]
    /\ UNCHANGED <<ballots, clock>>

(* close = authority refunds the rent and empties the address. *)
CloseElection ==
    /\ account # NoAccount
    /\ Ended(account, clock)
    /\ account.is_finalized
    /\ account' = NoAccount
    /\ UNCHANGED <<ballots, clock>>

Tick ==
    /\ clock < MaxClock
    /\ clock' = clock + 1
    /\ UNCHANGED <<account, ballots>>

(* Whoever calls cast_vote cuts the proof from a tree over some roll. *)
Presented ==
    UNION {[leaf  : {VoterHash(r[k]) : k \in DOMAIN r},
            proof : {GetMerkleProof(BuildMerkleTree(Leaves(r)), j) :
                        j \in 0..(Len(r) - 1)}] : r \in Rolls}

ProgramNext ==
    \/ \E r \in Rolls, l \in Layouts, w \in Windows :
          Initialize(r, l, w[1], w[2])
    \/ \E i \in 0..MaxIndex, p \in Presented, v \in Selections :
          CastVote(i, p.leaf, p.proof, v)
    \/ FinalizeElection
    \/ CloseElection
    \/ Tick

ProgramSpec == ProgramInit /\ [][ProgramNext]_programVars

-------------------------------------------------------------------------------
Ballot == [voter_index : Nat, voter_hash : {p.leaf : p \in Presented},
           votes : Selections]

ElectionState ==
    [merkle_root : {RootOf(r) : r \in Rolls},
     num_voters : 1..U32Max,
     candidates_per_post : Layouts,
     start_time : {w[1] : w \in Windows},
     end_time : {w[2] : w \in Windows},
     is_finalized : BOOLEAN,
     total_votes : Nat,
     voted_bitfield : SUBSET (0..(U32Max - 1)),
     vote_counts : UNION {[Slots(l) -> 0..U32Max] : l \in Layouts}]

ASSUME NoAccountAssumption == NoAccount \notin ElectionState

(* The account keeps the shape initialize_election gave it: bits only of    *)
(* registered voters, one u32 counter per candidate slot (ElectionState).   *)
ProgramTypeOK ==
    /\ clock \in 0..MaxClock
    /\ \A b \in ballots : b \in Ballot
    /\ account # NoAccount =>
          /\ account \in ElectionState
          /\ DOMAIN account.vote_counts = Slots(account.candidates_per_post)
          /\ account.voted_bitfield \subseteq 0..(account.num_voters - 1)

(* total_votes, the bitfield and the counted ballots always tell the same   *)
(* turnout: a bit is set exactly for the ballots that were counted, one     *)
(* ballot per bit (cast_vote steps 3 and 6).                                *)
TurnoutAgrees ==
    account # NoAccount =>
        /\ account.total_votes = Cardinality(ballots)
        /\ account.total_votes = Cardinality(account.voted_bitfield)
        /\ account.voted_bitfield = {b.voter_index : b \in ballots}

(* Every counter is the number of counted ballots that name its slot: no    *)
(* ballot adds two to a counter, none is lost, none overflows (S-03).       *)
Names(b, s) == \E k \in DOMAIN b.votes : b.votes[k] = s

TallyExact ==
    account # NoAccount =>
        \A s \in Slots(account.candidates_per_post) :
            account.vote_counts[s] = Cardinality({b \in ballots : Names(b, s)})

(* A credential is counted once, whatever indices and proofs it is          *)
(* presented with: the padding copies of the tree's last leaf must not be   *)
(* a second way in (cast_vote steps 2 to 4).                                *)
OneBallotPerCredential ==
    \A b, c \in ballots : b.voter_hash = c.voter_hash => b = c

(* From finalize_election on the tally can only disappear with the account: *)
(* the archive taken between the two calls cannot be outdated               *)
(* (finalize_election's comment, close_election).                           *)
FinalizedIsFinal ==
    [][account # NoAccount /\ account.is_finalized
          => account' \in {account, NoAccount}]_programVars
===============================================================================
