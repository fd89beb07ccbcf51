------------------------ MODULE ElectionProgramProofs ------------------------
(***************************************************************************)
(* The invariants of ElectionProgram for every set of rolls, layouts,      *)
(* windows and votes vectors.  The first invariant types the account; the  *)
(* second ties each counted ballot to the credential its index stands for, *)
(* which needs MerkleBinding; the third counts.                            *)
(***************************************************************************)
EXTENDS ElectionProgram, MerkleTreeProofs, FiniteSetTheorems

(* Entries of a votes vector without a repeated post name a slot at most    *)
(* once.                                                                    *)
LEMMA OccurrencesAtMostOne ==
    ASSUME NEW votes, NEW s,
           \A j, k \in DOMAIN votes :
              j # k => votes[j].post_index # votes[k].post_index
    PROVE  Occurrences(votes, s) =
              IF \E k \in DOMAIN votes : votes[k] = s THEN 1 ELSE 0
<1> DEFINE Hits == {k \in DOMAIN votes : votes[k] = s}
<1>1. CASE \E k \in DOMAIN votes : votes[k] = s
  <2>1. PICK k \in DOMAIN votes : votes[k] = s
    BY <1>1
  <2>2. Hits = {k}
    BY <2>1
  <2>3. Cardinality(Hits) = 1
    BY <2>2, FS_Singleton
  <2> QED BY <1>1, <2>3 DEF Occurrences
<1>2. CASE ~\E k \in DOMAIN votes : votes[k] = s
  <2>1. Hits = {}
    BY <1>2
  <2>2. Cardinality(Hits) = 0
    BY <2>1, FS_EmptySet
  <2> QED BY <1>2, <2>2 DEF Occurrences
<1> QED BY <1>1, <1>2

(* The fields cast_vote changes, and those it leaves alone.                 *)
LEMMA CountedFields ==
    ASSUME NEW state \in ElectionState, NEW i, NEW votes,
           NEW c, c = Counted(state, i, votes)
    PROVE  /\ c.merkle_root = state.merkle_root
           /\ c.num_voters = state.num_voters
           /\ c.candidates_per_post = state.candidates_per_post
           /\ c.start_time = state.start_time
           /\ c.end_time = state.end_time
           /\ c.is_finalized = state.is_finalized
           /\ c.total_votes = state.total_votes + 1
           /\ c.voted_bitfield = state.voted_bitfield \cup {i}
           /\ c.vote_counts = CountsAfter(state, votes)
BY DEF Counted, ElectionState

-------------------------------------------------------------------------------
(* An accepted ballot raises a slot it names by one and no other, and no    *)
(* counter leaves the u32 range.                                            *)
LEMMA CountedCounts ==
    ASSUME NEW state \in ElectionState, NEW votes, ValidVotes(state, votes),
           DOMAIN state.vote_counts = Slots(state.candidates_per_post),
           NEW s \in DOMAIN state.vote_counts
    PROVE  /\ Occurrences(votes, s) =
                 IF \E k \in DOMAIN votes : votes[k] = s THEN 1 ELSE 0
           /\ state.vote_counts[s] \in 0..U32Max
           /\ state.vote_counts[s] + Occurrences(votes, s) \in 0..U32Max
<1>1. Occurrences(votes, s) = IF \E k \in DOMAIN votes : votes[k] = s THEN 1 ELSE 0
  BY OccurrencesAtMostOne DEF ValidVotes
<1>2. state.vote_counts[s] \in 0..U32Max
  <2>1. state.vote_counts \in UNION {[Slots(l) -> 0..U32Max] : l \in Layouts}
    BY DEF ElectionState
  <2>2. PICK l \in Layouts : state.vote_counts \in [Slots(l) -> 0..U32Max]
    BY <2>1
  <2> QED BY <2>2
<1>3. (\E k \in DOMAIN votes : votes[k] = s) => state.vote_counts[s] < U32Max
  BY DEF ValidVotes
<1>4. U32Max \in Nat
  BY ProgramAssumption
<1> QED BY <1>1, <1>2, <1>3, <1>4

(* The account is a well-formed ElectionState. *)
Shaped(state) ==
    /\ state \in ElectionState
    /\ DOMAIN state.vote_counts = Slots(state.candidates_per_post)
    /\ state.voted_bitfield \subseteq 0..(state.num_voters - 1)

LEMMA CountedShaped ==
    ASSUME NEW state, Shaped(state), NEW i \in Nat, Registered(state, i),
           NEW votes, ValidVotes(state, votes)
    PROVE  Shaped(Counted(state, i, votes))
<1> DEFINE c == Counted(state, i, votes)
           counts == CountsAfter(state, votes)
<1>1. /\ state \in ElectionState
      /\ DOMAIN state.vote_counts = Slots(state.candidates_per_post)
      /\ state.voted_bitfield \subseteq 0..(state.num_voters - 1)
  BY DEF Shaped
<1>2. /\ DOMAIN counts = DOMAIN state.vote_counts
      /\ \A s \in DOMAIN state.vote_counts : counts[s] \in 0..U32Max
  BY <1>1, CountedCounts DEF CountsAfter
<1>3. counts \in UNION {[Slots(l) -> 0..U32Max] : l \in Layouts}
  <2>1. state.candidates_per_post \in Layouts
    BY <1>1 DEF ElectionState
  <2>2. counts \in [Slots(state.candidates_per_post) -> 0..U32Max]
    BY <1>1, <1>2 DEF CountsAfter
  <2> QED BY <2>1, <2>2
<1>4. /\ state.num_voters \in 1..U32Max /\ U32Max \in Nat
      /\ i \in 0..(state.num_voters - 1)
  BY <1>1, ProgramAssumption DEF Registered, ElectionState
<1>5. /\ state.voted_bitfield \cup {i} \subseteq 0..(state.num_voters - 1)
      /\ state.voted_bitfield \cup {i} \in SUBSET (0..(U32Max - 1))
  BY <1>1, <1>4
<1>6. state.total_votes + 1 \in Nat
  BY <1>1 DEF ElectionState
<1> HIDE DEF counts
<1>7. c \in ElectionState
  <2>1. c = [state EXCEPT !.vote_counts = counts,
                          !.voted_bitfield = state.voted_bitfield \cup {i},
                          !.total_votes = state.total_votes + 1]
    BY DEF Counted, counts
  <2> DEFINE bits == state.voted_bitfield \cup {i}
             total == state.total_votes + 1
  <2> HIDE DEF c, bits, total
  <2> QED BY <1>1, <1>3, <1>5, <1>6, <2>1 DEF ElectionState, bits, total
<1>8. /\ c.num_voters = state.num_voters
      /\ c.candidates_per_post = state.candidates_per_post
      /\ c.voted_bitfield = state.voted_bitfield \cup {i}
      /\ c.vote_counts = counts
  BY <1>1, CountedFields DEF counts
<1> HIDE DEF c
<1>9. Shaped(c)
  BY <1>1, <1>2, <1>5, <1>7, <1>8 DEF Shaped
<1> QED BY <1>9 DEF c

(* A freshly initialised account is well-formed. *)
LEMMA FreshShaped ==
    ASSUME NEW r \in Rolls, NEW l \in Layouts, NEW w \in Windows
    PROVE  Shaped(FreshAccount(r, l, w[1], w[2]))
<1> DEFINE counts == [s \in Slots(l) |-> 0]
           f == FreshAccount(r, l, w[1], w[2])
<1>1. U32Max \in Nat /\ Len(r) \in 1..U32Max
  BY ProgramAssumption
<1>2. counts \in UNION {[Slots(q) -> 0..U32Max] : q \in Layouts}
  <2>1. counts \in [Slots(l) -> 0..U32Max]
    BY <1>1
  <2> QED BY <2>1
<1>3. DOMAIN counts = Slots(l)
  OBVIOUS
<1> HIDE DEF counts
<1>4. f = [merkle_root |-> RootOf(r), num_voters |-> Len(r),
           candidates_per_post |-> l, start_time |-> w[1], end_time |-> w[2],
           is_finalized |-> FALSE, total_votes |-> 0, voted_bitfield |-> {},
           vote_counts |-> counts]
  BY DEF FreshAccount, counts
<1> HIDE DEF f
<1>5. f \in ElectionState
  BY <1>1, <1>2, <1>4 DEF ElectionState
<1>6. Shaped(f)
  BY <1>3, <1>4, <1>5 DEF Shaped
<1> QED BY <1>6 DEF f

-------------------------------------------------------------------------------
(* What a step may do to the account once it exists, whoever takes it; the  *)
(* bound on the indices presented does not matter to a proof.               *)
OpenMove ==
    \/ \E i \in Nat, p \in Presented, v \in Selections :
          CastVote(i, p.leaf, p.proof, v)
    \/ FinalizeElection \/ Tick
    \/ UNCHANGED programVars

ProgramMove == OpenMove \/ CloseElection

LEMMA NextIsMove ==
    [ProgramNext]_programVars =>
        \/ \E r \in Rolls, l \in Layouts, w \in Windows :
              Initialize(r, l, w[1], w[2])
        \/ ProgramMove
<1>1. 0..MaxIndex \subseteq Nat
  OBVIOUS
<1> QED BY <1>1 DEF ProgramNext, OpenMove, ProgramMove

LEMMA MoveKeepsType ==
    ASSUME ProgramTypeOK, ProgramMove
    PROVE  ProgramTypeOK'
<1> USE ProgramAssumption
<1>1. /\ clock \in 0..MaxClock
      /\ \A b \in ballots : b \in Ballot
      /\ account # NoAccount => Shaped(account)
  BY DEF ProgramTypeOK, Shaped
<1>2. SUFFICES /\ clock' \in 0..MaxClock
               /\ \A b \in ballots' : b \in Ballot
               /\ account' # NoAccount => Shaped(account')
  BY DEF ProgramTypeOK, Shaped
<1>4. ASSUME NEW i \in Nat, NEW p \in Presented,
             NEW v \in Selections, CastVote(i, p.leaf, p.proof, v)
      PROVE  /\ clock' \in 0..MaxClock
             /\ \A b \in ballots' : b \in Ballot
             /\ account' # NoAccount => Shaped(account')
  <2>1. /\ Registered(account, i) /\ ValidVotes(account, v)
        /\ account # NoAccount /\ account' = Counted(account, i, v)
        /\ ballots' = ballots \cup {[voter_index |-> i,
                                     voter_hash |-> p.leaf, votes |-> v]}
        /\ clock' = clock
    BY <1>4 DEF CastVote, Accepts
  <2>2. i \in Nat
    OBVIOUS
  <2>3. Shaped(account')
    BY <1>1, <2>1, <2>2, CountedShaped
  <2>4. [voter_index |-> i, voter_hash |-> p.leaf, votes |-> v] \in Ballot
    BY <2>2 DEF Ballot
  <2> QED BY <1>1, <2>1, <2>3, <2>4
<1>5. ASSUME FinalizeElection
      PROVE  /\ clock' \in 0..MaxClock
             /\ \A b \in ballots' : b \in Ballot
             /\ account' # NoAccount => Shaped(account')
  BY <1>1, <1>5 DEF FinalizeElection, Shaped, ElectionState
<1>6. ASSUME CloseElection
      PROVE  /\ clock' \in 0..MaxClock
             /\ \A b \in ballots' : b \in Ballot
             /\ account' # NoAccount => Shaped(account')
  BY <1>1, <1>6 DEF CloseElection
<1>7. ASSUME Tick
      PROVE  /\ clock' \in 0..MaxClock
             /\ \A b \in ballots' : b \in Ballot
             /\ account' # NoAccount => Shaped(account')
  BY <1>1, <1>7 DEF Tick
<1>8. CASE UNCHANGED programVars
  BY <1>1, <1>8 DEF programVars
<1> QED BY <1>4, <1>5, <1>6, <1>7, <1>8 DEF OpenMove, ProgramMove

(* The account keeps the shape initialize_election gave it.                 *)
THEOREM ProgramTypeCorrect == ProgramSpec => []ProgramTypeOK
<1>1. ProgramInit => ProgramTypeOK
  BY ProgramAssumption DEF ProgramInit, ProgramTypeOK
<1>2. ProgramTypeOK /\ [ProgramNext]_programVars => ProgramTypeOK'
  <2> SUFFICES ASSUME ProgramTypeOK, [ProgramNext]_programVars
               PROVE  ProgramTypeOK'
    OBVIOUS
  <2>1. ASSUME NEW r \in Rolls, NEW l \in Layouts, NEW w \in Windows,
               Initialize(r, l, w[1], w[2])
        PROVE  ProgramTypeOK'
    BY <2>1, FreshShaped DEF Initialize, ProgramTypeOK, Shaped
  <2> QED BY <2>1, NextIsMove, MoveKeepsType
<1> QED BY <1>1, <1>2, PTL DEF ProgramSpec

(***************************************************************************)
(* Whose ballots are counted                                               *)
(***************************************************************************)
(* Behind the account stands one roll, and every counted ballot carries the *)
(* hash of the credential its index stands for, one ballot per index.       *)
RegisteredBy(r) ==
    /\ account # NoAccount => /\ account.merkle_root = RootOf(r)
                              /\ account.num_voters = Len(r)
    /\ \A b \in ballots : /\ b.voter_index \in 0..(Len(r) - 1)
                          /\ b.voter_hash = VoterHash(r[b.voter_index + 1])

BallotsRegistered ==
    /\ \/ account = NoAccount /\ ballots = {}
       \/ \E r \in Rolls : RegisteredBy(r)
    /\ \A b, c \in ballots : b.voter_index = c.voter_index => b = c
    /\ account # NoAccount =>
          account.voted_bitfield = {b.voter_index : b \in ballots}

LEMMA FreshRegistered ==
    ASSUME NEW r \in Rolls, NEW l \in Layouts, NEW w \in Windows,
           Initialize(r, l, w[1], w[2])
    PROVE  BallotsRegistered'
<1>1. account' = FreshAccount(r, l, w[1], w[2]) /\ ballots' = {}
  BY DEF Initialize
<1>2. /\ account'.merkle_root = RootOf(r) /\ account'.num_voters = Len(r)
      /\ account'.voted_bitfield = {}
  BY <1>1 DEF FreshAccount
<1>3. RegisteredBy(r)'
  BY <1>1, <1>2 DEF RegisteredBy
<1> QED BY <1>1, <1>2, <1>3 DEF BallotsRegistered

(* The ballot cast_vote accepts carries the credential of its index: the    *)
(* bit guard keeps indices apart, the proof ties the index to the roll.     *)
LEMMA CastRegistered ==
    ASSUME ProgramTypeOK, BallotsRegistered,
           NEW i \in Nat, NEW p \in Presented, NEW v \in Selections,
           CastVote(i, p.leaf, p.proof, v)
    PROVE  BallotsRegistered'
<1> DEFINE b == [voter_index |-> i, voter_hash |-> p.leaf, votes |-> v]
<1>1. /\ account # NoAccount /\ Registered(account, i) /\ NotVoted(account, i)
      /\ ProofVerifies(account, i, p.leaf, p.proof)
      /\ account' = Counted(account, i, v)
      /\ ballots' = ballots \cup {b}
  BY DEF CastVote, Accepts
<1>2. account \in ElectionState
  BY <1>1 DEF ProgramTypeOK
<1>3. /\ account'.merkle_root = account.merkle_root
      /\ account'.num_voters = account.num_voters
      /\ account'.voted_bitfield = account.voted_bitfield \cup {i}
  BY <1>1, <1>2, CountedFields
<1>4. PICK r \in Rolls : RegisteredBy(r)
  BY <1>1 DEF BallotsRegistered
<1>5. /\ account.merkle_root = RootOf(r) /\ account.num_voters = Len(r)
      /\ r \in Seq(Credential) /\ Len(r) \in Nat /\ Len(r) > 0
  BY <1>1, <1>4, ProgramAssumption DEF RegisteredBy
<1>6. i \in 0..(Len(r) - 1)
  BY <1>1, <1>5, ProgramAssumption DEF Registered
<1>7. b.voter_hash = VoterHash(r[i + 1])
  <2>1. PICK q \in Rolls :
           /\ p.leaf \in {VoterHash(q[k]) : k \in DOMAIN q}
           /\ p.proof \in {GetMerkleProof(BuildMerkleTree(Leaves(q)), j) :
                             j \in 0..(Len(q) - 1)}
    BY DEF Presented
  <2>2. PICK k \in DOMAIN q : p.leaf = VoterHash(q[k])
    BY <2>1
  <2>3. PICK j \in 0..(Len(q) - 1) :
           p.proof = GetMerkleProof(BuildMerkleTree(Leaves(q)), j)
    BY <2>1
  <2>4. Len(p.proof) \in Nat
    <3>1. q \in Seq(Credential) /\ Len(q) > 0
      BY ProgramAssumption
    <3> QED BY <2>3, <3>1, ProofLength
  <2>5. VerifyMerkleProof(VoterHash(q[k]), p.proof, i, RootOf(r))
    BY <1>1, <1>5, <2>2 DEF ProofVerifies
  <2>6. q[k] = r[i + 1]
    BY <1>5, <1>6, <2>4, <2>5, MerkleBinding
  <2> QED BY <2>2, <2>6
<1>8. i \notin {c.voter_index : c \in ballots}
  BY <1>1 DEF NotVoted, BallotsRegistered
<1>9. RegisteredBy(r)'
  BY <1>1, <1>3, <1>4, <1>5, <1>6, <1>7 DEF RegisteredBy
<1>10. \A x, y \in ballots' : x.voter_index = y.voter_index => x = y
  BY <1>1, <1>8 DEF BallotsRegistered
<1>11. account'.voted_bitfield = {c.voter_index : c \in ballots'}
  <2>1. account.voted_bitfield = {c.voter_index : c \in ballots}
    BY <1>1 DEF BallotsRegistered
  <2>2. b.voter_index = i
    OBVIOUS
  <2> HIDE DEF b
  <2>3. {c.voter_index : c \in ballots \cup {b}}
           = {c.voter_index : c \in ballots} \cup {b.voter_index}
    OBVIOUS
  <2> QED BY <1>1, <1>3, <2>1, <2>2, <2>3
<1> QED BY <1>9, <1>10, <1>11 DEF BallotsRegistered

LEMMA MoveKeepsRegistered ==
    ASSUME ProgramTypeOK, BallotsRegistered, ProgramMove
    PROVE  BallotsRegistered'
<1>2. ASSUME NEW i \in Nat, NEW p \in Presented,
             NEW v \in Selections, CastVote(i, p.leaf, p.proof, v)
      PROVE  BallotsRegistered'
  BY <1>2, CastRegistered
<1>3. CASE FinalizeElection
  <2>1. /\ account' # NoAccount => account # NoAccount
        /\ account \in ElectionState /\ ballots' = ballots
        /\ account' = [account EXCEPT !.is_finalized = TRUE]
    BY <1>3 DEF FinalizeElection, ProgramTypeOK
  <2>2. /\ account'.merkle_root = account.merkle_root
        /\ account'.num_voters = account.num_voters
        /\ account'.voted_bitfield = account.voted_bitfield
    BY <2>1 DEF ElectionState
  <2>3. account # NoAccount
    BY <1>3 DEF FinalizeElection
  <2>4. \A r \in Rolls : RegisteredBy(r) => RegisteredBy(r)'
    BY <2>1, <2>2, <2>3 DEF RegisteredBy
  <2> QED BY <2>1, <2>2, <2>3, <2>4 DEF BallotsRegistered
<1>4. CASE CloseElection
  BY <1>4 DEF CloseElection, BallotsRegistered, RegisteredBy
<1>5. CASE Tick
  BY <1>5 DEF Tick, BallotsRegistered, RegisteredBy
<1>6. CASE UNCHANGED programVars
  BY <1>6 DEF programVars, BallotsRegistered, RegisteredBy
<1> QED BY <1>2, <1>3, <1>4, <1>5, <1>6 DEF OpenMove, ProgramMove

(* A ballot is counted for the credential registered at its index, and one  *)
(* per index: the inductive invariant behind OneBallotPerCredential.        *)
THEOREM BallotsAreRegistered == ProgramSpec => []BallotsRegistered
<1>1. ProgramInit => BallotsRegistered
  BY DEF ProgramInit, BallotsRegistered
<1>2. ProgramTypeOK /\ BallotsRegistered /\ [ProgramNext]_programVars
         => BallotsRegistered'
  <2> SUFFICES ASSUME ProgramTypeOK, BallotsRegistered,
                      [ProgramNext]_programVars
               PROVE  BallotsRegistered'
    OBVIOUS
  <2>1. ASSUME NEW r \in Rolls, NEW l \in Layouts, NEW w \in Windows,
               Initialize(r, l, w[1], w[2])
        PROVE  BallotsRegistered'
    BY <2>1, FreshRegistered
  <2> QED BY <2>1, NextIsMove, MoveKeepsRegistered
<1> QED BY <1>1, <1>2, ProgramTypeCorrect, PTL DEF ProgramSpec

(* A credential is counted once, whatever indices and proofs it is          *)
(* presented with.                                                          *)
THEOREM CountedOnce == ProgramSpec => []OneBallotPerCredential
<1>1. BallotsRegistered => OneBallotPerCredential
  <2> SUFFICES ASSUME BallotsRegistered, NEW b \in ballots, NEW c \in ballots,
                      b.voter_hash = c.voter_hash
               PROVE  b = c
    BY DEF OneBallotPerCredential
  <2>1. PICK r \in Rolls : RegisteredBy(r)
    BY DEF BallotsRegistered
  <2>2. /\ b.voter_index \in 0..(Len(r) - 1) /\ c.voter_index \in 0..(Len(r) - 1)
        /\ VoterHash(r[b.voter_index + 1]) = VoterHash(r[c.voter_index + 1])
    BY <2>1 DEF RegisteredBy
  <2>3. r[b.voter_index + 1] = r[c.voter_index + 1]
    BY <2>2 DEF VoterHash
  <2>4. \A j, k \in 1..Len(r) : r[j] = r[k] => j = k
    BY ProgramAssumption
  <2>5. Len(r) \in Nat
    BY ProgramAssumption
  <2>6. b.voter_index = c.voter_index
    BY <2>2, <2>3, <2>4, <2>5
  <2> QED BY <2>6 DEF BallotsRegistered
<1> QED BY <1>1, BallotsAreRegistered, PTL

(***************************************************************************)
(* What is counted                                                         *)
(***************************************************************************)
(* The inductive invariant behind TurnoutAgrees and TallyExact.             *)
CountsAgree ==
    account # NoAccount =>
        /\ IsFiniteSet(ballots) /\ IsFiniteSet(account.voted_bitfield)
        /\ account.total_votes = Cardinality(ballots)
        /\ account.total_votes = Cardinality(account.voted_bitfield)
        /\ \A s \in Slots(account.candidates_per_post) :
              account.vote_counts[s] = Cardinality({b \in ballots : Names(b, s)})

LEMMA FreshCounts ==
    ASSUME NEW r \in Rolls, NEW l \in Layouts, NEW w \in Windows,
           Initialize(r, l, w[1], w[2])
    PROVE  CountsAgree'
<1>1. account' = FreshAccount(r, l, w[1], w[2]) /\ ballots' = {}
  BY DEF Initialize
<1>2. /\ account'.total_votes = 0 /\ account'.voted_bitfield = {}
      /\ account'.candidates_per_post = l
      /\ account'.vote_counts = [s \in Slots(l) |-> 0]
  BY <1>1 DEF FreshAccount
<1>3. IsFiniteSet({}) /\ Cardinality({}) = 0
  BY FS_EmptySet
<1>4. ASSUME NEW s \in Slots(l)
      PROVE  account'.vote_counts[s] = Cardinality({b \in ballots' : Names(b, s)})
  <2>1. {b \in ballots' : Names(b, s)} = {}
    BY <1>1
  <2>2. account'.vote_counts[s] = 0
    BY <1>2
  <2> QED BY <1>3, <2>1, <2>2
<1> QED BY <1>1, <1>2, <1>3, <1>4 DEF CountsAgree

(* One accepted ballot: the turnout grows by it, and so does exactly the    *)
(* set of ballots behind each slot it names.                                *)
LEMMA CastCounts ==
    ASSUME ProgramTypeOK, BallotsRegistered, CountsAgree,
           NEW i \in Nat, NEW p \in Presented, NEW v \in Selections,
           CastVote(i, p.leaf, p.proof, v)
    PROVE  CountsAgree'
<1> DEFINE b == [voter_index |-> i, voter_hash |-> p.leaf, votes |-> v]
<1>1. /\ account # NoAccount /\ NotVoted(account, i) /\ ValidVotes(account, v)
      /\ account' = Counted(account, i, v)
      /\ ballots' = ballots \cup {b}
  BY DEF CastVote, Accepts
<1>2. /\ account \in ElectionState
      /\ DOMAIN account.vote_counts = Slots(account.candidates_per_post)
  BY <1>1 DEF ProgramTypeOK
<1>3. /\ account'.candidates_per_post = account.candidates_per_post
      /\ account'.total_votes = account.total_votes + 1
      /\ account'.voted_bitfield = account.voted_bitfield \cup {i}
      /\ account'.vote_counts = CountsAfter(account, v)
  BY <1>1, <1>2, CountedFields
<1>4. /\ IsFiniteSet(ballots) /\ IsFiniteSet(account.voted_bitfield)
      /\ account.total_votes = Cardinality(ballots)
      /\ account.total_votes = Cardinality(account.voted_bitfield)
      /\ \A s \in Slots(account.candidates_per_post) :
            account.vote_counts[s] = Cardinality({c \in ballots : Names(c, s)})
  BY <1>1 DEF CountsAgree
<1>5. i \notin account.voted_bitfield
  BY <1>1 DEF NotVoted
<1>6. b.voter_index = i /\ b.votes = v
  OBVIOUS
<1>7. b \notin ballots
  <2>1. i \notin {c.voter_index : c \in ballots}
    BY <1>1, <1>5 DEF BallotsRegistered
  <2> HIDE DEF b
  <2> QED BY <1>6, <2>1
<1> HIDE DEF b
<1>8. /\ IsFiniteSet(ballots') /\ Cardinality(ballots') = Cardinality(ballots) + 1
      /\ IsFiniteSet(account'.voted_bitfield)
      /\ Cardinality(account'.voted_bitfield)
            = Cardinality(account.voted_bitfield) + 1
  <2>1. /\ IsFiniteSet(ballots \cup {b})
        /\ Cardinality(ballots \cup {b}) = Cardinality(ballots) + 1
    BY <1>4, <1>7, FS_AddElement
  <2>2. /\ IsFiniteSet(account.voted_bitfield \cup {i})
        /\ Cardinality(account.voted_bitfield \cup {i})
              = Cardinality(account.voted_bitfield) + 1
    BY <1>4, <1>5, FS_AddElement
  <2> QED BY <1>1, <1>3, <2>1, <2>2
<1>9. ASSUME NEW s \in Slots(account.candidates_per_post)
      PROVE  account'.vote_counts[s] = Cardinality({c \in ballots' : Names(c, s)})
  <2> DEFINE Before == {c \in ballots : Names(c, s)}
             After == {c \in ballots' : Names(c, s)}
  <2>1. /\ account'.vote_counts[s] = account.vote_counts[s] + Occurrences(v, s)
        /\ account.vote_counts[s] = Cardinality(Before)
    BY <1>2, <1>3, <1>4 DEF CountsAfter
  <2>2. IsFiniteSet(Before) /\ Cardinality(Before) \in Nat /\ b \notin Before
    BY <1>4, <1>7, FS_Subset, FS_CardinalityType
  <2>3. Occurrences(v, s) = IF \E k \in DOMAIN v : v[k] = s THEN 1 ELSE 0
    BY <1>1, <1>2, CountedCounts
  <2>4. CASE Names(b, s)
    <3>1. After = Before \cup {b}
      BY <1>1, <2>4
    <3>2. Cardinality(After) = Cardinality(Before) + 1
      <4> HIDE DEF Before, After
      <4> QED BY <2>2, <3>1, FS_AddElement
    <3>3. Occurrences(v, s) = 1
      BY <1>6, <2>3, <2>4 DEF Names
    <3> QED BY <2>1, <3>2, <3>3
  <2>5. CASE ~Names(b, s)
    <3>1. After = Before
      BY <1>1, <2>5
    <3>2. Occurrences(v, s) = 0
      BY <1>6, <2>3, <2>5 DEF Names
    <3>3. account'.vote_counts[s] = Cardinality(Before) + 0
      BY <2>1, <3>2
    <3>4. \A x \in Nat : x + 0 = x
      OBVIOUS
    <3>5. account'.vote_counts[s] = Cardinality(Before)
      <4> HIDE DEF Before
      <4> QED BY <2>2, <3>3, <3>4
    <3> QED BY <3>1, <3>5
  <2> QED BY <2>4, <2>5
<1> QED BY <1>3, <1>4, <1>8, <1>9 DEF CountsAgree

LEMMA MoveKeepsCounts ==
    ASSUME ProgramTypeOK, BallotsRegistered, CountsAgree, ProgramMove
    PROVE  CountsAgree'
<1>2. ASSUME NEW i \in Nat, NEW p \in Presented,
             NEW v \in Selections, CastVote(i, p.leaf, p.proof, v)
      PROVE  CountsAgree'
  BY <1>2, CastCounts
<1>3. CASE FinalizeElection
  <2>1. /\ account # NoAccount /\ account \in ElectionState
        /\ ballots' = ballots
        /\ account' = [account EXCEPT !.is_finalized = TRUE]
    BY <1>3 DEF FinalizeElection, ProgramTypeOK
  <2>2. /\ account'.total_votes = account.total_votes
        /\ account'.vote_counts = account.vote_counts
        /\ account'.candidates_per_post = account.candidates_per_post
        /\ account'.voted_bitfield = account.voted_bitfield
    BY <2>1 DEF ElectionState
  <2> QED BY <2>1, <2>2 DEF CountsAgree
<1>4. CASE CloseElection
  BY <1>4 DEF CloseElection, CountsAgree
<1>5. CASE Tick
  BY <1>5 DEF Tick, CountsAgree
<1>6. CASE UNCHANGED programVars
  BY <1>6 DEF programVars, CountsAgree
<1> QED BY <1>2, <1>3, <1>4, <1>5, <1>6 DEF OpenMove, ProgramMove

LEMMA CountsInvariant == ProgramSpec => []CountsAgree
<1>1. ProgramInit => CountsAgree
  BY DEF ProgramInit, CountsAgree
<1>2. ProgramTypeOK /\ BallotsRegistered /\ CountsAgree
         /\ [ProgramNext]_programVars => CountsAgree'
  <2> SUFFICES ASSUME ProgramTypeOK, BallotsRegistered, CountsAgree,
                      [ProgramNext]_programVars
               PROVE  CountsAgree'
    OBVIOUS
  <2>1. ASSUME NEW r \in Rolls, NEW l \in Layouts, NEW w \in Windows,
               Initialize(r, l, w[1], w[2])
        PROVE  CountsAgree'
    BY <2>1, FreshCounts
  <2> QED BY <2>1, NextIsMove, MoveKeepsCounts
<1> QED BY <1>1, <1>2, ProgramTypeCorrect, BallotsAreRegistered, PTL
        DEF ProgramSpec

(***************************************************************************)
(* The account in the modules that use it                                  *)
(***************************************************************************)
(* A module that deploys the account in its initial state and changes it    *)
(* by moves of the program only, keeps all of this.                         *)
ProgramInv == ProgramTypeOK /\ BallotsRegistered /\ CountsAgree

LEMMA DeployedInv ==
    ASSUME NEW r \in Rolls, NEW l \in Layouts, NEW w \in Windows,
           account = FreshAccount(r, l, w[1], w[2]), ballots = {}, clock = 0
    PROVE  ProgramInv
<1>1. ProgramTypeOK
  BY FreshShaped, ProgramAssumption DEF ProgramTypeOK, Shaped
<1>2. /\ account.merkle_root = RootOf(r) /\ account.num_voters = Len(r)
      /\ account.total_votes = 0 /\ account.voted_bitfield = {}
      /\ account.candidates_per_post = l
      /\ account.vote_counts = [s \in Slots(l) |-> 0]
  BY DEF FreshAccount
<1>3. BallotsRegistered
  BY <1>2 DEF BallotsRegistered, RegisteredBy
<1>4. IsFiniteSet({}) /\ Cardinality({}) = 0
  BY FS_EmptySet
<1>5. ASSUME NEW s \in Slots(l)
      PROVE  account.vote_counts[s] = Cardinality({b \in ballots : Names(b, s)})
  <2>1. {b \in ballots : Names(b, s)} = {}
    OBVIOUS
  <2> QED BY <1>2, <1>4, <2>1
<1>6. CountsAgree
  BY <1>2, <1>4, <1>5 DEF CountsAgree
<1> QED BY <1>1, <1>3, <1>6 DEF ProgramInv

LEMMA MoveKeepsInv ==
    ASSUME ProgramInv, ProgramMove
    PROVE  ProgramInv'
BY MoveKeepsType, MoveKeepsRegistered, MoveKeepsCounts DEF ProgramInv

(* The account stays, and so does its layout, unless it is closed.          *)
LEMMA MoveKeepsLayout ==
    ASSUME ProgramTypeOK, OpenMove, account # NoAccount
    PROVE  /\ account' # NoAccount
           /\ account'.start_time = account.start_time
           /\ account'.end_time = account.end_time
           /\ account'.candidates_per_post = account.candidates_per_post
<1>1. account \in ElectionState
  BY DEF ProgramTypeOK
<1>3. ASSUME NEW i \in Nat, NEW p \in Presented, NEW v \in Selections,
             CastVote(i, p.leaf, p.proof, v)
      PROVE  /\ account' # NoAccount
             /\ account'.start_time = account.start_time
             /\ account'.end_time = account.end_time
             /\ account'.candidates_per_post = account.candidates_per_post
  <2>1. account' = Counted(account, i, v) /\ Shaped(account)
        /\ Registered(account, i) /\ ValidVotes(account, v)
    BY <1>3 DEF CastVote, Accepts, ProgramTypeOK, Shaped
  <2>2. Shaped(account')
    BY <2>1, CountedShaped
  <2> QED BY <1>1, <2>1, <2>2, CountedFields, NoAccountAssumption DEF Shaped
<1>4. ASSUME FinalizeElection
      PROVE  /\ account' # NoAccount
             /\ account'.start_time = account.start_time
             /\ account'.end_time = account.end_time
             /\ account'.candidates_per_post = account.candidates_per_post
  <2>1. account' = [account EXCEPT !.is_finalized = TRUE]
    BY <1>4 DEF FinalizeElection
  <2>2. account' \in ElectionState
    BY <1>1, <2>1 DEF ElectionState
  <2> QED BY <1>1, <2>1, <2>2, NoAccountAssumption DEF ElectionState
<1> QED BY <1>3, <1>4 DEF OpenMove, Tick, programVars

(* A finalised account does not change any more, except that it is closed.  *)
LEMMA FinalizedKept ==
    ASSUME ProgramTypeOK, OpenMove,
           account # NoAccount, Ended(account, clock), account.is_finalized
    PROVE  account' = account /\ Ended(account', clock')
<1>1. account \in ElectionState /\ clock \in Nat /\ account.end_time \in Int
  BY ProgramAssumption DEF ProgramTypeOK, ElectionState
<1>2. ~\E i, p, v : CastVote(i, p.leaf, p.proof, v)
  BY <1>1 DEF CastVote, Accepts, InWindow, Ended
<1>3. account' = account /\ (clock' = clock \/ clock' = clock + 1)
  BY <1>2 DEF OpenMove, FinalizeElection, Tick, programVars
<1> QED BY <1>1, <1>3 DEF Ended

(* total_votes, the bitfield and the counted ballots tell the same turnout. *)
THEOREM TurnoutCorrect == ProgramSpec => []TurnoutAgrees
<1>1. CountsAgree /\ BallotsRegistered => TurnoutAgrees
  BY DEF CountsAgree, BallotsRegistered, TurnoutAgrees
<1> QED BY <1>1, CountsInvariant, BallotsAreRegistered, PTL

(* Every counter is the number of counted ballots that name its slot.       *)
THEOREM TallyCorrect == ProgramSpec => []TallyExact
<1>1. CountsAgree => TallyExact
  BY DEF CountsAgree, TallyExact
<1> QED BY <1>1, CountsInvariant, PTL

(***************************************************************************)
(* The finalised tally                                                     *)
(***************************************************************************)
(* An account is finalised only once its window is over.                    *)
FinalizedAfterEnd ==
    account # NoAccount /\ account.is_finalized => clock > account.end_time

(* From finalize_election on the tally can only disappear with the account. *)
THEOREM FinalizedStays == ProgramSpec => FinalizedIsFinal
<1>1. ProgramInit => FinalizedAfterEnd
  BY DEF ProgramInit, FinalizedAfterEnd
<1>2. ProgramTypeOK /\ FinalizedAfterEnd /\ [ProgramNext]_programVars
         => /\ FinalizedAfterEnd'
            /\ (account # NoAccount /\ account.is_finalized
                   => account' \in {account, NoAccount})
  <2> SUFFICES ASSUME ProgramTypeOK, FinalizedAfterEnd,
                      [ProgramNext]_programVars
               PROVE  /\ FinalizedAfterEnd'
                      /\ (account # NoAccount /\ account.is_finalized
                             => account' \in {account, NoAccount})
    OBVIOUS
  <2>1. /\ clock \in Int
        /\ account # NoAccount => account \in ElectionState
    BY ProgramAssumption DEF ProgramTypeOK
  <2>2. account # NoAccount => account.end_time \in Int
    BY <2>1, ProgramAssumption DEF ElectionState
  <2>3. ASSUME NEW r \in Rolls, NEW l \in Layouts, NEW w \in Windows,
               Initialize(r, l, w[1], w[2])
        PROVE  account = NoAccount /\ FinalizedAfterEnd'
    BY <2>3 DEF Initialize, FreshAccount, FinalizedAfterEnd
  <2>4. ASSUME NEW i \in 0..MaxIndex, NEW p \in Presented,
               NEW v \in Selections, CastVote(i, p.leaf, p.proof, v)
        PROVE  ~account.is_finalized /\ FinalizedAfterEnd'
    <3>1. /\ account # NoAccount /\ account' = Counted(account, i, v)
          /\ clock <= account.end_time /\ clock' = clock
      BY <2>4 DEF CastVote, Accepts, InWindow
    <3>2. ~account.is_finalized
      BY <2>1, <2>2, <3>1 DEF FinalizedAfterEnd
    <3>3. account'.is_finalized = account.is_finalized
      BY <2>1, <3>1, CountedFields
    <3> QED BY <3>2, <3>3 DEF FinalizedAfterEnd
  <2>5. CASE FinalizeElection
    <3>1. /\ account # NoAccount /\ ~account.is_finalized
          /\ clock > account.end_time /\ clock' = clock
          /\ account' = [account EXCEPT !.is_finalized = TRUE]
      BY <2>5 DEF FinalizeElection, Ended
    <3>2. account'.end_time = account.end_time
      BY <2>1, <3>1 DEF ElectionState
    <3> QED BY <3>1, <3>2 DEF FinalizedAfterEnd
  <2>6. CASE CloseElection
    BY <2>6 DEF CloseElection, FinalizedAfterEnd
  <2>7. CASE Tick
    BY <2>1, <2>2, <2>7 DEF Tick, FinalizedAfterEnd
  <2>8. CASE UNCHANGED programVars
    BY <2>8 DEF programVars, FinalizedAfterEnd
  <2> QED BY <2>3, <2>4, <2>5, <2>6, <2>7, <2>8 DEF ProgramNext
<1>3. ProgramSpec => []FinalizedAfterEnd
  BY <1>1, <1>2, ProgramTypeCorrect, PTL DEF ProgramSpec
<1> QED BY <1>2, <1>3, ProgramTypeCorrect, PTL DEF ProgramSpec, FinalizedIsFinal
===============================================================================
