--------------------------- MODULE StandaloneProofs ----------------------------
(***************************************************************************)
(* Theorems about the modules that no other module builds on.  Of the      *)
(* result, that every report tells the same leaders and totals and what a  *)
(* comparison with the chain that matches has found there (ElectionResults); *)
(* of a ballot as it comes in, that caches, webhook and dashboards do not  *)
(* say what is not so (BallotNews); of the photos, that the clean-up spares *)
(* those that are shown (CandidateImages); of the voter tree, that the     *)
(* loops that build and climb it compute its functions and accept the      *)
(* members of the roll and nobody else (MerkleVerification).  They share   *)
(* no state; each has an inductive invariant of its own.                   *)
(***************************************************************************)
EXTENDS ElectionResults, BallotNews, CandidateImages, MerkleVerification,
        MerkleTreeProofs, FiniteSetTheorems

-------------------------------------------------------------------------------
(* THE RESULT *)

Row == [elector : Elector, nominee : Nominee, hour : 0..LastHour]

ChainVote == [elector : Elector, slot : AllSlots]

Totals == [AllSlots -> Nat]

NoChain == <<>>

Audit ==
    [pc : 0..(Len(PostOrder) + 1), chain : Totals \cup {NoChain},
     match : BOOLEAN, due : SUBSET Elector]

ResultsTyped ==
    /\ allow_abstain \in BOOLEAN
    /\ electorate \subseteq Elector
    /\ revoked \subseteq electorate
    /\ has_voted \subseteq electorate \ revoked
    /\ votes \subseteq Row /\ IsFiniteSet(votes)
    /\ \A request \in open :
          /\ request.elector \in electorate \ revoked
          /\ request.rows \subseteq Row /\ IsFiniteSet(request.rows)
    /\ \A q \in enqueued : q.elector \in Elector /\ q.ballot \subseteq Nominee
    /\ now \in 0..LastHour
    /\ counted \subseteq ChainVote /\ IsFiniteSet(counted)
    /\ early \subseteq counted
    /\ archive \in Totals \cup {NotArchived}
    /\ audit \in Audit
    /\ audits \in 0..MaxAudits

WholeBallot(rows) ==
    \A r, s \in rows :
       r.elector = s.elector /\ PostOf[r.nominee] = PostOf[s.nominee] => r = s

IsRecorded(e, ballot) ==
    \A c \in ballot : \E r \in votes : r.elector = e /\ r.nominee = c

(* A voter's rows come with the flag, one for a post; an elector has one    *)
(* open request, and that only before the flag.  What the web view has      *)
(* enqueued is recorded.                                                    *)
BallotsAreWhole ==
    /\ \A r \in votes : r.elector \in has_voted
    /\ WholeBallot(votes)
    /\ \A request \in open :
          /\ request.elector \notin has_voted
          /\ \A r \in request.rows : r.elector = request.elector
          /\ WholeBallot(request.rows)
    /\ \A q, x \in open : q.elector = x.elector => q = x
    /\ \A q \in enqueued : q.elector \in ByApi \/ IsRecorded(q.elector, q.ballot)

VotesAt(slot) == {vote \in counted : vote.slot = slot}

(* Votes of the program that were not early have their rows.  The chain has *)
(* only grown since it was archived or read.  Of a post that has matched,   *)
(* only as many votes can be missing as were early.                         *)
AuditSoFar ==
    /\ \A vote \in counted \ early : HasRow(vote)
    /\ \A vote \in early : vote.elector \in ByApi
    /\ audit.due \subseteq has_voted
    /\ archive # NotArchived =>
          \A slot \in AllSlots : archive[slot] <= Cardinality(VotesAt(slot))
    /\ ~Compared => /\ audit.chain \in Totals
                    /\ \A slot \in AllSlots :
                          audit.chain[slot] <= Cardinality(VotesAt(slot))
    /\ audit.match =>
          \A i \in 1..Len(PostOrder) : i < audit.pc =>
             \A c \in CandidatesOf(PostOrder[i]) :
                Cardinality(Missing(c)) <= Cardinality(Early(c))

ResultsInv == ResultsTyped /\ BallotsAreWhole /\ AuditSoFar

-------------------------------------------------------------------------------
(* The conversion of a candidate to the program's indices loses nothing.    *)
LEMMA SlotsDiffer ==
    ASSUME NEW c \in Nominee, NEW d \in Nominee, SlotOf[c] = SlotOf[d]
    PROVE  c = d
<1> DEFINE post(x) == CHOOSE i \in 1..Len(PostOrder) : PostOrder[i] = PostOf[x]
           before(x) == {y \in CandidatesOf(PostOf[x]) : Listed[y] < Listed[x]}
<1>1. \A x \in Nominee : SlotOf[x] = <<post(x), Cardinality(before(x))>>
  BY DEF SlotOf
<1>2. \A x \in Nominee : PostOrder[post(x)] = PostOf[x]
  BY ResultsAssumption
<1>3. post(c) = post(d) /\ Cardinality(before(c)) = Cardinality(before(d))
  <2> HIDE DEF post, before
  <2> QED BY <1>1
<1>4. PostOf[c] = PostOf[d]
  <2> HIDE DEF post
  <2> QED BY <1>2, <1>3
<1>5. ASSUME NEW x \in Nominee, NEW y \in Nominee, PostOf[x] = PostOf[y],
             Listed[x] < Listed[y]
      PROVE  Cardinality(before(x)) # Cardinality(before(y))
  <2>1. \A z \in Nominee : Listed[z] \in Nat
    BY ResultsAssumption
  <2>2. before(x) \subseteq before(y)
    BY <1>5, <2>1 DEF CandidatesOf
  <2>3. x \in before(y) /\ x \notin before(x)
    BY <1>5, <2>1 DEF CandidatesOf
  <2>4. before(y) \subseteq Nominee
    BY DEF CandidatesOf
  <2> HIDE DEF before
  <2>5. IsFiniteSet(before(y))
    BY <2>4, FS_Subset, ResultsAssumption
  <2> QED BY <2>2, <2>3, <2>5, FS_Subset
<1>6. Listed[c] = Listed[d]
  <2>1. Listed[c] \in Nat /\ Listed[d] \in Nat
    BY ResultsAssumption
  <2>2. ~(Listed[c] < Listed[d]) /\ ~(Listed[d] < Listed[c])
    <3> HIDE DEF before
    <3> QED BY <1>3, <1>4, <1>5
  <2> QED BY <2>1, <2>2
<1>7. \A x, y \in Nominee : Listed[x] = Listed[y] => x = y
  BY ResultsAssumption
<1> QED BY <1>6, <1>7

LEMMA FiniteCounts ==
    ASSUME ResultsTyped
    PROVE  /\ \A c : /\ IsFiniteSet({r \in votes : r.nominee = c})
                     /\ VoteCount(c) \in Nat
           /\ \A slot : /\ IsFiniteSet(VotesAt(slot))
                        /\ Cardinality(VotesAt(slot)) \in Nat
           /\ Len(PostOrder) \in Nat /\ LastHour \in Nat /\ MaxAudits \in Nat
           /\ \A r \in votes : /\ r.elector \in Elector /\ r.nominee \in Nominee
                               /\ r.hour \in 0..LastHour
<1>1. ASSUME NEW c
      PROVE  IsFiniteSet({r \in votes : r.nominee = c}) /\ VoteCount(c) \in Nat
  <2>1. IsFiniteSet({r \in votes : r.nominee = c})
    BY FS_Subset DEF ResultsTyped
  <2> QED BY <2>1, FS_CardinalityType DEF VoteCount
<1>2. ASSUME NEW slot
      PROVE  IsFiniteSet(VotesAt(slot)) /\ Cardinality(VotesAt(slot)) \in Nat
  <2>1. IsFiniteSet(counted) /\ VotesAt(slot) \subseteq counted
    BY DEF ResultsTyped, VotesAt
  <2> QED BY <2>1, FS_Subset, FS_CardinalityType
<1>3. Len(PostOrder) \in Nat /\ LastHour \in Nat /\ MaxAudits \in Nat
  BY ResultsAssumption
<1>4. \A r \in votes : /\ r.elector \in Elector /\ r.nominee \in Nominee
                       /\ r.hour \in 0..LastHour
  BY DEF ResultsTyped, Row
<1> QED BY <1>1, <1>2, <1>3, <1>4

LEMMA TotalsOfChain ==
    ASSUME ResultsTyped
    PROVE  /\ ChainCounts \in Totals
           /\ \A slot \in AllSlots : ChainCounts[slot] = Cardinality(VotesAt(slot))
<1>1. \A slot \in AllSlots : Cardinality({vote \in counted : vote.slot = slot}) \in Nat
  BY FiniteCounts DEF VotesAt
<1> QED BY <1>1 DEF ChainCounts, VotesAt, Totals

LEMMA FiniteEarly ==
    ASSUME ResultsTyped, NEW c
    PROVE  IsFiniteSet(Early(c)) /\ Cardinality(Early(c)) \in Nat
<1>1. IsFiniteSet(counted) /\ Early(c) \subseteq counted
  BY DEF ResultsTyped, Early
<1> QED BY <1>1, FS_Subset, FS_CardinalityType

LEMMA FiniteMissing ==
    ASSUME ResultsTyped, NEW c
    PROVE  IsFiniteSet(Missing(c)) /\ Cardinality(Missing(c)) \in Nat
<1> DEFINE of(r) == [elector |-> r.elector, slot |-> SlotOf[c]]
           all == {of(r) : r \in votes}
           f == [r \in votes |-> of(r)]
<1>1. f \in Surjection(votes, all)
  BY DEF Surjection
<1>2. IsFiniteSet(all)
  BY <1>1, FS_Surjection DEF ResultsTyped
<1>3. Missing(c) \subseteq all
  BY DEF Missing
<1> HIDE DEF all
<1> QED BY <1>2, <1>3, FS_Subset, FS_CardinalityType

(* Where a candidate has as many rows as the chain had votes, the votes not *)
(* on chain are at most as many as those without a row.                     *)
LEMMA CountsMatch ==
    ASSUME ResultsInv, NEW c \in Nominee,
           VoteCount(c) <= Cardinality(VotesAt(SlotOf[c]))
    PROVE  Cardinality(Missing(c)) <= Cardinality(Early(c))
<1> DEFINE S == {r \in votes : r.nominee = c}
           of(r) == [elector |-> r.elector, slot |-> SlotOf[c]]
           F == {of(r) : r \in S}
           E == VotesAt(SlotOf[c])
           f == [r \in S |-> of(r)]
<1>1. IsFiniteSet(S) /\ Cardinality(S) = VoteCount(c) /\ VoteCount(c) \in Nat
  BY FiniteCounts DEF ResultsInv, VoteCount
<1>2. f \in Surjection(S, F)
  BY DEF Surjection
<1>3. IsFiniteSet(F) /\ Cardinality(F) \in Nat /\ Cardinality(F) <= VoteCount(c)
  <2> HIDE DEF f, F, S
  <2> QED BY <1>1, <1>2, FS_Surjection, FS_CardinalityType
<1>4. IsFiniteSet(E) /\ Cardinality(E) \in Nat
  BY FiniteCounts DEF ResultsInv
<1>5. Missing(c) \subseteq F \ E
  <2> SUFFICES ASSUME NEW vote \in Missing(c)
               PROVE  vote \in F /\ vote \notin E
    OBVIOUS
  <2>1. /\ vote \notin counted
        /\ \E e \in audit.due : vote = [elector |-> e, slot |-> SlotOf[c]]
        /\ \E r \in votes : r.elector = vote.elector /\ r.nominee = c
    BY DEF Missing
  <2> QED BY <2>1 DEF VotesAt
<1>6. E \ F \subseteq Early(c)
  <2> SUFFICES ASSUME NEW vote \in counted, vote.slot = SlotOf[c], vote \notin early
               PROVE  vote \in F
    BY DEF VotesAt, Early, ResultsInv, AuditSoFar
  <2>1. PICK r \in votes : r.elector = vote.elector /\ SlotOf[r.nominee] = vote.slot
    BY DEF ResultsInv, AuditSoFar, HasRow
  <2>2. r.nominee = c
    BY <2>1, SlotsDiffer, FiniteCounts DEF ResultsInv
  <2>3. vote = [elector |-> vote.elector, slot |-> vote.slot]
    BY DEF ResultsInv, ResultsTyped, ChainVote
  <2> QED BY <2>1, <2>2, <2>3
<1>7. Cardinality(F \ E) = Cardinality(F) - Cardinality(F \cap E)
      /\ IsFiniteSet(F \ E)
  <2> HIDE DEF F, E
  <2> QED BY <1>3, FS_Difference
<1>8. Cardinality(E \ F) = Cardinality(E) - Cardinality(E \cap F)
      /\ IsFiniteSet(E \ F)
  <2> HIDE DEF F, E
  <2> QED BY <1>4, FS_Difference
<1>9. F \cap E = E \cap F /\ IsFiniteSet(F \cap E)
      /\ Cardinality(F \cap E) \in Nat
  <2> HIDE DEF F, E
  <2>1. F \cap E \subseteq F
    OBVIOUS
  <2> QED BY <1>3, <2>1, FS_Subset, FS_CardinalityType
<1>10. Cardinality(Missing(c)) <= Cardinality(F \ E)
  <2> HIDE DEF F, E
  <2> QED BY <1>5, <1>7, FS_Subset
<1>11. Cardinality(E \ F) <= Cardinality(Early(c))
  <2> HIDE DEF F, E
  <2> QED BY <1>6, FS_Subset, FiniteEarly DEF ResultsInv
<1>12. Cardinality(Missing(c)) \in Nat /\ Cardinality(Early(c)) \in Nat
  BY FiniteMissing, FiniteEarly DEF ResultsInv
<1>13. Cardinality(F) <= Cardinality(E)
  <2> HIDE DEF F
  <2> QED BY <1>1, <1>3, <1>4
<1>14. PICK both \in Nat : both = Cardinality(F \cap E) /\ both = Cardinality(E \cap F)
  <2> HIDE DEF F, E
  <2> QED BY <1>9
<1>15. /\ Cardinality(Missing(c)) <= Cardinality(F) - both
       /\ Cardinality(E) - both <= Cardinality(Early(c))
  <2> HIDE DEF F, E
  <2> QED BY <1>7, <1>8, <1>10, <1>11, <1>14
<1> HIDE DEF F, E
<1> QED BY <1>3, <1>4, <1>12, <1>13, <1>15

(* More ballots on chain, more rows of electors who had none: what was      *)
(* missing can only have come, and what was early remains so.               *)
LEMMA MissingShrinks ==
    ASSUME ResultsTyped, counted \subseteq counted', audit'.due = audit.due,
           audit.due \subseteq has_voted,
           \A r \in votes' : r \in votes \/ r.elector \notin has_voted,
           NEW c
    PROVE  Missing(c)' \subseteq Missing(c)
<1> SUFFICES ASSUME NEW vote \in Missing(c)'
             PROVE  vote \in Missing(c)
  OBVIOUS
<1>1. /\ vote \notin counted
      /\ \E e \in audit.due : vote = [elector |-> e, slot |-> SlotOf[c]]
      /\ \E r \in votes' : r.elector = vote.elector /\ r.nominee = c
  BY DEF Missing
<1>2. vote.elector \in audit.due
  BY <1>1
<1>3. \E r \in votes : r.elector = vote.elector /\ r.nominee = c
  BY <1>1, <1>2
<1> QED BY <1>1, <1>3 DEF Missing

(* Steps that leave the comparison alone.                                   *)
LEMMA AuditWaits ==
    ASSUME ResultsInv, ResultsTyped', audit' = audit,
           votes \subseteq votes', counted \subseteq counted', early \subseteq early',
           \A vote \in counted' \ counted : vote \in early' \/ HasRow(vote)',
           \A vote \in early' \ early : vote.elector \in ByApi,
           archive' \in {archive, ChainCounts}, has_voted \subseteq has_voted',
           \A r \in votes' : r \in votes \/ r.elector \notin has_voted
    PROVE  AuditSoFar'
<1>1. Compared' <=> Compared
  BY DEF Compared
<1>2. \A slot : Cardinality(VotesAt(slot)) <= Cardinality(VotesAt(slot)')
  <2> TAKE slot
  <2>1. VotesAt(slot) \subseteq VotesAt(slot)'
    BY DEF VotesAt
  <2>2. IsFiniteSet(VotesAt(slot)')
    <3>1. VotesAt(slot)' \subseteq counted' /\ IsFiniteSet(counted')
      BY DEF VotesAt, ResultsTyped
    <3> QED BY <3>1, FS_Subset
  <2> QED BY <2>1, <2>2, FS_Subset
<1>3. \A slot : /\ Cardinality(VotesAt(slot)) \in Nat
                /\ Cardinality(VotesAt(slot)') \in Nat
  <2> TAKE slot
  <2>1. VotesAt(slot)' \subseteq counted' /\ IsFiniteSet(counted')
    BY DEF VotesAt, ResultsTyped
  <2> QED BY <2>1, FS_Subset, FS_CardinalityType, FiniteCounts DEF ResultsInv
<1>4. /\ \A vote \in counted' \ early' : HasRow(vote)'
      /\ \A vote \in early' : vote.elector \in ByApi
  BY DEF ResultsInv, AuditSoFar, HasRow
<1>5. audit'.due \subseteq has_voted'
  BY DEF ResultsInv, AuditSoFar
<1>6. ASSUME NEW total \in Totals, NEW slot \in AllSlots,
             total[slot] <= Cardinality(VotesAt(slot))
      PROVE  total[slot] <= Cardinality(VotesAt(slot)')
  <2>1. total[slot] \in Nat
    BY <1>6 DEF Totals
  <2> QED BY <1>2, <1>3, <1>6, <2>1
<1>7. archive' # NotArchived =>
         \A slot \in AllSlots : archive'[slot] <= Cardinality(VotesAt(slot)')
  <2>1. CASE archive' = ChainCounts
    BY <1>2, <2>1, TotalsOfChain DEF ResultsInv
  <2>2. CASE archive' = archive
    <3>1. archive \in Totals \cup {NotArchived}
      BY DEF ResultsInv, ResultsTyped
    <3>2. archive # NotArchived =>
             \A slot \in AllSlots : archive[slot] <= Cardinality(VotesAt(slot))
      BY DEF ResultsInv, AuditSoFar
    <3> QED BY <1>6, <2>2, <3>1, <3>2
  <2> QED BY <2>1, <2>2
<1>8. ~Compared' => /\ audit'.chain \in Totals
                    /\ \A slot \in AllSlots :
                          audit'.chain[slot] <= Cardinality(VotesAt(slot)')
  <2>1. ~Compared => /\ audit.chain \in Totals
                     /\ \A slot \in AllSlots :
                           audit.chain[slot] <= Cardinality(VotesAt(slot))
    BY DEF ResultsInv, AuditSoFar
  <2> QED BY <1>1, <1>6, <2>1
<1>9. audit'.match =>
         \A i \in 1..Len(PostOrder) : i < audit'.pc =>
            \A c \in CandidatesOf(PostOrder[i]) :
               Cardinality(Missing(c)') <= Cardinality(Early(c)')
  <2> SUFFICES ASSUME audit.match, NEW i \in 1..Len(PostOrder), i < audit.pc,
                      NEW c \in CandidatesOf(PostOrder[i])
               PROVE  Cardinality(Missing(c)') <= Cardinality(Early(c)')
    OBVIOUS
  <2>1. Cardinality(Missing(c)) <= Cardinality(Early(c))
    BY DEF ResultsInv, AuditSoFar
  <2>2. Missing(c)' \subseteq Missing(c)
    BY MissingShrinks DEF ResultsInv, AuditSoFar
  <2>3. /\ IsFiniteSet(Missing(c)) /\ Cardinality(Missing(c)) \in Nat
        /\ Cardinality(Early(c)) \in Nat
    BY FiniteMissing, FiniteEarly DEF ResultsInv
  <2>4. Cardinality(Missing(c)') \in Nat
        /\ Cardinality(Missing(c)') <= Cardinality(Missing(c))
    BY <2>2, <2>3, FS_Subset, FS_CardinalityType
  <2>5. Cardinality(Early(c)') \in Nat /\ Cardinality(Early(c)) <= Cardinality(Early(c)')
    <3>1. Early(c)' \subseteq counted' /\ IsFiniteSet(counted')
      BY DEF Early, ResultsTyped
    <3>2. IsFiniteSet(Early(c)')
      BY <3>1, FS_Subset
    <3>3. Early(c) \subseteq Early(c)'
      BY DEF Early
    <3> QED BY <3>2, <3>3, FS_Subset, FS_CardinalityType
  <2> QED BY <2>1, <2>3, <2>4, <2>5
<1> QED BY <1>4, <1>5, <1>7, <1>8, <1>9 DEF AuditSoFar

(* The rows of a ballot as it is made.                                      *)
LEMMA RowsOfBallot ==
    ASSUME ResultsInv, NEW e \in Elector, NEW ballot \in SUBSET Nominee,
           NEW late \in SUBSET ballot, Acceptable(ballot), TimeFor(late)
    PROVE  /\ Rows(e, ballot, late) \subseteq Row
           /\ IsFiniteSet(Rows(e, ballot, late))
           /\ WholeBallot(Rows(e, ballot, late))
           /\ \A r \in Rows(e, ballot, late) : r.elector = e
           /\ now' \in 0..LastHour
<1> DEFINE row(c) == [elector |-> e, nominee |-> c,
                      hour |-> IF c \in late THEN now + 1 ELSE now]
           new == Rows(e, ballot, late)
           f == [c \in ballot |-> row(c)]
<1>1. now' \in 0..LastHour /\ \A c \in ballot : row(c) \in Row
  <2>1. /\ now \in 0..LastHour /\ LastHour \in Nat
        /\ late = {} \/ now < LastHour
        /\ now' = IF late = {} THEN now ELSE now + 1
    BY FiniteCounts DEF ResultsInv, ResultsTyped, TimeFor
  <2>2. \A c \in ballot : (IF c \in late THEN now + 1 ELSE now) \in 0..LastHour
    BY <2>1
  <2> QED BY <2>1, <2>2 DEF Row
<1>2. \A r \in new : r.nominee \in ballot /\ r = row(r.nominee)
  BY DEF Rows
<1>3. IsFiniteSet(new)
  <2>1. f \in Surjection(ballot, new)
    BY DEF Surjection, Rows
  <2>2. IsFiniteSet(ballot)
    BY FS_Subset, ResultsAssumption
  <2> QED BY <2>1, <2>2, FS_Surjection
<1>4. WholeBallot(new)
  <2> SUFFICES ASSUME NEW r \in new, NEW s \in new,
                      PostOf[r.nominee] = PostOf[s.nominee]
               PROVE  r = s
    BY DEF WholeBallot
  <2>1. r.nominee = s.nominee
    BY <1>2 DEF Acceptable
  <2> QED BY <1>2, <2>1
<1>5. new \subseteq Row
  BY <1>1, <1>2
<1>6. \A r \in new : r.elector = e
  BY DEF Rows
<1> QED BY <1>1, <1>3, <1>4, <1>5, <1>6

(* Rows come in: the ballot of an elector who had none.                     *)
LEMMA RowsAdded ==
    ASSUME ResultsInv, NEW e \in Elector, e \notin has_voted, NEW new,
           \A r \in new : r.elector = e, WholeBallot(new),
           votes' = votes \cup new, has_voted' = has_voted \cup {e}
    PROVE  /\ \A r \in votes' : r.elector \in has_voted'
           /\ WholeBallot(votes')
           /\ \A r \in votes' : r \in votes \/ r.elector \notin has_voted
           /\ \A q \in enqueued : q.elector \in ByApi \/ IsRecorded(q.elector, q.ballot)'
<1>1. \A r \in votes : r.elector \in has_voted /\ r.elector # e
  BY DEF ResultsInv, BallotsAreWhole
<1>2. WholeBallot(votes)
  BY DEF ResultsInv, BallotsAreWhole
<1>3. \A q \in enqueued : q.elector \in ByApi \/ IsRecorded(q.elector, q.ballot)'
  BY DEF ResultsInv, BallotsAreWhole, IsRecorded
<1> QED BY <1>1, <1>2, <1>3 DEF WholeBallot

LEMMA CastBallotKeeps ==
    ASSUME ResultsInv, NEW e \in Elector, CastBallot(e)
    PROVE  ResultsInv'
<1>1. PICK ballot \in SUBSET Nominee, late \in SUBSET Nominee :
         /\ late \in SUBSET ballot /\ Acceptable(ballot) /\ TimeFor(late)
         /\ votes' = votes \cup Rows(e, ballot, late)
         /\ Enqueues(e, ballot)
  BY DEF CastBallot
<1>2. /\ e \in electorate /\ e \notin has_voted /\ e \notin revoked
      /\ \A request \in open : request.elector # e
      /\ has_voted' = has_voted \cup {e}
      /\ UNCHANGED <<allow_abstain, electorate, revoked, open, counted, early, archive,
                     audit, audits>>
  BY DEF CastBallot, MayVote, setupVars, chainVars, auditVars
<1> DEFINE new == Rows(e, ballot, late)
<1>3. /\ new \subseteq Row /\ IsFiniteSet(new) /\ WholeBallot(new)
      /\ \A r \in new : r.elector = e
      /\ now' \in 0..LastHour
  BY <1>1, RowsOfBallot
<1> HIDE DEF new
<1>4. /\ \A r \in votes' : r.elector \in has_voted'
      /\ WholeBallot(votes')
      /\ \A r \in votes' : r \in votes \/ r.elector \notin has_voted
      /\ \A q \in enqueued' : q.elector \in ByApi \/ IsRecorded(q.elector, q.ballot)'
  <2>1. IsRecorded(e, ballot)'
    <3>1. \A c \in ballot : \E x \in Rows(e, ballot, late) :
             x.elector = e /\ x.nominee = c
      <4> TAKE c \in ballot
      <4> DEFINE row == [elector |-> e, nominee |-> c,
                         hour |-> IF c \in late THEN now + 1 ELSE now]
      <4>1. row \in Rows(e, ballot, late)
        BY DEF Rows
      <4>2. row.elector = e /\ row.nominee = c
        OBVIOUS
      <4> HIDE DEF row
      <4> QED BY <4>1, <4>2
    <3> QED BY <1>1, <3>1 DEF IsRecorded
  <2>2. enqueued' = enqueued \cup {[elector |-> e, ballot |-> ballot]}
    BY <1>1 DEF Enqueues
  <2>3. /\ \A r \in votes' : r.elector \in has_voted'
        /\ WholeBallot(votes')
        /\ \A r \in votes' : r \in votes \/ r.elector \notin has_voted
        /\ \A q \in enqueued : q.elector \in ByApi \/ IsRecorded(q.elector, q.ballot)'
    BY <1>1, <1>2, <1>3, RowsAdded DEF new
  <2> QED BY <2>1, <2>2, <2>3
<1>5. IsFiniteSet(votes') /\ votes' \subseteq Row /\ votes \subseteq votes'
  <2>1. votes' = votes \cup new
    BY <1>1 DEF new
  <2> QED BY <1>3, <2>1, FS_Union DEF ResultsInv, ResultsTyped
<1>6. \A q \in enqueued' : q.elector \in Elector /\ q.ballot \subseteq Nominee
  BY <1>1 DEF Enqueues, ResultsInv, ResultsTyped
<1>7. ResultsTyped'
  BY <1>2, <1>3, <1>5, <1>6 DEF ResultsInv, ResultsTyped
<1>8. BallotsAreWhole'
  BY <1>2, <1>4 DEF ResultsInv, BallotsAreWhole
<1>9. AuditSoFar'
  BY <1>2, <1>4, <1>5, <1>7, AuditWaits
<1> QED BY <1>7, <1>8, <1>9 DEF ResultsInv

LEMMA ApiCastKeeps ==
    ASSUME ResultsInv, NEW e \in Elector, ApiCast(e)
    PROVE  ResultsInv'
<1>1. PICK ballot \in SUBSET Nominee, late \in SUBSET Nominee :
         /\ late \in SUBSET ballot /\ Acceptable(ballot) /\ TimeFor(late)
         /\ open' = open \cup {[elector |-> e, rows |-> Rows(e, ballot, late)]}
         /\ Enqueues(e, ballot)
  BY DEF ApiCast
<1>2. /\ e \in ByApi /\ e \in electorate /\ e \notin has_voted /\ e \notin revoked
      /\ \A request \in open : request.elector # e
      /\ UNCHANGED <<allow_abstain, electorate, revoked, has_voted, votes, counted, early,
                     archive, audit, audits>>
  BY DEF ApiCast, MayVote, setupVars, chainVars, auditVars
<1> DEFINE new == Rows(e, ballot, late)
           request == [elector |-> e, rows |-> new]
<1>3. /\ new \subseteq Row /\ IsFiniteSet(new) /\ WholeBallot(new)
      /\ \A r \in new : r.elector = e
      /\ now' \in 0..LastHour
  BY <1>1, RowsOfBallot
<1>4. open' = open \cup {request}
  BY <1>1
<1> HIDE DEF new
<1>5. \A q \in enqueued' : q.elector \in Elector /\ q.ballot \subseteq Nominee
  BY <1>1 DEF Enqueues, ResultsInv, ResultsTyped
<1>6. ResultsTyped'
  <2>1. \A q \in open' : /\ q.elector \in electorate' \ revoked'
                         /\ q.rows \subseteq Row /\ IsFiniteSet(q.rows)
    BY <1>2, <1>3, <1>4 DEF ResultsInv, ResultsTyped
  <2> QED BY <1>2, <1>3, <1>5, <2>1 DEF ResultsInv, ResultsTyped
<1>7. BallotsAreWhole'
  <2>1. \A q \in open' : /\ q.elector \notin has_voted
                         /\ \A r \in q.rows : r.elector = q.elector
                         /\ WholeBallot(q.rows)
    BY <1>2, <1>3, <1>4 DEF ResultsInv, BallotsAreWhole
  <2>2. \A q, x \in open' : q.elector = x.elector => q = x
    BY <1>2, <1>4 DEF ResultsInv, BallotsAreWhole
  <2>3. \A q \in enqueued' : q.elector \in ByApi \/ IsRecorded(q.elector, q.ballot)'
    BY <1>1, <1>2 DEF Enqueues, IsRecorded, ResultsInv, BallotsAreWhole
  <2> QED BY <1>2, <2>1, <2>2, <2>3 DEF ResultsInv, BallotsAreWhole
<1>8. AuditSoFar'
  BY <1>2, <1>6, AuditWaits
<1> QED BY <1>6, <1>7, <1>8 DEF ResultsInv

LEMMA ApiCommitKeeps ==
    ASSUME ResultsInv, NEW request \in open, ApiCommit(request)
    PROVE  ResultsInv'
<1> DEFINE e == request.elector
<1>1. /\ votes' = votes \cup request.rows
      /\ has_voted' = has_voted \cup {e}
      /\ open' = open \ {request}
      /\ UNCHANGED <<allow_abstain, electorate, revoked, enqueued, now, counted, early,
                     archive, audit, audits>>
  BY DEF ApiCommit, setupVars, chainVars, auditVars
<1>2. /\ e \in electorate /\ e \notin revoked /\ e \in Elector /\ e \notin has_voted
      /\ request.rows \subseteq Row /\ IsFiniteSet(request.rows)
      /\ \A r \in request.rows : r.elector = e
      /\ WholeBallot(request.rows)
  BY DEF ResultsInv, ResultsTyped, BallotsAreWhole
<1>3. \A q \in open' : q.elector # e
  BY <1>1 DEF ResultsInv, BallotsAreWhole, IsRecorded
<1> HIDE DEF e
<1>4. /\ \A r \in votes' : r.elector \in has_voted'
      /\ WholeBallot(votes')
      /\ \A r \in votes' : r \in votes \/ r.elector \notin has_voted
      /\ \A q \in enqueued : q.elector \in ByApi \/ IsRecorded(q.elector, q.ballot)'
  BY <1>1, <1>2, RowsAdded
<1>5. IsFiniteSet(votes') /\ votes' \subseteq Row /\ votes \subseteq votes'
  BY <1>1, <1>2, FS_Union DEF ResultsInv, ResultsTyped
<1>6. ResultsTyped'
  BY <1>1, <1>2, <1>5 DEF ResultsInv, ResultsTyped
<1>7. BallotsAreWhole'
  BY <1>1, <1>3, <1>4 DEF ResultsInv, BallotsAreWhole
<1>8. AuditSoFar'
  BY <1>1, <1>4, <1>5, <1>6, AuditWaits
<1> QED BY <1>6, <1>7, <1>8 DEF ResultsInv

LEMMA ApiRollbackKeeps ==
    ASSUME ResultsInv, NEW request \in open, ApiRollback(request)
    PROVE  ResultsInv'
<1>1. /\ open' \subseteq open
      /\ UNCHANGED <<allow_abstain, electorate, revoked, has_voted, votes, enqueued, now,
                     counted, early, archive, audit, audits>>
  BY DEF ApiRollback, setupVars, chainVars, auditVars
<1>2. ResultsTyped'
  BY <1>1 DEF ResultsInv, ResultsTyped
<1>3. BallotsAreWhole'
  BY <1>1 DEF ResultsInv, BallotsAreWhole, IsRecorded
<1>4. AuditSoFar'
  BY <1>1, <1>2, AuditWaits
<1> QED BY <1>2, <1>3, <1>4 DEF ResultsInv

LEMMA HourTurnsKeeps ==
    ASSUME ResultsInv, HourTurns
    PROVE  ResultsInv'
<1>1. /\ now < LastHour /\ now' = now + 1
      /\ UNCHANGED <<allow_abstain, electorate, revoked, has_voted, votes, open, enqueued,
                     counted, early, archive, audit, audits>>
  BY DEF HourTurns, setupVars, rowVars, chainVars, auditVars
<1>2. ResultsTyped'
  <2>1. now' \in 0..LastHour
    BY <1>1, FiniteCounts DEF ResultsInv, ResultsTyped
  <2> QED BY <1>1, <2>1 DEF ResultsInv, ResultsTyped
<1>3. BallotsAreWhole'
  BY <1>1 DEF ResultsInv, BallotsAreWhole, IsRecorded
<1>4. AuditSoFar'
  BY <1>1, <1>2, AuditWaits
<1> QED BY <1>2, <1>3, <1>4 DEF ResultsInv

LEMMA CountOnChainKeeps ==
    ASSUME ResultsInv, NEW q \in enqueued, CountOnChain(q)
    PROVE  ResultsInv'
<1> DEFINE new == VotesOn(q.ballot, q.elector)
<1>1. /\ counted' = counted \cup new
      /\ early' = early \cup {vote \in new : ~HasRow(vote)}
      /\ UNCHANGED <<allow_abstain, electorate, revoked, has_voted, votes, open, enqueued,
                     now, archive, audit, audits>>
  BY DEF CountOnChain, setupVars, rowVars, auditVars
<1>2. q.elector \in Elector /\ q.ballot \subseteq Nominee
  BY DEF ResultsInv, ResultsTyped
<1>3. IsFiniteSet(new) /\ new \subseteq ChainVote
  <2> DEFINE f == [c \in q.ballot |-> [elector |-> q.elector, slot |-> SlotOf[c]]]
  <2>1. f \in Surjection(q.ballot, new)
    BY DEF Surjection, VotesOn
  <2>2. IsFiniteSet(q.ballot)
    BY <1>2, FS_Subset, ResultsAssumption
  <2>3. IsFiniteSet(new)
    BY <2>1, <2>2, FS_Surjection
  <2>4. new \subseteq ChainVote
    BY <1>2 DEF VotesOn, ChainVote, AllSlots
  <2> QED BY <2>3, <2>4
<1> HIDE DEF new
<1>4. ResultsTyped'
  <2>1. IsFiniteSet(counted') /\ counted' \subseteq ChainVote /\ early' \subseteq counted'
    BY <1>1, <1>3, FS_Union DEF ResultsInv, ResultsTyped
  <2> QED BY <1>1, <2>1 DEF ResultsInv, ResultsTyped
<1>5. BallotsAreWhole'
  BY <1>1 DEF ResultsInv, BallotsAreWhole, IsRecorded
<1>6. AuditSoFar'
  <2>1. \A vote \in counted' \ counted : vote \in early' \/ HasRow(vote)'
    BY <1>1 DEF HasRow
  <2>2. ASSUME NEW vote \in new, ~HasRow(vote)
        PROVE  vote.elector \in ByApi
    <3>1. PICK c \in q.ballot : vote = [elector |-> q.elector, slot |-> SlotOf[c]]
      BY DEF new, VotesOn
    <3>2. q.elector \in ByApi \/ IsRecorded(q.elector, q.ballot)
      BY DEF ResultsInv, BallotsAreWhole
    <3> QED BY <2>2, <3>1, <3>2 DEF IsRecorded, HasRow
  <2>3. \A vote \in early' \ early : vote.elector \in ByApi
    BY <1>1, <2>2
  <2> QED BY <1>1, <1>4, <2>1, <2>3, AuditWaits
<1> QED BY <1>4, <1>5, <1>6 DEF ResultsInv

LEMMA ArchiveCountsKeeps ==
    ASSUME ResultsInv, ArchiveCounts
    PROVE  ResultsInv'
<1>1. /\ archive' = ChainCounts
      /\ UNCHANGED <<allow_abstain, electorate, revoked, has_voted, votes, open, enqueued,
                     now, counted, early, audit, audits>>
  BY DEF ArchiveCounts, setupVars, rowVars, auditVars
<1>2. ResultsTyped'
  <2>1. archive' \in Totals
    BY <1>1, TotalsOfChain DEF ResultsInv
  <2> QED BY <1>1, <2>1 DEF ResultsInv, ResultsTyped
<1>3. BallotsAreWhole'
  BY <1>1 DEF ResultsInv, BallotsAreWhole, IsRecorded
<1>4. AuditSoFar'
  BY <1>1, <1>2, AuditWaits
<1> QED BY <1>2, <1>3, <1>4 DEF ResultsInv

LEMMA ReadChainKeeps ==
    ASSUME ResultsInv, ReadChain
    PROVE  ResultsInv'
<1>1. UNCHANGED <<allow_abstain, electorate, revoked, has_voted, votes, open, enqueued,
                  now, counted, early, archive>>
  BY DEF ReadChain, setupVars, rowVars, chainVars
<1>2. PICK chain \in Totals :
         /\ \A slot \in AllSlots : chain[slot] <= Cardinality(VotesAt(slot))
         /\ audit' = [pc |-> 1, match |-> TRUE, due |-> has_voted, chain |-> chain]
  <2> DEFINE chain == IF archive # NotArchived THEN archive ELSE ChainCounts
  <2>1. chain \in Totals
    BY TotalsOfChain DEF ResultsInv, ResultsTyped
  <2>2. ASSUME NEW slot \in AllSlots
        PROVE  chain[slot] <= Cardinality(VotesAt(slot))
    <3>1. CASE archive = NotArchived
      <4>1. chain[slot] = Cardinality(VotesAt(slot))
            /\ Cardinality(VotesAt(slot)) \in Nat
        BY <3>1, TotalsOfChain, FiniteCounts DEF ResultsInv
      <4> QED BY <4>1
    <3>2. CASE archive # NotArchived
      BY <3>2 DEF ResultsInv, AuditSoFar
    <3> QED BY <3>1, <3>2
  <2>3. audit' = [pc |-> 1, match |-> TRUE, due |-> has_voted, chain |-> chain]
    BY DEF ReadChain
  <2> QED BY <2>1, <2>2, <2>3
<1>3. ResultsTyped'
  <2>1. audit' \in Audit
    <3>1. 1 \in 0..(Len(PostOrder) + 1) /\ has_voted \subseteq Elector
      BY FiniteCounts DEF ResultsInv, ResultsTyped
    <3> QED BY <1>2, <3>1 DEF Audit
  <2>2. audits' \in 0..MaxAudits
    BY FiniteCounts DEF ReadChain, ResultsInv, ResultsTyped
  <2> QED BY <1>1, <2>1, <2>2 DEF ResultsInv, ResultsTyped
<1>4. BallotsAreWhole'
  BY <1>1 DEF ResultsInv, BallotsAreWhole, IsRecorded
<1>5. AuditSoFar'
  <2>1. \A slot : VotesAt(slot)' = VotesAt(slot)
    BY <1>1 DEF VotesAt
  <2>2. /\ audit'.chain \in Totals
        /\ \A slot \in AllSlots : audit'.chain[slot] <= Cardinality(VotesAt(slot)')
    BY <1>2, <2>1
  <2>3. archive' # NotArchived =>
           \A slot \in AllSlots : archive'[slot] <= Cardinality(VotesAt(slot)')
    BY <1>1, <2>1 DEF ResultsInv, AuditSoFar
  <2>4. audit'.due \subseteq has_voted'
    BY <1>1, <1>2
  <2>5. \A i \in 1..Len(PostOrder) : ~(i < audit'.pc)
    BY <1>2, FiniteCounts DEF ResultsInv
  <2>6. /\ \A vote \in counted' \ early' : HasRow(vote)'
        /\ \A vote \in early' : vote.elector \in ByApi
    BY <1>1 DEF ResultsInv, AuditSoFar, HasRow
  <2> QED BY <2>2, <2>3, <2>4, <2>5, <2>6 DEF AuditSoFar
<1> QED BY <1>3, <1>4, <1>5 DEF ResultsInv

LEMMA ComparisonFailsKeeps ==
    ASSUME ResultsInv, ComparisonFails
    PROVE  ResultsInv'
<1>1. UNCHANGED <<allow_abstain, electorate, revoked, has_voted, votes, open, enqueued,
                  now, counted, early, archive, audits>>
  BY DEF ComparisonFails, setupVars, rowVars, chainVars
<1>2. /\ audit' \in Audit /\ ~audit'.match /\ audit'.pc = Len(PostOrder) + 1
      /\ audit'.due = audit.due
  <2>1. audit' = [audit EXCEPT !.pc = Len(PostOrder) + 1, !.match = FALSE,
                               !.chain = NoChain]
    BY DEF ComparisonFails, NoChain
  <2>2. audit \in Audit /\ Len(PostOrder) \in Nat
    BY ResultsAssumption DEF ResultsInv, ResultsTyped
  <2>3. Len(PostOrder) + 1 \in 0..(Len(PostOrder) + 1)
    BY <2>2
  <2>4. audit' \in Audit
    BY <2>1, <2>2, <2>3 DEF Audit
  <2> QED BY <2>1, <2>2, <2>4 DEF Audit
<1>3. ResultsTyped'
  BY <1>1, <1>2 DEF ResultsInv, ResultsTyped
<1>4. BallotsAreWhole'
  BY <1>1 DEF ResultsInv, BallotsAreWhole, IsRecorded
<1>5. AuditSoFar'
  <2>1. Compared'
    BY <1>2, FiniteCounts DEF ResultsInv, Compared
  <2>2. \A slot : VotesAt(slot)' = VotesAt(slot)
    BY <1>1 DEF VotesAt
  <2>3. /\ \A vote \in counted' \ early' : HasRow(vote)'
        /\ \A vote \in early' : vote.elector \in ByApi
    BY <1>1 DEF ResultsInv, AuditSoFar, HasRow
  <2> QED BY <1>1, <1>2, <2>1, <2>2, <2>3 DEF AuditSoFar, ResultsInv
<1> QED BY <1>3, <1>4, <1>5 DEF ResultsInv

LEMMA ComparePostKeeps ==
    ASSUME ResultsInv, ComparePost
    PROVE  ResultsInv'
<1> DEFINE p == PostOrder[audit.pc]
<1>1. UNCHANGED <<allow_abstain, electorate, revoked, has_voted, votes, open, enqueued,
                  now, counted, early, archive, audits>>
  BY DEF ComparePost, setupVars, rowVars, chainVars
<1>2. /\ ~Compared /\ audit.pc \in 1..Len(PostOrder)
      /\ audit.chain \in Totals
      /\ \A slot \in AllSlots : audit.chain[slot] <= Cardinality(VotesAt(slot))
  BY DEF ComparePost, Compared, ResultsInv, AuditSoFar
<1>3. /\ audit' \in Audit /\ audit'.match = AllMatch(p) /\ audit'.pc = audit.pc + 1
      /\ audit'.due = audit.due
      /\ audit'.pc \in 1..Len(PostOrder) => audit'.chain = audit.chain
  <2>1. AllMatch(p) \in BOOLEAN
    BY DEF AllMatch, ResultsInv, ResultsTyped, Audit
  <2>2. audit' = [audit EXCEPT
           !.match = AllMatch(p), !.pc = @ + 1,
           !.chain = IF audit.pc = Len(PostOrder) THEN NoChain ELSE @]
    BY DEF ComparePost, NoChain
  <2>3. audit \in Audit /\ Len(PostOrder) \in Nat
    BY ResultsAssumption DEF ResultsInv, ResultsTyped
  <2>4. PICK m \in BOOLEAN : m = AllMatch(p)
    BY <2>1
  <2>5. PICK chain \in Totals \cup {NoChain} :
           chain = IF audit.pc = Len(PostOrder) THEN NoChain ELSE audit.chain
    BY <1>2
  <2>6. audit' = [audit EXCEPT !.pc = audit.pc + 1, !.match = m, !.chain = chain]
    BY <2>2, <2>4, <2>5
  <2>7. audit.pc + 1 \in 0..(Len(PostOrder) + 1)
    BY <1>2, <2>3
  <2>8. /\ audit' \in Audit /\ audit'.match = m /\ audit'.pc = audit.pc + 1
        /\ audit'.due = audit.due /\ audit'.chain = chain
    <3>1. audit' \in Audit
      BY <2>3, <2>5, <2>6, <2>7 DEF Audit
    <3>2. audit'.match = m
      BY <2>3, <2>6 DEF Audit
    <3>3. audit'.pc = audit.pc + 1 /\ audit'.due = audit.due /\ audit'.chain = chain
      BY <2>3, <2>6 DEF Audit
    <3> QED BY <3>1, <3>2, <3>3
  <2>9. audit'.pc \in 1..Len(PostOrder) => audit'.chain = audit.chain
    BY <1>2, <2>3, <2>5, <2>8
  <2> QED BY <2>4, <2>8, <2>9
<1>4. ResultsTyped'
  BY <1>1, <1>3 DEF ResultsInv, ResultsTyped
<1>5. BallotsAreWhole'
  BY <1>1 DEF ResultsInv, BallotsAreWhole, IsRecorded
<1>6. ASSUME AllMatch(p), NEW c \in CandidatesOf(p)
      PROVE  Cardinality(Missing(c)) <= Cardinality(Early(c))
  <2>1. c \in Nominee /\ SlotOf[c] \in AllSlots
    BY DEF CandidatesOf, AllSlots
  <2>2. VoteCount(c) = audit.chain[SlotOf[c]]
    BY <1>6 DEF AllMatch, PostMatches
  <2> QED BY <1>2, <2>1, <2>2, CountsMatch
<1>7. AuditSoFar'
  <2>1. \A c : Missing(c)' = Missing(c) /\ Early(c)' = Early(c)
    BY <1>1, <1>3 DEF Missing, Early
  <2>2. audit'.match =>
           \A i \in 1..Len(PostOrder) : i < audit'.pc =>
              \A c \in CandidatesOf(PostOrder[i]) :
                 Cardinality(Missing(c)) <= Cardinality(Early(c))
    <3> SUFFICES ASSUME AllMatch(p), NEW i \in 1..Len(PostOrder), i < audit.pc + 1,
                        NEW c \in CandidatesOf(PostOrder[i])
                 PROVE  Cardinality(Missing(c)) <= Cardinality(Early(c))
      BY <1>3
    <3>1. CASE i = audit.pc
      BY <1>6, <3>1
    <3>2. CASE i # audit.pc
      <4>1. i < audit.pc
        BY <1>2, <3>2, FiniteCounts DEF ResultsInv
      <4>2. audit.match
        BY DEF AllMatch
      <4> QED BY <4>1, <4>2 DEF ResultsInv, AuditSoFar
    <3> QED BY <3>1, <3>2
  <2>3. \A slot : VotesAt(slot)' = VotesAt(slot)
    BY <1>1 DEF VotesAt
  <2>4. ~Compared' => /\ audit'.chain \in Totals
                      /\ \A slot \in AllSlots :
                            audit'.chain[slot] <= Cardinality(VotesAt(slot)')
    BY <1>2, <1>3, <2>3 DEF Compared
  <2>5. audit'.match =>
           \A i \in 1..Len(PostOrder) : i < audit'.pc =>
              \A c \in CandidatesOf(PostOrder[i]) :
                 Cardinality(Missing(c)') <= Cardinality(Early(c)')
    BY <2>1, <2>2
  <2>6. /\ \A vote \in counted' \ early' : HasRow(vote)'
        /\ \A vote \in early' : vote.elector \in ByApi
    BY <1>1 DEF ResultsInv, AuditSoFar, HasRow
  <2>7. /\ audit'.due \subseteq has_voted'
        /\ archive' # NotArchived =>
              \A slot \in AllSlots : archive'[slot] <= Cardinality(VotesAt(slot)')
    BY <1>1, <1>3, <2>3 DEF AuditSoFar, ResultsInv
  <2> QED BY <2>4, <2>5, <2>6, <2>7 DEF AuditSoFar
<1> QED BY <1>4, <1>5, <1>7 DEF ResultsInv

LEMMA ResultsInitInv ==
    ASSUME ResultsInit
    PROVE  ResultsInv
<1>1. ResultsTyped
  <2>1. /\ IsFiniteSet({}) /\ votes = {} /\ open = {} /\ enqueued = {} /\ counted = {}
        /\ early = {} /\ archive = NotArchived
    BY FS_EmptySet DEF ResultsInit
  <2>2. audit \in Audit
    <3>1. audit = [pc |-> 0, chain |-> NoChain, match |-> FALSE, due |-> {}]
      BY DEF ResultsInit, NoChain
    <3> QED BY <3>1, ResultsAssumption DEF Audit
  <2> QED BY <2>1, <2>2, ResultsAssumption DEF ResultsInit, ResultsTyped
<1> QED BY <1>1 DEF ResultsInit, ResultsInv, BallotsAreWhole, WholeBallot, AuditSoFar,
                    Compared

(* The inductive invariant of the count: ballots are whole, a vote the      *)
(* program counted either has its row or came before its commit, and what   *)
(* was archived or read of the chain is not more than is there.             *)
THEOREM ResultsInvariant == ResultsSpec => []ResultsInv
<1>1. ASSUME ResultsInv, [ResultsNext]_resultsVars
      PROVE  ResultsInv'
  <2>1. CASE UNCHANGED resultsVars
    <3>1. UNCHANGED <<allow_abstain, electorate, revoked, has_voted, votes, open, enqueued,
                      now, counted, early, archive, audit, audits>>
      BY <2>1 DEF resultsVars, setupVars, rowVars, chainVars, auditVars
    <3>2. ResultsTyped' /\ BallotsAreWhole'
      BY <1>1, <3>1 DEF ResultsInv, ResultsTyped, BallotsAreWhole, IsRecorded
    <3> QED BY <1>1, <3>1, <3>2, AuditWaits DEF ResultsInv
  <2>2. CASE \E e \in Elector : CastBallot(e) \/ ApiCast(e)
    BY <1>1, <2>2, CastBallotKeeps, ApiCastKeeps
  <2>3. CASE \E request \in open : ApiCommit(request) \/ ApiRollback(request)
    BY <1>1, <2>3, ApiCommitKeeps, ApiRollbackKeeps
  <2>4. CASE \E q \in enqueued : CountOnChain(q)
    BY <1>1, <2>4, CountOnChainKeeps
  <2> QED BY <1>1, <2>1, <2>2, <2>3, <2>4, HourTurnsKeeps, ArchiveCountsKeeps,
             ReadChainKeeps, ComparePostKeeps, ComparisonFailsKeeps DEF ResultsNext
<1> QED BY <1>1, ResultsInitInv, PTL DEF ResultsSpec

(* Of a comparison that reports a match after its last query, however many  *)
(* ballots were recorded, counted and archived meanwhile: the votes that    *)
(* were recorded when it began and are not on chain are no more than those  *)
(* on chain that were counted before, or without, their commit              *)
(* (compare_db_and_chain, get_on_chain_vote_counts, VoteCastView).          *)
THEOREM MatchIsCounted == ResultsSpec => []MatchMeansCounted
<1>1. ASSUME ResultsInv
      PROVE  MatchMeansCounted
  <2> SUFFICES ASSUME audit.pc > Len(PostOrder), audit.match, NEW c \in Nominee
               PROVE  Cardinality(Missing(c)) <= Cardinality(Early(c))
    BY DEF MatchMeansCounted
  <2>1. PICK i \in 1..Len(PostOrder) : c \in CandidatesOf(PostOrder[i])
    BY ResultsAssumption DEF CandidatesOf
  <2>2. i < audit.pc
    BY <1>1, FiniteCounts DEF ResultsInv, ResultsTyped, Audit
  <2> QED BY <1>1, <2>1, <2>2 DEF ResultsInv, AuditSoFar
<1> QED BY <1>1, ResultsInvariant, PTL

-------------------------------------------------------------------------------
(* Lists of a finite set in a strict order, given as a set of pairs *)

StrictOrder(R, S) ==
    /\ \A x \in S : <<x, x>> \notin R
    /\ \A x, y \in S : x = y \/ <<x, y>> \in R \/ <<y, x>> \in R
    /\ \A x, y, z \in S : <<x, y>> \in R /\ <<y, z>> \in R => <<x, z>> \in R

Sorted(s, R) == \A i, j \in DOMAIN s : i < j => <<s[i], s[j]>> \in R

(* A finite set can be listed in any strict order: the place of an element  *)
(* is the number of those before it, and one.                               *)
LEMMA Enumeration ==
    ASSUME NEW S, IsFiniteSet(S), NEW R, StrictOrder(R, S)
    PROVE  \E s \in [1..Cardinality(S) -> S] : Sorted(s, R)
<1> DEFINE n == Cardinality(S)
           Before(c) == {d \in S : <<d, c>> \in R}
           place == [c \in S |-> 1 + Cardinality(Before(c))]
<1>1. n \in Nat
  BY FS_CardinalityType
<1>2. ASSUME NEW c \in S
      PROVE  IsFiniteSet(Before(c)) /\ Cardinality(Before(c)) \in 0..(n - 1)
  <2>1. IsFiniteSet(S \ {c}) /\ Cardinality(S \ {c}) = n - 1
    BY FS_RemoveElement
  <2>2. Before(c) \subseteq S \ {c}
    BY DEF StrictOrder
  <2>3. IsFiniteSet(Before(c)) /\ Cardinality(Before(c)) <= n - 1
    <3> HIDE DEF Before, n
    <3> QED BY <2>1, <2>2, FS_Subset
  <2>4. Cardinality(Before(c)) \in Nat
    BY <2>3, FS_CardinalityType
  <2> HIDE DEF n, Before
  <2> QED BY <1>1, <2>3, <2>4
<1>3. \A c \in S : place[c] = 1 + Cardinality(Before(c))
  OBVIOUS
<1>4. \A c \in S : place[c] \in 1..n
  <2> HIDE DEF n, Before, place
  <2> QED BY <1>1, <1>2, <1>3
<1>5. ASSUME NEW c \in S, NEW d \in S, <<c, d>> \in R
      PROVE  place[c] < place[d]
  <2>1. Before(c) \cup {c} \subseteq Before(d) /\ c \notin Before(c)
    BY <1>5 DEF StrictOrder
  <2>2. Cardinality(Before(c) \cup {c}) = Cardinality(Before(c)) + 1
    BY <1>2, <2>1, FS_AddElement
  <2>3. Cardinality(Before(c) \cup {c}) <= Cardinality(Before(d))
    BY <1>2, <2>1, FS_Subset
  <2> HIDE DEF n, Before, place
  <2> QED BY <1>1, <1>2, <1>3, <2>2, <2>3
<1>6. place \in Injection(S, 1..n)
  <2>1. place \in [S -> 1..n]
    BY <1>4
  <2>2. \A c, d \in S : place[c] = place[d] => c = d
    <3> SUFFICES ASSUME NEW c \in S, NEW d \in S, c # d
                 PROVE  place[c] # place[d]
      OBVIOUS
    <3>1. <<c, d>> \in R \/ <<d, c>> \in R
      BY DEF StrictOrder
    <3>2. place[c] < place[d] \/ place[d] < place[c]
      BY <3>1, <1>5
    <3>3. place[c] \in 1..n /\ place[d] \in 1..n
      BY <1>4
    <3> HIDE DEF n, Before, place
    <3> QED BY <1>1, <3>2, <3>3
  <2> HIDE DEF place, n
  <2> QED BY <2>1, <2>2 DEF Injection, IsInjective
<1>7. place \in Surjection(S, 1..n)
  <2>1. IsFiniteSet(1..n) /\ Cardinality(1..n) = n
    <3> HIDE DEF n
    <3>1. 1 \in Int /\ n \in Int
      BY <1>1
    <3>2. IsFiniteSet(1..n) /\ Cardinality(1..n) = IF 1 > n THEN 0 ELSE n - 1 + 1
      BY <3>1, FS_Interval
    <3> QED BY <1>1, <3>2
  <2> QED BY <1>6, <2>1, FS_Injection
<1> DEFINE s == [i \in 1..n |-> CHOOSE c \in S : place[c] = i]
<1>8. \A i \in 1..n : s[i] \in S /\ place[s[i]] = i
  <2>1. \A i \in 1..n : \E c \in S : place[c] = i
    <3> HIDE DEF place, n
    <3> QED BY <1>7 DEF Surjection
  <2> HIDE DEF place, n
  <2> QED BY <2>1
<1>9. ASSUME NEW i \in 1..n, NEW j \in 1..n, i < j
      PROVE  <<s[i], s[j]>> \in R
  <2> HIDE DEF place, s
  <2>1. s[i] # s[j]
    BY <1>8, <1>9
  <2>2. <<s[j], s[i]>> \notin R
    <3>1. i \in Int /\ j \in Int
      BY <1>1
    <3> QED BY <3>1, <1>5, <1>8, <1>9
  <2> QED BY <1>8, <2>1, <2>2 DEF StrictOrder
<1>10. s \in [1..n -> S]
  BY <1>8
<1>11. DOMAIN s = 1..n
  OBVIOUS
<1> HIDE DEF s
<1>12. Sorted(s, R)
  BY <1>9, <1>11 DEF Sorted
<1> QED BY <1>10, <1>12

(* Such a list has every element, once.                                     *)
LEMMA SortedLists ==
    ASSUME NEW S, IsFiniteSet(S), NEW R, StrictOrder(R, S),
           NEW s \in [1..Cardinality(S) -> S], Sorted(s, R)
    PROVE  /\ Cardinality(S) \in Nat
           /\ \A i, j \in 1..Cardinality(S) : s[i] = s[j] => i = j
           /\ \A c \in S : \E i \in 1..Cardinality(S) : s[i] = c
<1> DEFINE n == Cardinality(S)
<1>1. n \in Nat
  BY FS_CardinalityType
<1>2. ASSUME NEW i \in 1..n, NEW j \in 1..n, s[i] = s[j]
      PROVE  i = j
  <2> HIDE DEF n
  <2>1. i \in Int /\ j \in Int
    BY <1>1
  <2>2. <<s[i], s[j]>> \notin R /\ <<s[j], s[i]>> \notin R
    BY <1>2 DEF StrictOrder, n
  <2>3. ~(i < j) /\ ~(j < i)
    BY <2>2 DEF Sorted, n
  <2> QED BY <2>1, <2>3
<1>3. s \in Injection(1..n, S)
  BY <1>2 DEF Injection, IsInjective
<1>4. Cardinality(1..n) = n
  <2> HIDE DEF n
  <2>1. 1 \in Int /\ n \in Int
    BY <1>1
  <2>2. Cardinality(1..n) = IF 1 > n THEN 0 ELSE n - 1 + 1
    BY <2>1, FS_Interval
  <2> QED BY <1>1, <2>2
<1>5. s \in Surjection(1..n, S)
  BY <1>3, <1>4, FS_Injection
<1> QED BY <1>1, <1>2, <1>5 DEF Surjection

(* Their least is the first of the list.                                    *)
LEMMA Least ==
    ASSUME NEW T, T \subseteq Nat, IsFiniteSet(T), T # {}
    PROVE  \E m \in T : \A k \in T : m <= k
<1> DEFINE R == {q \in T \X T : q[1] < q[2]}
<1>1. \A x, y \in T : <<x, y>> \in R <=> x < y
  OBVIOUS
<1>2. StrictOrder(R, T)
  <2> HIDE DEF R
  <2>1. T \subseteq Int
    OBVIOUS
  <2> QED BY <1>1, <2>1 DEF StrictOrder
<1> HIDE DEF R
<1>3. PICK s \in [1..Cardinality(T) -> T] : Sorted(s, R)
  BY <1>2, Enumeration
<1>4. /\ Cardinality(T) \in Nat
      /\ \A c \in T : \E i \in 1..Cardinality(T) : s[i] = c
  BY <1>2, <1>3, SortedLists
<1>5. Cardinality(T) >= 1
  <2>1. Cardinality(T) # 0
    BY FS_EmptySet
  <2> QED BY <1>4, <2>1
<1>6. s[1] \in T
  BY <1>4, <1>5
<1>7. ASSUME NEW k \in T
      PROVE  s[1] <= k
  <2>1. PICK i \in 1..Cardinality(T) : s[i] = k
    BY <1>4
  <2>2. CASE i = 1
    BY <1>6, <2>1, <2>2
  <2>3. CASE i # 1
    <3>1. 1 < i /\ 1 \in DOMAIN s /\ i \in DOMAIN s
      BY <1>4, <1>5, <2>1, <2>3
    <3>2. <<s[1], s[i]>> \in R
      BY <1>3, <3>1 DEF Sorted
    <3>3. s[1] < k
      BY <1>1, <1>6, <2>1, <3>2
    <3>4. s[1] \in Nat /\ k \in Nat
      BY <1>6
    <3> QED BY <3>3, <3>4
  <2> QED BY <2>2, <2>3
<1> QED BY <1>6, <1>7

-------------------------------------------------------------------------------
(* The reports *)

(* There are several where two differ.                                      *)
LEMMA SeveralOf ==
    ASSUME NEW S, IsFiniteSet(S)
    PROVE  Cardinality(S) > 1 <=> \E x, y \in S : x # y
<1>1. Cardinality(S) \in Nat
  BY FS_CardinalityType
<1>2. Cardinality(S) = 0 <=> S = {}
  BY FS_EmptySet
<1>3. Cardinality(S) = 1 <=> \E x : S = {x}
  BY FS_Singleton
<1>4. CASE Cardinality(S) > 1
  <2>1. S # {} /\ ~\E x : S = {x}
    <3>1. Cardinality(S) # 0 /\ Cardinality(S) # 1
      BY <1>1, <1>4
    <3> QED BY <1>2, <1>3, <3>1
  <2>2. PICK x \in S : TRUE
    BY <2>1
  <2>3. PICK y \in S : y # x
    BY <2>1, <2>2
  <2> QED BY <1>4, <2>2, <2>3
<1>5. CASE ~(Cardinality(S) > 1)
  <2>1. S = {} \/ \E x : S = {x}
    <3>1. Cardinality(S) = 0 \/ Cardinality(S) = 1
      BY <1>1, <1>5
    <3> QED BY <1>2, <1>3, <3>1
  <2> QED BY <1>5, <2>1
<1> QED BY <1>4, <1>5

GoesBefore(c, d, place) ==
    VoteCount(c) > VoteCount(d) \/ (VoteCount(c) = VoteCount(d) /\ place[c] < place[d])

(* The candidates of a post, ranked: the list that the reports sort.        *)
LEMMA RankingSorts ==
    ASSUME ResultsTyped, NEW p, NEW place \in {Created, Named}
    PROVE  LET C == CandidatesOf(p)
               n == Cardinality(C)
               r == Ranking(p, place)
           IN  /\ n \in Nat /\ r \in [1..n -> C] /\ r \in Seq(C) /\ Len(r) = n
               /\ \A i, j \in 1..n : i < j => GoesBefore(r[i], r[j], place)
               /\ \A i, j \in 1..n : r[i] = r[j] => i = j
               /\ \A c \in C : \E i \in 1..n : r[i] = c
               /\ r = <<>> <=> C = {}
<1> DEFINE C == CandidatesOf(p)
           n == Cardinality(C)
           r == Ranking(p, place)
           R == {q \in C \X C : GoesBefore(q[1], q[2], place)}
<1>1. C \subseteq Nominee /\ IsFiniteSet(C)
  <2>1. C \subseteq Nominee
    BY DEF CandidatesOf
  <2> QED BY <2>1, FS_Subset, ResultsAssumption
<1>2. \A x, y \in C : <<x, y>> \in R <=> GoesBefore(x, y, place)
  OBVIOUS
<1>3. StrictOrder(R, C)
  <2>1. /\ \A x \in C : VoteCount(x) \in Nat /\ place[x] \in Nat
        /\ \A x, y \in C : x # y => place[x] # place[y]
    BY <1>1, FiniteCounts, ResultsAssumption
  <2>2. \A x \in C : <<x, x>> \notin R
    <3> HIDE DEF R, C
    <3> QED BY <1>2, <2>1 DEF GoesBefore
  <2>3. \A x, y \in C : x = y \/ <<x, y>> \in R \/ <<y, x>> \in R
    <3> HIDE DEF R, C
    <3> SUFFICES ASSUME NEW x \in C, NEW y \in C, x # y
                 PROVE  <<x, y>> \in R \/ <<y, x>> \in R
      OBVIOUS
    <3>1. /\ VoteCount(x) \in Nat /\ VoteCount(y) \in Nat
          /\ place[x] \in Nat /\ place[y] \in Nat /\ place[x] # place[y]
      BY <2>1
    <3>2. GoesBefore(x, y, place) \/ GoesBefore(y, x, place)
      BY <3>1 DEF GoesBefore
    <3> QED BY <1>2, <3>2
  <2>4. \A x, y, z \in C : <<x, y>> \in R /\ <<y, z>> \in R => <<x, z>> \in R
    <3> HIDE DEF R, C
    <3> QED BY <1>2, <2>1 DEF GoesBefore
  <2> QED BY <2>2, <2>3, <2>4 DEF StrictOrder
<1>4. \E s \in [1..n -> C] : Sorted(s, R)
  <2> HIDE DEF R, C
  <2> QED BY <1>1, <1>3, Enumeration
<1>5. \A s \in [1..n -> C] :
         Sorted(s, R) <=> \A i, j \in DOMAIN s : i < j => GoesBefore(s[i], s[j], place)
  <2> HIDE DEF R, C, n
  <2> QED BY <1>2 DEF Sorted
<1> DEFINE count == [c \in C |-> VoteCount(c)]
<1>6. r \in [1..n -> C] /\ Sorted(r, R)
  <2>1. \A x, y \in C : Ahead(count, place, x, y) <=> GoesBefore(x, y, place)
    BY DEF Ahead, GoesBefore
  <2>2. r = CHOOSE s \in [1..n -> C] :
               \A i, j \in DOMAIN s : i < j => Ahead(count, place, s[i], s[j])
    BY DEF Ranking
  <2> HIDE DEF R, C, n, count, r
  <2>3. \A s \in [1..n -> C] :
           Sorted(s, R) <=> \A i, j \in DOMAIN s :
                               i < j => Ahead(count, place, s[i], s[j])
    BY <1>5, <2>1
  <2> QED BY <1>4, <2>2, <2>3
<1>7. /\ n \in Nat
      /\ \A i, j \in 1..n : r[i] = r[j] => i = j
      /\ \A c \in C : \E i \in 1..n : r[i] = c
  <2> HIDE DEF R, C, r
  <2> QED BY <1>1, <1>3, <1>6, SortedLists
<1>8. \A i, j \in 1..n : i < j => GoesBefore(r[i], r[j], place)
  <2> HIDE DEF R, C, r, n
  <2> QED BY <1>5, <1>6
<1>9. r \in Seq(C) /\ Len(r) = n
  <2> HIDE DEF R, C, r, n
  <2> QED BY <1>6, <1>7
<1>10. r = <<>> <=> C = {}
  <2>1. n = 0 <=> C = {}
    BY <1>1, FS_EmptySet
  <2> HIDE DEF R, C, r, n
  <2>2. r = <<>> <=> Len(r) = 0
    BY <1>9
  <2> QED BY <1>9, <2>1, <2>2
<1> HIDE DEF R, C, r, n
<1>11. QED BY <1>6, <1>7, <1>8, <1>9, <1>10 DEF C, n, r

(* Whoever is first has the most votes and, of those with as many, the      *)
(* earliest place.                                                          *)
LEMMA FirstIsAhead ==
    ASSUME ResultsTyped, NEW p, NEW place \in {Created, Named}, CandidatesOf(p) # {}
    PROVE  LET r == Ranking(p, place)
           IN  /\ Len(r) \in Nat /\ Len(r) >= 1 /\ Head(r) = r[1] /\ r # <<>>
               /\ r[1] \in CandidatesOf(p)
               /\ \A c \in CandidatesOf(p) :
                     /\ VoteCount(c) <= VoteCount(r[1])
                     /\ VoteCount(c) = VoteCount(r[1]) => place[r[1]] <= place[c]
<1> DEFINE C == CandidatesOf(p)
           n == Cardinality(C)
           r == Ranking(p, place)
<1>1. /\ n \in Nat /\ r \in [1..n -> C] /\ r \in Seq(C) /\ Len(r) = n
      /\ \A i, j \in 1..n : i < j => GoesBefore(r[i], r[j], place)
      /\ \A c \in C : \E i \in 1..n : r[i] = c
      /\ r # <<>>
  BY RankingSorts
<1>2. \A c \in C : VoteCount(c) \in Nat /\ place[c] \in Nat
  BY FiniteCounts, ResultsAssumption DEF CandidatesOf
<1> HIDE DEF C, n, r
<1>3. n >= 1 /\ Head(r) = r[1]
  BY <1>1
<1>4. r[1] \in C
  BY <1>1, <1>3
<1>5. ASSUME NEW c \in C
      PROVE  /\ VoteCount(c) <= VoteCount(r[1])
             /\ VoteCount(c) = VoteCount(r[1]) => place[r[1]] <= place[c]
  <2>1. PICK i \in 1..n : r[i] = c
    BY <1>1
  <2>2. CASE i = 1
    BY <1>2, <1>4, <2>1, <2>2
  <2>3. CASE i # 1
    <3>1. GoesBefore(r[1], c, place)
      BY <1>1, <1>3, <2>1, <2>3
    <3> QED BY <1>2, <1>4, <3>1 DEF GoesBefore
  <2> QED BY <2>2, <2>3
<1> QED BY <1>1, <1>3, <1>4, <1>5 DEF C, n, r

(* MaxVotes is attained, unless nobody has a vote.                          *)
LEMMA MostVotes ==
    ASSUME ResultsTyped, NEW p
    PROVE  /\ MaxVotes(p) \in Nat
           /\ MaxVotes(p) = 0 \/ \E c \in CandidatesOf(p) : VoteCount(c) = MaxVotes(p)
           /\ \A c \in CandidatesOf(p) : VoteCount(c) <= MaxVotes(p)
<1> DEFINE Most(n) == /\ n = 0 \/ \E c \in CandidatesOf(p) : VoteCount(c) = n
                      /\ \A c \in CandidatesOf(p) : VoteCount(c) <= n
<1>1. Cardinality(votes) \in Nat
  BY FS_CardinalityType DEF ResultsTyped
<1>2. \E n \in 0..Cardinality(votes) : Most(n)
  <2>1. CASE CandidatesOf(p) = {}
    BY <1>1, <2>1
  <2>2. CASE CandidatesOf(p) # {}
    <3> DEFINE c == Ranking(p, Created)[1]
    <3>1. c \in CandidatesOf(p) /\ \A d \in CandidatesOf(p) : VoteCount(d) <= VoteCount(c)
      BY <2>2, FirstIsAhead
    <3>2. VoteCount(c) \in Nat
      BY FiniteCounts
    <3>3. VoteCount(c) <= Cardinality(votes)
      <4>1. {x \in votes : x.nominee = c} \in SUBSET votes
        OBVIOUS
      <4> QED BY <4>1, FS_Subset DEF VoteCount, ResultsTyped
    <3> HIDE DEF c
    <3> QED BY <1>1, <3>1, <3>2, <3>3
  <2> QED BY <2>1, <2>2
<1>3. MaxVotes(p) = CHOOSE n \in 0..Cardinality(votes) : Most(n)
  BY DEF MaxVotes
<1>4. MaxVotes(p) \in 0..Cardinality(votes) /\ Most(MaxVotes(p))
  <2> HIDE DEF Most
  <2> QED BY <1>2, <1>3
<1> QED BY <1>1, <1>4

(* Those who go before a candidate are those in the places before.          *)
LEMMA PlaceInRanking ==
    ASSUME ResultsTyped, NEW p, NEW place \in {Created, Named},
           NEW i \in 1..Cardinality(CandidatesOf(p))
    PROVE  Cardinality({d \in CandidatesOf(p) :
                           GoesBefore(d, Ranking(p, place)[i], place)}) = i - 1
<1> DEFINE C == CandidatesOf(p)
           n == Cardinality(C)
           r == Ranking(p, place)
           Before == {d \in C : GoesBefore(d, r[i], place)}
           f == [j \in 1..(i - 1) |-> r[j]]
<1>1. /\ n \in Nat /\ r \in [1..n -> C]
      /\ \A j, k \in 1..n : j < k => GoesBefore(r[j], r[k], place)
      /\ \A j, k \in 1..n : r[j] = r[k] => j = k
      /\ \A c \in C : \E j \in 1..n : r[j] = c
  BY RankingSorts
<1>2. \A c \in C : VoteCount(c) \in Nat /\ place[c] \in Nat
  BY FiniteCounts, ResultsAssumption DEF CandidatesOf
<1>3. i \in 1..n
  OBVIOUS
<1> HIDE DEF C, n, r
<1>4. \A c, d \in C : ~(GoesBefore(c, d, place) /\ GoesBefore(d, c, place))
  BY <1>2 DEF GoesBefore
<1>5. ASSUME NEW j \in 1..(i - 1)
      PROVE  r[j] \in Before
  <2>1. j \in 1..n /\ j < i
    BY <1>1, <1>3
  <2> QED BY <1>1, <1>3, <2>1
<1>6. ASSUME NEW d \in Before
      PROVE  \E j \in 1..(i - 1) : r[j] = d
  <2>1. PICK j \in 1..n : r[j] = d
    BY <1>1
  <2>2. GoesBefore(r[j], r[i], place) /\ r[j] \in C /\ r[i] \in C
    BY <1>1, <1>3, <2>1
  <2>3. ~(i < j) /\ i # j
    BY <1>1, <1>3, <1>4, <2>2
  <2>4. j \in 1..(i - 1)
    BY <1>1, <1>3, <2>1, <2>3
  <2> QED BY <2>1, <2>4
<1>7. f \in Bijection(1..(i - 1), Before)
  <2>1. \A j \in 1..(i - 1) : f[j] = r[j]
    OBVIOUS
  <2>2. f \in [1..(i - 1) -> Before]
    BY <1>5
  <2>3. \A j, k \in 1..(i - 1) : f[j] = f[k] => j = k
    <3>1. 1..(i - 1) \subseteq 1..n
      BY <1>1, <1>3
    <3> HIDE DEF f
    <3> QED BY <1>1, <2>1, <3>1
  <2> HIDE DEF f, Before
  <2>4. \A d \in Before : \E j \in 1..(i - 1) : f[j] = d
    BY <1>6, <2>1
  <2> QED BY <2>2, <2>3, <2>4 DEF Bijection, Injection, IsInjective, Surjection
<1>8. IsFiniteSet(1..(i - 1)) /\ Cardinality(1..(i - 1)) = i - 1
  <2>1. i \in Nat /\ i >= 1 /\ 1 \in Int /\ i - 1 \in Int
    BY <1>1, <1>3
  <2>2. IsFiniteSet(1..(i - 1))
        /\ Cardinality(1..(i - 1)) = IF 1 > i - 1 THEN 0 ELSE (i - 1) - 1 + 1
    BY <2>1, FS_Interval
  <2> QED BY <2>1, <2>2
<1>9. ExistsBijection(1..(i - 1), Before)
  <2> HIDE DEF f, Before
  <2> QED BY <1>7 DEF ExistsBijection
<1>10. Cardinality(Before) = i - 1
  <2> HIDE DEF f, Before
  <2> QED BY <1>8, <1>9, FS_Bijection
<1> QED BY <1>10 DEF C, r

(* Where the votes change in a ranking, those with more are those before.   *)
LEMMA MoreAreBefore ==
    ASSUME ResultsTyped, NEW p, NEW i \in 1..Cardinality(CandidatesOf(p)),
           i > 1 => VoteCount(Ranking(p, Created)[i])
                       # VoteCount(Ranking(p, Created)[i - 1])
    PROVE  Cardinality({d \in CandidatesOf(p) :
                           VoteCount(d) > VoteCount(Ranking(p, Created)[i])}) = i - 1
<1> DEFINE C == CandidatesOf(p)
           n == Cardinality(C)
           r == Ranking(p, Created)
<1>1. /\ n \in Nat /\ r \in [1..n -> C]
      /\ \A j, k \in 1..n : j < k => GoesBefore(r[j], r[k], Created)
      /\ \A c \in C : \E j \in 1..n : r[j] = c
  BY RankingSorts
<1>2. \A c \in C : VoteCount(c) \in Nat /\ Created[c] \in Nat
  BY FiniteCounts, ResultsAssumption DEF CandidatesOf
<1>3. i \in 1..n /\ (i > 1 => VoteCount(r[i]) # VoteCount(r[i - 1]))
  OBVIOUS
<1> HIDE DEF C, n, r
<1>4. ASSUME NEW j \in 1..n, NEW k \in 1..n, j < k
      PROVE  VoteCount(r[j]) >= VoteCount(r[k])
  <2>1. GoesBefore(r[j], r[k], Created) /\ r[j] \in C /\ r[k] \in C
    BY <1>1, <1>4
  <2>2. VoteCount(r[j]) \in Nat /\ VoteCount(r[k]) \in Nat
    BY <1>2, <2>1
  <2> QED BY <2>1, <2>2 DEF GoesBefore
<1>5. ASSUME NEW d \in C, VoteCount(d) = VoteCount(r[i]), Created[d] < Created[r[i]]
      PROVE  FALSE
  <2>1. PICK j \in 1..n : r[j] = d
    BY <1>1
  <2>2. r[i] \in C /\ j \in Int /\ i \in Int
    BY <1>1, <1>3
  <2>3. ~(i < j) /\ i # j
    <3>1. GoesBefore(r[i], d, Created) => FALSE
      BY <1>2, <1>5, <2>2 DEF GoesBefore
    <3>2. d # r[i]
      BY <1>2, <1>5, <2>2
    <3> QED BY <1>1, <1>3, <2>1, <3>1, <3>2
  <2>4. /\ i > 1 /\ i - 1 \in 1..n /\ i - 1 < i /\ (j = i - 1 \/ j < i - 1)
    BY <1>1, <1>3, <2>1, <2>2, <2>3
  <2>5. r[i - 1] \in C
    BY <1>1, <2>4
  <2>6. VoteCount(r[i - 1]) > VoteCount(r[i])
    BY <1>2, <1>3, <1>4, <2>2, <2>4, <2>5
  <2>7. VoteCount(d) >= VoteCount(r[i - 1])
    BY <1>2, <1>4, <2>1, <2>4, <2>5
  <2> QED BY <1>2, <1>5, <2>2, <2>5, <2>6, <2>7
<1>6. {d \in C : VoteCount(d) > VoteCount(r[i])} = {d \in C : GoesBefore(d, r[i], Created)}
  BY <1>5 DEF GoesBefore
<1>7. Cardinality({d \in C : GoesBefore(d, r[i], Created)}) = i - 1
  BY PlaceInRanking DEF C, r
<1> QED BY <1>6, <1>7 DEF C, r

(* A row's number in a table by votes and name: the candidates with more    *)
(* votes, those with as many and an earlier name, and one.                  *)
LEMMA NumberInTable ==
    ASSUME ResultsTyped, NEW p, NEW i \in 1..Cardinality(CandidatesOf(p))
    PROVE  LET c == Ranking(p, Named)[i]
           IN  i = 1 + Cardinality(WithMoreVotes(c)) + Cardinality(TiedBefore(c))
<1> DEFINE C == CandidatesOf(p)
           n == Cardinality(C)
           c == Ranking(p, Named)[i]
           Before == {d \in C : GoesBefore(d, c, Named)}
<1>1. n \in Nat /\ c \in C /\ C \subseteq Nominee
  <2>1. n \in Nat /\ Ranking(p, Named) \in [1..n -> C]
    BY RankingSorts
  <2> QED BY <2>1 DEF CandidatesOf
<1>2. PostOf[c] = p
  <2> HIDE DEF c
  <2> QED BY <1>1 DEF CandidatesOf
<1>3. \A d \in C : VoteCount(d) \in Nat
  BY FiniteCounts
<1>4. Cardinality(Before) = i - 1
  BY PlaceInRanking
<1>5. IsFiniteSet(C)
  BY <1>1, FS_Subset, ResultsAssumption
<1> HIDE DEF C, c, n
<1>6. /\ WithMoreVotes(c) \subseteq C /\ TiedBefore(c) \subseteq C
      /\ Before = WithMoreVotes(c) \cup TiedBefore(c)
  BY <1>2 DEF WithMoreVotes, TiedBefore, GoesBefore, C
<1>7. WithMoreVotes(c) \cap TiedBefore(c) = {}
  BY <1>1, <1>2, <1>3 DEF WithMoreVotes, TiedBefore, C
<1>8. /\ IsFiniteSet(WithMoreVotes(c)) /\ IsFiniteSet(TiedBefore(c))
      /\ Cardinality(WithMoreVotes(c)) \in Nat /\ Cardinality(TiedBefore(c)) \in Nat
  BY <1>5, <1>6, FS_Subset, FS_CardinalityType
<1>9. Cardinality(Before) =
         Cardinality(WithMoreVotes(c)) + Cardinality(TiedBefore(c)) - 0
  <2>1. Cardinality(WithMoreVotes(c) \cap TiedBefore(c)) = 0
    BY <1>7, FS_EmptySet
  <2>2. Cardinality(WithMoreVotes(c) \cup TiedBefore(c)) =
           Cardinality(WithMoreVotes(c)) + Cardinality(TiedBefore(c))
              - Cardinality(WithMoreVotes(c) \cap TiedBefore(c))
    BY <1>8, FS_Union
  <2> HIDE DEF Before
  <2> QED BY <1>6, <2>1, <2>2
<1>10. i \in Int
  BY <1>1 DEF n, C
<1> HIDE DEF Before
<1> QED BY <1>4, <1>8, <1>9, <1>10 DEF c

(* The recursion of get_pie_data gives each candidate the number of those   *)
(* with more votes, and one.                                                *)
LEMMA RanksByVotes ==
    ASSUME ResultsTyped, NEW p,
           NEW i \in 1..Len(PieData(p).ranking)
    PROVE  PieData(p).ranks[i] = 1 + Cardinality(
              {d \in CandidatesOf(p) : VoteCount(d) > VoteCount(PieData(p).ranking[i])})
<1> DEFINE C == CandidatesOf(p)
           n == Cardinality(C)
           r == Ranking(p, Created)
           More(j) == {d \in C : VoteCount(d) > VoteCount(r[j])}
           W == [j \in 1..n |-> 1 + Cardinality(More(j))]
           Step(f) == [j \in 1..n |-> IF j > 1 /\ VoteCount(r[j]) = VoteCount(r[j - 1])
                                      THEN f[j - 1] ELSE j]
           q == PieData(p).ranks
<1>1. n \in Nat /\ Len(r) = n
  BY RankingSorts
<1>2. q = CHOOSE f : f = Step(f)
  BY <1>1 DEF PieData
<1>3. W = Step(W)
  <2>1. \A j \in 1..n : W[j] = 1 + Cardinality(More(j))
    OBVIOUS
  <2>2. ASSUME NEW j \in 1..n
        PROVE  W[j] = Step(W)[j]
    <3>1. CASE j > 1 /\ VoteCount(r[j]) = VoteCount(r[j - 1])
      <4>1. j - 1 \in 1..n
        <5> HIDE DEF n, r
        <5> QED BY <1>1, <3>1
      <4>2. More(j) = More(j - 1)
        BY <3>1
      <4> HIDE DEF More, n, r, W
      <4> QED BY <2>1, <3>1, <4>1, <4>2
    <3>2. CASE ~(j > 1 /\ VoteCount(r[j]) = VoteCount(r[j - 1]))
      <4>1. Cardinality(More(j)) = j - 1
        BY <3>2, MoreAreBefore
      <4> HIDE DEF More, n, r, W
      <4> QED BY <1>1, <2>1, <3>2, <4>1
    <3> QED BY <3>1, <3>2
  <2> HIDE DEF n, r, More
  <2> QED BY <2>2
<1>4. q = Step(q)
  <2> HIDE DEF q, W, n, r
  <2> QED BY <1>2, <1>3
<1>5. \A j \in 1..n : q[j] = W[j]
  <2> HIDE DEF q, W, n, r
  <2> DEFINE Bad == {j \in 1..n : q[j] # W[j]}
  <2> SUFFICES ASSUME Bad # {} PROVE FALSE
    OBVIOUS
  <2>1. Bad \subseteq 1..n /\ Bad \subseteq Nat
    BY <1>1
  <2>2. IsFiniteSet(Bad)
    <3>1. 1 \in Int /\ n \in Int
      BY <1>1
    <3>2. IsFiniteSet(1..n)
      BY <3>1, FS_Interval
    <3> QED BY <2>1, <3>2, FS_Subset
  <2>3. PICK m \in Bad : \A k \in Bad : m <= k
    <3> HIDE DEF Bad
    <3> QED BY <2>1, <2>2, Least
  <2>4. m \in 1..n /\ q[m] # W[m]
    BY <2>3
  <2>5. q[m] = Step(q)[m] /\ W[m] = Step(W)[m]
    BY <1>3, <1>4
  <2>6. CASE m > 1 /\ VoteCount(r[m]) = VoteCount(r[m - 1])
    <3>1. m - 1 \in 1..n /\ ~(m <= m - 1)
      BY <1>1, <2>4, <2>6
    <3>2. q[m - 1] = W[m - 1]
      BY <2>3, <3>1
    <3> QED BY <2>4, <2>5, <2>6, <3>2
  <2>7. CASE ~(m > 1 /\ VoteCount(r[m]) = VoteCount(r[m - 1]))
    BY <2>4, <2>5, <2>7
  <2> QED BY <2>6, <2>7
<1>6. PieData(p).ranking = r /\ i \in 1..n
  BY <1>1 DEF PieData
<1> HIDE DEF q, n, r
<1> QED BY <1>5, <1>6 DEF q

(* The leaders are the candidates with the most votes, if there is a vote.  *)
LEMMA LeadersAreTop ==
    ASSUME ResultsTyped, NEW p
    PROVE  /\ Leaders(p) = {c \in CandidatesOf(p) :
                               VoteCount(c) = MaxVotes(p) /\ MaxVotes(p) > 0}
           /\ Leaders(p) = {} <=> MaxVotes(p) = 0
           /\ IsFiniteSet(CandidatesOf(p)) /\ IsFiniteSet(Leaders(p))
<1>1. /\ MaxVotes(p) \in Nat
      /\ MaxVotes(p) = 0 \/ \E c \in CandidatesOf(p) : VoteCount(c) = MaxVotes(p)
      /\ \A c \in CandidatesOf(p) : VoteCount(c) <= MaxVotes(p)
  BY MostVotes
<1>2. \A c \in CandidatesOf(p) : VoteCount(c) \in Nat
  BY FiniteCounts
<1>3. ASSUME NEW c \in CandidatesOf(p)
      PROVE  c \in Leaders(p) <=> VoteCount(c) = MaxVotes(p) /\ MaxVotes(p) > 0
  <2>1. CASE c \in Leaders(p)
    <3>1. /\ VoteCount(c) > 0
          /\ \A d \in CandidatesOf(p) : VoteCount(d) <= VoteCount(c)
      BY <2>1 DEF Leaders
    <3> QED BY <1>1, <1>2, <2>1, <3>1
  <2>2. CASE VoteCount(c) = MaxVotes(p) /\ MaxVotes(p) > 0
    BY <1>1, <2>2 DEF Leaders
  <2> QED BY <2>1, <2>2
<1>4. Leaders(p) = {c \in CandidatesOf(p) :
                       VoteCount(c) = MaxVotes(p) /\ MaxVotes(p) > 0}
  <2>1. Leaders(p) \subseteq CandidatesOf(p)
    BY DEF Leaders
  <2> QED BY <1>3, <2>1
<1>5. Leaders(p) = {} <=> MaxVotes(p) = 0
  BY <1>1, <1>4
<1>6. IsFiniteSet(CandidatesOf(p))
  <2>1. CandidatesOf(p) \subseteq Nominee
    BY DEF CandidatesOf
  <2> QED BY <2>1, FS_Subset, ResultsAssumption
<1>7. IsFiniteSet(Leaders(p))
  <2>1. Leaders(p) \subseteq CandidatesOf(p)
    BY DEF Leaders
  <2> QED BY <1>6, <2>1, FS_Subset
<1> QED BY <1>4, <1>5, <1>6, <1>7

(* The head of a ranking is a leader, if there is one, and the earliest.    *)
LEMMA HeadLeads ==
    ASSUME ResultsTyped, NEW p, NEW place \in {Created, Named}
    PROVE  LET r == Ranking(p, place)
           IN  IF Leaders(p) = {} THEN r = <<>> \/ VoteCount(Head(r)) = 0
               ELSE /\ r # <<>> /\ VoteCount(Head(r)) # 0 /\ Head(r) \in Leaders(p)
                    /\ Head(r) = r[1]
                    /\ VoteCount(Head(r)) = MaxVotes(p)
                    /\ \A c \in Leaders(p) : place[Head(r)] <= place[c]
<1> DEFINE r == Ranking(p, place)
<1>1. /\ MaxVotes(p) \in Nat
      /\ MaxVotes(p) = 0 \/ \E c \in CandidatesOf(p) : VoteCount(c) = MaxVotes(p)
      /\ \A c \in CandidatesOf(p) : VoteCount(c) <= MaxVotes(p)
  BY MostVotes
<1>2. \A c \in CandidatesOf(p) : VoteCount(c) \in Nat
  BY FiniteCounts
<1>3. CASE CandidatesOf(p) = {}
  <2>1. r = <<>>
    BY <1>3, RankingSorts
  <2>2. Leaders(p) = {}
    BY <1>3 DEF Leaders
  <2> QED BY <2>1, <2>2
<1>4. CASE CandidatesOf(p) # {}
  <2>1. /\ Head(r) = r[1] /\ r # <<>> /\ r[1] \in CandidatesOf(p)
        /\ \A c \in CandidatesOf(p) :
              /\ VoteCount(c) <= VoteCount(r[1])
              /\ VoteCount(c) = VoteCount(r[1]) => place[r[1]] <= place[c]
    BY <1>4, FirstIsAhead
  <2>2. VoteCount(r[1]) = MaxVotes(p)
    <3> HIDE DEF r
    <3> QED BY <1>1, <1>2, <2>1
  <2>3. /\ Leaders(p) = {c \in CandidatesOf(p) :
                            VoteCount(c) = MaxVotes(p) /\ MaxVotes(p) > 0}
        /\ Leaders(p) = {} <=> MaxVotes(p) = 0
    BY LeadersAreTop
  <2> HIDE DEF r
  <2>4. Leaders(p) # {} => r[1] \in Leaders(p) /\ MaxVotes(p) # 0
    BY <1>1, <2>1, <2>2, <2>3
  <2>5. \A c \in Leaders(p) : place[r[1]] <= place[c]
    BY <2>1, <2>2, <2>3
  <2> QED BY <2>1, <2>2, <2>3, <2>4, <2>5 DEF r
<1> QED BY <1>3, <1>4

(* Two places of a ranking with the most votes are two leaders.             *)
LEMMA TiesInRanking ==
    ASSUME ResultsTyped, NEW p, NEW place \in {Created, Named}, Leaders(p) # {}
    PROVE  LET r == Ranking(p, place)
               tied == Cardinality(Leaders(p)) > 1
           IN  /\ tied <=> \E i, j \in 1..Len(r) :
                     i # j /\ VoteCount(r[i]) = MaxVotes(p) /\ VoteCount(r[j]) = MaxVotes(p)
               /\ tied <=> \E i \in 2..Len(r) : VoteCount(r[i]) = VoteCount(Head(r))
<1> DEFINE C == CandidatesOf(p)
           n == Cardinality(C)
           r == Ranking(p, place)
           tied == Cardinality(Leaders(p)) > 1
<1>1. /\ n \in Nat /\ r \in [1..n -> C] /\ Len(r) = n
      /\ \A i, j \in 1..n : r[i] = r[j] => i = j
      /\ \A c \in C : \E i \in 1..n : r[i] = c
      /\ r = <<>> <=> C = {}
  BY RankingSorts
<1>2. tied <=> \E x, y \in Leaders(p) : x # y
  BY LeadersAreTop, SeveralOf
<1>3. \A c \in C : c \in Leaders(p) <=> VoteCount(c) = MaxVotes(p)
  <2>1. MaxVotes(p) > 0
    BY LeadersAreTop, MostVotes
  <2> QED BY <2>1, LeadersAreTop
<1>4. Leaders(p) \subseteq C
  BY DEF Leaders
<1>5. /\ Head(r) = r[1] /\ VoteCount(r[1]) = MaxVotes(p)
  BY HeadLeads
<1> HIDE DEF C, n, r, tied
<1>6. n >= 1
  BY <1>1, <1>4
<1>7. tied <=> \E i, j \in 1..n :
         i # j /\ VoteCount(r[i]) = MaxVotes(p) /\ VoteCount(r[j]) = MaxVotes(p)
  <2>1. ASSUME tied
        PROVE  \E i, j \in 1..n :
                  i # j /\ VoteCount(r[i]) = MaxVotes(p) /\ VoteCount(r[j]) = MaxVotes(p)
    <3>1. PICK x, y \in Leaders(p) : x # y
      BY <1>2, <2>1
    <3>2. PICK i \in 1..n : r[i] = x
      BY <1>1, <1>4, <3>1
    <3>3. PICK j \in 1..n : r[j] = y
      BY <1>1, <1>4, <3>1
    <3> QED BY <1>3, <1>4, <3>1, <3>2, <3>3
  <2>2. ASSUME NEW i \in 1..n, NEW j \in 1..n, i # j,
               VoteCount(r[i]) = MaxVotes(p), VoteCount(r[j]) = MaxVotes(p)
        PROVE  tied
    <3>1. r[i] \in Leaders(p) /\ r[j] \in Leaders(p) /\ r[i] # r[j]
      BY <1>1, <1>3, <2>2
    <3> QED BY <1>2, <3>1
  <2> QED BY <2>1, <2>2
<1>8. tied <=> \E i \in 2..n : VoteCount(r[i]) = VoteCount(Head(r))
  <2>1. ASSUME NEW i \in 1..n, NEW j \in 1..n, i # j,
               VoteCount(r[i]) = MaxVotes(p), VoteCount(r[j]) = MaxVotes(p)
        PROVE  \E k \in 2..n : VoteCount(r[k]) = VoteCount(Head(r))
    <3>1. i \in 2..n \/ j \in 2..n
      BY <1>1, <2>1
    <3> QED BY <1>5, <2>1, <3>1
  <2>2. ASSUME NEW i \in 2..n, VoteCount(r[i]) = VoteCount(Head(r))
        PROVE  tied
    <3>1. 1 \in 1..n /\ i \in 1..n /\ i # 1
      BY <1>1, <1>6
    <3> QED BY <1>5, <1>7, <2>2, <3>1
  <2> QED BY <1>7, <2>1, <2>2
<1> QED BY <1>1, <1>7, <1>8 DEF r, tied, n, C

(* One step for each report.                                                *)
LEMMA ResultsSameWinners ==
    ASSUME ResultsInv
    PROVE  SameWinners
<1> SUFFICES ASSUME NEW p \in Post
             PROVE
       LET data == ResultsData(p)
           pie == PieData(p)
           table == ResultsTable(p)
           trail == PositionResults(p)
           page == ResultsPage(p)
           winner == GetWinner(p)
           leaders == Leaders(p)
           tied == Cardinality(leaders) > 1
       IN  /\ {c \in CandidatesOf(p) : data[c] # ""} = leaders
           /\ \A c \in leaders : data[c] = IF tied THEN "Tied" ELSE "Yes"
           /\ pie.is_tied = tied
           /\ pie.winner = winner /\ trail.first = page.winner
           /\ IF leaders = {} THEN winner = Nobody /\ page.winner = Nobody
              ELSE /\ trail.status = IF tied THEN "TIED" ELSE "WINNER"
                   /\ {winner, page.winner} \subseteq leaders
                   /\ \A c \in leaders : /\ Created[winner] <= Created[c]
                                         /\ Named[page.winner] <= Named[c]
                   /\ ApiCandidates(p)[1] = page.winner
           /\ \A i \in 1..Len(pie.ranking) :
                 pie.ranks[i] = 1 + Cardinality(WithMoreVotes(pie.ranking[i]))
           /\ \A i \in 1..Len(table) :
                 table[i].rank = 1 + Cardinality(WithMoreVotes(table[i].name))
                                   + Cardinality(TiedBefore(table[i].name))
           /\ trail.rows = table /\ page.rows = table
  BY DEF SameWinners
<1> DEFINE C == CandidatesOf(p)
           m == MaxVotes(p)
           r == Ranking(p, Created)
           s == Ranking(p, Named)
           tied == Cardinality(Leaders(p)) > 1
           Best == {c \in C : VoteCount(c) = m}
<1>1. ResultsTyped
  BY DEF ResultsInv
<1>2. /\ m \in Nat
      /\ Leaders(p) = {c \in C : VoteCount(c) = m /\ m > 0}
      /\ Leaders(p) = {} <=> m = 0
  BY <1>1, LeadersAreTop, MostVotes
<1>3. m # 0 => Best = Leaders(p)
  <2> HIDE DEF m, C
  <2> QED BY <1>2
<1>4. \A c \in C :
         ResultsData(p)[c] = IF m = 0 \/ c \notin Best THEN ""
                             ELSE IF Cardinality(Best) > 1 THEN "Tied" ELSE "Yes"
  BY DEF ResultsData
<1>5. {c \in C : ResultsData(p)[c] # ""} = Leaders(p)
  <2>1. \A c \in C : ResultsData(p)[c] # "" <=> c \in Leaders(p)
    <3> HIDE DEF m, C, Best
    <3> QED BY <1>2, <1>3, <1>4
  <2> HIDE DEF m, C
  <2> QED BY <1>2, <2>1
<1>6. \A c \in Leaders(p) : ResultsData(p)[c] = IF tied THEN "Tied" ELSE "Yes"
  <2> HIDE DEF m, C, Best
  <2> QED BY <1>2, <1>3, <1>4
<1>7. PieData(p).is_tied = tied
  <2>1. PieData(p).is_tied = (m > 0 /\ \E i, j \in 1..Len(r) :
           i # j /\ VoteCount(r[i]) = m /\ VoteCount(r[j]) = m)
    BY DEF PieData
  <2>2. CASE Leaders(p) = {}
    <3>1. ~(m > 0)
      BY <1>2, <2>2
    <3>2. ~tied
      BY <2>2, FS_EmptySet
    <3> QED BY <2>1, <3>1, <3>2
  <2>3. CASE Leaders(p) # {}
    <3>1. m > 0
      BY <1>2, <2>3
    <3>2. tied <=> \E i, j \in 1..Len(r) :
                      i # j /\ VoteCount(r[i]) = m /\ VoteCount(r[j]) = m
      BY <1>1, <2>3, TiesInRanking
    <3> QED BY <2>1, <3>1, <3>2
  <2> QED BY <2>2, <2>3
<1>8. /\ Leaders(p) = {} => r = <<>> \/ VoteCount(Head(r)) = 0
      /\ Leaders(p) # {} => /\ r # <<>> /\ VoteCount(Head(r)) # 0
                            /\ Head(r) \in Leaders(p)
                            /\ \A c \in Leaders(p) : Created[Head(r)] <= Created[c]
  BY <1>1, HeadLeads
<1>9. /\ Leaders(p) = {} => s = <<>> \/ VoteCount(Head(s)) = 0
      /\ Leaders(p) # {} => /\ s # <<>> /\ VoteCount(Head(s)) # 0
                            /\ Head(s) \in Leaders(p) /\ Head(s) = s[1]
                            /\ \A c \in Leaders(p) : Named[Head(s)] <= Named[c]
  BY <1>1, HeadLeads
<1>10. GetWinner(p) = IF r = <<>> \/ VoteCount(Head(r)) = 0 THEN Nobody ELSE Head(r)
  BY DEF GetWinner
<1>11. PieData(p).winner = GetWinner(p)
  <2>1. PieData(p).winner =
           IF r # <<>> /\ VoteCount(Head(r)) > 0 THEN Head(r) ELSE Nobody
    BY DEF PieData
  <2>2. VoteCount(Head(r)) \in Nat
    BY <1>1, FiniteCounts
  <2> HIDE DEF r
  <2> QED BY <1>10, <2>1, <2>2
<1>12. \A i \in 1..Len(PieData(p).ranking) :
          PieData(p).ranks[i] = 1 + Cardinality(WithMoreVotes(PieData(p).ranking[i]))
  <2> TAKE i \in 1..Len(PieData(p).ranking)
  <2>1. PieData(p).ranking = r /\ Len(r) = Cardinality(C) /\ r \in [1..Cardinality(C) -> C]
    BY <1>1, RankingSorts DEF PieData
  <2>2. PieData(p).ranking[i] \in C
    <3> HIDE DEF C, r
    <3> QED BY <2>1
  <2>3. PostOf[PieData(p).ranking[i]] = p
    BY <2>2 DEF CandidatesOf
  <2>4. WithMoreVotes(PieData(p).ranking[i]) =
           {d \in C : VoteCount(d) > VoteCount(PieData(p).ranking[i])}
    BY <2>3 DEF WithMoreVotes
  <2> QED BY <1>1, <2>4, RanksByVotes
<1>13. /\ PositionResults(p).first =
             IF s = <<>> \/ VoteCount(Head(s)) = 0 THEN Nobody ELSE Head(s)
       /\ PositionResults(p).rows = ResultsTable(p)
       /\ ResultsPage(p).rows = ResultsTable(p)
       /\ ApiCandidates(p) = s
  BY DEF PositionResults, ResultsPage, ResultsTable, ApiCandidates
<1>14. ResultsPage(p).winner = PositionResults(p).first
  <2>1. ResultsPage(p).winner =
           IF s # <<>> /\ VoteCount(Head(s)) > 0 THEN Head(s) ELSE Nobody
    BY DEF ResultsPage
  <2>2. VoteCount(Head(s)) \in Nat
    BY <1>1, FiniteCounts
  <2> HIDE DEF s
  <2> QED BY <1>13, <2>1, <2>2
<1>15. Leaders(p) = {} => GetWinner(p) = Nobody /\ ResultsPage(p).winner = Nobody
  <2> HIDE DEF r, s
  <2> QED BY <1>8, <1>9, <1>10, <1>13, <1>14
<1>16. Leaders(p) # {} => GetWinner(p) = Head(r) /\ ResultsPage(p).winner = Head(s)
  <2> HIDE DEF r, s
  <2> QED BY <1>8, <1>9, <1>10, <1>13, <1>14
<1>17. Leaders(p) # {} => PositionResults(p).status = IF tied THEN "TIED" ELSE "WINNER"
  <2> SUFFICES ASSUME Leaders(p) # {}
               PROVE  PositionResults(p).status = IF tied THEN "TIED" ELSE "WINNER"
    OBVIOUS
  <2>1. PositionResults(p).status =
           IF PositionResults(p).first = Nobody THEN ""
           ELSE IF \E i \in 2..Len(s) : VoteCount(s[i]) = VoteCount(PositionResults(p).first)
           THEN "TIED" ELSE "WINNER"
    BY DEF PositionResults
  <2>2. tied <=> \E i \in 2..Len(s) : VoteCount(s[i]) = VoteCount(Head(s))
    BY <1>1, TiesInRanking
  <2>3. Head(s) # Nobody
    <3>1. Leaders(p) \subseteq Nominee
      BY DEF Leaders, CandidatesOf
    <3> HIDE DEF s
    <3> QED BY <1>9, <3>1, ResultsAssumption
  <2> HIDE DEF tied, s, r
  <2> QED BY <1>9, <1>13, <2>1, <2>2, <2>3
<1>18. \A i \in 1..Len(ResultsTable(p)) :
          ResultsTable(p)[i].rank = 1 + Cardinality(WithMoreVotes(ResultsTable(p)[i].name))
                                      + Cardinality(TiedBefore(ResultsTable(p)[i].name))
  <2> TAKE i \in 1..Len(ResultsTable(p))
  <2>1. /\ ResultsTable(p) = [j \in 1..Len(s) |-> [rank |-> j, name |-> s[j]]]
        /\ Len(s) = Cardinality(C) /\ Len(s) \in Nat
    BY <1>1, RankingSorts DEF ResultsTable, Numbered
  <2>2. i \in 1..Len(s) /\ ResultsTable(p)[i] = [rank |-> i, name |-> s[i]]
    <3> HIDE DEF s, C
    <3> QED BY <2>1
  <2>3. i = 1 + Cardinality(WithMoreVotes(s[i])) + Cardinality(TiedBefore(s[i]))
    BY <1>1, <2>1, <2>2, NumberInTable
  <2> HIDE DEF s
  <2> QED BY <2>2, <2>3
<1>19. Leaders(p) # {} =>
          /\ {GetWinner(p), ResultsPage(p).winner} \subseteq Leaders(p)
          /\ \A c \in Leaders(p) : /\ Created[GetWinner(p)] <= Created[c]
                                   /\ Named[ResultsPage(p).winner] <= Named[c]
          /\ ApiCandidates(p)[1] = ResultsPage(p).winner
  <2> HIDE DEF r, s
  <2> QED BY <1>8, <1>9, <1>13, <1>16
<1> HIDE DEF tied
<1> QED BY <1>5, <1>6, <1>7, <1>11, <1>12, <1>13, <1>14, <1>15, <1>17, <1>18, <1>19 DEF tied

(* The voters of a set of rows with one row for each are as many.           *)
LEMMA OneRowEach ==
    ASSUME NEW rows, IsFiniteSet(rows),
           \A r, s \in rows : r.elector = s.elector => r = s
    PROVE  IsFiniteSet(VoterHashes(rows))
           /\ Cardinality(VoterHashes(rows)) = Cardinality(rows)
<1> DEFINE f == [r \in rows |-> r.elector]
<1>1. f \in Bijection(rows, VoterHashes(rows))
  BY DEF VoterHashes, Bijection, Injection, IsInjective, Surjection
<1>2. ExistsBijection(rows, VoterHashes(rows))
  <2> HIDE DEF f
  <2> QED BY <1>1 DEF ExistsBijection
<1> QED BY <1>2, FS_Bijection

LEMMA FiniteVoters ==
    ASSUME ResultsInv
    PROVE  /\ IsFiniteSet(electorate) /\ IsFiniteSet(has_voted) /\ IsFiniteSet(revoked)
           /\ VoterHashes(votes) \subseteq has_voted
           /\ IsFiniteSet(VoterHashes(votes))
<1>1. IsFiniteSet(electorate)
  BY FS_Subset, ResultsAssumption DEF ResultsInv, ResultsTyped
<1>2. has_voted \subseteq electorate /\ revoked \subseteq electorate
  BY DEF ResultsInv, ResultsTyped
<1>3. VoterHashes(votes) \subseteq has_voted
  BY DEF ResultsInv, BallotsAreWhole, VoterHashes
<1>4. IsFiniteSet(has_voted) /\ IsFiniteSet(revoked)
  BY <1>1, <1>2, FS_Subset
<1>5. IsFiniteSet(VoterHashes(votes))
  BY <1>3, <1>4, FS_Subset
<1> QED BY <1>1, <1>3, <1>4, <1>5

(* The slices of a post: its rows, and NOTA for the voters without one.     *)
LEMMA SlicesOfPost ==
    ASSUME ResultsInv, NEW p
    PROVE  /\ PieData(p).total <= Cardinality(has_voted)
           /\ allow_abstain => PieData(p).total = Cardinality(has_voted)
<1> DEFINE rows == VotesOf(p)
           hashes == VoterHashes(rows)
<1>1. IsFiniteSet(rows) /\ rows \subseteq votes
  <2>1. rows \subseteq votes
    BY DEF VotesOf
  <2> QED BY <2>1, FS_Subset DEF ResultsInv, ResultsTyped
<1>2. \A r, s \in rows : r.elector = s.elector => r = s
  BY DEF VotesOf, ResultsInv, BallotsAreWhole, WholeBallot
<1>3. IsFiniteSet(hashes) /\ Cardinality(hashes) = Cardinality(rows)
  <2> HIDE DEF rows
  <2> QED BY <1>1, <1>2, OneRowEach
<1>4. hashes \subseteq has_voted
  BY <1>1, FiniteVoters DEF VoterHashes
<1>5. /\ Cardinality(hashes) <= Cardinality(has_voted)
      /\ Cardinality(has_voted) \in Nat /\ Cardinality(hashes) \in Nat
  <2> HIDE DEF hashes
  <2>1. IsFiniteSet(has_voted)
    BY FiniteVoters
  <2>2. Cardinality(hashes) <= Cardinality(has_voted)
    BY <1>4, <2>1, FS_Subset
  <2> QED BY <1>3, <2>1, <2>2, FS_CardinalityType
<1>6. PieData(p).total = Cardinality(rows) + Nota(p)
  BY DEF PieData
<1>7. Nota(p) = IF allow_abstain /\ Cardinality(has_voted) - Cardinality(hashes) > 0
                THEN Cardinality(has_voted) - Cardinality(hashes) ELSE 0
  BY DEF Nota
<1> HIDE DEF rows, hashes
<1> QED BY <1>3, <1>5, <1>6, <1>7

(* Every voter with a row has a first one, in the hours of the vote.        *)
LEMMA FirstVotePerVoter ==
    ASSUME ResultsInv
    PROVE  Cardinality({f \in FirstVotes : f[2] <= LastHour}) = Cardinality(VoterHashes(votes))
<1> DEFINE First(e, h) == /\ \E r \in votes : r.elector = e /\ r.hour = h
                          /\ \A r \in votes : r.elector = e => h <= r.hour
           hour(e) == CHOOSE h \in 0..LastHour : First(e, h)
           H == VoterHashes(votes)
           g == [e \in H |-> <<e, hour(e)>>]
<1>1. /\ LastHour \in Nat
      /\ \A r \in votes : r.hour \in 0..LastHour
  BY FiniteCounts DEF ResultsInv
<1>2. ASSUME NEW e \in H
      PROVE  hour(e) \in 0..LastHour
  <2> DEFINE T == {h \in 0..LastHour : \E r \in votes : r.elector = e /\ r.hour = h}
  <2>1. PICK r \in votes : r.elector = e
    BY DEF VoterHashes
  <2>2. T \subseteq Nat /\ T \subseteq 0..LastHour /\ T # {}
    BY <1>1, <2>1
  <2>3. IsFiniteSet(T)
    <3>1. 0 \in Int /\ LastHour \in Int
      BY <1>1
    <3>2. IsFiniteSet(0..LastHour)
      BY <3>1, FS_Interval
    <3> HIDE DEF T
    <3> QED BY <2>2, <3>2, FS_Subset
  <2>4. PICK h \in T : \A k \in T : h <= k
    <3> HIDE DEF T
    <3> QED BY <2>2, <2>3, Least
  <2>5. h \in 0..LastHour /\ First(e, h)
    BY <1>1, <2>4
  <2> HIDE DEF First
  <2> QED BY <2>5
<1>3. FirstVotes = {<<e, hour(e)>> : e \in H}
  BY DEF FirstVotes
<1>4. {f \in FirstVotes : f[2] <= LastHour} = FirstVotes
  <2>1. ASSUME NEW f \in FirstVotes
        PROVE  f[2] <= LastHour
    <3>1. PICK e \in H : f = <<e, hour(e)>>
      <4> HIDE DEF H, hour
      <4> QED BY <1>3
    <3>2. f[2] = hour(e)
      <4> HIDE DEF hour
      <4> QED BY <3>1
    <3>3. hour(e) \in 0..LastHour
      BY <1>2
    <3> HIDE DEF hour
    <3> QED BY <1>1, <3>2, <3>3
  <2> QED BY <2>1
<1>5. g \in Bijection(H, FirstVotes)
  <2> HIDE DEF hour, H
  <2>1. \A e \in H : g[e] = <<e, hour(e)>>
    OBVIOUS
  <2>2. g \in [H -> FirstVotes]
    BY <1>3
  <2>3. \A d, e \in H : g[d] = g[e] => d = e
    BY <2>1
  <2>4. \A f \in FirstVotes : \E e \in H : g[e] = f
    BY <1>3
  <2> HIDE DEF g
  <2> QED BY <2>2, <2>3, <2>4 DEF Bijection, Injection, IsInjective, Surjection
<1>6. ExistsBijection(H, FirstVotes)
  <2> HIDE DEF g, H
  <2> QED BY <1>5 DEF ExistsBijection
<1>7. Cardinality(FirstVotes) = Cardinality(H)
  <2>1. IsFiniteSet(H)
    BY FiniteVoters
  <2> HIDE DEF H
  <2> QED BY <1>6, <2>1, FS_Bijection
<1> QED BY <1>4, <1>7

(* One step for each total.                                                 *)
LEMMA ResultsSameTotals ==
    ASSUME ResultsInv
    PROVE  SameTotals
<1>1. ActiveTurnout.voted = TurnoutData.voted
  <2>1. has_voted \ revoked = has_voted
    BY DEF ResultsInv, ResultsTyped
  <2> QED BY <2>1 DEF ActiveTurnout, TurnoutData
<1>2. ActiveTurnout.total = TurnoutData.total - Cardinality(revoked)
  <2>1. electorate \cap revoked = revoked /\ IsFiniteSet(electorate)
    BY FiniteVoters DEF ResultsInv, ResultsTyped
  <2>2. Cardinality(electorate \ revoked) =
           Cardinality(electorate) - Cardinality(electorate \cap revoked)
    BY <2>1, FS_Difference
  <2>3. ActiveTurnout.total = Cardinality(electorate \ revoked)
        /\ TurnoutData.total = Cardinality(electorate)
    BY DEF ActiveTurnout, TurnoutData
  <2> QED BY <2>1, <2>2, <2>3
<1>3. Timeline.cumulative[LastHour] = ApiVotesCast
  <2>1. LastHour \in 0..LastHour
    BY FiniteCounts DEF ResultsInv
  <2>2. Timeline.cumulative = [h \in 0..LastHour |->
                                 Cardinality({f \in FirstVotes : f[2] <= h})]
    BY DEF Timeline
  <2>3. Timeline.cumulative[LastHour] =
           Cardinality({f \in FirstVotes : f[2] <= LastHour})
    BY <2>1, <2>2
  <2> QED BY <2>3, FirstVotePerVoter DEF ApiVotesCast
<1>4. ApiVotesCast = Cardinality({e \in has_voted : \E r \in votes : r.elector = e})
  <2>1. VoterHashes(votes) = {e \in has_voted : \E r \in votes : r.elector = e}
    BY DEF VoterHashes, ResultsInv, BallotsAreWhole
  <2> QED BY <2>1 DEF ApiVotesCast
<1> QED BY <1>1, <1>2, <1>3, <1>4, SlicesOfPost DEF SameTotals

(* Whichever report of a result one reads, in every state of the count and  *)
(* for any posts, candidates and ballots: leaders, marks of a tie and       *)
(* totals are the same, and where the reports may differ, in the order and  *)
(* the numbers of tied candidates, each goes by created_at or by name as    *)
(* stated (results/views.py, elections/models.py, analytics_service.py,     *)
(* pdf_service.py, api/views.py, voting/views.py, voting/results.html).     *)
THEOREM SameResult == ResultsSpec => []ReportsAgree
<1>1. ResultsInv => ReportsAgree
  BY ResultsSameWinners, ResultsSameTotals DEF ReportsAgree
<1> QED BY <1>1, ResultsInvariant, PTL

-------------------------------------------------------------------------------
(* THE NEWS OF A BALLOT *)

Hook == [active : BOOLEAN, failures : Nat, streak : Nat]

WorkerPc ==
    {"idle", "recorded", "invalidated", "posting", "failed", "disabling", "told",
     "emitting", "emitted", "lost"}

Worker ==
    [pc : WorkerPc, api : BOOLEAN, copy : Hook \cup {Nothing}, row : Hook \cup {Nothing},
     payload : SUBSET Voter]

ReaderState ==
    [pc : {"idle", "first", "second", "caching"}, voted : SUBSET Voter,
     votes : SUBSET Voter, missed : SUBSET Voter]

Report == [voted : SUBSET Voter, votes : SUBSET Voter, missed : SUBSET Voter]

Dashboard ==
    [stream : {"off", "on", "polling"}, retries : Nat, inbox : Seq(SUBSET Voter),
     answer : (SUBSET Voter) \cup {Nothing}, shown : SUBSET Voter]

NewsTyped ==
    /\ voted \subseteq Voter
    /\ worker \in [Voter -> Worker]
    /\ cache # Nothing => cache \in Report
    /\ reader \in [Reader -> ReaderState]
    /\ hook \in Hook
    /\ dashboard \in Dashboard

(* Only a request of the API has anything uncommitted.                      *)
Transactions ==
    \A v \in Voter :
       /\ At(v, "idle") => v \notin voted /\ ~worker[v].api
       /\ Uncommitted(v) => worker[v].api
       /\ worker[v].row # Nothing => Uncommitted(v)
       /\ Uncommitted(v) /\ worker[v].pc \in {"failed", "disabling"}
             => worker[v].row # Nothing

(* A report in the making is as honest as a cached one.                     *)
Honest(report) == \A v \in voted \ report.voted : Excused(v, report)

ReadersAreHonest ==
    /\ \A r \in Reader :
          /\ reader[r].pc = "second" => reader[r].voted \subseteq voted /\ Honest(reader[r])
          /\ reader[r].pc = "caching" => /\ reader[r].voted \subseteq reader[r].votes
                                         /\ reader[r].votes \subseteq voted
                                         /\ Honest(reader[r])
    /\ CachedReportsAreHonest

(* A ballot that is recorded, or about to be.                               *)
Known == {v \in Voter : v \in voted \/ worker[v].api}

TotalsAreKnown ==
    /\ \A v \in Voter : worker[v].payload \subseteq Known
    /\ \A i \in 1..Len(dashboard.inbox) : dashboard.inbox[i] \subseteq Known
    /\ dashboard.answer # Nothing => dashboard.answer \subseteq Known
    /\ dashboard.shown \subseteq Known

(* The committed row, and the row of each open transaction.  A transaction  *)
(* has written one at a time: the others wait for it.                       *)
HookIsWatched ==
    /\ hook.failures >= hook.streak
    /\ hook.streak >= MaxFailures =>
          \/ ~hook.active
          \/ \E v \in voted : worker[v].pc \in {"failed", "disabling"}
    /\ \A v \in Voter : worker[v].row # Nothing =>
          /\ worker[v].row.failures >= worker[v].row.streak
          /\ worker[v].row.streak >= MaxFailures =>
                ~worker[v].row.active \/ worker[v].pc \in {"failed", "disabling"}
          /\ \A w \in Voter \ {v} : worker[w].row = Nothing

NewsInv ==
    /\ NewsTyped /\ Transactions
    /\ ReadersAreHonest /\ TotalsAreKnown /\ HookIsWatched

-------------------------------------------------------------------------------
LEMMA NewsInitInv ==
    ASSUME NewsInit
    PROVE  NewsInv
<1>1. NewsTyped
  <2>1. worker \in [Voter -> Worker]
    BY DEF NewsInit, Worker, WorkerPc
  <2>2. reader \in [Reader -> ReaderState]
    BY DEF NewsInit, ReaderState
  <2>3. hook \in Hook /\ dashboard \in Dashboard
    <3>1. hook \in Hook
      BY DEF NewsInit, Hook
    <3>2. dashboard \in Dashboard
      <4> DEFINE none == <<>>
      <4>1. none \in Seq(SUBSET Voter)
        OBVIOUS
      <4>2. dashboard = [stream |-> "off", retries |-> 0, inbox |-> none,
                         answer |-> Nothing, shown |-> {}]
        BY DEF NewsInit
      <4>3. \A stream \in {"off", "on", "polling"}, n \in Nat, box \in Seq(SUBSET Voter),
               answer \in (SUBSET Voter) \cup {Nothing}, shown \in SUBSET Voter :
               [stream |-> stream, retries |-> n, inbox |-> box, answer |-> answer,
                shown |-> shown] \in Dashboard
        BY DEF Dashboard
      <4>4. "off" \in {"off", "on", "polling"} /\ 0 \in Nat
            /\ Nothing \in (SUBSET Voter) \cup {Nothing} /\ {} \in SUBSET Voter
        OBVIOUS
      <4> HIDE DEF none
      <4> QED BY <4>1, <4>2, <4>3, <4>4
    <3> QED BY <3>1, <3>2
  <2> QED BY <2>1, <2>2, <2>3 DEF NewsInit, NewsTyped
<1>2. Transactions
  BY DEF NewsInit, Transactions, At, Uncommitted
<1>3. ReadersAreHonest
  BY DEF NewsInit, ReadersAreHonest, CachedReportsAreHonest
<1>4. TotalsAreKnown
  BY DEF NewsInit, TotalsAreKnown
<1>5. HookIsWatched
  BY NewsAssumption DEF NewsInit, HookIsWatched
<1> QED BY <1>1, <1>2, <1>3, <1>4, <1>5 DEF NewsInv

(* What a step of the request of v does to the requests.                    *)
Steps(v) ==
    /\ worker' \in [Voter -> Worker]
    /\ \A w \in Voter \ {v} : worker'[w] = worker[w]

LEMMA GoesToSteps ==
    ASSUME NewsTyped, NEW v \in Voter, NEW pc \in WorkerPc, GoesTo(v, pc)
    PROVE  /\ Steps(v) /\ worker'[v].pc = pc
           /\ worker'[v].api = worker[v].api /\ worker'[v].row = worker[v].row
           /\ worker'[v].copy = worker[v].copy /\ worker'[v].payload = worker[v].payload
BY DEF GoesTo, Steps, NewsTyped, Worker

(* Steps that leave the reports alone: a new ballot is excused, and an old  *)
(* one keeps its excuse.                                                    *)
LEMMA ReportsWait ==
    ASSUME NewsTyped, ReadersAreHonest, UNCHANGED <<cache, reader>>, voted \subseteq voted',
           \A v \in voted' \ voted : worker'[v].pc = "recorded" \/ worker'[v].api,
           \A v \in voted : /\ worker[v].pc = "recorded" => worker'[v].pc = "recorded"
                            /\ worker[v].api => worker'[v].api
    PROVE  ReadersAreHonest'
<1>1. ASSUME NEW report, Honest(report)
      PROVE  Honest(report)'
  BY <1>1 DEF Honest, Excused
<1>2. ASSUME NEW r \in Reader
      PROVE  /\ Honest(reader[r]) => Honest(reader[r])'
             /\ Honest(cache) => Honest(cache)'
  BY <1>1
<1>3. CachedReportsAreHonest'
  BY DEF ReadersAreHonest, CachedReportsAreHonest, Excused
<1>4. \A r \in Reader :
          /\ reader'[r].pc = "second" => reader'[r].voted \subseteq voted' /\ Honest(reader[r])'
          /\ reader'[r].pc = "caching" => /\ reader'[r].voted \subseteq reader'[r].votes
                                          /\ reader'[r].votes \subseteq voted'
                                          /\ Honest(reader[r])'
  BY DEF ReadersAreHonest, Honest, Excused
<1> QED BY <1>3, <1>4 DEF ReadersAreHonest

LEMMA TotalsWait ==
    ASSUME NewsTyped, TotalsAreKnown, UNCHANGED dashboard, Known \subseteq Known',
           \A v \in Voter : worker'[v].payload \subseteq Known'
    PROVE  TotalsAreKnown'
BY DEF TotalsAreKnown

LEMMA HookWaits ==
    ASSUME NewsTyped, HookIsWatched, UNCHANGED hook, voted \subseteq voted',
           \A v \in Voter : /\ worker'[v].row \in {worker[v].row, Nothing}
                            /\ \/ worker'[v].row = Nothing /\ v \notin voted
                               \/ worker[v].pc \notin {"failed", "disabling"}
                               \/ worker'[v].pc \in {"failed", "disabling"}
    PROVE  HookIsWatched'
<1>1. voted \subseteq Voter
  BY DEF NewsTyped
<1> QED BY <1>1 DEF HookIsWatched

(* The requests that tell of a ballot *)

LEMMA CastVotesKeeps ==
    ASSUME NewsInv, NEW v \in Voter, CastVotes(v)
    PROVE  NewsInv'
<1>1. PICK api \in BOOLEAN :
         /\ Recorded(v, api)
         /\ worker' = [worker EXCEPT ![v].pc = "recorded", ![v].api = api]
  BY DEF CastVotes
<1>2. /\ worker[v].pc = "idle" /\ v \notin voted /\ ~worker[v].api
      /\ worker[v].row = Nothing
      /\ UNCHANGED <<cache, reader, hook, dashboard>>
  BY DEF CastVotes, At, NewsInv, Transactions, Uncommitted
<1>3. /\ Steps(v) /\ worker'[v].pc = "recorded" /\ worker'[v].api = api
      /\ worker'[v].row = worker[v].row /\ worker'[v].payload = worker[v].payload
  <2> DEFINE w == [worker[v] EXCEPT !.pc = "recorded", !.api = api]
  <2>1. worker[v] \in Worker /\ worker \in [Voter -> Worker]
    BY DEF NewsInv, NewsTyped
  <2>2. /\ w \in Worker /\ w.pc = "recorded" /\ w.api = api
        /\ w.row = worker[v].row /\ w.payload = worker[v].payload
    BY <2>1 DEF Worker, WorkerPc
  <2>3. worker' = [worker EXCEPT ![v] = w]
    BY <1>1, <2>1
  <2> HIDE DEF w
  <2> QED BY <2>1, <2>2, <2>3 DEF Steps
<1>4. voted' = IF api THEN voted ELSE voted \cup {v}
  BY <1>1 DEF Recorded
<1>5. NewsTyped'
  BY <1>2, <1>3, <1>4 DEF NewsInv, NewsTyped, Steps
<1>6. Transactions'
  BY <1>2, <1>3, <1>4 DEF NewsInv, Transactions, Steps, At, Uncommitted
<1>7. ReadersAreHonest'
  BY <1>2, <1>3, <1>4, ReportsWait DEF NewsInv, NewsTyped, Steps
<1>8. TotalsAreKnown'
  <2>1. Known \subseteq Known'
    BY <1>2, <1>3, <1>4 DEF Known, Steps
  <2> QED BY <1>2, <1>3, <2>1, TotalsWait DEF NewsInv, TotalsAreKnown, Steps
<1>9. HookIsWatched'
  BY <1>2, <1>3, <1>4, HookWaits DEF NewsInv, Steps
<1> QED BY <1>5, <1>6, <1>7, <1>8, <1>9 DEF NewsInv

LEMMA InvalidateKeeps ==
    ASSUME NewsInv, NEW v \in Voter, Invalidate(v)
    PROVE  NewsInv'
<1>1. /\ worker[v].pc = "recorded" /\ GoesTo(v, "invalidated")
      /\ cache' = Nothing /\ UNCHANGED <<voted, hook, dashboard>>
      /\ reader' = [r \in Reader |-> IF reader[r].pc = "idle" THEN reader[r]
                       ELSE [reader[r] EXCEPT !.missed = @ \cup {v}]]
  BY DEF Invalidate, At, Dropped
<1>2. /\ Steps(v) /\ worker'[v].pc = "invalidated" /\ worker'[v].api = worker[v].api
      /\ worker'[v].row = worker[v].row /\ worker'[v].payload = worker[v].payload
  BY <1>1, GoesToSteps DEF NewsInv, WorkerPc
<1>3. NewsTyped'
  <2>1. reader' \in [Reader -> ReaderState]
    BY <1>1 DEF NewsInv, NewsTyped, ReaderState
  <2> QED BY <1>1, <1>2, <2>1 DEF NewsInv, NewsTyped, Steps
<1>4. Transactions'
  BY <1>1, <1>2 DEF NewsInv, Transactions, Steps, At, Uncommitted
<1>5. ReadersAreHonest'
  <2>1. ASSUME NEW r \in Reader, reader'[r].pc # "idle"
        PROVE  /\ reader'[r].pc = reader[r].pc /\ reader'[r].voted = reader[r].voted
               /\ reader'[r].votes = reader[r].votes
               /\ reader'[r].missed = reader[r].missed \cup {v}
    BY <1>1, <2>1 DEF NewsInv, NewsTyped, ReaderState
  <2>2. ASSUME NEW r \in Reader, reader'[r].pc # "idle", Honest(reader[r])
        PROVE  \A w \in voted' \ reader'[r].voted :
                  \/ worker'[w].pc = "recorded" \/ worker'[w].api
                  \/ w \in reader'[r].missed
    BY <1>1, <1>2, <2>1, <2>2 DEF Honest, Excused, Steps, NewsInv, NewsTyped
  <2>3. ASSUME NEW r \in Reader
        PROVE  /\ reader'[r].pc = "second" =>
                     reader'[r].voted \subseteq voted' /\ Honest(reader[r])'
               /\ reader'[r].pc = "caching" => /\ reader'[r].voted \subseteq reader'[r].votes
                                               /\ reader'[r].votes \subseteq voted'
                                               /\ Honest(reader[r])'
    BY <1>1, <2>1, <2>2 DEF NewsInv, ReadersAreHonest, Honest, Excused
  <2>4. CachedReportsAreHonest'
    BY <1>1 DEF CachedReportsAreHonest
  <2> QED BY <2>3, <2>4 DEF ReadersAreHonest
<1>6. TotalsAreKnown'
  <2>1. Known \subseteq Known'
    BY <1>1, <1>2 DEF Known, Steps
  <2> QED BY <1>1, <1>2, <2>1, TotalsWait DEF NewsInv, TotalsAreKnown, Steps
<1>7. HookIsWatched'
  BY <1>1, <1>2, HookWaits DEF NewsInv, Steps
<1> QED BY <1>3, <1>4, <1>5, <1>6, <1>7 DEF NewsInv

(* dispatch, _send and the payload: what the request reads and remembers.   *)
LEMMA QuietStepKeeps ==
    ASSUME NewsInv, NEW v \in Voter,
           Dispatch(v) \/ CheckFailures(v) \/ BuildStatsPayload(v)
    PROVE  NewsInv'
<1>1. UNCHANGED <<voted, cache, reader, hook, dashboard>>
  BY DEF Dispatch, CheckFailures, BuildStatsPayload
<1>2. voted \cup {v} \subseteq Voter /\ (Uncommitted(v) => v \in Known) /\ voted \subseteq Known
      /\ HookSeenBy(v) \in Hook
  <2>1. worker[v].row # Nothing => worker[v].row \in Hook
    BY DEF NewsInv, NewsTyped, Worker
  <2> QED BY <2>1 DEF NewsInv, NewsTyped, Transactions, Known, HookSeenBy
<1>3. /\ Steps(v)
      /\ worker[v].pc \in {"invalidated", "failed", "told"}
      /\ worker'[v].pc \in {"told", "posting", "disabling", "emitting"}
      /\ worker'[v].api = worker[v].api /\ worker'[v].row = worker[v].row
      /\ worker'[v].payload \subseteq worker[v].payload
         \/ worker'[v].payload \subseteq Known
      /\ worker[v].pc = "failed" /\ worker'[v].pc # "disabling" =>
            HookSeenBy(v).failures < MaxFailures
      /\ worker[v].pc # "failed" => worker'[v].pc # "disabling"
  <2>1. CASE Dispatch(v)
    <3>1. CASE GoesTo(v, "told")
      BY <2>1, <3>1, GoesToSteps DEF Dispatch, At, NewsInv, WorkerPc
    <3>2. CASE worker' = [worker EXCEPT ![v].pc = "posting", ![v].copy = HookSeenBy(v)]
      <4> DEFINE w == [worker[v] EXCEPT !.pc = "posting", !.copy = HookSeenBy(v)]
      <4>1. worker[v] \in Worker /\ worker \in [Voter -> Worker]
        BY DEF NewsInv, NewsTyped
      <4>2. /\ w \in Worker /\ w.pc = "posting" /\ w.api = worker[v].api
            /\ w.row = worker[v].row /\ w.payload = worker[v].payload
        BY <1>2, <4>1 DEF Worker, WorkerPc
      <4>3. worker' = [worker EXCEPT ![v] = w]
        BY <3>2, <4>1
      <4>4. worker[v].pc = "invalidated"
        BY <2>1 DEF Dispatch, At
      <4> HIDE DEF w
      <4> QED BY <4>1, <4>2, <4>3, <4>4 DEF Steps
    <3> QED BY <2>1, <3>1, <3>2 DEF Dispatch
  <2>2. CASE CheckFailures(v)
    <3>1. PICK pc \in {"told", "disabling"} :
             /\ GoesTo(v, pc)
             /\ pc = IF HookSeenBy(v).failures >= MaxFailures THEN "disabling" ELSE "told"
      BY <2>2 DEF CheckFailures
    <3>2. worker[v].pc = "failed"
      BY <2>2 DEF CheckFailures, At
    <3>3. HookSeenBy(v).failures \in Nat /\ MaxFailures \in Nat
      BY <1>2, NewsAssumption DEF Hook
    <3> QED BY <3>1, <3>2, <3>3, GoesToSteps DEF NewsInv, WorkerPc
  <2>3. CASE BuildStatsPayload(v)
    <3> DEFINE w == [worker[v] EXCEPT !.pc = "emitting", !.payload = Counts(v)]
    <3>1. worker[v] \in Worker /\ worker \in [Voter -> Worker]
      BY DEF NewsInv, NewsTyped
    <3>2. Counts(v) \subseteq Known /\ Counts(v) \subseteq Voter
      BY <1>2 DEF Counts
    <3>3. /\ w \in Worker /\ w.pc = "emitting" /\ w.api = worker[v].api
          /\ w.row = worker[v].row /\ w.payload = Counts(v)
      BY <3>1, <3>2 DEF Worker, WorkerPc
    <3>4. worker' = [worker EXCEPT ![v] = w] /\ worker[v].pc = "told"
      BY <2>3, <3>1 DEF BuildStatsPayload, At
    <3> HIDE DEF w
    <3> QED BY <3>1, <3>2, <3>3, <3>4 DEF Steps
  <2> QED BY <2>1, <2>2, <2>3
<1>4. NewsTyped'
  BY <1>1, <1>3 DEF NewsInv, NewsTyped, Steps
<1>5. Transactions'
  BY <1>1, <1>3 DEF NewsInv, Transactions, Steps, At, Uncommitted
<1>6. ReadersAreHonest'
  BY <1>1, <1>3, ReportsWait DEF NewsInv, NewsTyped, Steps
<1>7. TotalsAreKnown'
  <2>1. Known' = Known
    BY <1>1, <1>3 DEF Known, Steps
  <2> QED BY <1>1, <1>3, <2>1, TotalsWait DEF NewsInv, TotalsAreKnown, Steps
<1>8. HookIsWatched'
  <2>1. MaxFailures \in Nat /\ hook.failures \in Nat /\ hook.streak \in Nat
        /\ (worker[v].row # Nothing => /\ worker[v].row.failures \in Nat
                                       /\ worker[v].row.streak \in Nat)
    BY NewsAssumption DEF NewsInv, NewsTyped, Hook, Worker
  <2>2. CASE worker[v].pc # "failed" \/ worker'[v].pc = "disabling"
    BY <1>1, <1>3, <2>2, HookWaits DEF NewsInv, Steps
  <2>3. CASE worker[v].pc = "failed" /\ worker'[v].pc # "disabling"
    <3>1. HookSeenBy(v).failures < MaxFailures
      BY <1>3, <2>3
    <3>2. CASE worker[v].row = Nothing
      <4>1. hook.streak < MaxFailures
        BY <2>1, <3>1, <3>2 DEF HookSeenBy, NewsInv, HookIsWatched
      <4> QED BY <1>1, <1>3, <2>1, <3>2, <4>1 DEF NewsInv, HookIsWatched, Steps
    <3>3. CASE worker[v].row # Nothing
      <4>1. worker[v].row.streak < MaxFailures /\ v \notin voted
        BY <2>1, <3>1, <3>3 DEF HookSeenBy, NewsInv, HookIsWatched, Transactions, Uncommitted
      <4>2. hook.streak >= MaxFailures =>
               \/ ~hook.active
               \/ \E w \in voted : worker'[w].pc \in {"failed", "disabling"}
        BY <1>3, <4>1 DEF NewsInv, NewsTyped, HookIsWatched, Steps
      <4>3. \A w \in Voter : worker'[w].row # Nothing =>
               /\ worker'[w].row.failures >= worker'[w].row.streak
               /\ worker'[w].row.streak >= MaxFailures =>
                     ~worker'[w].row.active \/ worker'[w].pc \in {"failed", "disabling"}
               /\ \A u \in Voter \ {w} : worker'[u].row = Nothing
        BY <1>3, <2>1, <3>3, <4>1 DEF NewsInv, HookIsWatched, Steps
      <4> QED BY <1>1, <4>2, <4>3 DEF NewsInv, HookIsWatched
    <3> QED BY <3>2, <3>3
  <2> QED BY <2>2, <2>3
<1> QED BY <1>4, <1>5, <1>6, <1>7, <1>8 DEF NewsInv

(* The writes of _send, to the row that its transaction sees.               *)
LEMMA WriteHookKeeps ==
    ASSUME NewsInv, NEW v \in Voter, NEW row \in Hook, NEW pc \in {"told", "failed"},
           worker[v].pc \in {"posting", "disabling"}, WriteHook(v, row, pc),
           row.failures >= row.streak,
           row.streak >= MaxFailures => ~row.active \/ pc = "failed"
    PROVE  NewsInv'
<1>1. /\ UNCHANGED <<voted, cache, reader, dashboard>>
      /\ \A w \in Voter \ {v} : worker[w].row = Nothing
  BY DEF WriteHook, Writable
<1>2. Uncommitted(v) <=> v \notin voted
  BY DEF Uncommitted, At
<1>3. /\ Steps(v) /\ worker'[v].pc = pc
      /\ worker'[v].api = worker[v].api /\ worker'[v].payload = worker[v].payload
      /\ worker'[v].row = IF v \in voted THEN worker[v].row ELSE row
      /\ hook' = IF v \in voted THEN row ELSE hook
  <2>1. CASE v \in voted
    BY <1>2, <2>1, GoesToSteps DEF WriteHook, NewsInv, WorkerPc
  <2>2. CASE v \notin voted
    <3> DEFINE w == [worker[v] EXCEPT !.pc = pc, !.row = row]
    <3>1. worker[v] \in Worker /\ worker \in [Voter -> Worker]
      BY DEF NewsInv, NewsTyped
    <3>2. /\ w \in Worker /\ w.pc = pc /\ w.api = worker[v].api
          /\ w.row = row /\ w.payload = worker[v].payload
      BY <3>1 DEF Worker, WorkerPc
    <3>3. worker' = [worker EXCEPT ![v] = w] /\ hook' = hook
      BY <1>2, <2>2, <3>1 DEF WriteHook
    <3> HIDE DEF w
    <3> QED BY <2>2, <3>1, <3>2, <3>3 DEF Steps
  <2> QED BY <2>1, <2>2
<1>4. row # Nothing
  BY NewsAssumption DEF Hook
<1>5. NewsTyped'
  BY <1>1, <1>3 DEF NewsInv, NewsTyped, Steps
<1>6. Transactions'
  BY <1>1, <1>2, <1>3, <1>4 DEF NewsInv, Transactions, Steps, At, Uncommitted
<1>7. ReadersAreHonest'
  BY <1>1, <1>3, ReportsWait DEF NewsInv, NewsTyped, Steps
<1>8. TotalsAreKnown'
  <2>1. Known' = Known
    BY <1>1, <1>3 DEF Known, Steps
  <2> QED BY <1>1, <1>3, <2>1, TotalsWait DEF NewsInv, TotalsAreKnown, Steps
<1>9. HookIsWatched'
  <2>1. CASE v \in voted
    <3>1. worker[v].row = Nothing
      BY <1>2, <2>1 DEF NewsInv, Transactions
    <3>2. \A w \in Voter : worker'[w].row = Nothing
      BY <1>1, <1>3, <2>1, <3>1 DEF Steps
    <3> QED BY <1>1, <1>3, <2>1, <3>2 DEF HookIsWatched
  <2>2. CASE v \notin voted
    <3>1. \A w \in voted : worker'[w] = worker[w]
      BY <1>3, <2>2 DEF Steps, NewsInv, NewsTyped
    <3>2. \A w \in Voter : worker'[w].row # Nothing => w = v
      BY <1>1, <1>3 DEF Steps
    <3>3. worker'[v].row = row /\ worker'[v].pc = pc
      BY <1>3, <2>2
    <3> QED BY <1>1, <1>3, <2>2, <3>1, <3>2, <3>3 DEF NewsInv, HookIsWatched
  <2> QED BY <2>1, <2>2
<1> QED BY <1>5, <1>6, <1>7, <1>8, <1>9 DEF NewsInv

(* A delivery, a failure, and switching off are such writes.                *)
LEMMA SendKeeps ==
    ASSUME NewsInv, NEW v \in Voter, Delivered(v) \/ DeliveryFails(v) \/ Disable(v)
    PROVE  NewsInv'
<1> DEFINE h == HookSeenBy(v)
<1>1. h \in Hook /\ h.failures >= h.streak
  <2>1. worker[v].row # Nothing => worker[v].row \in Hook
    BY DEF NewsInv, NewsTyped, Worker
  <2> QED BY <2>1 DEF NewsInv, NewsTyped, HookIsWatched, HookSeenBy
<1>2. MaxFailures \in Nat /\ MaxFailures >= 1
  BY NewsAssumption
<1>3. CASE Delivered(v)
  <2> DEFINE row == [h EXCEPT !.failures = 0, !.streak = 0]
  <2>1. row \in Hook /\ row.failures = 0 /\ row.streak = 0
    BY <1>1 DEF Hook
  <2>2. WriteHook(v, row, "told") /\ worker[v].pc = "posting"
    BY <1>3 DEF Delivered, At
  <2> HIDE DEF row
  <2> QED BY <1>2, <2>1, <2>2, WriteHookKeeps
<1>4. CASE DeliveryFails(v)
  <2> DEFINE row == [h EXCEPT !.failures = Failures(v), !.streak = @ + 1]
  <2>1. row \in Hook /\ row.failures = h.failures + 1 /\ row.streak = h.streak + 1
    <3>1. PICK n \in Nat : n = Failures(v) /\ n = h.failures + 1
      BY <1>1 DEF Hook, Failures
    <3>2. PICK s \in Nat : s = h.streak + 1
      BY <1>1 DEF Hook
    <3>3. row = [h EXCEPT !.failures = n, !.streak = s]
      BY <3>1, <3>2
    <3> HIDE DEF row, h
    <3>4. row \in Hook
      BY <1>1, <3>3 DEF Hook
    <3>5. row.failures = n /\ row.streak = s
      BY <1>1, <3>3 DEF Hook
    <3> QED BY <3>1, <3>2, <3>4, <3>5
  <2>2. row.failures >= row.streak
    BY <1>1, <2>1 DEF Hook
  <2>3. WriteHook(v, row, "failed") /\ worker[v].pc = "posting"
    BY <1>4 DEF DeliveryFails, At
  <2> HIDE DEF row
  <2> QED BY <2>1, <2>2, <2>3, WriteHookKeeps
<1>5. CASE Disable(v)
  <2> DEFINE row == [h EXCEPT !.active = FALSE]
  <2>1. row \in Hook /\ row.failures >= row.streak /\ ~row.active
    BY <1>1 DEF Hook
  <2>2. WriteHook(v, row, "told") /\ worker[v].pc = "disabling"
    BY <1>5 DEF Disable, At
  <2> HIDE DEF row
  <2> QED BY <2>1, <2>2, WriteHookKeeps
<1> QED BY <1>3, <1>4, <1>5

(* The end of the transaction publishes the row it has written.             *)
LEMMA CommitRequestKeeps ==
    ASSUME NewsInv, NEW v \in Voter, CommitRequest(v)
    PROVE  NewsInv'
<1>1. /\ worker[v].pc = "emitted" /\ v \notin voted /\ worker[v].api
      /\ voted' = voted \cup {v} /\ hook' = HookSeenBy(v)
      /\ worker' = [worker EXCEPT ![v].row = Nothing]
      /\ UNCHANGED <<cache, reader, dashboard>>
  BY DEF CommitRequest, At, Uncommitted, NewsInv, Transactions
<1>2. /\ Steps(v) /\ worker'[v].pc = "emitted" /\ worker'[v].api
      /\ worker'[v].row = Nothing /\ worker'[v].payload = worker[v].payload
  BY <1>1 DEF NewsInv, NewsTyped, Worker, Steps
<1>3. NewsTyped'
  <2>1. HookSeenBy(v) \in Hook
    BY DEF NewsInv, NewsTyped, Worker, HookSeenBy
  <2> QED BY <1>1, <1>2, <2>1 DEF NewsInv, NewsTyped, Steps
<1>4. Transactions'
  BY <1>1, <1>2 DEF NewsInv, Transactions, Steps, At, Uncommitted
<1>5. ReadersAreHonest'
  BY <1>1, <1>2, ReportsWait DEF NewsInv, NewsTyped, Steps
<1>6. TotalsAreKnown'
  <2>1. Known \subseteq Known'
    BY <1>1, <1>2 DEF Known, Steps
  <2> QED BY <1>1, <1>2, <2>1, TotalsWait DEF NewsInv, TotalsAreKnown, Steps
<1>7. HookIsWatched'
  <2>1. \A w \in voted : worker'[w] = worker[w]
    BY <1>1, <1>2 DEF Steps, NewsInv, NewsTyped
  <2>2. CASE worker[v].row = Nothing
    <3>1. hook' = hook
      BY <1>1, <2>2 DEF HookSeenBy
    <3> QED BY <1>1, <1>2, <2>1, <2>2, <3>1 DEF NewsInv, HookIsWatched, Steps
  <2>3. CASE worker[v].row # Nothing
    <3>1. hook' = worker[v].row /\ \A w \in Voter : worker'[w].row = Nothing
      BY <1>1, <1>2, <2>3 DEF HookSeenBy, NewsInv, HookIsWatched, Steps
    <3> QED BY <1>1, <2>3, <3>1 DEF NewsInv, HookIsWatched
  <2> QED BY <2>2, <2>3
<1> QED BY <1>3, <1>4, <1>5, <1>6, <1>7 DEF NewsInv

LEMMA WorkerKilledKeeps ==
    ASSUME NewsInv, NEW v \in Voter, WorkerKilled(v)
    PROVE  NewsInv'
<1>1. /\ worker[v].pc # "idle" /\ v \notin voted /\ worker[v].api
      /\ UNCHANGED <<voted, cache, reader, hook, dashboard>>
  BY DEF WorkerKilled, At, Uncommitted, NewsInv, Transactions
<1>2. /\ Steps(v) /\ worker'[v].pc = "lost" /\ worker'[v].api
      /\ worker'[v].row = Nothing /\ worker'[v].payload = {}
  <2> DEFINE w == [worker[v] EXCEPT !.pc = "lost", !.row = Nothing, !.payload = {}]
  <2>1. worker[v] \in Worker /\ worker \in [Voter -> Worker]
    BY DEF NewsInv, NewsTyped
  <2>2. /\ w \in Worker /\ w.pc = "lost" /\ w.api = worker[v].api
        /\ w.row = Nothing /\ w.payload = {}
    BY <2>1 DEF Worker, WorkerPc
  <2>3. worker' = [worker EXCEPT ![v] = w]
    BY <2>1 DEF WorkerKilled
  <2> HIDE DEF w
  <2> QED BY <1>1, <2>1, <2>2, <2>3 DEF Steps
<1>3. NewsTyped'
  BY <1>1, <1>2 DEF NewsInv, NewsTyped, Steps
<1>4. Transactions'
  BY <1>1, <1>2 DEF NewsInv, Transactions, Steps, At, Uncommitted
<1>5. ReadersAreHonest'
  BY <1>1, <1>2, ReportsWait DEF NewsInv, NewsTyped, Steps
<1>6. TotalsAreKnown'
  <2>1. Known \subseteq Known'
    BY <1>1, <1>2 DEF Known, Steps
  <2> QED BY <1>1, <1>2, <2>1, TotalsWait DEF NewsInv, TotalsAreKnown, Steps
<1>7. HookIsWatched'
  BY <1>1, <1>2, HookWaits DEF NewsInv, Steps
<1> QED BY <1>3, <1>4, <1>5, <1>6, <1>7 DEF NewsInv

LEMMA ReactivateKeeps ==
    ASSUME NewsInv, Reactivate
    PROVE  NewsInv'
<1>1. /\ hook' = [hook EXCEPT !.active = TRUE, !.streak = 0]
      /\ \A w \in Voter : worker[w].row = Nothing
      /\ UNCHANGED <<voted, worker, cache, reader, dashboard>>
  BY DEF Reactivate
<1>2. hook' \in Hook /\ hook'.streak = 0 /\ hook'.failures \in Nat
  BY <1>1 DEF NewsInv, NewsTyped, Hook
<1>3. NewsTyped'
  BY <1>1, <1>2 DEF NewsInv, NewsTyped
<1>4. Transactions' /\ TotalsAreKnown'
  BY <1>1 DEF NewsInv, Transactions, TotalsAreKnown, Known, At, Uncommitted
<1>5. ReadersAreHonest'
  BY <1>1, ReportsWait DEF NewsInv
<1>6. HookIsWatched'
  BY <1>1, <1>2, NewsAssumption DEF HookIsWatched
<1> QED BY <1>3, <1>4, <1>5, <1>6 DEF NewsInv

(* The readers of the reports *)

LEMMA ReaderKeeps ==
    ASSUME NewsInv, NEW r \in Reader,
           GetReport(r) \/ CountVoters(r) \/ CountVotes(r) \/ CacheReport(r)
    PROVE  NewsInv'
<1>1. UNCHANGED <<voted, worker, hook, dashboard>>
  BY DEF GetReport, CountVoters, CountVotes, CacheReport
<1>2. Transactions' /\ TotalsAreKnown' /\ HookIsWatched'
  BY <1>1 DEF NewsInv, Transactions, TotalsAreKnown, Known, HookIsWatched, At, Uncommitted
<1>3. reader \in [Reader -> ReaderState] /\ reader[r] \in ReaderState
      /\ (cache # Nothing => cache \in Report) /\ voted \subseteq Voter
  BY DEF NewsInv, NewsTyped
<1>4. ASSUME NEW s \in ReaderState, reader' = [reader EXCEPT ![r] = s], cache' = cache,
             s.pc = "second" => s.voted \subseteq voted /\ Honest(s),
             s.pc = "caching" => /\ s.voted \subseteq s.votes /\ s.votes \subseteq voted
                                 /\ Honest(s)
      PROVE  NewsInv'
  <2>1. NewsTyped'
    BY <1>1, <1>4 DEF NewsInv, NewsTyped
  <2>2. CachedReportsAreHonest'
    BY <1>1, <1>4 DEF NewsInv, ReadersAreHonest, CachedReportsAreHonest, Excused
  <2>3. \A q \in Reader : reader'[q] = IF q = r THEN s ELSE reader[q]
    BY <1>3, <1>4
  <2>4. \A q \in Reader :
          /\ reader'[q].pc = "second" => reader'[q].voted \subseteq voted'
                                         /\ Honest(reader[q])'
          /\ reader'[q].pc = "caching" => /\ reader'[q].voted \subseteq reader'[q].votes
                                          /\ reader'[q].votes \subseteq voted'
                                          /\ Honest(reader[q])'
    BY <1>1, <1>4, <2>3 DEF NewsInv, ReadersAreHonest, Honest, Excused
  <2> QED BY <1>2, <2>1, <2>2, <2>4 DEF NewsInv, ReadersAreHonest
<1>5. CASE GetReport(r)
  <2> DEFINE s == [reader[r] EXCEPT !.pc = "first", !.missed = {}]
  <2>1. s \in ReaderState /\ s.pc = "first"
    BY <1>3 DEF ReaderState
  <2>2. reader' = [reader EXCEPT ![r] = s] /\ cache' = cache
    BY <1>3, <1>5 DEF GetReport
  <2> HIDE DEF s
  <2> QED BY <1>4, <2>1, <2>2
<1>6. CASE CountVoters(r)
  <2> DEFINE s == [reader[r] EXCEPT !.pc = "second", !.voted = voted]
  <2>1. s \in ReaderState /\ s.pc = "second" /\ s.voted = voted
    BY <1>3 DEF ReaderState
  <2>2. reader' = [reader EXCEPT ![r] = s] /\ cache' = cache
    BY <1>3, <1>6 DEF CountVoters
  <2> HIDE DEF s
  <2>3. Honest(s)
    BY <2>1 DEF Honest
  <2> QED BY <1>4, <2>1, <2>2, <2>3
<1>7. CASE CountVotes(r)
  <2> DEFINE s == [reader[r] EXCEPT !.pc = "caching", !.votes = voted]
  <2>1. /\ s \in ReaderState /\ s.pc = "caching" /\ s.votes = voted
        /\ s.voted = reader[r].voted /\ s.missed = reader[r].missed
    BY <1>3 DEF ReaderState
  <2>2. reader' = [reader EXCEPT ![r] = s] /\ cache' = cache /\ reader[r].pc = "second"
    BY <1>3, <1>7 DEF CountVotes
  <2> HIDE DEF s
  <2>3. Honest(s) /\ s.voted \subseteq s.votes
    BY <2>1, <2>2 DEF NewsInv, ReadersAreHonest, Honest, Excused
  <2> QED BY <1>4, <2>1, <2>2, <2>3
<1>8. CASE CacheReport(r)
  <2> DEFINE s == [reader[r] EXCEPT !.pc = "idle", !.voted = {}, !.votes = {},
                                    !.missed = {}]
             report == [voted |-> reader[r].voted, votes |-> reader[r].votes,
                        missed |-> reader[r].missed]
  <2>1. s \in ReaderState /\ s.pc = "idle"
    BY <1>3 DEF ReaderState
  <2>2. reader' = [reader EXCEPT ![r] = s] /\ cache' = report /\ reader[r].pc = "caching"
    BY <1>3, <1>8 DEF CacheReport
  <2>3. report \in Report /\ report.voted = reader[r].voted
        /\ report.votes = reader[r].votes /\ report.missed = reader[r].missed
    BY <1>3 DEF Report, ReaderState
  <2> HIDE DEF s, report
  <2>4. NewsTyped'
    BY <1>1, <2>1, <2>2, <2>3 DEF NewsInv, NewsTyped
  <2>5. CachedReportsAreHonest'
    BY <1>1, <2>2, <2>3 DEF NewsInv, ReadersAreHonest, CachedReportsAreHonest, Honest,
                           Excused
  <2>6. \A q \in Reader : reader'[q] = IF q = r THEN s ELSE reader[q]
    BY <1>3, <2>2
  <2>7. \A q \in Reader :
          /\ reader'[q].pc = "second" => reader'[q].voted \subseteq voted'
                                         /\ Honest(reader[q])'
          /\ reader'[q].pc = "caching" => /\ reader'[q].voted \subseteq reader'[q].votes
                                          /\ reader'[q].votes \subseteq voted'
                                          /\ Honest(reader[q])'
    BY <1>1, <2>1, <2>6 DEF NewsInv, ReadersAreHonest, Honest, Excused
  <2> QED BY <1>2, <2>4, <2>5, <2>7 DEF NewsInv, ReadersAreHonest
<1> QED BY <1>5, <1>6, <1>7, <1>8

LEMMA ReportExpiresKeeps ==
    ASSUME NewsInv, ReportExpires
    PROVE  NewsInv'
<1>1. cache' = Nothing /\ UNCHANGED <<voted, worker, reader, hook, dashboard>>
  BY DEF ReportExpires
<1>2. NewsTyped' /\ Transactions' /\ TotalsAreKnown' /\ HookIsWatched'
  BY <1>1 DEF NewsInv, NewsTyped, Transactions, TotalsAreKnown, Known, HookIsWatched, At,
              Uncommitted
<1>3. ReadersAreHonest'
  BY <1>1 DEF NewsInv, ReadersAreHonest, CachedReportsAreHonest, Honest, Excused
<1> QED BY <1>2, <1>3 DEF NewsInv

(* The dashboard *)

LEMMA EmitEventKeeps ==
    ASSUME NewsInv, NEW v \in Voter, EmitEvent(v)
    PROVE  NewsInv'
<1>1. UNCHANGED <<voted, cache, reader, hook>> /\ worker[v].pc = "emitting"
  BY DEF EmitEvent, At
<1>2. /\ Steps(v) /\ worker'[v].pc = "emitted" /\ worker'[v].api = worker[v].api
      /\ worker'[v].row = worker[v].row /\ worker'[v].payload = {}
  <2> DEFINE w == [worker[v] EXCEPT !.pc = "emitted", !.payload = {}]
  <2>1. worker[v] \in Worker /\ worker \in [Voter -> Worker]
    BY DEF NewsInv, NewsTyped
  <2>2. /\ w \in Worker /\ w.pc = "emitted" /\ w.api = worker[v].api
        /\ w.row = worker[v].row /\ w.payload = {}
    BY <2>1 DEF Worker, WorkerPc
  <2>3. worker' = [worker EXCEPT ![v] = w]
    BY <2>1 DEF EmitEvent
  <2> HIDE DEF w
  <2> QED BY <2>1, <2>2, <2>3 DEF Steps
<1>3. worker[v].payload \subseteq Known /\ worker[v].payload \subseteq Voter /\ Known' = Known
  BY <1>1, <1>2 DEF NewsInv, NewsTyped, TotalsAreKnown, Known, Steps, Worker
<1>4. /\ dashboard' \in Dashboard
      /\ \A i \in 1..Len(dashboard'.inbox) : dashboard'.inbox[i] \subseteq Known
      /\ dashboard'.answer = dashboard.answer /\ dashboard'.shown = dashboard.shown
  <2>1. dashboard \in Dashboard
        /\ \A i \in 1..Len(dashboard.inbox) : dashboard.inbox[i] \subseteq Known
    BY DEF NewsInv, NewsTyped, TotalsAreKnown
  <2>2. CASE dashboard' = dashboard
    BY <2>1, <2>2
  <2>3. CASE dashboard' = [dashboard EXCEPT !.inbox = Append(@, worker[v].payload)]
    <3>1. PICK box \in Seq(SUBSET Voter) : box = Append(dashboard.inbox, worker[v].payload)
      <4>1. dashboard.inbox \in Seq(SUBSET Voter)
        BY <2>1 DEF Dashboard
      <4>2. worker[v].payload \in SUBSET Voter
        BY <1>3
      <4>3. Append(dashboard.inbox, worker[v].payload) \in Seq(SUBSET Voter)
        BY <4>1, <4>2
      <4> QED BY <4>3
    <3>2. \A i \in 1..Len(box) : box[i] \subseteq Known
      <4>1. dashboard.inbox \in Seq(SUBSET Voter)
        BY <2>1 DEF Dashboard
      <4> QED BY <1>3, <2>1, <3>1, <4>1
    <3>3. dashboard' = [dashboard EXCEPT !.inbox = box]
      BY <2>3, <3>1
    <3>4. dashboard' \in Dashboard
      BY <2>1, <3>1, <3>3 DEF Dashboard
    <3>5. dashboard'.inbox = box /\ dashboard'.answer = dashboard.answer
          /\ dashboard'.shown = dashboard.shown
      BY <2>1, <3>3 DEF Dashboard
    <3> QED BY <3>2, <3>4, <3>5
  <2> QED BY <2>2, <2>3 DEF EmitEvent
<1>5. NewsTyped'
  BY <1>1, <1>2, <1>4 DEF NewsInv, NewsTyped, Steps
<1>6. Transactions'
  BY <1>1, <1>2 DEF NewsInv, Transactions, Steps, At, Uncommitted
<1>7. ReadersAreHonest'
  BY <1>1, <1>2, ReportsWait DEF NewsInv, NewsTyped, Steps
<1>8. TotalsAreKnown'
  BY <1>2, <1>3, <1>4 DEF NewsInv, TotalsAreKnown, Steps
<1>9. HookIsWatched'
  BY <1>1, <1>2, HookWaits DEF NewsInv, Steps
<1> QED BY <1>5, <1>6, <1>7, <1>8, <1>9 DEF NewsInv

LEMMA DashboardKeeps ==
    ASSUME NewsInv, Subscribe \/ StreamError \/ Receive \/ AskStats \/ ApplyStats
    PROVE  NewsInv'
<1>1. UNCHANGED <<voted, worker, cache, reader, hook>>
  BY DEF Subscribe, StreamError, Receive, AskStats, ApplyStats, DashboardStep
<1>2. dashboard \in Dashboard /\ voted \subseteq Known /\ voted \subseteq Voter
      /\ Known' = Known
  BY <1>1 DEF NewsInv, NewsTyped, Known
<1>3. /\ \A i \in 1..Len(dashboard.inbox) : dashboard.inbox[i] \subseteq Known
      /\ dashboard.answer # Nothing => dashboard.answer \subseteq Known
      /\ dashboard.shown \subseteq Known
  BY DEF NewsInv, TotalsAreKnown
<1>4. ASSUME dashboard' \in Dashboard,
             \A i \in 1..Len(dashboard'.inbox) : dashboard'.inbox[i] \subseteq Known,
             dashboard'.answer # Nothing => dashboard'.answer \subseteq Known,
             dashboard'.shown \subseteq Known
      PROVE  NewsInv'
  <2>1. NewsTyped' /\ Transactions' /\ HookIsWatched'
    BY <1>1, <1>4 DEF NewsInv, NewsTyped, Transactions, HookIsWatched, At, Uncommitted
  <2>2. ReadersAreHonest'
    BY <1>1, ReportsWait DEF NewsInv
  <2>3. TotalsAreKnown'
    BY <1>1, <1>2, <1>4 DEF NewsInv, TotalsAreKnown
  <2> QED BY <2>1, <2>2, <2>3 DEF NewsInv
<1>5. CASE Subscribe
  <2>1. dashboard' = [dashboard EXCEPT !.stream = "on", !.retries = 0]
    BY <1>5 DEF Subscribe, DashboardStep
  <2>2. dashboard' \in Dashboard
    BY <1>2, <2>1 DEF Dashboard
  <2>3. dashboard'.inbox = dashboard.inbox /\ dashboard'.answer = dashboard.answer
        /\ dashboard'.shown = dashboard.shown
    BY <1>2, <2>1 DEF Dashboard
  <2> QED BY <1>3, <1>4, <2>2, <2>3
<1>6. CASE StreamError
  <2> DEFINE none == <<>>
  <2>1. PICK stream \in {"off", "polling"} :
           dashboard' = [dashboard EXCEPT !.stream = stream, !.retries = @ + 1,
                                          !.inbox = none]
    BY <1>6 DEF StreamError, DashboardStep
  <2>2. PICK n \in Nat : n = dashboard.retries + 1
    BY <1>2 DEF Dashboard
  <2>3. none \in Seq(SUBSET Voter) /\ Len(none) = 0
    OBVIOUS
  <2> HIDE DEF none
  <2>4. dashboard' = [dashboard EXCEPT !.stream = stream, !.retries = n, !.inbox = none]
    BY <2>1, <2>2
  <2>5. dashboard' \in Dashboard
    BY <1>2, <2>1, <2>2, <2>3, <2>4 DEF Dashboard
  <2>6. dashboard'.inbox = none /\ dashboard'.answer = dashboard.answer
        /\ dashboard'.shown = dashboard.shown
    BY <1>2, <2>4 DEF Dashboard
  <2>7. \A i \in 1..Len(dashboard'.inbox) : dashboard'.inbox[i] \subseteq Known
    BY <2>3, <2>6
  <2> QED BY <1>3, <1>4, <2>5, <2>6, <2>7
<1>7. CASE Receive
  <2>1. /\ dashboard.inbox \in Seq(SUBSET Voter) /\ dashboard.inbox # <<>>
        /\ dashboard' = [dashboard EXCEPT !.inbox = Tail(@), !.shown = Head(dashboard.inbox)]
    BY <1>2, <1>7 DEF Receive, DashboardStep, Dashboard
  <2>2. PICK box \in Seq(SUBSET Voter) :
           /\ box = Tail(dashboard.inbox)
           /\ \A i \in 1..Len(box) : box[i] \subseteq Known
    <3> DEFINE q == dashboard.inbox
    <3>1. q \in Seq(SUBSET Voter) /\ q # <<>>
          /\ \A i \in 1..Len(q) : q[i] \subseteq Known
      BY <1>3, <2>1
    <3> HIDE DEF q
    <3>2. Tail(q) \in Seq(SUBSET Voter) /\ Len(Tail(q)) = Len(q) - 1 /\ Len(q) \in Nat
      BY <3>1
    <3>3. \A i \in 1..Len(Tail(q)) : Tail(q)[i] = q[i + 1]
      BY <3>1
    <3>4. \A i \in 1..Len(Tail(q)) : i + 1 \in 1..Len(q)
      BY <3>2
    <3>5. \A i \in 1..Len(Tail(q)) : Tail(q)[i] \subseteq Known
      BY <3>1, <3>3, <3>4
    <3> QED BY <3>2, <3>5 DEF q
  <2>3. PICK shown \in SUBSET Voter : shown = Head(dashboard.inbox) /\ shown \subseteq Known
    <3>1. Head(dashboard.inbox) = dashboard.inbox[1] /\ 1 \in 1..Len(dashboard.inbox)
          /\ Head(dashboard.inbox) \in SUBSET Voter
      BY <2>1
    <3> QED BY <1>3, <3>1
  <2>4. dashboard' = [dashboard EXCEPT !.inbox = box, !.shown = shown]
    BY <2>1, <2>2, <2>3
  <2>5. dashboard' \in Dashboard
    BY <1>2, <2>2, <2>3, <2>4 DEF Dashboard
  <2>6. dashboard'.inbox = box /\ dashboard'.answer = dashboard.answer
        /\ dashboard'.shown = shown
    BY <1>2, <2>4 DEF Dashboard
  <2> QED BY <1>3, <1>4, <2>2, <2>3, <2>5, <2>6
<1>8. CASE AskStats
  <2>1. dashboard' = [dashboard EXCEPT !.answer = voted]
    BY <1>8 DEF AskStats, DashboardStep
  <2>2. dashboard' \in Dashboard
    BY <1>2, <2>1 DEF Dashboard
  <2>3. dashboard'.inbox = dashboard.inbox /\ dashboard'.answer = voted
        /\ dashboard'.shown = dashboard.shown
    BY <1>2, <2>1 DEF Dashboard
  <2> QED BY <1>2, <1>3, <1>4, <2>2, <2>3
<1>9. CASE ApplyStats
  <2>1. dashboard.answer # Nothing
        /\ dashboard' = [dashboard EXCEPT !.shown = dashboard.answer, !.answer = Nothing]
    BY <1>9 DEF ApplyStats, DashboardStep
  <2>2. dashboard' \in Dashboard
    BY <1>2, <2>1 DEF Dashboard
  <2>3. dashboard'.inbox = dashboard.inbox /\ dashboard'.answer = Nothing
        /\ dashboard'.shown = dashboard.answer
    BY <1>2, <2>1 DEF Dashboard
  <2> QED BY <1>3, <1>4, <2>1, <2>2, <2>3
<1> QED BY <1>5, <1>6, <1>7, <1>8, <1>9

(* The inductive invariant of what is told of a ballot.                     *)
THEOREM NewsInvariant == NewsSpec => []NewsInv
<1>1. ASSUME NewsInv, [NewsNext]_newsVars
      PROVE  NewsInv'
  <2>1. CASE UNCHANGED newsVars
    <3>1. UNCHANGED <<voted, worker, cache, reader, hook, dashboard>>
      BY <2>1 DEF newsVars
    <3>2. NewsTyped' /\ Transactions' /\ TotalsAreKnown' /\ HookIsWatched'
      BY <1>1, <3>1 DEF NewsInv, NewsTyped, Transactions, TotalsAreKnown, Known,
                        HookIsWatched, At, Uncommitted
    <3>3. ReadersAreHonest'
      BY <1>1, <3>1, ReportsWait DEF NewsInv
    <3> QED BY <3>2, <3>3 DEF NewsInv
  <2> QED BY <1>1, <2>1, CastVotesKeeps, InvalidateKeeps, QuietStepKeeps, SendKeeps,
             EmitEventKeeps, CommitRequestKeeps, WorkerKilledKeeps, ReactivateKeeps,
             ReaderKeeps, ReportExpiresKeeps, DashboardKeeps DEF NewsNext
<1> QED BY <1>1, NewsInitInv, PTL DEF NewsSpec

(* A cached report misses a recorded ballot only in a race with its         *)
(* invalidation and never invents an abstention, however requests and       *)
(* readers overlap (AnalyticsService, VoteService.cast_votes OPT-03).       *)
THEOREM CachedAreHonest == NewsSpec => []CachedReportsAreHonest
<1>1. NewsInv => CachedReportsAreHonest
  BY DEF NewsInv, ReadersAreHonest
<1> QED BY <1>1, NewsInvariant, PTL

(* What a dashboard shows is recorded, or about to be by a request of the   *)
(* API (build_stats_payload, emit_event).                                   *)
THEOREM ShownAreRecorded == NewsSpec => []ShownIsRecorded
<1>1. ASSUME NewsInv
      PROVE  ShownIsRecorded
  <2>1. ShownBallots \subseteq Known
    BY <1>1 DEF ShownBallots, NewsInv, TotalsAreKnown
  <2> QED BY <2>1 DEF ShownIsRecorded, Known
<1> QED BY <1>1, NewsInvariant, PTL

(* A webhook that keeps failing is switched off, by whichever of the         *)
(* overlapping deliveries has counted the last failure                      *)
(* (WebhookService._send).                                                  *)
THEOREM FailingHookIsOff == NewsSpec => []FailingIsDisabled
<1>1. ASSUME NewsInv
      PROVE  FailingIsDisabled
  BY <1>1 DEF NewsInv, NewsTyped, HookIsWatched, FailingIsDisabled
<1> QED BY <1>1, NewsInvariant, PTL

-------------------------------------------------------------------------------
(* THE PHOTOS *)

Uploading ==
    [pc : {"idle", "importing", "uploading", "unconfirmed"}]
      \cup [pc : {"deleting"}, name : Key]

Cleanup ==
    [pc : {"idle", "read", "deleting"}, referenced : SUBSET Key, listed : SUBSET Key]

ImagesTyped ==
    /\ image \in [Candidate -> Key \cup {NoCandidate, NoImage}]
    /\ object \in [Key -> {"none", "fresh", "old"}]
    /\ upload \in [Candidate -> Uploading]
    /\ cleanup \in Cleanup
    /\ raced \subseteq Key

(* A request that has put an object is over before the object is an hour old. *)
PutIsFresh ==
    \A c \in Candidate :
       /\ Doing(c, "importing") => object[NameKey[c]] # "old"
       /\ Doing(c, "uploading") => object[FixedKey[c]] # "old"

(* What the clean-up may delete although a row refers to it was raced: keys *)
(* referred to since it read the rows, and those it has listed.             *)
CleanupSpares ==
    /\ cleanup.pc # "deleting" => cleanup.listed = {}
    /\ cleanup.pc = "read" =>
          \A k \in Referenced \ cleanup.referenced : object[k] = "old" => k \in raced
    /\ \A k \in cleanup.listed :
          /\ object[k] = "fresh" => k \in raced
          /\ k \in Referenced => object[k] = "none" \/ k \in raced

ImagesInv == ImagesTyped /\ PutIsFresh /\ CleanupSpares

-------------------------------------------------------------------------------
LEMMA ImagesInitInv ==
    ASSUME ImagesInit
    PROVE  ImagesInv
<1>1. ImagesTyped
  BY DEF ImagesInit, ImagesTyped, Uploading, Cleanup, Idle
<1>2. PutIsFresh /\ CleanupSpares
  BY DEF ImagesInit, PutIsFresh, CleanupSpares, Doing, Idle
<1> QED BY <1>1, <1>2 DEF ImagesInv

(* The browser and the requests: writing an object marks its key as raced,  *)
(* a row refers to a key that is not old, or marks it.                      *)
LEMMA PutsKeep ==
    ASSUME ImagesInv, NEW c \in Candidate,
           FetchImage(c) \/ UploadImage(c) \/ BrowserPut(c)
    PROVE  ImagesInv'
<1>1. PICK k \in Key, pc \in {"importing", "uploading", "unconfirmed"} :
         /\ Put(k) /\ upload' = [upload EXCEPT ![c] = [pc |-> pc]]
         /\ k = IF pc = "importing" THEN NameKey[c] ELSE FixedKey[c]
         /\ UNCHANGED <<image, cleanup>>
  <2>1. NameKey[c] \in Key /\ FixedKey[c] \in Key
    BY ImagesAssumption
  <2>2. CASE FetchImage(c)
    BY <2>1, <2>2 DEF FetchImage, Becomes
  <2>3. CASE UploadImage(c)
    BY <2>1, <2>3 DEF UploadImage, Becomes
  <2>4. CASE BrowserPut(c)
    BY <2>1, <2>4 DEF BrowserPut, Becomes
  <2> QED BY <2>2, <2>3, <2>4
<1>2. /\ object' = [object EXCEPT ![k] = "fresh"] /\ raced' = raced \cup {k}
      /\ Referenced' = Referenced
  BY <1>1 DEF Put, Referenced
<1>3. ImagesTyped'
  BY <1>1, <1>2 DEF ImagesInv, ImagesTyped, Uploading
<1>4. PutIsFresh'
  BY <1>1, <1>2, ImagesAssumption DEF ImagesInv, ImagesTyped, PutIsFresh, Doing
<1>5. CleanupSpares'
  BY <1>1, <1>2 DEF ImagesInv, ImagesTyped, CleanupSpares, Cleanup
<1> QED BY <1>3, <1>4, <1>5 DEF ImagesInv

LEMMA ImportCommitsKeeps ==
    ASSUME ImagesInv, NEW c \in Candidate, ImportCommits(c)
    PROVE  ImagesInv'
<1>1. /\ Doing(c, "importing") /\ image' = [image EXCEPT ![c] = NameKey[c]]
      /\ upload' = [upload EXCEPT ![c] = Idle]
      /\ UNCHANGED <<object, cleanup, raced>> /\ NameKey[c] \in Key
  BY ImagesAssumption DEF ImportCommits, Done, Becomes
<1>2. Referenced' \subseteq Referenced \cup {NameKey[c]} /\ object[NameKey[c]] # "old"
      /\ Referenced' \subseteq Key
  BY <1>1 DEF ImagesInv, ImagesTyped, PutIsFresh, Referenced
<1>3. ImagesTyped'
  BY <1>1 DEF ImagesInv, ImagesTyped, Uploading, Idle
<1>4. PutIsFresh'
  BY <1>1 DEF ImagesInv, ImagesTyped, PutIsFresh, Doing, Idle
<1>5. CleanupSpares'
  BY <1>1, <1>2 DEF ImagesInv, ImagesTyped, CleanupSpares, Cleanup
<1> QED BY <1>3, <1>4, <1>5 DEF ImagesInv

LEMMA SetImageKeeps ==
    ASSUME ImagesInv, NEW c \in Candidate, SetImage(c)
    PROVE  ImagesInv'
<1>1. /\ image' = [image EXCEPT ![c] = IF Exists(c) THEN FixedKey[c] ELSE NoCandidate]
      /\ raced' = raced \cup (IF object[FixedKey[c]] = "old" THEN {FixedKey[c]} ELSE {})
      /\ upload' = [upload EXCEPT ![c] = Idle]
      /\ UNCHANGED <<object, cleanup>> /\ FixedKey[c] \in Key
  BY ImagesAssumption DEF SetImage, Done, Becomes
<1>2. /\ Referenced' \subseteq Referenced \cup {FixedKey[c]} /\ Referenced' \subseteq Key
      /\ raced \subseteq raced' /\ raced' \subseteq Key
      /\ object[FixedKey[c]] = "old" => FixedKey[c] \in raced'
  BY <1>1, ImagesAssumption DEF ImagesInv, ImagesTyped, Referenced
<1>3. ImagesTyped'
  BY <1>1, <1>2 DEF ImagesInv, ImagesTyped, Uploading, Idle
<1>4. PutIsFresh'
  BY <1>1 DEF ImagesInv, ImagesTyped, PutIsFresh, Doing, Idle
<1>5. CleanupSpares'
  BY <1>1, <1>2 DEF ImagesInv, ImagesTyped, CleanupSpares, Cleanup
<1> QED BY <1>3, <1>4, <1>5 DEF ImagesInv

(* Steps that take references, requests or objects away.                    *)
LEMMA RemovalsKeep ==
    ASSUME ImagesInv, NEW c \in Candidate,
           \/ ImportFails(c) \/ AddCandidate(c) \/ UploadAbandoned(c)
           \/ DeleteCandidate(c) \/ DeleteObject(c) \/ DeletePost(c)
    PROVE  ImagesInv'
<1>1. /\ ImagesTyped'
      /\ UNCHANGED <<cleanup, raced>>
      /\ Referenced' \subseteq Referenced
      /\ \A k \in Key : object'[k] = object[k] \/ object'[k] = "none"
      /\ \A d \in Candidate : upload'[d] = upload[d] \/ upload'[d].pc \in {"idle", "deleting"}
  <2>1. CASE ImportFails(c)
    BY <2>1 DEF ImportFails, Done, Becomes, Idle, ImagesInv, ImagesTyped, Uploading, Referenced
  <2>2. CASE AddCandidate(c)
    BY <2>2, ImagesAssumption DEF AddCandidate, ImagesInv, ImagesTyped, Referenced
  <2>3. CASE UploadAbandoned(c)
    BY <2>3 DEF UploadAbandoned, Done, Becomes, Idle, ImagesInv, ImagesTyped, Uploading,
                Referenced
  <2>4. CASE DeletePost(c)
    BY <2>4, ImagesAssumption DEF DeletePost, ImagesInv, ImagesTyped, Referenced
  <2>5. CASE DeleteCandidate(c)
    <3>1. /\ image' = [image EXCEPT ![c] = NoCandidate]
          /\ UNCHANGED <<object, cleanup, raced>>
      BY <2>5 DEF DeleteCandidate
    <3>2. \/ upload' = upload
          \/ /\ upload' = [upload EXCEPT ![c] = [pc |-> "deleting", name |-> image[c]]]
             /\ image[c] \in Key
      BY <2>5 DEF DeleteCandidate, Becomes, Exists, ImagesInv, ImagesTyped
    <3>3. upload' \in [Candidate -> Uploading]
          /\ \A d \in Candidate : upload'[d] = upload[d] \/ upload'[d].pc \in {"idle", "deleting"}
      <4>1. image[c] \in Key => [pc |-> "deleting", name |-> image[c]] \in Uploading
        BY DEF Uploading
      <4> QED BY <3>2, <4>1 DEF ImagesInv, ImagesTyped
    <3> QED BY <3>1, <3>3, ImagesAssumption DEF ImagesInv, ImagesTyped, Referenced
  <2>6. CASE DeleteObject(c)
    <3>1. \/ object' = object \/ object' = [object EXCEPT ![upload[c].name] = "none"]
      BY <2>6 DEF DeleteObject
    <3>2. upload' = [upload EXCEPT ![c] = Idle] /\ UNCHANGED <<image, cleanup, raced>>
      BY <2>6 DEF DeleteObject, Done, Becomes
    <3> QED BY <3>1, <3>2 DEF ImagesInv, ImagesTyped, Uploading, Idle, Referenced
  <2> QED BY <2>1, <2>2, <2>3, <2>4, <2>5, <2>6
<1>2. PutIsFresh'
  BY <1>1, ImagesAssumption DEF ImagesInv, PutIsFresh, Doing
<1>3. CleanupSpares'
  <2>1. Referenced \subseteq Key /\ cleanup.listed \subseteq Key
    BY DEF ImagesInv, ImagesTyped, Referenced, Cleanup
  <2> QED BY <1>1, <2>1 DEF ImagesInv, CleanupSpares
<1> QED BY <1>1, <1>2, <1>3 DEF ImagesInv

LEMMA CleanupKeeps ==
    ASSUME ImagesInv, CleanupReads \/ CleanupLists \/ CleanupDeletes \/ CleanupEnds
    PROVE  ImagesInv'
<1>1. CASE CleanupReads
  <2>1. /\ cleanup' = [pc |-> "read", referenced |-> Referenced, listed |-> {}]
        /\ raced' = {} /\ UNCHANGED <<image, object, upload>> /\ Referenced' = Referenced
        /\ Referenced \subseteq Key
    BY <1>1 DEF CleanupReads, Referenced
  <2> QED BY <2>1 DEF ImagesInv, ImagesTyped, PutIsFresh, CleanupSpares, Cleanup, Doing
<1>2. CASE CleanupLists
  <2>1. /\ cleanup.pc = "read"
        /\ cleanup' = [cleanup EXCEPT !.pc = "deleting",
              !.listed = {k \in Key : object[k] = "old"} \ cleanup.referenced]
        /\ UNCHANGED <<image, object, upload, raced>> /\ Referenced' = Referenced
    BY <1>2 DEF CleanupLists, OldEnough, Referenced
  <2>2. cleanup' \in Cleanup /\ cleanup'.pc = "deleting"
        /\ cleanup'.listed = {k \in Key : object[k] = "old"} \ cleanup.referenced
    BY <2>1 DEF ImagesInv, ImagesTyped, Cleanup
  <2> QED BY <2>1, <2>2 DEF ImagesInv, ImagesTyped, PutIsFresh, CleanupSpares, Doing
<1>3. CASE CleanupDeletes
  <2>1. PICK k \in cleanup.listed : 
           /\ object' = object \/ object' = [object EXCEPT ![k] = "none"]
           /\ cleanup' = [cleanup EXCEPT !.listed = @ \ {k}]
           /\ UNCHANGED <<image, upload, raced>> /\ Referenced' = Referenced
    BY <1>3 DEF CleanupDeletes, Referenced
  <2>2. cleanup' \in Cleanup /\ cleanup'.pc = cleanup.pc /\ cleanup'.listed \subseteq cleanup.listed
        /\ cleanup.pc = "deleting" /\ k \in Key
    BY <2>1 DEF ImagesInv, ImagesTyped, CleanupSpares, Cleanup
  <2>3. ImagesTyped'
    BY <2>1, <2>2 DEF ImagesInv, ImagesTyped
  <2>4. \A j \in Key : object'[j] = object[j] \/ object'[j] = "none"
    BY <2>1 DEF ImagesInv, ImagesTyped
  <2>5. PutIsFresh'
    BY <2>1, <2>4, ImagesAssumption DEF ImagesInv, PutIsFresh, Doing
  <2>6. CleanupSpares'
    <3>1. cleanup.listed \subseteq Key
      BY DEF ImagesInv, ImagesTyped, Cleanup
    <3> QED BY <2>1, <2>2, <2>4, <3>1 DEF ImagesInv, CleanupSpares
  <2> QED BY <2>3, <2>5, <2>6 DEF ImagesInv
<1>4. CASE CleanupEnds
  BY <1>4 DEF CleanupEnds, ImagesInv, ImagesTyped, PutIsFresh, CleanupSpares, Cleanup, Doing
<1> QED BY <1>1, <1>2, <1>3, <1>4

LEMMA HourPassesKeeps ==
    ASSUME ImagesInv, HourPasses
    PROVE  ImagesInv'
<1>1. /\ cleanup.pc = "idle" /\ cleanup.listed = {}
      /\ \A c \in Candidate : upload[c].pc \in {"idle", "unconfirmed"}
      /\ object' = [k \in Key |-> IF object[k] = "fresh" THEN "old" ELSE object[k]]
      /\ UNCHANGED <<image, upload, cleanup, raced>>
  BY DEF HourPasses, ImagesInv, CleanupSpares
<1>2. ImagesTyped'
  BY <1>1 DEF ImagesInv, ImagesTyped
<1>3. PutIsFresh' /\ CleanupSpares'
  BY <1>1 DEF PutIsFresh, CleanupSpares, Doing
<1> QED BY <1>2, <1>3 DEF ImagesInv

(* The inductive invariant of the photos.                                   *)
THEOREM ImagesInvariant == ImagesSpec => []ImagesInv
<1>1. ASSUME ImagesInv, [ImagesNext]_imagesVars
      PROVE  ImagesInv'
  <2>1. CASE UNCHANGED imagesVars
    BY <1>1, <2>1 DEF imagesVars, ImagesInv, ImagesTyped, PutIsFresh, CleanupSpares,
                      Doing, Referenced
  <2> QED BY <1>1, <2>1, PutsKeep, ImportCommitsKeeps, SetImageKeeps, RemovalsKeep,
             CleanupKeeps, HourPassesKeeps DEF ImagesNext
<1> QED BY <1>1, ImagesInitInv, PTL DEF ImagesSpec

(* Only two steps delete objects.                                           *)
LEMMA LostIsRaced ==
    ASSUME ImagesInv, [ImagesNext]_imagesVars, NEW k \in Key, Lost(k)
    PROVE  \/ \E c \in Candidate : Doing(c, "deleting") /\ upload[c].name = k
           \/ k \in raced
<1>1. k \in Referenced /\ object[k] # "none" /\ object'[k] = "none"
      /\ object \in [Key -> {"none", "fresh", "old"}] /\ object' # object
  BY DEF Lost, ImagesInv, ImagesTyped
<1>2. ASSUME NEW c \in Candidate, FetchImage(c) \/ UploadImage(c) \/ BrowserPut(c)
      PROVE  FALSE
  <2>1. \E j : object' = [object EXCEPT ![j] = "fresh"]
    BY <1>2 DEF FetchImage, UploadImage, BrowserPut, Put
  <2> QED BY <1>1, <2>1
<1>3. ASSUME NEW c \in Candidate, DeleteObject(c)
      PROVE  Doing(c, "deleting") /\ upload[c].name = k
  BY <1>1, <1>3 DEF DeleteObject
<1>4. ASSUME CleanupDeletes
      PROVE  k \in raced
  <2>1. k \in cleanup.listed
    BY <1>1, <1>4 DEF CleanupDeletes
  <2> QED BY <1>1, <2>1 DEF ImagesInv, CleanupSpares
<1>5. ~HourPasses
  BY <1>1 DEF HourPasses
<1>6. ASSUME NEW c \in Candidate,
             \/ ImportCommits(c) \/ ImportFails(c) \/ AddCandidate(c) \/ SetImage(c)
             \/ UploadAbandoned(c) \/ DeleteCandidate(c) \/ DeletePost(c)
      PROVE  FALSE
  BY <1>1, <1>6 DEF ImportCommits, ImportFails, AddCandidate, SetImage, UploadAbandoned,
                    DeleteCandidate, DeletePost
<1>7. ~(CleanupReads \/ CleanupLists \/ CleanupEnds \/ UNCHANGED imagesVars)
  BY <1>1 DEF CleanupReads, CleanupLists, CleanupEnds, imagesVars
<1> QED BY <1>2, <1>3, <1>4, <1>5, <1>6, <1>7 DEF ImagesNext

(* The clean-up deletes no photo under a candidate that shows it, unless it *)
(* was written or confirmed while the clean-up ran; the other way is a      *)
(* deletion of a candidate with the same key (tasks.py, Candidate.delete).  *)
THEOREM ReferencedStay == ImagesSpec => ReferencedSurvive
<1>1. ASSUME ImagesInv, [ImagesNext]_imagesVars
      PROVE  [\A k \in Key : Lost(k) =>
                \/ \E c \in Candidate : Doing(c, "deleting") /\ upload[c].name = k
                \/ k \in raced]_imagesVars
  BY <1>1, LostIsRaced
<1> QED BY <1>1, ImagesInvariant, PTL DEF ImagesSpec, ReferencedSurvive

-------------------------------------------------------------------------------
(* THE LOOPS OF THE VOTER TREE *)
Height == TreeHeight(Leaves(roll))
Layer(h) == LayersOver(Leaves(roll))[h]

Claim == [credential : Credentials, index : 0..MaxIndex, cut_for : 0..(Len(roll) - 1)]

(* The layers so far are those of the tree.                                 *)
Building ==
    /\ roll \in Rolls
    /\ Len(layers) \in 1..(Height + 1)
    /\ layers = [n \in 1..Len(layers) |-> Layer(n - 1)]

Waiting == claim = NoClaim => verdict = "open" /\ level = 0

(* The climb so far is the climb, and the verdict what it comes to.         *)
Climbing ==
    claim # NoClaim =>
        /\ layers = BuildMerkleTree(Leaves(roll)) /\ claim \in Claim
        /\ proof = GetMerkleProof(layers, claim.cut_for)
        /\ level \in 0..Len(proof)
        /\ at = Climb(VoterHash(claim.credential), proof, claim.index)[level]
        /\ verdict \in {"open", "accepted", "rejected"}
        /\ verdict # "rejected" => InRange(claim.index)
        /\ verdict # "open" /\ InRange(claim.index) =>
              /\ level = Len(proof)
              /\ verdict = "accepted" <=> at.computed = MerkleRoot(layers)

LoopsInv == Building /\ Waiting /\ Climbing

LEMMA RollFacts ==
    ASSUME NEW r \in Rolls
    PROVE  /\ r \in Seq(Credentials) /\ Len(r) > 0 /\ Len(r) \in Nat
           /\ \E N : Leaves(r) \in Seq(N)
           /\ Len(Leaves(r)) = Len(r) /\ Len(Leaves(r)) > 0
<1>1. r \in Seq(Credentials) /\ Len(r) > 0 /\ Len(r) \in Nat
  BY RollsAssumption
<1>2. Leaves(r) \in Seq({<<c>> : c \in Credentials}) /\ Len(Leaves(r)) = Len(r)
  BY <1>1 DEF Leaves, VoterHash
<1> QED BY <1>1, <1>2

LEMMA RollTree ==
    ASSUME roll \in Rolls
    PROVE  /\ Height \in Nat /\ Len(Layer(Height)) = 1 /\ Layer(0) = Leaves(roll)
           /\ \A h \in 1..Height : Layer(h) = NextLayer(Layer(h - 1))
           /\ \A h \in 0..(Height - 1) : Len(Layer(h)) > 1
<1>1. PICK N : Leaves(roll) \in Seq(N)
  BY RollFacts
<1>2. Len(Leaves(roll)) > 0
  BY RollFacts
<1>3. /\ TreeHeight(Leaves(roll)) \in 0..Len(Leaves(roll))
      /\ Len(LayersOver(Leaves(roll))[TreeHeight(Leaves(roll))]) = 1
      /\ LayersOver(Leaves(roll))[0] = Leaves(roll)
      /\ \A h \in 1..TreeHeight(Leaves(roll)) :
            LayersOver(Leaves(roll))[h] = NextLayer(LayersOver(Leaves(roll))[h-1])
      /\ \A g \in 0..(TreeHeight(Leaves(roll)) - 1) :
            Len(LayersOver(Leaves(roll))[g]) > 1
  BY <1>1, <1>2, TreeHeightFacts
<1> QED BY <1>3 DEF Height, Layer

(* The build loop stops at the tree's height.                               *)
LEMMA BuildStops ==
    ASSUME Building
    PROVE  /\ Top = Layer(Len(layers) - 1)
           /\ Len(Top) > 1 =>
                 Len(layers) <= Height /\ Layer(Len(layers)) = NextLayer(Top)
           /\ Len(Top) = 1 =>
                 Len(layers) = Height + 1 /\ layers = BuildMerkleTree(Leaves(roll))
<1> DEFINE n == Len(layers)
<1>1. /\ Height \in Nat /\ Len(Layer(Height)) = 1
      /\ \A h \in 1..Height : Layer(h) = NextLayer(Layer(h - 1))
      /\ \A h \in 0..(Height - 1) : Len(Layer(h)) > 1
  BY RollTree DEF Building
<1>2. n \in 1..(Height + 1) /\ layers = [m \in 1..n |-> Layer(m - 1)]
  BY DEF Building
<1>3. BuildMerkleTree(Leaves(roll)) = [m \in 1..(Height + 1) |-> Layer(m - 1)]
  BY DEF BuildMerkleTree, Height, Layer
<1>4. Top = layers[n]
  BY DEF Top
<1> HIDE DEF n
<1>5. \A x : x = 1 => ~(x > 1)
  OBVIOUS
<1>6. Top = Layer(n - 1)
  BY <1>2, <1>4
<1>7. ASSUME Len(Top) > 1
      PROVE  n <= Height /\ Layer(n) = NextLayer(Top)
  <2>1. n # Height + 1
    <3>1. ASSUME n = Height + 1 PROVE FALSE
      <4>1. n - 1 = Height
        BY <1>1, <3>1
      <4>2. Len(Top) = 1
        BY <1>1, <1>6, <4>1
      <4> QED BY <1>7, <1>5, <4>2
    <3> QED BY <3>1
  <2>2. n \in 1..Height
    BY <1>1, <1>2, <2>1
  <2> QED BY <1>1, <1>6, <2>2
<1>8. ASSUME Len(Top) = 1
      PROVE  n = Height + 1 /\ layers = BuildMerkleTree(Leaves(roll))
  <2>1. ~(n - 1 \in 0..(Height - 1))
    <3>1. ASSUME n - 1 \in 0..(Height - 1) PROVE FALSE
      <4>1. Len(Layer(n - 1)) > 1
        BY <1>1, <3>1
      <4> QED BY <1>6, <1>8, <1>5, <4>1
    <3> QED BY <3>1
  <2>2. n = Height + 1
    BY <1>1, <1>2, <2>1
  <2> QED BY <1>2, <1>3, <2>2
<1> QED BY <1>6, <1>7, <1>8 DEF n

LEMMA LoopsInit == Init => LoopsInv
<1> SUFFICES ASSUME Init PROVE LoopsInv
  OBVIOUS
<1>1. roll \in Rolls /\ layers = <<Leaves(roll)>>
  BY DEF Init
<1>2. Height \in Nat /\ Layer(0) = Leaves(roll)
  BY <1>1, RollTree
<1>3. Building
  BY <1>1, <1>2 DEF Building
<1> QED BY <1>3 DEF LoopsInv, Init, Waiting, Climbing

LEMMA LoopsKept ==
    ASSUME LoopsInv, [Next]_vars
    PROVE  LoopsInv'
<1>1. Building /\ Waiting /\ Climbing
  BY DEF LoopsInv
<1>2. /\ roll \in Rolls /\ Len(layers) \in 1..(Height + 1)
      /\ Height \in Nat
  BY <1>1, RollTree DEF Building
<1>3. ASSUME UNCHANGED <<roll, layers>>
      PROVE  Building'
  BY <1>1, <1>3 DEF Building, Height, Layer
<1>4. CASE BuildLayer
  <2>1. /\ Len(Top) > 1 /\ layers' = Append(layers, NextLayer(Top))
        /\ UNCHANGED <<roll, claim, verdict, level>>
    BY <1>4 DEF BuildLayer
  <2>2. Len(layers) <= Height /\ Layer(Len(layers)) = NextLayer(Top)
    BY <1>1, <2>1, BuildStops
  <2>3. claim = NoClaim
    <3>1. ASSUME claim # NoClaim PROVE FALSE
      <4>1. layers = BuildMerkleTree(Leaves(roll))
        BY <1>1, <3>1 DEF Climbing
      <4>2. Len(layers) = Height + 1
        BY <1>2, <4>1, RollFacts, ProofFacts DEF Height
      <4> QED BY <1>2, <2>2, <4>2
    <3> QED BY <3>1
  <2>4. Building'
    <3> DEFINE n == Len(layers)
    <3>1. n \in 1..Height /\ layers = [m \in 1..n |-> Layer(m - 1)]
      BY <1>1, <1>2, <2>2 DEF Building
    <3>2. layers' = Append(layers, Layer(n))
      BY <2>1, <2>2
    <3> HIDE DEF n
    <3>3. layers' = [m \in 1..(n + 1) |-> Layer(m - 1)] /\ Len(layers') = n + 1
      BY <1>2, <3>1, <3>2
    <3>4. Height' = Height /\ \A m : Layer(m)' = Layer(m)
      BY <2>1 DEF Height, Layer
    <3>5. Len(layers') \in 1..(Height' + 1)
      BY <1>2, <3>1, <3>3, <3>4
    <3> QED BY <1>2, <2>1, <3>3, <3>4, <3>5 DEF Building
  <2> QED BY <1>1, <2>1, <2>3, <2>4 DEF LoopsInv, Waiting, Climbing
<1>5. ASSUME NEW c \in Credentials, NEW i \in 0..MaxIndex, NEW j \in 0..(Len(roll) - 1),
             Present(c, i, j)
      PROVE  LoopsInv'
  <2>1. /\ Len(Top) = 1 /\ claim = NoClaim
        /\ claim' = [credential |-> c, index |-> i, cut_for |-> j]
        /\ proof' = GetMerkleProof(layers, j)
        /\ at' = [idx |-> i, computed |-> VoterHash(c)]
        /\ verdict' = IF InRange(i) THEN "open" ELSE "rejected"
        /\ UNCHANGED <<roll, layers, level>>
    BY <1>5 DEF Present
  <2>2. layers = BuildMerkleTree(Leaves(roll)) /\ level = 0
    BY <1>1, <2>1, BuildStops DEF Waiting
  <2>3. Len(proof') = Height
    BY <1>2, <2>1, <2>2, RollFacts, ProofFacts DEF Height
  <2>4. at' = Climb(VoterHash(c), proof', i)[0]
    BY <1>2, <2>1, <2>3, ClimbDef
  <2>5. claim' \in Claim' /\ claim'.credential = c /\ claim'.index = i /\ claim'.cut_for = j
    BY <2>1 DEF Claim
  <2>6. InRange(claim.index)' <=> InRange(i)
    BY <2>1, <2>5 DEF InRange
  <2>7. claim' # NoClaim
    BY <2>1 DEF NoClaim
  <2>8. Climbing'
    BY <1>2, <2>1, <2>2, <2>3, <2>4, <2>5, <2>6 DEF Climbing
  <2> QED BY <1>3, <2>1, <2>7, <2>8 DEF LoopsInv, Waiting
<1>6. CASE ClimbOne
  <2>1. /\ claim # NoClaim /\ verdict = "open" /\ level < Len(proof)
        /\ at' = Combine(at, proof[level + 1]) /\ level' = level + 1
        /\ UNCHANGED <<roll, layers, claim, proof, verdict>>
    BY <1>6 DEF ClimbOne
  <2>2. /\ layers = BuildMerkleTree(Leaves(roll)) /\ claim \in Claim
        /\ proof = GetMerkleProof(layers, claim.cut_for)
        /\ level \in 0..Len(proof) /\ InRange(claim.index)
        /\ at = Climb(VoterHash(claim.credential), proof, claim.index)[level]
    BY <1>1, <2>1 DEF Climbing
  <2>3. Len(proof) \in Nat
    BY <1>2, <2>2, RollFacts, ProofLength
  <2>4. level + 1 \in 1..Len(proof) /\ (level + 1) - 1 = level
    BY <2>1, <2>2, <2>3
  <2>5. at' = Climb(VoterHash(claim.credential), proof, claim.index)[level + 1]
    <3>1. PICK k \in 1..Len(proof) : k = level + 1 /\ k - 1 = level
      BY <2>4
    <3>2. Climb(VoterHash(claim.credential), proof, claim.index)[k] =
             Combine(Climb(VoterHash(claim.credential), proof, claim.index)[k - 1],
                     proof[k])
      BY <2>3, ClimbUnfold
    <3> QED BY <2>1, <2>2, <3>1, <3>2
  <2>6. InRange(claim.index)'
    BY <2>1, <2>2 DEF InRange
  <2>7. Climbing'
    BY <2>1, <2>2, <2>3, <2>4, <2>5, <2>6 DEF Climbing, Claim
  <2> QED BY <1>3, <2>1, <2>7 DEF LoopsInv, Waiting
<1>7. CASE Decide
  <2>1. /\ claim # NoClaim /\ verdict = "open" /\ level = Len(proof)
        /\ verdict' = IF at.computed = MerkleRoot(layers) THEN "accepted" ELSE "rejected"
        /\ UNCHANGED <<roll, layers, claim, proof, level, at>>
    BY <1>7 DEF Decide
  <2>2. InRange(claim.index) <=> InRange(claim.index)'
    BY <2>1 DEF InRange
  <2>3. Climbing'
    BY <1>1, <2>1, <2>2 DEF Climbing, Claim
  <2> QED BY <1>3, <2>1, <2>3 DEF LoopsInv, Waiting
<1>8. CASE UNCHANGED vars
  <2>1. Waiting' /\ Climbing'
    BY <1>1, <1>8 DEF vars, Waiting, Climbing, Claim, InRange
  <2> QED BY <1>3, <1>8, <2>1 DEF LoopsInv, vars
<1> QED BY <1>4, <1>5, <1>6, <1>7, <1>8 DEF Next

(* What the loops have built and climbed so far is what the tree's          *)
(* functions say, for every roll and claim (merkle_tree.py, lib.rs).        *)
THEOREM LoopsInvariant == Spec => []LoopsInv
BY LoopsInit, LoopsKept, PTL DEF Spec

(* A node stands over two of the padded layer, which repeats its last node. *)
LEMMA PadIsTwin ==
    ASSUME NEW N, NEW layer \in Seq(N), Len(layer) > 0,
           NEW k \in 1..Len(Pad(layer))
    PROVE  Pad(layer)[k] = Twin(layer, k)
<1>1. CASE Len(layer) % 2 = 1
  <2>1. Pad(layer) = Append(layer, layer[Len(layer)])
    BY <1>1 DEF Pad
  <2> QED BY <2>1 DEF Twin
<1>2. CASE Len(layer) % 2 # 1
  <2>1. Pad(layer) = layer
    BY <1>2 DEF Pad
  <2> QED BY <2>1 DEF Twin
<1> QED BY <1>1, <1>2

(* build_merkle_tree ends with the tree of the roll, in which every node is *)
(* the pair of the two below it, the last one of an odd layer taken twice.  *)
THEOREM BuiltIsReference == Spec => []TreeIsReference
<1> SUFFICES ASSUME LoopsInv PROVE TreeIsReference
  BY LoopsInvariant, PTL
<1> SUFFICES ASSUME Len(Top) = 1
             PROVE  /\ layers = BuildMerkleTree(Leaves(roll))
                    /\ \A n \in 1..(Len(layers) - 1) :
                          /\ 2 * Len(layers[n+1]) \in {Len(layers[n]), Len(layers[n]) + 1}
                          /\ \A k \in 1..Len(layers[n+1]) :
                                layers[n+1][k] = HashPair(Twin(layers[n], 2*k - 1),
                                                          Twin(layers[n], 2*k))
  BY DEF TreeIsReference
<1>1. Building
  BY DEF LoopsInv
<1>2. layers = BuildMerkleTree(Leaves(roll)) /\ Len(layers) = Height + 1
  BY <1>1, BuildStops
<1>3. /\ Height \in Nat
      /\ \A h \in 1..Height : Layer(h) = NextLayer(Layer(h - 1))
  BY <1>1, RollTree DEF Building
<1>4. layers = [n \in 1..(Height + 1) |-> Layer(n - 1)]
  BY <1>1, <1>2 DEF Building
<1>5. ASSUME NEW n \in 1..(Len(layers) - 1)
      PROVE  /\ 2 * Len(layers[n+1]) \in {Len(layers[n]), Len(layers[n]) + 1}
             /\ \A k \in 1..Len(layers[n+1]) :
                   layers[n+1][k] = HashPair(Twin(layers[n], 2*k - 1),
                                             Twin(layers[n], 2*k))
  <2>1. n \in 1..Height /\ n - 1 \in 0..Height /\ n + 1 \in 1..(Height + 1)
    BY <1>2, <1>3, <1>5
  <2>2. layers[n] = Layer(n - 1) /\ layers[n+1] = NextLayer(layers[n])
    BY <1>3, <1>4, <2>1
  <2>3. PICK low, up : low = layers[n] /\ up = layers[n+1]
    OBVIOUS
  <2>4. (\E M : low \in Seq(M)) /\ Len(low) \in Nat /\ Len(low) > 0
    <3>1. PICK N : Leaves(roll) \in Seq(N)
      BY <1>1, RollFacts DEF Building
    <3>2. Height \in 0..Len(Leaves(roll)) /\ Len(Leaves(roll)) > 0
      BY <1>1, <3>1, RollFacts, TreeHeightFacts DEF Building, Height
    <3>3. ShortEnough(LayersOver(Leaves(roll))[n - 1], n - 1, Len(Leaves(roll)))
      <4>1. n - 1 \in 0..Len(Leaves(roll))
        BY <1>3, <2>1, <3>1, <3>2
      <4> QED BY <3>1, <3>2, <4>1, LayersShape
    <3>4. \A x \in Nat : x >= 1 => x > 0
      OBVIOUS
    <3> QED BY <2>2, <2>3, <3>3, <3>4 DEF ShortEnough, Layer
  <2>5. PICK M : low \in Seq(M)
    BY <2>4
  <2>6. up = NextLayer(low)
    BY <2>2, <2>3
  <2>7. /\ Len(up) = (Len(low) + 1) \div 2
        /\ \A k \in 1..Len(up) :
              /\ up[k] = <<Pad(low)[2*k - 1], Pad(low)[2*k]>>
              /\ 2*k - 1 \in 1..Len(Pad(low)) /\ 2*k \in 1..Len(Pad(low))
    BY <2>4, <2>5, <2>6, NextLayerFacts
  <2>8. 2 * Len(up) \in {Len(low), Len(low) + 1}
    <3>1. \A b \in Nat : 2 * ((b + 1) \div 2) = b \/ 2 * ((b + 1) \div 2) = b + 1
      OBVIOUS
    <3>2. 2 * ((Len(low) + 1) \div 2) \in {Len(low), Len(low) + 1}
      BY <2>4, <3>1
    <3> QED BY <2>7, <3>2
  <2>9. \A k \in 1..Len(up) :
           up[k] = HashPair(Twin(low, 2*k - 1), Twin(low, 2*k))
    BY <2>4, <2>5, <2>7, PadIsTwin DEF HashPair
  <2> QED BY <2>3, <2>8, <2>9
<1> QED BY <1>2, <1>5

(* When the climb of a claim is over, its verdict is that of the reference. *)
LEMMA VerdictIsReference ==
    ASSUME LoopsInv, claim # NoClaim, verdict # "open", InRange(claim.index)
    PROVE  verdict = "accepted" <=>
              VerifyMerkleProof(VoterHash(claim.credential), proof, claim.index,
                                RootOf(roll))
<1>1. /\ layers = BuildMerkleTree(Leaves(roll))
      /\ at = Climb(VoterHash(claim.credential), proof, claim.index)[Len(proof)]
      /\ verdict = "accepted" <=> at.computed = MerkleRoot(layers)
  BY DEF LoopsInv, Climbing
<1> QED BY <1>1 DEF VerifyMerkleProof, ComputedRoot, RootOf

(* The program's loop and verify_merkle_proof decide alike.                 *)
THEOREM LoopIsReference == Spec => []ReferenceAgrees
<1>1. LoopsInv => ReferenceAgrees
  <2> SUFFICES ASSUME LoopsInv, verdict # "open", claim.index < Len(roll)
               PROVE  verdict = "accepted" <=>
                         VerifyMerkleProof(VoterHash(claim.credential), proof,
                                           claim.index, RootOf(roll))
    BY DEF ReferenceAgrees
  <2>1. claim # NoClaim
    BY DEF LoopsInv, Waiting
  <2> QED BY <2>1, VerdictIsReference DEF InRange
<1> QED BY <1>1, LoopsInvariant, PTL

(* An accepted claim is of the credential registered at its index, and an   *)
(* honest claim is accepted: on any roll, for any claim (cast_vote step 4,  *)
(* lib.rs).                                                                 *)
THEOREM AcceptedAreMembers == Spec => []VerdictIsMembership
<1>1. ASSUME LoopsInv, verdict # "open"
      PROVE  /\ claim # NoClaim /\ claim \in Claim /\ roll \in Rolls
             /\ proof = GetMerkleProof(BuildMerkleTree(Leaves(roll)), claim.cut_for)
             /\ Len(proof) \in Nat
             /\ claim.index \in Nat /\ claim.cut_for \in 0..(Len(roll) - 1)
             /\ verdict = "accepted" => InRange(claim.index)
  <2>1. claim # NoClaim
    BY <1>1 DEF LoopsInv, Waiting
  <2>2. /\ claim \in Claim /\ roll \in Rolls
        /\ proof = GetMerkleProof(BuildMerkleTree(Leaves(roll)), claim.cut_for)
        /\ verdict = "accepted" => InRange(claim.index)
    BY <1>1, <2>1 DEF LoopsInv, Climbing, Building
  <2>3. Len(proof) \in Nat
    BY <2>2, RollFacts, ProofLength
  <2>4. claim.index \in Nat /\ claim.cut_for \in 0..(Len(roll) - 1)
    BY <2>2, MaxIndexAssumption DEF Claim
  <2> QED BY <2>1, <2>2, <2>3, <2>4
<1>2. ASSUME LoopsInv, verdict = "accepted"
      PROVE  claim.index < Len(roll) /\ claim.credential = roll[claim.index + 1]
  <2>1. verdict # "open"
    BY <1>2
  <2>2. PICK i \in 0..(Len(roll) - 1) : i = claim.index /\ InRange(claim.index)
    BY <1>1, <1>2, <2>1, RollFacts DEF InRange
  <2>3. VerifyMerkleProof(VoterHash(claim.credential), proof, i, RootOf(roll))
    BY <1>1, <1>2, <2>1, <2>2, VerdictIsReference
  <2>4. roll \in Seq(Credentials) /\ Len(roll) > 0 /\ Len(proof) \in Nat
    BY <1>1, <1>2, <2>1, RollFacts
  <2>5. claim.credential = roll[i + 1]
    BY <2>3, <2>4, MerkleBinding
  <2> QED BY <2>2, <2>4, <2>5
<1>3. ASSUME LoopsInv, verdict = "rejected", claim.index = claim.cut_for,
             claim.credential = roll[claim.index + 1]
      PROVE  FALSE
  <2>1. verdict # "open" /\ verdict # "accepted"
    BY <1>3
  <2>2. PICK i \in 0..(Len(roll) - 1) : i = claim.index
    BY <1>1, <1>3, <2>1
  <2>3. roll \in Seq(Credentials) /\ Len(roll) > 0 /\ Len(roll) \in Nat
    BY <1>1, <1>3, <2>1, RollFacts
  <2>4. VerifyMerkleProof(VoterHash(roll[i + 1]),
               GetMerkleProof(BuildMerkleTree(Leaves(roll)), i), i, RootOf(roll))
    BY <2>3, HonestProofVerifies
  <2>5. InRange(claim.index)
    BY <2>2, <2>3 DEF InRange
  <2>6. VerifyMerkleProof(VoterHash(claim.credential), proof, claim.index, RootOf(roll))
    BY <1>1, <1>3, <2>1, <2>2, <2>4
  <2> QED BY <1>1, <1>3, <2>1, <2>5, <2>6, VerdictIsReference
<1>4. LoopsInv => VerdictIsMembership
  BY <1>2, <1>3 DEF VerdictIsMembership
<1> QED BY <1>4, LoopsInvariant, PTL
===============================================================================
