-------------------------- MODULE MCElectionProgram --------------------------
(* Three voters (an odd roll, so the tree is padded) and a second roll in    *)
(* another order; two posts with two candidates and one; every votes vector  *)
(* of up to two entries around the edges of the slots.  Or the results of an *)
(* election with three voters, three candidates for one post and one for     *)
(* another; or with two voters, one of them through the API.  The modules    *)
(* share nothing: a behaviour with electors is of the results.               *)
EXTENDS ElectionProgram, ElectionResults, TLC

CONSTANTS c1, c2, c3, v1, v2, v3, v4, ann, bob, cyd, dan, mayor, clerk

MCCredential == {c1, c2, c3}

MCRolls == {<<c1, c2, c3>>, <<c3, c1>>}

MCLayouts == {<<2, 1>>}

MCWindows == {<<1, 2>>, <<2, 3>>, <<2, 2>>}

Entry(p, c) == [post_index |-> p, candidate_index |-> c]

MCSelections ==
    {<<Entry(0, 0), Entry(1, 0)>>,  \* one choice per post
     <<Entry(0, 1)>>,               \* a post left out
     <<Entry(0, 0), Entry(0, 0)>>,  \* a post twice
     <<Entry(1, 1)>>,               \* no such candidate
     <<Entry(2, 0)>>}               \* no such post

MCElector == {v1, v2, v3, v4}
MCElectorates == {{}, {v1, v2, v3}, {v1, v4}}
MCByApi == {v4}
MCNominee == {ann, bob, cyd, dan}
MCPostOrder == <<mayor, clerk>>
MCPostOf == [c \in MCNominee |-> IF c = dan THEN clerk ELSE mayor]
MCCreated == (ann :> 1) @@ (bob :> 2) @@ (cyd :> 3) @@ (dan :> 4)
MCListed == (ann :> 2) @@ (bob :> 1) @@ (cyd :> 3) @@ (dan :> 4)
MCNamed == (ann :> 3) @@ (bob :> 2) @@ (cyd :> 1) @@ (dan :> 4)

(* Three electors vote for the reports, hour by hour; or two, one of them    *)
(* through the API, for comparisons with the chain, which counts and is      *)
(* archived meanwhile.                                                       *)
ForReports == electorate # {} /\ electorate \cap ByApi = {}
ForComparison == electorate \cap ByApi # {}

TallyInit ==
    /\ ProgramInit /\ ResultsInit
    /\ IF ForComparison
       THEN now = LastHour /\ audits = 0 /\ ~allow_abstain /\ revoked = {}
       ELSE now = 0 /\ audits = MaxAudits
    /\ electorate = {} => ~allow_abstain

(* Two candidates for a post, and one for another, are enough to compare.   *)
WithoutCyd == \A q \in enqueued : cyd \notin q.ballot

(* Nothing is left to count or to report. *)
CountIsOver ==
    /\ open = {}
    /\ ForComparison => archive = ChainCounts
    /\ \A e \in electorate \ revoked : ~ENABLED (CastBallot(e) \/ ApiCast(e))
    /\ \A q \in enqueued : ForComparison => ~ENABLED CountOnChain(q)
    /\ now = LastHour /\ audits = MaxAudits /\ Compared
    /\ UNCHANGED <<programVars, resultsVars>>

TallyNext ==
    \/ electorate = {} /\ ProgramNext /\ UNCHANGED resultsVars
    \/ ForReports /\ ResultsNext /\ UNCHANGED <<programVars, chainVars>>
    \/ ForComparison /\ ResultsNext /\ WithoutCyd' /\ UNCHANGED programVars
    \/ electorate # {} /\ CountIsOver

TallySpec == TallyInit /\ [][TallyNext]_<<programVars, resultsVars>>

(* The electors without the API are interchangeable. *)
ElectorSymmetry == Permutations({v1, v2, v3})
=============================================================================
