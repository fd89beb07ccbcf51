------------------------------- MODULE MCReports -------------------------------
(* Three ballots before one audience at a time; or two candidates of one     *)
(* name, whose imported photos share a key.  The two modules share nothing:  *)
(* a behaviour without an audience is of the photos.                         *)
EXTENDS BallotNews, CandidateImages, TLC

CONSTANTS v1, v2, v3, r1, r2, c1, c2, f1, f2, named

MCVoter == {v1, v2, v3}
MCReader == {r1, r2}
MCAudiences == {{}, {"reports"}, {"webhook"}, {"dashboard"}}

MCCandidate == {c1, c2}
MCKey == {f1, f2, named}
MCFixedKey == (c1 :> f1) @@ (c2 :> f2)
MCNameKey == [c \in MCCandidate |-> named]

ReportsInit == NewsInit /\ ImagesInit

ReportsNext ==
    \/ audience # {} /\ NewsNext /\ UNCHANGED imagesVars
    \/ audience = {} /\ ImagesNext /\ UNCHANGED newsVars

ReportsSpec == ReportsInit /\ [][ReportsNext]_<<newsVars, imagesVars>>

ReportsSymmetry == Permutations(MCVoter) \cup Permutations(MCReader)
================================================================================
