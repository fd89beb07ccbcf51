------------------------------ MODULE BallotBox ------------------------------
(***************************************************************************)
(* What the two records of an election promise a voter together: the       *)
(* database records one ballot and keeps it; the chain counts a ballot at  *)
(* most once, after it was recorded, and counts the one recorded           *)
(* (VoteService.cast_votes, submit_votes_to_chain).                        *)
(***************************************************************************)
CONSTANTS Voter, Ballot, NoBallot

VARIABLES recorded, counted

boxVars == <<recorded, counted>>

BoxInit ==
    /\ recorded = [v \in Voter |-> NoBallot]
    /\ counted = [v \in Voter |-> NoBallot]

Record(v, b) ==
    /\ recorded[v] = NoBallot
    /\ recorded' = [recorded EXCEPT ![v] = b]
    /\ UNCHANGED counted

Count(v) ==
    /\ recorded[v] # NoBallot
    /\ counted[v] = NoBallot
    /\ counted' = [counted EXCEPT ![v] = recorded[v]]
    /\ UNCHANGED recorded

BoxNext ==
    \/ \E v \in Voter, b \in Ballot : Record(v, b)
    \/ \E v \in Voter : Count(v)

BoxSpec == BoxInit /\ [][BoxNext]_boxVars

===============================================================================
