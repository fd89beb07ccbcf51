---------------------------- MODULE MCArchiveClose ----------------------------
(* Two voters, two tasks at a time; the election ends on chain in the second *)
(* of the Election row's end, or the row was given an earlier one.           *)
EXTENDS ArchiveClose

CONSTANTS c1, c2, k1, k2

Entry(p, c) == [post_index |-> p, candidate_index |-> c]

MCCredential == {c1, c2}
MCRoll == <<c1, c2>>
MCRolls == {MCRoll}
MCLayout == <<2>>
MCLayouts == {MCLayout}
MCWindows == {<<0, 1>>}
MCChainWindow == <<0, 1>>
MCDbEnds == {0, 1}
MCSelections == {<<Entry(0, 0)>>}
MCTask == {k1, k2}
OneTask == {k1}
AtChainEnd == {1}
=============================================================================
