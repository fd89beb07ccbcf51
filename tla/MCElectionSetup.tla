--------------------------- MODULE MCElectionSetup ---------------------------
(* Two requests at a time on an empty draft, on one that can be launched, *)
(* and on a fuller one.                                                   *)
EXTENDS ElectionSetup

CONSTANTS president, secretary, treasurer, r1, r2, board, senate

Post(name, order, candidates) ==
    [name |-> name, order |-> order, candidates |-> candidates]

MCRequest == {r1, r2}
MCElectionName == {board, senate}
MCPostName == {president, secretary, treasurer}
MCCandName == {1, 2}
MCNewWindows == {<<0, 2>>}
MCNewTimes == {1}
MCRow == Row(board, 0, 2)
MCDrafts ==
    {Draft(MCRow, <<>>, 0),
     Draft(MCRow, <<Post(president, 0, <<0>>)>>, 1),
     Draft(MCRow, <<Post(president, 0, <<0, 0>>), Post(secretary, 1, <<0>>)>>, 1)}
==============================================================================
