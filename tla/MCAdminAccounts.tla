--------------------------- MODULE MCAdminAccounts ----------------------------
(* Two addresses, two browsers and two requests at a time; the handlers of   *)
(* one flow, or of two that work on the same account.  Or no account, and    *)
(* the loops over rolls of one to seven credentials: every parity pattern of *)
(* the layers up to height three, and one roll that is not the prefix of     *)
(* another.  The two modules share nothing: a behaviour without a workload   *)
(* is of the tree.                                                           *)
EXTENDS AdminAccounts, MerkleVerification, TLC

CONSTANTS e1, e2, b1, b2, r1, r2, u1, u2, c1, c2, c3, c4, c5, c6, c7

MCEmail == {e1, e2}
MCBrowser == {b1, b2}
MCRequest == {r1, r2}
MCAccount == {u1, u2}

MCWorkloads == {{}, {"register"}, {"register", "settings"}, {"login"}, {"reset", "settings"}}

AllCredentials == <<c1, c2, c3, c4, c5, c6, c7>>

MCRolls == {SubSeq(AllCredentials, 1, n) : n \in 1..7} \cup {<<c3, c1, c2>>}

TreesAndAccountsInit ==
    /\ AccountsInit /\ Init
    /\ workload # {} => roll = <<c1>>

TreesAndAccountsNext ==
    \/ workload # {} /\ AccountsNext /\ UNCHANGED vars
    \/ workload = {} /\ Next /\ UNCHANGED accountsVars

TreesAndAccountsSpec ==
    TreesAndAccountsInit /\ [][TreesAndAccountsNext]_<<accountsVars, vars>>

AccountsSymmetry ==
    Permutations(MCEmail) \cup Permutations(MCBrowser) \cup Permutations(MCRequest)
       \cup Permutations(MCAccount)
===============================================================================
