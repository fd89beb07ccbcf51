---------------------------- MODULE MCVoterAccess ----------------------------
(* A voter with an email address and a printed credential, neither there    *)
(* yet; two requests of the owner and two senders at a time.                 *)
EXTENDS VoterAccess, TLC

CONSTANTS ann, paper, r1, r2

MCVoter == {ann, paper}
MCOffline == {paper}
Nobody == {}
MCRequest == {r1, r2}

(* The requests of the owner are interchangeable. *)
RequestSymmetry == Permutations(MCRequest)
==============================================================================
