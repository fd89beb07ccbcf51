-------------------------- MODULE MerkleVerification --------------------------
(***************************************************************************)
(* The two loops the voter tree depends on, one iteration per step: the    *)
(* server's build_merkle_tree over a roll, and the program's climb of a    *)
(* proof inside cast_vote.  A claim names a credential, the voter_index it *)
(* is presented under and the leaf the proof was cut for; an honest claim  *)
(* has the credential of that very leaf at that very index.                *)
(***************************************************************************)
EXTENDS MerkleTree

CONSTANTS
    Rolls,      \* the rolls of credentials a tree is built over
    MaxIndex    \* the largest voter_index presented

(* Credentials that may be presented: those of any roll. *)
Credentials == UNION {{r[k] : k \in DOMAIN r} : r \in Rolls}

ASSUME RollsAssumption == \A r \in Rolls : r \in Seq(Credentials) /\ Len(r) > 0
ASSUME MaxIndexAssumption == MaxIndex \in Nat

VARIABLES
    roll,       \* the roll of this behaviour
    layers,     \* build_merkle_tree's layers so far
    claim,      \* the claim being verified, NoClaim while building
    proof,      \* its siblings
    level,      \* siblings consumed so far
    at,         \* the climb's idx and computed
    verdict     \* "open", "accepted" or "rejected"

vars == <<roll, layers, claim, proof, level, at, verdict>>

NoClaim == <<>>

Init ==
    /\ roll \in Rolls
    /\ layers = <<Leaves(roll)>>
    /\ claim = NoClaim
    /\ proof = <<>>
    /\ level = 0
    /\ at = [idx |-> 0, computed |-> <<>>]
    /\ verdict = "open"

Top == layers[Len(layers)]

(* One iteration of the build loop. *)
BuildLayer ==
    /\ Len(Top) > 1
    /\ layers' = Append(layers, NextLayer(Top))
    /\ UNCHANGED <<roll, claim, proof, level, at, verdict>>

\* Mutant of InRange: the bound admits one index past the roll.
InRange_OffByOne(voter_index) == voter_index <= Len(roll)

InRange(voter_index) == voter_index < Len(roll)

(* cast_vote is called; the index bound is tested before the climb. *)
Present(credential, voter_index, leaf_index) ==
    /\ Len(Top) = 1 /\ claim = NoClaim
    /\ claim' = [credential |-> credential, index |-> voter_index,
                 cut_for |-> leaf_index]
    /\ proof' = GetMerkleProof(layers, leaf_index)
    /\ at' = [idx |-> voter_index, computed |-> VoterHash(credential)]
    /\ verdict' = IF InRange(voter_index) THEN "open" ELSE "rejected"
    /\ UNCHANGED <<roll, layers, level>>

(* One iteration of the climb. *)
ClimbOne ==
    /\ claim # NoClaim /\ verdict = "open" /\ level < Len(proof)
    /\ at' = Combine(at, proof[level + 1])
    /\ level' = level + 1
    /\ UNCHANGED <<roll, layers, claim, proof, verdict>>

Decide ==
    /\ claim # NoClaim /\ verdict = "open" /\ level = Len(proof)
    /\ verdict' = IF at.computed = MerkleRoot(layers)
                  THEN "accepted" ELSE "rejected"
    /\ UNCHANGED <<roll, layers, claim, proof, level, at>>

Next ==
    \/ BuildLayer
    \/ \E c \in Credentials, i \in 0..MaxIndex, j \in 0..(Len(roll) - 1) :
          Present(c, i, j)
    \/ ClimbOne
    \/ Decide

Spec == Init /\ [][Next]_vars

-------------------------------------------------------------------------------
(* The finished tree is the tree the rest of the project computes in closed *)
(* form, and node k of a layer stands over the leaves k*2^h up to the next  *)
(* multiple, the last node of a short layer standing for its missing twin.  *)
(* build_merkle_tree, merkle_tree.py.                                       *)
Twin(layer, k) == IF k <= Len(layer) THEN layer[k] ELSE layer[Len(layer)]

TreeIsReference ==
    Len(Top) = 1 =>
        /\ layers = BuildMerkleTree(Leaves(roll))
        /\ \A n \in 1..(Len(layers) - 1) :
              /\ 2 * Len(layers[n+1]) \in {Len(layers[n]), Len(layers[n]) + 1}
              /\ \A k \in 1..Len(layers[n+1]) :
                    layers[n+1][k] = HashPair(Twin(layers[n], 2*k - 1),
                                              Twin(layers[n], 2*k))

(* A claim is accepted exactly when the credential sits at the presented    *)
(* index of the committed roll and the proof was cut for a leaf whose       *)
(* siblings are the same: an honest claim never fails, and no credential    *)
(* passes under an index that is not its own.  cast_vote step 4, lib.rs.    *)
VerdictIsMembership ==
    /\ verdict = "accepted" =>
          /\ claim.index < Len(roll)
          /\ claim.credential = roll[claim.index + 1]
    /\ verdict = "rejected" =>
          \/ claim.index # claim.cut_for
          \/ claim.credential # roll[claim.index + 1]

(* The program's loop and verify_merkle_proof, "a pure-Python reference     *)
(* implementation of the on-chain Rust verification loop", decide alike on  *)
(* every claim within the bounds.                                           *)
ReferenceAgrees ==
    (verdict # "open" /\ claim.index < Len(roll)) =>
        (verdict = "accepted" <=>
            VerifyMerkleProof(VoterHash(claim.credential), proof, claim.index,
                              RootOf(roll)))
===============================================================================
