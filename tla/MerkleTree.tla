------------------------------ MODULE MerkleTree ------------------------------
(***************************************************************************)
(* The voter Merkle tree: apps/blockchain/services/merkle_tree.py builds   *)
(* it and cuts proofs from it, the Solana program climbs a proof inside    *)
(* cast_vote.  SHA-256 is symbolic: the hash of a credential is a          *)
(* one-tuple, the hash of two nodes the pair of them, so two digests are   *)
(* equal exactly when they were computed from the same data.  Indices      *)
(* into a roll or a layer are 0-based, as in the code; sequences are       *)
(* 1-based, as in TLA+.                                                    *)
(***************************************************************************)
EXTENDS Integers, Sequences

(* The anonymous leaf of one credential. *)
VoterHash(credential) == <<credential>>

HashPair(left, right) == <<left, right>>

(* The leaves committed for a roll: one per credential, in index order. *)
Leaves(roll) == [k \in 1..Len(roll) |-> VoterHash(roll[k])]

(***************************************************************************)
(* Building the tree, layer by layer                                       *)
(***************************************************************************)
\* Mutant of Pad: the copy is taken from the wrong end.
Pad_CopyOfFirst(layer) ==
    IF Len(layer) % 2 = 1 THEN Append(layer, layer[1]) ELSE layer

(* An odd layer is padded with a copy of its last node. *)
Pad(layer) ==
    IF Len(layer) % 2 = 1 THEN Append(layer, layer[Len(layer)]) ELSE layer

NextLayer(layer) ==
    LET current == Pad(layer)
    IN  [k \in 1..(Len(current) \div 2) |->
            HashPair(current[2*k - 1], current[2*k])]

(* The layers of the tree over leaves, from the leaves (number 0) up; once *)
(* a layer has a single node it is the root and repeats.                   *)
LayersOver(leaves) ==
    LET layer[h \in 0..Len(leaves)] ==
            IF h = 0 THEN leaves
            ELSE IF Len(layer[h-1]) > 1 THEN NextLayer(layer[h-1])
            ELSE layer[h-1]
    IN  layer

(* The number of the layer the build loop stops at. *)
TreeHeight(leaves) ==
    CHOOSE h \in 0..Len(leaves) :
        /\ Len(LayersOver(leaves)[h]) = 1
        /\ \A g \in 0..(h-1) : Len(LayersOver(leaves)[g]) > 1

BuildMerkleTree(leaves) ==
    [n \in 1..(TreeHeight(leaves) + 1) |-> LayersOver(leaves)[n - 1]]

MerkleRoot(layers) == layers[Len(layers)][1]

RootOf(roll) == MerkleRoot(BuildMerkleTree(Leaves(roll)))

(***************************************************************************)
(* Cutting a proof and climbing it                                         *)
(***************************************************************************)
Sibling(idx) == IF idx % 2 = 0 THEN idx + 1 ELSE idx - 1

(* The indices of the nodes on the way from leaf_index up. *)
Path(leaf_index, height) ==
    LET idx[h \in 0..height] ==
            IF h = 0 THEN leaf_index ELSE idx[h-1] \div 2
    IN  idx

(* The siblings met on the way to the root. *)
GetMerkleProof(layers, leaf_index) ==
    LET idx == Path(leaf_index, Len(layers) - 1)
    IN  [n \in 1..(Len(layers) - 1) |-> Pad(layers[n])[Sibling(idx[n-1]) + 1]]

(* One iteration of the climb: combine with the sibling, go to the parent. *)
Combine(at, sibling) ==
    [idx      |-> at.idx \div 2,
     computed |-> IF at.idx % 2 = 0 THEN HashPair(at.computed, sibling)
                                    ELSE HashPair(sibling, at.computed)]

\* Mutant of Climb: the index is not halved on the way up.
Climb_IndexKept(leaf, proof, leaf_index) ==
    LET at[k \in 0..Len(proof)] ==
            IF k = 0 THEN [idx |-> leaf_index, computed |-> leaf]
            ELSE [Combine(at[k-1], proof[k]) EXCEPT !.idx = leaf_index]
    IN  at

Climb(leaf, proof, leaf_index) ==
    LET at[k \in 0..Len(proof)] ==
            IF k = 0 THEN [idx |-> leaf_index, computed |-> leaf]
            ELSE Combine(at[k-1], proof[k])
    IN  at

ComputedRoot(leaf, proof, leaf_index) ==
    Climb(leaf, proof, leaf_index)[Len(proof)].computed

VerifyMerkleProof(leaf, proof, leaf_index, root) ==
    ComputedRoot(leaf, proof, leaf_index) = root
===============================================================================
