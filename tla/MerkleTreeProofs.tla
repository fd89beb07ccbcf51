--------------------------- MODULE MerkleTreeProofs ---------------------------
(***************************************************************************)
(* What the voter tree guarantees for every roll: the recursive functions  *)
(* of MerkleTree are what they say, the build loop ends, and a proof that  *)
(* verifies at a registered index verifies for the credential at that      *)
(* index and for no other.                                                 *)
(***************************************************************************)
EXTENDS MerkleTree, WellFoundedInduction, TLAPS

(***************************************************************************)
(* Induction in the form of a set of naturals closed under successor.      *)
(***************************************************************************)
LEMMA NatWellFounded == IsWellFoundedOn({ss \in Nat \X Nat : ss[1] < ss[2]}, Nat)
BY NatLessThanWellFounded DEF OpToRel

(* A set of naturals with 0 and with every successor is all of Nat. *)
LEMMA SetInduction ==
    ASSUME NEW S, S \subseteq Nat, 0 \in S, \A n \in S : n + 1 \in S
    PROVE  S = Nat
<1> DEFINE R == {ss \in Nat \X Nat : ss[1] < ss[2]}
           T == Nat \ S
<1>1. SUFFICES ASSUME T # {} PROVE FALSE
  OBVIOUS
<1>2. PICK x \in T : \A y \in T : <<y, x>> \notin R
  <2>1. IsWellFoundedOn(R, Nat)
    BY NatWellFounded
  <2>2. T \subseteq Nat
    OBVIOUS
  <2> HIDE DEF R, T
  <2> QED BY <1>1, <2>1, <2>2, WFMin
<1>3. x - 1 \in Nat /\ x - 1 < x
  OBVIOUS
<1>4. x - 1 \in S
  BY <1>2, <1>3
<1> QED BY <1>4

(***************************************************************************)
(* The climb                                                               *)
(***************************************************************************)
(* Climb is the function its definition asks for. *)
LEMMA ClimbDef ==
    ASSUME NEW leaf, NEW proof, Len(proof) \in Nat, NEW i
    PROVE  Climb(leaf, proof, i) =
              [k \in 0..Len(proof) |->
                  IF k = 0 THEN [idx |-> i, computed |-> leaf]
                  ELSE Combine(Climb(leaf, proof, i)[k-1], proof[k])]
<1> DEFINE Start == [idx |-> i, computed |-> leaf]
           Is(n, g) == g = [k \in 0..n |-> IF k = 0 THEN Start
                                           ELSE Combine(g[k-1], proof[k])]
           S == {n \in Nat : \E g : Is(n, g)}
<1>1. 0 \in S
  <2>1. Is(0, [k \in 0..0 |-> Start])
    OBVIOUS
  <2> QED BY <2>1
<1>2. ASSUME NEW n \in S PROVE n + 1 \in S
  <2>1. PICK g : Is(n, g)
    OBVIOUS
  <2> DEFINE h == [k \in 0..(n+1) |->
                      IF k = n + 1 THEN Combine(g[n], proof[n+1]) ELSE g[k]]
  <2>2. ASSUME NEW k \in 0..(n+1)
        PROVE  h[k] = IF k = 0 THEN Start ELSE Combine(h[k-1], proof[k])
    <3>1. CASE k = 0
      BY <3>1, <2>1
    <3>2. CASE k = n + 1
      BY <3>2
    <3>3. CASE k \in 1..n
      <4>1. h[k] = g[k] /\ h[k-1] = g[k-1]
        BY <3>3
      <4>2. g[k] = Combine(g[k-1], proof[k])
        BY <2>1, <3>3
      <4> QED BY <4>1, <4>2, <3>3
    <3> QED BY <3>1, <3>2, <3>3
  <2>3. Is(n+1, h)
    BY <2>2
  <2>4. n + 1 \in Nat /\ \E f : Is(n+1, f)
    <3> HIDE DEF Is, h
    <3> QED BY <2>3
  <2> QED BY <2>4
<1>3. S = Nat
  <2> HIDE DEF S
  <2>1. S \subseteq Nat
    BY DEF S
  <2> QED BY <1>1, <1>2, <2>1, SetInduction
<1>4. \E g : Is(Len(proof), g)
  BY <1>3
<1> QED BY <1>4 DEF Climb

(* Path is the function its definition asks for.                           *)
LEMMA PathDef ==
    ASSUME NEW i, NEW height \in Nat
    PROVE  Path(i, height) =
              [k \in 0..height |-> IF k = 0 THEN i ELSE Path(i, height)[k-1] \div 2]
<1> DEFINE Is(n, g) == g = [k \in 0..n |-> IF k = 0 THEN i ELSE g[k-1] \div 2]
           S == {n \in Nat : \E g : Is(n, g)}
<1>1. 0 \in S
  <2>1. Is(0, [k \in 0..0 |-> i])
    OBVIOUS
  <2> QED BY <2>1
<1>2. ASSUME NEW n \in S PROVE n + 1 \in S
  <2>1. PICK g : Is(n, g)
    OBVIOUS
  <2> DEFINE f == [k \in 0..(n+1) |-> IF k = n + 1 THEN g[n] \div 2 ELSE g[k]]
  <2>2. ASSUME NEW k \in 0..(n+1)
        PROVE  f[k] = IF k = 0 THEN i ELSE f[k-1] \div 2
    <3>1. CASE k = 0
      BY <3>1, <2>1
    <3>2. CASE k = n + 1
      BY <3>2
    <3>3. CASE k \in 1..n
      <4>1. f[k] = g[k] /\ f[k-1] = g[k-1]
        BY <3>3
      <4>2. g[k] = g[k-1] \div 2
        BY <2>1, <3>3
      <4> QED BY <4>1, <4>2, <3>3
    <3> QED BY <3>1, <3>2, <3>3
  <2>3. Is(n+1, f)
    BY <2>2
  <2>4. n + 1 \in Nat /\ \E g1 : Is(n+1, g1)
    <3> HIDE DEF Is, f
    <3> QED BY <2>3
  <2> QED BY <2>4
<1>3. S = Nat
  <2> HIDE DEF S
  <2>1. S \subseteq Nat
    BY DEF S
  <2> QED BY <1>1, <1>2, <2>1, SetInduction
<1>4. \E g : Is(height, g)
  BY <1>3
<1> QED BY <1>4 DEF Path

(***************************************************************************)
(* The build loop                                                          *)
(***************************************************************************)
(* LayersOver is the function its definition asks for. *)
LEMMA LayersDef ==
    ASSUME NEW leaves, Len(leaves) \in Nat
    PROVE  LayersOver(leaves) =
              [h \in 0..Len(leaves) |->
                  IF h = 0 THEN leaves
                  ELSE IF Len(LayersOver(leaves)[h-1]) > 1
                       THEN NextLayer(LayersOver(leaves)[h-1])
                  ELSE LayersOver(leaves)[h-1]]
<1> DEFINE Up(layer) == IF Len(layer) > 1 THEN NextLayer(layer) ELSE layer
           Is(n, g) == g = [k \in 0..n |-> IF k = 0 THEN leaves
                                           ELSE Up(g[k-1])]
           S == {n \in Nat : \E g : Is(n, g)}
<1>1. 0 \in S
  <2>1. Is(0, [k \in 0..0 |-> leaves])
    OBVIOUS
  <2> QED BY <2>1
<1>2. ASSUME NEW n \in S PROVE n + 1 \in S
  <2>1. PICK g : Is(n, g)
    OBVIOUS
  <2> DEFINE f == [k \in 0..(n+1) |-> IF k = n + 1 THEN Up(g[n]) ELSE g[k]]
  <2> HIDE DEF Up
  <2>2. ASSUME NEW k \in 0..(n+1)
        PROVE  f[k] = IF k = 0 THEN leaves ELSE Up(f[k-1])
    <3>1. CASE k = 0
      BY <3>1, <2>1
    <3>2. CASE k = n + 1
      BY <3>2
    <3>3. CASE k \in 1..n
      <4>1. f[k] = g[k] /\ f[k-1] = g[k-1]
        BY <3>3
      <4>2. g[k] = Up(g[k-1])
        BY <2>1, <3>3
      <4> QED BY <4>1, <4>2, <3>3
    <3> QED BY <3>1, <3>2, <3>3
  <2>3. Is(n+1, f)
    BY <2>2
  <2>4. n + 1 \in Nat /\ \E g1 : Is(n+1, g1)
    <3> HIDE DEF Is, f
    <3> QED BY <2>3
  <2> QED BY <2>4
<1>3. S = Nat
  <2> HIDE DEF S
  <2>1. S \subseteq Nat
    BY DEF S
  <2> QED BY <1>1, <1>2, <2>1, SetInduction
<1>4. \E g : Is(Len(leaves), g)
  BY <1>3
<1> QED BY <1>4 DEF LayersOver

(* A nonempty set of naturals has a least element. *)
LEMMA LeastNatural ==
    ASSUME NEW T, T \subseteq Nat, T # {}
    PROVE  \E x \in T : \A y \in T : ~(y < x)
<1> DEFINE R == {ss \in Nat \X Nat : ss[1] < ss[2]}
<1>1. PICK x \in T : \A y \in T : <<y, x>> \notin R
  <2>1. IsWellFoundedOn(R, Nat)
    BY NatWellFounded
  <2> HIDE DEF R
  <2> QED BY <2>1, WFMin
<1> QED BY <1>1

(* Padding makes the length even and keeps every node where it was. *)
LEMMA PadFacts ==
    ASSUME NEW N, NEW layer \in Seq(N), Len(layer) > 0
    PROVE  /\ Pad(layer) \in Seq(N)
           /\ Len(Pad(layer)) = 2 * ((Len(layer) + 1) \div 2)
           /\ \A k \in 1..Len(layer) : Pad(layer)[k] = layer[k]
           /\ \A k \in 1..Len(Pad(layer)) :
                 \E m \in 1..Len(layer) : Pad(layer)[k] = layer[m]
<1>1. CASE Len(layer) % 2 = 1
  <2>1. Pad(layer) = Append(layer, layer[Len(layer)])
    BY <1>1 DEF Pad
  <2>2. layer[Len(layer)] \in N
    OBVIOUS
  <2>3. Len(Pad(layer)) = Len(layer) + 1 /\ Pad(layer) \in Seq(N)
    BY <2>1, <2>2
  <2>4. \A k \in 1..Len(layer) : Pad(layer)[k] = layer[k]
    BY <2>1, <2>2
  <2>5. Pad(layer)[Len(layer) + 1] = layer[Len(layer)]
    BY <2>1, <2>2
  <2> QED BY <1>1, <2>3, <2>4, <2>5
<1>2. CASE Len(layer) % 2 # 1
  BY <1>2 DEF Pad
<1> QED BY <1>1, <1>2

(* The layer above is half as long, rounded up, and pairs up the padding. *)
LEMMA NextLayerFacts ==
    ASSUME NEW N, NEW layer \in Seq(N), Len(layer) > 0
    PROVE  /\ NextLayer(layer) \in Seq(N \X N)
           /\ Len(NextLayer(layer)) = (Len(layer) + 1) \div 2
           /\ \A k \in 1..Len(NextLayer(layer)) :
                 /\ NextLayer(layer)[k] =
                        <<Pad(layer)[2*k - 1], Pad(layer)[2*k]>>
                 /\ 2*k - 1 \in 1..Len(Pad(layer))
                 /\ 2*k \in 1..Len(Pad(layer))
<1> DEFINE current == Pad(layer)
           half == Len(current) \div 2
<1>1. /\ current \in Seq(N)
      /\ Len(current) = 2 * ((Len(layer) + 1) \div 2)
  BY PadFacts
<1>2. half = (Len(layer) + 1) \div 2 /\ half \in Nat
  BY <1>1
<1>3. NextLayer(layer) = [k \in 1..half |-> <<current[2*k - 1], current[2*k]>>]
  BY DEF NextLayer, HashPair
<1> HIDE DEF current, half
<1>4. \A k \in 1..half : 2*k - 1 \in 1..Len(current) /\ 2*k \in 1..Len(current)
  BY <1>1, <1>2
<1>5. \A k \in 1..half : <<current[2*k - 1], current[2*k]>> \in N \X N
  BY <1>1, <1>4
<1>6. NextLayer(layer) \in Seq(N \X N) /\ Len(NextLayer(layer)) = half
  BY <1>2, <1>3, <1>5
<1> QED BY <1>2, <1>3, <1>4, <1>6 DEF current

(* One iteration of the build loop keeps the layer a nonempty sequence and  *)
(* shortens it, unless it has a single node already.                        *)
Raised(layer) == IF Len(layer) > 1 THEN NextLayer(layer) ELSE layer

ShortEnough(layer, h, n) ==
    /\ \E M : layer \in Seq(M)
    /\ Len(layer) \in Nat /\ Len(layer) >= 1
    /\ Len(layer) = 1 \/ Len(layer) + h <= n

LEMMA LayerStep ==
    ASSUME NEW layer, NEW h \in Nat, NEW n \in Nat, h < n,
           ShortEnough(layer, h, n)
    PROVE  ShortEnough(Raised(layer), h + 1, n)
<1>1. PICK M : layer \in Seq(M)
  BY DEF ShortEnough
<1>2. /\ Len(layer) \in Nat /\ Len(layer) >= 1
      /\ Len(layer) = 1 \/ Len(layer) + h <= n
  BY DEF ShortEnough
<1>3. CASE Len(layer) > 1
  <2>1. Raised(layer) = NextLayer(layer)
    BY <1>3 DEF Raised
  <2>2. /\ NextLayer(layer) \in Seq(M \X M)
        /\ Len(NextLayer(layer)) = (Len(layer) + 1) \div 2
    BY <1>1, <1>3, NextLayerFacts
  <2>3. /\ Len(Raised(layer)) \in Nat /\ Len(Raised(layer)) >= 1
        /\ Len(Raised(layer)) + 1 <= Len(layer)
    BY <1>2, <1>3, <2>1, <2>2
  <2>4. \E Q : Raised(layer) \in Seq(Q)
    BY <2>1, <2>2
  <2> QED BY <1>2, <1>3, <2>3, <2>4 DEF ShortEnough
<1>4. CASE ~(Len(layer) > 1)
  <2>1. \A x \in Nat : x >= 1 => x = 1 \/ x > 1
    OBVIOUS
  <2>2. Len(layer) = 1
    BY <1>2, <1>4, <2>1
  <2>3. Raised(layer) = layer
    BY <1>4 DEF Raised
  <2> QED BY <1>1, <2>2, <2>3 DEF ShortEnough
<1> QED BY <1>3, <1>4

(* Every layer is a nonempty sequence, and the h-th is short enough for the *)
(* build loop to end within Len(leaves) iterations.                         *)
LEMMA LayersShape ==
    ASSUME NEW N, NEW leaves \in Seq(N), Len(leaves) > 0
    PROVE  \A h \in 0..Len(leaves) :
              ShortEnough(LayersOver(leaves)[h], h, Len(leaves))
<1> DEFINE L == LayersOver(leaves)
           n == Len(leaves)
           S == {h \in Nat : h <= n => ShortEnough(L[h], h, n)}
<1>1. n \in Nat /\ n > 0
  OBVIOUS
<1>2. /\ L[0] = leaves
      /\ \A h \in 1..n : L[h] = Raised(L[h-1])
  BY <1>1, LayersDef DEF Raised
<1>3. 0 \in S
  BY <1>1, <1>2 DEF ShortEnough
<1> HIDE DEF L, n
<1>4. ASSUME NEW h \in S PROVE h + 1 \in S
  <2>1. h \in Nat
    OBVIOUS
  <2>2. ASSUME h + 1 <= n PROVE ShortEnough(L[h+1], h + 1, n)
    <3>1. h < n /\ ShortEnough(L[h], h, n)
      BY <1>1, <2>1, <2>2
    <3>2. L[h+1] = Raised(L[h])
      BY <1>1, <1>2, <2>1, <2>2
    <3> QED BY <1>1, <2>1, <3>1, <3>2, LayerStep
  <2> QED BY <2>1, <2>2
<1>5. S = Nat
  <2> HIDE DEF S
  <2>1. S \subseteq Nat
    BY DEF S
  <2> QED BY <1>3, <1>4, <2>1, SetInduction
<1>6. \A h \in 0..n : ShortEnough(L[h], h, n)
  BY <1>1, <1>5
<1> QED BY <1>6 DEF L, n

(* The build loop stops at a layer of one node, and below it every layer is *)
(* the NextLayer of the one before.                                         *)
LEMMA TreeHeightFacts ==
    ASSUME NEW N, NEW leaves \in Seq(N), Len(leaves) > 0
    PROVE  /\ TreeHeight(leaves) \in 0..Len(leaves)
           /\ Len(LayersOver(leaves)[TreeHeight(leaves)]) = 1
           /\ LayersOver(leaves)[0] = leaves
           /\ \A h \in 1..TreeHeight(leaves) :
                 LayersOver(leaves)[h] = NextLayer(LayersOver(leaves)[h-1])
           /\ \A g \in 0..(TreeHeight(leaves) - 1) : Len(LayersOver(leaves)[g]) > 1
<1> DEFINE L == LayersOver(leaves)
           n == Len(leaves)
           T == {h \in 0..n : Len(L[h]) = 1}
           Stops(h) == Len(L[h]) = 1 /\ \A g \in 0..(h-1) : Len(L[g]) > 1
<1>1. n \in Nat /\ n > 0
  OBVIOUS
<1>2. \A h \in 0..n : /\ Len(L[h]) \in Nat /\ Len(L[h]) >= 1
                      /\ Len(L[h]) = 1 \/ Len(L[h]) + h <= n
  BY LayersShape DEF ShortEnough
<1> HIDE DEF L, n
<1>3. n \in T
  BY <1>1, <1>2
<1>4. PICK h \in T : \A g \in T : ~(g < h)
  <2>1. T \subseteq Nat /\ T # {}
    BY <1>1, <1>3
  <2> HIDE DEF T
  <2> QED BY <2>1, LeastNatural
<1>5. h \in 0..n /\ Stops(h)
  <2>1. h \in 0..n /\ Len(L[h]) = 1
    OBVIOUS
  <2>2. ASSUME NEW g \in 0..(h-1) PROVE Len(L[g]) > 1
    <3>1. g \in 0..n /\ g < h
      BY <1>1, <2>1
    <3>2. Len(L[g]) # 1
      BY <1>4, <3>1
    <3>3. Len(L[g]) \in Nat /\ Len(L[g]) >= 1
      BY <1>2, <3>1
    <3>4. \A x \in Nat : x >= 1 => x = 1 \/ x > 1
      OBVIOUS
    <3> QED BY <3>2, <3>3, <3>4
  <2> QED BY <2>1, <2>2
<1>6. /\ TreeHeight(leaves) \in 0..n
      /\ Stops(TreeHeight(leaves))
  BY <1>5 DEF TreeHeight, L, n
<1>7. /\ L[0] = leaves
      /\ \A k \in 1..n : L[k] = IF Len(L[k-1]) > 1 THEN NextLayer(L[k-1])
                                 ELSE L[k-1]
  BY <1>1, LayersDef DEF L, n
<1>8. \A k \in 1..TreeHeight(leaves) : L[k] = NextLayer(L[k-1])
  <2> SUFFICES ASSUME NEW k \in 1..TreeHeight(leaves)
               PROVE  L[k] = NextLayer(L[k-1])
    OBVIOUS
  <2>1. k \in 1..n /\ k - 1 \in 0..(TreeHeight(leaves) - 1)
    BY <1>1, <1>6
  <2> QED BY <1>6, <1>7, <2>1
<1> QED BY <1>6, <1>7, <1>8 DEF L, n

(* Node k of a layer pairs two nodes of the padded layer below.             *)
PairsUp(low, up, k) ==
    /\ up[k] = <<Pad(low)[2*k - 1], Pad(low)[2*k]>>
    /\ \E m \in 1..Len(low) : Pad(low)[2*k - 1] = low[m]
    /\ \E m \in 1..Len(low) : Pad(low)[2*k] = low[m]

(* The layer up stands over the layer low. *)
StandsOver(low, up) ==
    /\ Len(low) \in Nat /\ Len(low) >= 1
    /\ Len(up) = (Len(low) + 1) \div 2
    /\ \A k \in 1..Len(low) : Pad(low)[k] = low[k]
    /\ \A k \in 1..Len(up) : PairsUp(low, up, k)

LEMMA NodeFacts ==
    ASSUME NEW N, NEW leaves \in Seq(N), Len(leaves) > 0,
           NEW h \in 1..TreeHeight(leaves)
    PROVE  StandsOver(LayersOver(leaves)[h-1], LayersOver(leaves)[h])
<1> DEFINE low == LayersOver(leaves)[h-1]
           up == LayersOver(leaves)[h]
<1>1. h - 1 \in 0..Len(leaves) /\ up = NextLayer(low)
  BY TreeHeightFacts
<1>2. ShortEnough(low, h - 1, Len(leaves))
  BY <1>1, LayersShape
<1> HIDE DEF low, up
<1>3. PICK M : low \in Seq(M)
  BY <1>2 DEF ShortEnough
<1>4. Len(low) \in Nat /\ Len(low) >= 1 /\ Len(low) > 0
  <2>1. \A x \in Nat : x >= 1 => x > 0
    OBVIOUS
  <2> QED BY <1>2, <2>1 DEF ShortEnough
<1>5. /\ Len(up) = (Len(low) + 1) \div 2
      /\ \A k \in 1..Len(up) :
            /\ up[k] = <<Pad(low)[2*k - 1], Pad(low)[2*k]>>
            /\ 2*k - 1 \in 1..Len(Pad(low))
            /\ 2*k \in 1..Len(Pad(low))
  BY <1>1, <1>3, <1>4, NextLayerFacts
<1>6. /\ \A k \in 1..Len(low) : Pad(low)[k] = low[k]
      /\ \A k \in 1..Len(Pad(low)) : \E m \in 1..Len(low) : Pad(low)[k] = low[m]
  BY <1>3, <1>4, PadFacts
<1>7. \A k \in 1..Len(up) : PairsUp(low, up, k)
  BY <1>5, <1>6 DEF PairsUp
<1>8. StandsOver(low, up)
  BY <1>4, <1>5, <1>6, <1>7 DEF StandsOver
<1> QED BY <1>8 DEF low, up

(* A node above the leaves is a pair of nodes of the layer below.           *)
IsPairOf(node, low) ==
    \E x, y : /\ node = <<x, y>>
             /\ \E m \in 1..Len(low) : x = low[m]
             /\ \E n \in 1..Len(low) : y = low[n]

LEMMA NodePair ==
    ASSUME NEW low, NEW up, StandsOver(low, up), NEW k \in 1..Len(up)
    PROVE  IsPairOf(up[k], low)
<1>1. PairsUp(low, up, k)
  BY DEF StandsOver
<1> QED BY <1>1, Zenon DEF PairsUp, IsPairOf

(* The node next to its sibling, on the side its index says. *)
Paired(node, sibling, idx) ==
    IF idx % 2 = 0 THEN <<node, sibling>> ELSE <<sibling, node>>

(* The fields of one iteration of the climb. *)
LEMMA CombineFacts ==
    ASSUME NEW a, NEW sibling
    PROVE  /\ Combine(a, sibling).idx = a.idx \div 2
           /\ Combine(a, sibling).computed =
                 Paired(a.computed, sibling, a.idx)
<1>1. Combine(a, sibling).idx = a.idx \div 2
  BY DEF Combine
<1>2. CASE a.idx % 2 = 0
  BY <1>1, <1>2 DEF Combine, HashPair, Paired
<1>3. CASE a.idx % 2 # 0
  BY <1>1, <1>3 DEF Combine, HashPair, Paired
<1> QED BY <1>2, <1>3

(* Where the climb starts, what its index is, and that each step pairs the  *)
(* node with a sibling on the side the index says.                          *)
LEMMA ClimbStart ==
    ASSUME NEW leaf, NEW proof, Len(proof) \in Nat, NEW i \in Nat
    PROVE  /\ Climb(leaf, proof, i)[0].idx = i
           /\ Climb(leaf, proof, i)[0].computed = leaf
<1>1. Climb(leaf, proof, i)[0] = [idx |-> i, computed |-> leaf]
  BY ClimbDef
<1> QED BY <1>1

LEMMA ClimbUnfold ==
    ASSUME NEW leaf, NEW proof, Len(proof) \in Nat, NEW i,
           NEW k \in 1..Len(proof)
    PROVE  Climb(leaf, proof, i)[k] =
              Combine(Climb(leaf, proof, i)[k-1], proof[k])
BY ClimbDef

LEMMA ClimbIndex ==
    ASSUME NEW leaf, NEW proof, Len(proof) \in Nat, NEW i \in Nat
    PROVE  /\ \A k \in 0..Len(proof) : Climb(leaf, proof, i)[k].idx \in Nat
           /\ \A k \in 1..Len(proof) : Climb(leaf, proof, i)[k].idx =
                                       Climb(leaf, proof, i)[k-1].idx \div 2
<1> DEFINE at == Climb(leaf, proof, i)
           n == Len(proof)
           S == {k \in Nat : k <= n => at[k].idx \in Nat}
<1>1. at[0].idx = i
  BY ClimbStart
<1>2. ASSUME NEW k \in 1..n PROVE at[k].idx = at[k-1].idx \div 2
  <2>1. at[k] = Combine(at[k-1], proof[k])
    BY ClimbUnfold
  <2> HIDE DEF at
  <2> QED BY <2>1, CombineFacts
<1> HIDE DEF at
<1>3. 0 \in S
  BY <1>1
<1>4. ASSUME NEW k \in S PROVE k + 1 \in S
  <2>1. ASSUME k + 1 <= n PROVE at[k+1].idx \in Nat
    <3>1. at[k].idx \in Nat /\ k + 1 \in 1..n /\ (k + 1) - 1 = k
      BY <2>1
    <3>2. at[k+1].idx = at[(k+1)-1].idx \div 2
      BY <1>2, <3>1, Zenon
    <3> QED BY <3>1, <3>2
  <2> QED BY <2>1
<1>5. S = Nat
  <2> HIDE DEF S
  <2>1. S \subseteq Nat
    BY DEF S
  <2> QED BY <1>3, <1>4, <2>1, SetInduction
<1>6. \A k \in 0..n : at[k].idx \in Nat
  BY <1>5
<1> QED BY <1>2, <1>6 DEF at

LEMMA ClimbNode ==
    ASSUME NEW leaf, NEW proof, Len(proof) \in Nat, NEW i \in Nat,
           NEW k \in 1..Len(proof)
    PROVE  Climb(leaf, proof, i)[k].computed =
              Paired(Climb(leaf, proof, i)[k-1].computed, proof[k],
                     Climb(leaf, proof, i)[k-1].idx)
<1> DEFINE at == Climb(leaf, proof, i)
<1>1. at[k] = Combine(at[k-1], proof[k])
  BY ClimbUnfold
<1> HIDE DEF at
<1>2. at[k].computed = Paired(at[k-1].computed, proof[k], at[k-1].idx)
  BY <1>1, CombineFacts
<1> QED BY <1>2 DEF at

(***************************************************************************)
(* A verified proof binds the credential to the index                      *)
(***************************************************************************)
(* Going down from the root, the node computed j levels below it is a node  *)
(* of the tree j levels below its root.                                     *)
LEMMA ClimbMeetsTree ==
    ASSUME NEW N, NEW leaves \in Seq(N), Len(leaves) > 0,
           NEW leaf, NEW proof, Len(proof) \in Nat, NEW i \in Nat,
           ComputedRoot(leaf, proof, i) =
              LayersOver(leaves)[TreeHeight(leaves)][1]
    PROVE  \A j \in Nat :
              (j <= Len(proof) /\ j <= TreeHeight(leaves)) =>
                 \E m \in 1..Len(LayersOver(leaves)[TreeHeight(leaves) - j]) :
                    Climb(leaf, proof, i)[Len(proof) - j].computed =
                       LayersOver(leaves)[TreeHeight(leaves) - j][m]
<1> DEFINE L == LayersOver(leaves)
           H == TreeHeight(leaves)
           at == Climb(leaf, proof, i)
           n == Len(proof)
           Meets(j) == \E m \in 1..Len(L[H-j]) : at[n-j].computed = L[H-j][m]
           S == {j \in Nat : (j <= n /\ j <= H) => Meets(j)}
<1>1. H \in Nat /\ n \in Nat /\ Len(L[H]) = 1
  BY TreeHeightFacts
<1>2. at[n].computed = L[H][1]
  BY DEF ComputedRoot
<1>3. ASSUME NEW h \in 1..H, NEW k \in 1..Len(L[h])
      PROVE  IsPairOf(L[h][k], L[h-1])
  <2>1. StandsOver(L[h-1], L[h])
    BY NodeFacts
  <2> HIDE DEF L
  <2> QED BY <2>1, NodePair
<1>4. ASSUME NEW k \in 1..n
      PROVE  \/ \E y : at[k].computed = <<at[k-1].computed, y>>
             \/ \E x : at[k].computed = <<x, at[k-1].computed>>
  <2>1. at[k].computed = Paired(at[k-1].computed, proof[k], at[k-1].idx)
    BY ClimbNode
  <2> HIDE DEF at
  <2> QED BY <2>1 DEF Paired
<1> HIDE DEF L, H, at, n
<1>5. 0 \in S
  <2>1. n - 0 = n /\ H - 0 = H
    BY <1>1
  <2>2. 1 \in 1..Len(L[H])
    BY <1>1
  <2> QED BY <1>2, <2>1, <2>2
<1>6. ASSUME NEW j \in S PROVE j + 1 \in S
  <2>1. SUFFICES ASSUME j + 1 <= n, j + 1 <= H PROVE Meets(j + 1)
    OBVIOUS
  <2>2. PICK k \in 1..Len(L[H-j]) : at[n-j].computed = L[H-j][k]
    BY <1>1, <2>1
  <2>3. /\ H - j \in 1..H /\ n - j \in 1..n
        /\ (H - j) - 1 = H - (j + 1) /\ (n - j) - 1 = n - (j + 1)
    BY <1>1, <2>1
  <2> DEFINE low == L[H - (j + 1)]
             c == at[n - (j + 1)].computed
  <2>4. PICK x, y : /\ L[H-j][k] = <<x, y>>
                    /\ \E m \in 1..Len(low) : x = low[m]
                    /\ \E m \in 1..Len(low) : y = low[m]
    <3>1. IsPairOf(L[H-j][k], L[(H-j)-1])
      BY <1>3, <2>3, Zenon
    <3>2. IsPairOf(L[H-j][k], low)
      BY <2>3, <3>1, Zenon
    <3> QED BY <3>2, Zenon DEF IsPairOf
  <2>5. \/ \E z : at[n-j].computed = <<c, z>>
        \/ \E z : at[n-j].computed = <<z, c>>
    BY <1>4, <2>3
  <2>6. c = x \/ c = y
    <3> HIDE DEF c
    <3> QED BY <2>2, <2>4, <2>5
  <2> QED BY <2>4, <2>6
<1>7. S = Nat
  <2> HIDE DEF S
  <2>1. S \subseteq Nat
    BY DEF S
  <2> QED BY <1>5, <1>6, <2>1, SetInduction
<1>8. \A j \in Nat : (j <= n /\ j <= H) => Meets(j)
  <2> HIDE DEF Meets
  <2> QED BY <1>7
<1> QED BY <1>8 DEF L, H, at, n

(* A proof that climbs to the root from a leaf hash has as many siblings as *)
(* the tree has layers above its leaves: a leaf hash is no inner node.      *)
LEMMA ProofHasFullHeight ==
    ASSUME NEW C, NEW roll \in Seq(C), Len(roll) > 0,
           NEW c, NEW proof, Len(proof) \in Nat, NEW i \in Nat,
           ComputedRoot(VoterHash(c), proof, i) =
              LayersOver(Leaves(roll))[TreeHeight(Leaves(roll))][1]
    PROVE  Len(proof) = TreeHeight(Leaves(roll))
<1> DEFINE leaves == Leaves(roll)
           N == {<<x>> : x \in C}
           L == LayersOver(leaves)
           H == TreeHeight(leaves)
           at == Climb(VoterHash(c), proof, i)
           n == Len(proof)
<1>1. /\ leaves \in Seq(N) /\ Len(leaves) = Len(roll)
      /\ \A k \in 1..Len(roll) : leaves[k] = <<roll[k]>>
  BY DEF Leaves, VoterHash
<1> HIDE DEF leaves, N
<1>2. H \in Nat /\ n \in Nat /\ L[0] = leaves
  BY <1>1, TreeHeightFacts
<1>3. \A j \in Nat : (j <= n /\ j <= H) =>
         \E m \in 1..Len(L[H-j]) : at[n-j].computed = L[H-j][m]
  BY <1>1, ClimbMeetsTree DEF leaves
<1>4. ASSUME NEW h \in 1..H, NEW k \in 1..Len(L[h])
      PROVE  \E x, y : L[h][k] = <<x, y>>
  <2>1. StandsOver(L[h-1], L[h])
    BY <1>1, NodeFacts
  <2> HIDE DEF L
  <2>2. IsPairOf(L[h][k], L[h-1])
    BY <2>1, NodePair
  <2> QED BY <2>2, Zenon DEF IsPairOf
<1>5. at[0].computed = <<c>>
  <2>1. at[0].computed = VoterHash(c)
    BY ClimbStart
  <2> QED BY <2>1 DEF VoterHash
<1>6. ASSUME NEW k \in 1..n PROVE \E x, y : at[k].computed = <<x, y>>
  <2>1. at[k].computed = Paired(at[k-1].computed, proof[k], at[k-1].idx)
    BY ClimbNode
  <2> HIDE DEF at
  <2> QED BY <2>1 DEF Paired
<1>7. \A u, x, y : <<u>> # <<x, y>>
  OBVIOUS
<1> HIDE DEF L, H, at, n
<1>8. ASSUME n < H PROVE FALSE
  <2>1. n <= n /\ n <= H /\ H - n \in 1..H /\ n - n = 0
    BY <1>2, <1>8
  <2>2. PICK m \in 1..Len(L[H-n]) : at[0].computed = L[H-n][m]
    BY <1>2, <1>3, <2>1
  <2>3. PICK x, y : L[H-n][m] = <<x, y>>
    BY <1>4, <2>1
  <2> QED BY <1>5, <1>7, <2>2, <2>3, Zenon
<1>9. ASSUME H < n PROVE FALSE
  <2>1. H <= n /\ H <= H /\ n - H \in 1..n /\ H - H = 0
    BY <1>2, <1>9
  <2>2. PICK m \in 1..Len(leaves) : at[n-H].computed = leaves[m]
    BY <1>2, <1>3, <2>1
  <2>3. leaves[m] = <<roll[m]>>
    BY <1>1, <2>2
  <2>4. PICK x, y : at[n-H].computed = <<x, y>>
    BY <1>6, <2>1
  <2> QED BY <1>7, <2>2, <2>3, <2>4, Zenon
<1>10. n = H
  <2>1. \A x, y \in Nat : x < y \/ y < x \/ x = y
    OBVIOUS
  <2> QED BY <1>2, <1>8, <1>9, <2>1
<1> QED BY <1>10 DEF n, H, leaves

(* The climb's index stays within the layer it has reached.                 *)
LEMMA IndexInLayer ==
    ASSUME NEW N, NEW leaves \in Seq(N), Len(leaves) > 0,
           NEW leaf, NEW proof, Len(proof) \in Nat,
           Len(proof) = TreeHeight(leaves),
           NEW i \in 0..(Len(leaves) - 1)
    PROVE  \A k \in 0..TreeHeight(leaves) :
              Climb(leaf, proof, i)[k].idx < Len(LayersOver(leaves)[k])
<1> DEFINE L == LayersOver(leaves)
           H == TreeHeight(leaves)
           at == Climb(leaf, proof, i)
           S == {k \in Nat : k <= H => at[k].idx < Len(L[k])}
<1>1. H \in Nat /\ L[0] = leaves /\ i \in Nat
  BY TreeHeightFacts
<1>2. at[0].idx = i
  BY <1>1, ClimbStart
<1>3. /\ \A k \in 0..H : at[k].idx \in Nat
      /\ \A k \in 1..H : at[k].idx = at[k-1].idx \div 2
  <2>1. Len(proof) = H
    OBVIOUS
  <2>2. i \in Nat
    BY <1>1
  <2>3. /\ \A k \in 0..Len(proof) : at[k].idx \in Nat
        /\ \A k \in 1..Len(proof) : at[k].idx = at[k-1].idx \div 2
    BY <2>2, ClimbIndex, Zenon
  <2> QED BY <2>1, <2>3, Zenon
<1>4. ASSUME NEW h \in 1..H PROVE StandsOver(L[h-1], L[h])
  BY NodeFacts
<1> HIDE DEF L, H, at
<1>5. 0 \in S
  BY <1>1, <1>2
<1>6. ASSUME NEW k \in S PROVE k + 1 \in S
  <2>1. ASSUME k + 1 <= H PROVE at[k+1].idx < Len(L[k+1])
    <3>1. /\ k + 1 \in 1..H /\ (k + 1) - 1 = k /\ k \in 0..H
          /\ at[k].idx < Len(L[k])
      BY <1>1, <2>1
    <3>2. StandsOver(L[k], L[k+1])
      BY <1>4, <3>1
    <3>3. Len(L[k]) \in Nat /\ Len(L[k+1]) = (Len(L[k]) + 1) \div 2
      BY <3>2 DEF StandsOver
    <3>4. at[k].idx \in Nat /\ at[k+1].idx = at[k].idx \div 2
      BY <1>3, <3>1
    <3>5. \A a, b \in Nat : a < b => a \div 2 < (b + 1) \div 2
      OBVIOUS
    <3>6. at[k].idx \div 2 < (Len(L[k]) + 1) \div 2
      BY <3>1, <3>3, <3>4, <3>5, Zenon
    <3> QED BY <3>3, <3>4, <3>6, Zenon
  <2> QED BY <2>1
<1>7. S = Nat
  <2> HIDE DEF S
  <2>1. S \subseteq Nat
    BY DEF S
  <2> QED BY <1>5, <1>6, <2>1, SetInduction
<1>8. \A k \in 0..H : at[k].idx < Len(L[k])
  BY <1>1, <1>7
<1> QED BY <1>8 DEF L, H, at

(* A pair that equals a node of the tree puts the climbed node where its    *)
(* index says.                                                              *)
LEMMA PairedAtIndex ==
    ASSUME NEW low, NEW up, StandsOver(low, up), NEW q \in Nat, q < Len(low),
           NEW node, NEW sibling,
           Paired(node, sibling, q) = up[(q \div 2) + 1]
    PROVE  node = low[q + 1]
<1> DEFINE k == (q \div 2) + 1
<1>1. /\ Len(low) \in Nat /\ Len(up) = (Len(low) + 1) \div 2
      /\ Pad(low)[q + 1] = low[q + 1]
  BY DEF StandsOver
<1>2. k \in 1..Len(up)
  BY <1>1
<1>3. up[k] = <<Pad(low)[2*k - 1], Pad(low)[2*k]>>
  <2>1. PairsUp(low, up, k)
    BY <1>2 DEF StandsOver
  <2> QED BY <2>1 DEF PairsUp
<1>4. CASE q % 2 = 0
  <2>1. 2*k - 1 = q + 1
    BY <1>4
  <2>2. <<node, sibling>> = <<Pad(low)[q + 1], Pad(low)[2*k]>>
    BY <1>3, <1>4, <2>1 DEF Paired
  <2> QED BY <1>1, <2>2
<1>5. CASE q % 2 # 0
  <2>1. 2*k = q + 1
    BY <1>5
  <2>2. <<sibling, node>> = <<Pad(low)[2*k - 1], Pad(low)[q + 1]>>
    BY <1>3, <1>5, <2>1 DEF Paired
  <2> QED BY <1>1, <2>2
<1> QED BY <1>4, <1>5

(* Whatever proof is presented, a leaf hash that climbs to the root of a    *)
(* roll from a registered index is the hash of the credential registered at *)
(* that index (cast_vote steps 2 and 4, lib.rs).                            *)
THEOREM MerkleBinding ==
    ASSUME NEW C, NEW roll \in Seq(C), Len(roll) > 0,
           NEW c, NEW proof, Len(proof) \in Nat,
           NEW i \in 0..(Len(roll) - 1),
           VerifyMerkleProof(VoterHash(c), proof, i, RootOf(roll))
    PROVE  c = roll[i + 1]
<1> DEFINE leaves == Leaves(roll)
           N == {<<x>> : x \in C}
           L == LayersOver(leaves)
           H == TreeHeight(leaves)
           at == Climb(VoterHash(c), proof, i)
           Matches(k) == at[k].computed = L[k][at[k].idx + 1]
           S == {j \in Nat : j <= H => Matches(H - j)}
<1>1. /\ leaves \in Seq(N) /\ Len(leaves) = Len(roll)
      /\ \A k \in 1..Len(roll) : leaves[k] = <<roll[k]>>
  BY DEF Leaves, VoterHash
<1>2. Len(leaves) > 0 /\ i \in Nat /\ i \in 0..(Len(leaves) - 1)
  BY <1>1
<1> HIDE DEF leaves, N
<1>3. H \in Nat /\ L[0] = leaves /\ Len(L[H]) = 1
  BY <1>1, <1>2, TreeHeightFacts
<1>4. ComputedRoot(VoterHash(c), proof, i) = L[H][1]
  <2>1. ComputedRoot(VoterHash(c), proof, i) = MerkleRoot(BuildMerkleTree(leaves))
    BY DEF VerifyMerkleProof, RootOf, leaves
  <2>2. BuildMerkleTree(leaves) = [m \in 1..(H + 1) |-> L[m - 1]]
    BY DEF BuildMerkleTree
  <2> HIDE DEF L, H
  <2>3. Len(BuildMerkleTree(leaves)) = H + 1
    BY <1>3, <2>2
  <2>4. BuildMerkleTree(leaves)[H + 1] = L[H]
    BY <1>3, <2>2
  <2> QED BY <2>1, <2>3, <2>4 DEF MerkleRoot
<1>5. Len(proof) = H
  BY <1>2, <1>4, ProofHasFullHeight DEF leaves
<1>6. \A k \in 0..H : at[k].idx < Len(L[k])
  BY <1>1, <1>2, <1>5, IndexInLayer
<1>7. /\ \A k \in 0..H : at[k].idx \in Nat
      /\ \A k \in 1..H : at[k].idx = at[k-1].idx \div 2
  <2>1. /\ \A k \in 0..Len(proof) : at[k].idx \in Nat
        /\ \A k \in 1..Len(proof) : at[k].idx = at[k-1].idx \div 2
    BY <1>2, ClimbIndex
  <2> QED BY <1>5, <2>1, Zenon
<1>8. ASSUME NEW k \in 1..H
      PROVE  at[k].computed = Paired(at[k-1].computed, proof[k], at[k-1].idx)
  BY <1>2, <1>5, ClimbNode
<1>9. ASSUME NEW h \in 1..H PROVE StandsOver(L[h-1], L[h])
  BY <1>1, <1>2, NodeFacts
<1>10. at[H].computed = L[H][1]
  BY <1>4, <1>5 DEF ComputedRoot
<1>11. at[0].computed = VoterHash(c) /\ at[0].idx = i
  BY <1>2, ClimbStart
<1> HIDE DEF L, H, at
<1>12. 0 \in S
  <2>1. at[H].idx \in Nat /\ at[H].idx < 1
    <3>1. H \in 0..H
      BY <1>3
    <3>2. at[H].idx \in Nat /\ at[H].idx < Len(L[H])
      BY <1>6, <1>7, <3>1, Zenon
    <3> QED BY <1>3, <3>2, Zenon
  <2>2. at[H].idx + 1 = 1 /\ H - 0 = H
    BY <1>3, <2>1
  <2> QED BY <1>10, <2>2
<1>13. ASSUME NEW j \in S PROVE j + 1 \in S
  <2>1. ASSUME j + 1 <= H PROVE Matches(H - (j + 1))
    <3> DEFINE k == H - j
    <3>1. k \in 1..H /\ k - 1 \in 0..H /\ k - 1 = H - (j + 1) /\ k \in Nat
      BY <1>3, <2>1
    <3>2. Matches(k)
      BY <2>1, <1>3
    <3>3. StandsOver(L[k-1], L[k])
      BY <1>9, <3>1, Zenon
    <3>4. /\ at[k-1].idx \in Nat /\ at[k-1].idx < Len(L[k-1])
          /\ at[k].idx = at[k-1].idx \div 2
      BY <1>6, <1>7, <3>1
    <3>5. at[k].computed = Paired(at[k-1].computed, proof[k], at[k-1].idx)
      BY <1>8, <3>1, Zenon
    <3> HIDE DEF k
    <3>6. Paired(at[k-1].computed, proof[k], at[k-1].idx)
             = L[k][(at[k-1].idx \div 2) + 1]
      BY <3>2, <3>4, <3>5
    <3>7. at[k-1].computed = L[k-1][at[k-1].idx + 1]
      <4> DEFINE q == at[k-1].idx
                 low == L[k-1]
                 up == L[k]
                 node == at[k-1].computed
      <4>1. /\ StandsOver(low, up) /\ q \in Nat /\ q < Len(low)
            /\ Paired(node, proof[k], q) = up[(q \div 2) + 1]
        BY <3>3, <3>4, <3>6
      <4> HIDE DEF q, low, up, node
      <4>2. node = low[q + 1]
        BY <4>1, PairedAtIndex
      <4> QED BY <4>2 DEF q, low, up, node
    <3> QED BY <3>1, <3>7
  <2> QED BY <2>1
<1>14. S = Nat
  <2> HIDE DEF S
  <2>1. S \subseteq Nat
    BY DEF S
  <2> QED BY <1>12, <1>13, <2>1, SetInduction
<1>15. Matches(0)
  <2>1. H \in S
    <3> HIDE DEF S
    <3> QED BY <1>3, <1>14
  <2>2. H <= H /\ H - H = 0
    BY <1>3
  <2> QED BY <2>1, <2>2
<1>16. <<c>> = leaves[i + 1]
  BY <1>3, <1>11, <1>15 DEF VoterHash
<1>17. leaves[i + 1] = <<roll[i + 1]>>
  BY <1>1
<1> QED BY <1>16, <1>17

(* A proof has one sibling per layer above the leaves, each next to the     *)
(* node the climb is at.                                                    *)
LEMMA ProofFacts ==
    ASSUME NEW C, NEW roll \in Seq(C), Len(roll) > 0, NEW j
    PROVE  LET leaves == Leaves(roll)
               proof == GetMerkleProof(BuildMerkleTree(leaves), j)
           IN  /\ TreeHeight(leaves) \in Nat
               /\ Len(BuildMerkleTree(leaves)) = TreeHeight(leaves) + 1
               /\ RootOf(roll) = LayersOver(leaves)[TreeHeight(leaves)][1]
               /\ Len(proof) = TreeHeight(leaves)
               /\ \A n \in 1..TreeHeight(leaves) :
                     proof[n] = Pad(LayersOver(leaves)[n-1])
                                   [Sibling(Path(j, TreeHeight(leaves))[n-1]) + 1]
<1> DEFINE N == {<<x>> : x \in C}
           H == TreeHeight(Leaves(roll))
           L == LayersOver(Leaves(roll))
           layers == BuildMerkleTree(Leaves(roll))
           e(n) == Pad(layers[n])[Sibling(Path(j, H)[n-1]) + 1]
<1>1. Leaves(roll) \in Seq(N) /\ Len(Leaves(roll)) > 0
  BY DEF Leaves, VoterHash
<1>2. H \in Nat
  BY <1>1, TreeHeightFacts
<1>3. layers = [m \in 1..(H + 1) |-> L[m - 1]]
  BY DEF BuildMerkleTree
<1>4. RootOf(roll) = MerkleRoot(layers)
  BY DEF RootOf
<1> HIDE DEF H, layers, L
<1>5. Len(layers) = H + 1 /\ Len(layers) - 1 = H
  BY <1>2, <1>3
<1>6. MerkleRoot(layers) = L[H][1]
  BY <1>2, <1>3, <1>5 DEF MerkleRoot
<1>7. GetMerkleProof(layers, j) = [n \in 1..H |-> e(n)]
  BY <1>5 DEF GetMerkleProof
<1>8. \A n \in 1..H : e(n) = Pad(L[n-1])[Sibling(Path(j, H)[n-1]) + 1]
  BY <1>2, <1>3
<1> HIDE DEF e
<1>9. /\ Len(GetMerkleProof(layers, j)) = H
      /\ \A n \in 1..H : GetMerkleProof(layers, j)[n] = e(n)
  BY <1>2, <1>7
<1> QED BY <1>2, <1>4, <1>5, <1>6, <1>8, <1>9 DEF layers, H, L

LEMMA ProofLength ==
    ASSUME NEW C, NEW roll \in Seq(C), Len(roll) > 0, NEW j
    PROVE  Len(GetMerkleProof(BuildMerkleTree(Leaves(roll)), j)) \in Nat
BY ProofFacts

(* A node and its sibling make the node above.                              *)
LEMMA SiblingsMakeNode ==
    ASSUME NEW low, NEW up, StandsOver(low, up), NEW q \in Nat, q < Len(low)
    PROVE  Paired(low[q + 1], Pad(low)[Sibling(q) + 1], q) = up[(q \div 2) + 1]
<1> DEFINE k == (q \div 2) + 1
<1>1. /\ Len(low) \in Nat /\ Len(up) = (Len(low) + 1) \div 2
      /\ Pad(low)[q + 1] = low[q + 1]
  BY DEF StandsOver
<1>2. k \in 1..Len(up)
  BY <1>1
<1>3. up[k] = <<Pad(low)[2*k - 1], Pad(low)[2*k]>>
  <2>1. PairsUp(low, up, k)
    BY <1>2 DEF StandsOver
  <2> QED BY <2>1 DEF PairsUp
<1>4. CASE q % 2 = 0
  <2>1. 2*k - 1 = q + 1 /\ 2*k = Sibling(q) + 1
    BY <1>4 DEF Sibling
  <2> QED BY <1>1, <1>3, <1>4, <2>1 DEF Paired
<1>5. CASE q % 2 # 0
  <2>1. 2*k = q + 1 /\ 2*k - 1 = Sibling(q) + 1
    BY <1>5 DEF Sibling
  <2> QED BY <1>1, <1>3, <1>5, <2>1 DEF Paired
<1> QED BY <1>4, <1>5

(* The proof that get_merkle_proof cuts for a registered credential         *)
(* verifies against the root of its roll, at its index (cast_vote step 4,   *)
(* lib.rs): nobody on the roll is turned away.                              *)
THEOREM HonestProofVerifies ==
    ASSUME NEW C, NEW roll \in Seq(C), Len(roll) > 0,
           NEW i \in 0..(Len(roll) - 1)
    PROVE  VerifyMerkleProof(VoterHash(roll[i + 1]),
               GetMerkleProof(BuildMerkleTree(Leaves(roll)), i), i, RootOf(roll))
<1> DEFINE leaves == Leaves(roll)
           N == {<<x>> : x \in C}
           L == LayersOver(leaves)
           H == TreeHeight(leaves)
           proof == GetMerkleProof(BuildMerkleTree(leaves), i)
           idx == Path(i, H)
           at == Climb(VoterHash(roll[i + 1]), proof, i)
           Climbs(k) == /\ at[k].idx = idx[k]
                        /\ at[k].computed = L[k][at[k].idx + 1]
           S == {k \in Nat : k <= H => Climbs(k)}
<1>1. /\ leaves \in Seq(N) /\ Len(leaves) = Len(roll)
      /\ \A k \in 1..Len(roll) : leaves[k] = VoterHash(roll[k])
  BY DEF Leaves, VoterHash
<1>2. Len(leaves) > 0 /\ i \in Nat /\ i \in 0..(Len(leaves) - 1)
  BY <1>1
<1>3. /\ Len(proof) = H /\ RootOf(roll) = L[H][1]
      /\ \A n \in 1..H : proof[n] = Pad(L[n-1])[Sibling(idx[n-1]) + 1]
  BY ProofFacts
<1> HIDE DEF leaves, N, proof
<1>4. H \in Nat /\ L[0] = leaves /\ Len(L[H]) = 1
  BY <1>1, <1>2, TreeHeightFacts
<1>5. \A k \in 0..H : at[k].idx < Len(L[k])
  BY <1>1, <1>2, <1>3, <1>4, IndexInLayer
<1>6. /\ \A k \in 0..H : at[k].idx \in Nat
      /\ \A k \in 1..H : at[k].idx = at[k-1].idx \div 2
  <2>1. /\ \A k \in 0..Len(proof) : at[k].idx \in Nat
        /\ \A k \in 1..Len(proof) : at[k].idx = at[k-1].idx \div 2
    <3>1. Len(proof) \in Nat /\ i \in Nat
      BY <1>2, <1>3, <1>4
    <3> QED BY <3>1, ClimbIndex, Zenon
  <2> QED BY <1>3, <2>1, Zenon
<1>7. ASSUME NEW k \in 1..H
      PROVE  at[k].computed = Paired(at[k-1].computed, proof[k], at[k-1].idx)
  BY <1>2, <1>3, <1>4, ClimbNode
<1>8. ASSUME NEW h \in 1..H PROVE StandsOver(L[h-1], L[h])
  BY <1>1, <1>2, NodeFacts
<1>9. at[0].computed = VoterHash(roll[i + 1]) /\ at[0].idx = i
  BY <1>2, <1>3, <1>4, ClimbStart
<1>10. idx = [k \in 0..H |-> IF k = 0 THEN i ELSE idx[k-1] \div 2]
  BY <1>4, PathDef
<1>11. ComputedRoot(VoterHash(roll[i + 1]), proof, i) = at[H].computed
  BY <1>3 DEF ComputedRoot
<1> HIDE DEF L, H, at, idx
<1>12. 0 \in S
  BY <1>1, <1>2, <1>4, <1>9, <1>10
<1>13. ASSUME NEW k \in S PROVE k + 1 \in S
  <2>1. ASSUME k + 1 <= H PROVE Climbs(k + 1)
    <3>1. k + 1 \in 1..H /\ (k + 1) - 1 = k /\ k \in 0..H /\ k + 1 \in 0..H
      BY <1>4, <2>1
    <3>2. PICK q \in Nat : q = at[k].idx /\ q < Len(L[k])
      BY <1>5, <1>6, <3>1
    <3>3. idx[k] = q /\ at[k].computed = L[k][q + 1]
      BY <2>1, <3>1, <3>2
    <3>4. at[k+1].idx = q \div 2 /\ idx[k+1] = q \div 2
      BY <1>6, <1>10, <3>1, <3>2, <3>3
    <3>5. at[k+1].computed = Paired(L[k][q + 1], Pad(L[k])[Sibling(q) + 1], q)
      BY <1>3, <1>7, <3>1, <3>2, <3>3
    <3>6. StandsOver(L[k], L[k+1])
      BY <1>8, <3>1
    <3>7. at[k+1].computed = L[k+1][(q \div 2) + 1]
      BY <3>2, <3>5, <3>6, SiblingsMakeNode
    <3> QED BY <3>4, <3>7
  <2> QED BY <2>1
<1>14. S = Nat
  <2> HIDE DEF S
  <2>1. S \subseteq Nat
    BY DEF S
  <2> QED BY <1>12, <1>13, <2>1, SetInduction
<1>15. at[H].computed = L[H][at[H].idx + 1]
  <2>1. H \in S
    <3> HIDE DEF S
    <3> QED BY <1>4, <1>14
  <2> QED BY <1>4, <2>1
<1>16. at[H].idx = 0
  <2>1. H \in 0..H
    BY <1>4
  <2>2. at[H].idx \in Nat /\ at[H].idx < Len(L[H])
    BY <1>5, <1>6, <2>1, Zenon
  <2>3. at[H].idx \in Nat /\ at[H].idx < 1
    BY <1>4, <2>2, Zenon
  <2> QED BY <2>3
<1> QED BY <1>3, <1>11, <1>15, <1>16 DEF VerifyMerkleProof, proof, leaves
===============================================================================
