----------------------------- MODULE NoteProofs -----------------------------
(***************************************************************************)
(* Theorems about the tree of commitments, for every height and every      *)
(* sequence of leaves; and about the depositors and scripts that use it,   *)
(* for every number of them, every size of the fetch and of the history of *)
(* roots.                                                                  *)
(*                                                                         *)
(* The first part unfolds the functions of module MerkleTree, shows which  *)
(* nodes a new leaf changes and that a root determines the leaves below    *)
(* it.  The second builds AllInv, an invariant of module NoteScripts, on   *)
(* top of it: a proof is over leaves of the tree, its owner's among them,  *)
(* and once its root is out of the pool's history it stays out.            *)
(***************************************************************************)
EXTENDS NoteScripts, FiniteSetTheorems, NaturalsInduction, TLAPS

-----------------------------------------------------------------------------
(* Induction over the levels *)

LEMMA IntervalInduction ==
  ASSUME NEW n \in Nat, NEW T,
         0 \in T,
         \A i \in 0..n : i # 0 /\ i - 1 \in T => i \in T
  PROVE  0..n \subseteq T
<1> DEFINE Bad == {i \in 0..n : i \notin T}
<1> SUFFICES ASSUME Bad # {} PROVE FALSE
  OBVIOUS
<1>1. Bad \subseteq Nat
  OBVIOUS
<1>2. PICK m \in Bad : \A k \in Bad : ~(<<k, m>> \in OpToRel(<, Nat))
  <2> HIDE DEF Bad
  <2> QED BY <1>1, NatLessThanWellFounded, WFMin
<1>3. m \in 0..n /\ m # 0 /\ m - 1 \notin T
  OBVIOUS
<1>4. m - 1 \in Bad /\ m - 1 \in Nat /\ m \in Nat /\ m - 1 < m
  BY <1>3
<1>5. <<m - 1, m>> \in OpToRel(<, Nat)
  BY <1>4 DEF OpToRel
<1> QED BY <1>2, <1>4, <1>5

\* Powers of two.
LEMMA PowerOf2Is ==
  /\ PowerOf2[0] = 1
  /\ \A level \in 1..HEIGHT :
       PowerOf2[level] = 2 * PowerOf2[level - 1]
<1> DEFINE Up(level, below) == 2 * below
           Fits(g, k) == g[0] = 1 /\ \A i \in 1..k : g[i] = Up(i, g[i - 1])
           T == {k \in 0..HEIGHT : \E g : Fits(g, k)}
           Step(p) == [level \in 0..HEIGHT |->
                         IF level = 0 THEN 1 ELSE Up(level, p[level - 1])]
<1>0. HEIGHT \in Nat
  BY TreeAssumption
<1>1. 0 \in T
  <2> DEFINE z == [i \in 0..0 |-> 1]
  <2>1. Fits(z, 0)
    OBVIOUS
  <2> HIDE DEF z, Fits
  <2> QED BY <1>0, <2>1
<1>2. ASSUME NEW k \in 0..HEIGHT, k # 0, k - 1 \in T PROVE k \in T
  <2>1. PICK g : Fits(g, k - 1)
    BY <1>2
  <2> DEFINE h == [i \in 0..k |-> IF i = k THEN Up(k, g[k - 1]) ELSE g[i]]
  <2>2. h[0] = 1
    BY <1>0, <1>2, <2>1
  <2>3. ASSUME NEW i \in 1..k PROVE h[i] = Up(i, h[i - 1])
    <3> HIDE DEF Up
    <3>1. h[i - 1] = g[i - 1]
      BY <1>0
    <3>2. CASE i = k
      BY <1>0, <3>1, <3>2
    <3>3. CASE i # k
      <4>1. i \in 1..(k - 1)
        BY <1>0, <3>3
      <4>2. h[i] = g[i]
        BY <1>0, <3>3
      <4> QED BY <2>1, <3>1, <4>1, <4>2
    <3> QED BY <3>2, <3>3
  <2> HIDE DEF h, Up
  <2> QED BY <2>2, <2>3
<1>3. PICK g : Fits(g, HEIGHT)
  <2> HIDE DEF T
  <2>1. 0..HEIGHT \subseteq T
    BY <1>0, <1>1, <1>2, IntervalInduction
  <2>2. HEIGHT \in T
    BY <1>0, <2>1
  <2> QED BY <2>2 DEF T
<1> DEFINE f == [level \in 0..HEIGHT |-> g[level]]
<1>4. f = Step(f)
  <2> HIDE DEF Up
  <2>1. ASSUME NEW i \in 0..HEIGHT PROVE f[i] = Step(f)[i]
    <3>1. CASE i = 0
      BY <1>3, <3>1
    <3>2. CASE i # 0
      <4>1. i \in 1..HEIGHT /\ i - 1 \in 0..HEIGHT
        BY <1>0, <3>2
      <4> QED BY <1>3, <3>2, <4>1
    <3> QED BY <3>1, <3>2
  <2> QED BY <2>1
<1>5. PowerOf2 = CHOOSE p : p = Step(p)
  BY DEF PowerOf2
<1> DEFINE q == PowerOf2
<1>6. q = Step(q)
  <2> HIDE DEF Step, f
  <2> QED BY <1>4, <1>5
<1> HIDE DEF q, Up
<1>7. q[0] = 1
  BY <1>0, <1>6
<1>8. ASSUME NEW level \in 1..HEIGHT PROVE q[level] = Up(level, q[level - 1])
  BY <1>0, <1>6
<1> QED BY <1>7, <1>8 DEF q, Up

\* The index is halved from level to level.
LEMMA AboveIs ==
  ASSUME NEW n
  PROVE  /\ Above(n)[0] = n
         /\ \A level \in 1..HEIGHT :
              Above(n)[level] = Above(n)[level - 1] \div 2
<1> DEFINE Up(level, below) == below \div 2
           Fits(g, k) == g[0] = n /\ \A i \in 1..k : g[i] = Up(i, g[i - 1])
           T == {k \in 0..HEIGHT : \E g : Fits(g, k)}
           Step(p) == [level \in 0..HEIGHT |->
                         IF level = 0 THEN n ELSE Up(level, p[level - 1])]
<1>0. HEIGHT \in Nat
  BY TreeAssumption
<1>1. 0 \in T
  <2> DEFINE z == [i \in 0..0 |-> n]
  <2>1. Fits(z, 0)
    OBVIOUS
  <2> HIDE DEF z, Fits
  <2> QED BY <1>0, <2>1
<1>2. ASSUME NEW k \in 0..HEIGHT, k # 0, k - 1 \in T PROVE k \in T
  <2>1. PICK g : Fits(g, k - 1)
    BY <1>2
  <2> DEFINE h == [i \in 0..k |-> IF i = k THEN Up(k, g[k - 1]) ELSE g[i]]
  <2>2. h[0] = n
    BY <1>0, <1>2, <2>1
  <2>3. ASSUME NEW i \in 1..k PROVE h[i] = Up(i, h[i - 1])
    <3> HIDE DEF Up
    <3>1. h[i - 1] = g[i - 1]
      BY <1>0
    <3>2. CASE i = k
      BY <1>0, <3>1, <3>2
    <3>3. CASE i # k
      <4>1. i \in 1..(k - 1)
        BY <1>0, <3>3
      <4>2. h[i] = g[i]
        BY <1>0, <3>3
      <4> QED BY <2>1, <3>1, <4>1, <4>2
    <3> QED BY <3>2, <3>3
  <2> HIDE DEF h, Up
  <2> QED BY <2>2, <2>3
<1>3. PICK g : Fits(g, HEIGHT)
  <2> HIDE DEF T
  <2>1. 0..HEIGHT \subseteq T
    BY <1>0, <1>1, <1>2, IntervalInduction
  <2>2. HEIGHT \in T
    BY <1>0, <2>1
  <2> QED BY <2>2 DEF T
<1> DEFINE f == [level \in 0..HEIGHT |-> g[level]]
<1>4. f = Step(f)
  <2> HIDE DEF Up
  <2>1. ASSUME NEW i \in 0..HEIGHT PROVE f[i] = Step(f)[i]
    <3>1. CASE i = 0
      BY <1>3, <3>1
    <3>2. CASE i # 0
      <4>1. i \in 1..HEIGHT /\ i - 1 \in 0..HEIGHT
        BY <1>0, <3>2
      <4> QED BY <1>3, <3>2, <4>1
    <3> QED BY <3>1, <3>2
  <2> QED BY <2>1
<1>5. Above(n) = CHOOSE p : p = Step(p)
  BY DEF Above
<1> DEFINE q == Above(n)
<1>6. q = Step(q)
  <2> HIDE DEF Step, f
  <2> QED BY <1>4, <1>5
<1> HIDE DEF q, Up
<1>7. q[0] = n
  BY <1>0, <1>6
<1>8. ASSUME NEW level \in 1..HEIGHT PROVE q[level] = Up(level, q[level - 1])
  BY <1>0, <1>6
<1> QED BY <1>7, <1>8 DEF q, Up

\* The hashes of empty subtrees.
LEMMA ZeroHashIs ==
  /\ ZeroHash[0] = EmptyLeaf
  /\ \A level \in 1..HEIGHT :
       ZeroHash[level] = HashPair(ZeroHash[level - 1], ZeroHash[level - 1])
<1> DEFINE Up(level, below) == HashPair(below, below)
           Fits(g, k) == g[0] = EmptyLeaf /\ \A i \in 1..k : g[i] = Up(i, g[i - 1])
           T == {k \in 0..HEIGHT : \E g : Fits(g, k)}
           Step(p) == [level \in 0..HEIGHT |->
                         IF level = 0 THEN EmptyLeaf ELSE Up(level, p[level - 1])]
<1>0. HEIGHT \in Nat
  BY TreeAssumption
<1>1. 0 \in T
  <2> DEFINE z == [i \in 0..0 |-> EmptyLeaf]
  <2>1. Fits(z, 0)
    OBVIOUS
  <2> HIDE DEF z, Fits
  <2> QED BY <1>0, <2>1
<1>2. ASSUME NEW k \in 0..HEIGHT, k # 0, k - 1 \in T PROVE k \in T
  <2>1. PICK g : Fits(g, k - 1)
    BY <1>2
  <2> DEFINE h == [i \in 0..k |-> IF i = k THEN Up(k, g[k - 1]) ELSE g[i]]
  <2>2. h[0] = EmptyLeaf
    BY <1>0, <1>2, <2>1
  <2>3. ASSUME NEW i \in 1..k PROVE h[i] = Up(i, h[i - 1])
    <3> HIDE DEF Up
    <3>1. h[i - 1] = g[i - 1]
      BY <1>0
    <3>2. CASE i = k
      BY <1>0, <3>1, <3>2
    <3>3. CASE i # k
      <4>1. i \in 1..(k - 1)
        BY <1>0, <3>3
      <4>2. h[i] = g[i]
        BY <1>0, <3>3
      <4> QED BY <2>1, <3>1, <4>1, <4>2
    <3> QED BY <3>2, <3>3
  <2> HIDE DEF h, Up
  <2> QED BY <2>2, <2>3
<1>3. PICK g : Fits(g, HEIGHT)
  <2> HIDE DEF T
  <2>1. 0..HEIGHT \subseteq T
    BY <1>0, <1>1, <1>2, IntervalInduction
  <2>2. HEIGHT \in T
    BY <1>0, <2>1
  <2> QED BY <2>2 DEF T
<1> DEFINE f == [level \in 0..HEIGHT |-> g[level]]
<1>4. f = Step(f)
  <2> HIDE DEF Up
  <2>1. ASSUME NEW i \in 0..HEIGHT PROVE f[i] = Step(f)[i]
    <3>1. CASE i = 0
      BY <1>3, <3>1
    <3>2. CASE i # 0
      <4>1. i \in 1..HEIGHT /\ i - 1 \in 0..HEIGHT
        BY <1>0, <3>2
      <4> QED BY <1>3, <3>2, <4>1
    <3> QED BY <3>1, <3>2
  <2> QED BY <2>1
<1>5. ZeroHash = CHOOSE p : p = Step(p)
  BY DEF ZeroHash
<1> DEFINE q == ZeroHash
<1>6. q = Step(q)
  <2> HIDE DEF Step, f
  <2> QED BY <1>4, <1>5
<1> HIDE DEF q, Up
<1>7. q[0] = EmptyLeaf
  BY <1>0, <1>6
<1>8. ASSUME NEW level \in 1..HEIGHT PROVE q[level] = Up(level, q[level - 1])
  BY <1>0, <1>6
<1> QED BY <1>7, <1>8 DEF q, Up

\* The program's climb.
LEMMA ClimbIs ==
  ASSUME NEW leaf, NEW index, NEW filled
  PROVE  /\ Climb(leaf, index, filled)[0] = leaf
         /\ \A level \in 1..HEIGHT :
              Climb(leaf, index, filled)[level] = IF Bit(index, level - 1) = 0
                              THEN HashPair(Climb(leaf, index, filled)[level - 1], ZeroHash[level - 1])
                              ELSE HashPair(filled[level - 1], Climb(leaf, index, filled)[level - 1])
<1> DEFINE Up(level, below) == IF Bit(index, level - 1) = 0
                              THEN HashPair(below, ZeroHash[level - 1])
                              ELSE HashPair(filled[level - 1], below)
           Fits(g, k) == g[0] = leaf /\ \A i \in 1..k : g[i] = Up(i, g[i - 1])
           T == {k \in 0..HEIGHT : \E g : Fits(g, k)}
           Step(p) == [level \in 0..HEIGHT |->
                         IF level = 0 THEN leaf ELSE Up(level, p[level - 1])]
<1>0. HEIGHT \in Nat
  BY TreeAssumption
<1>1. 0 \in T
  <2> DEFINE z == [i \in 0..0 |-> leaf]
  <2>1. Fits(z, 0)
    OBVIOUS
  <2> HIDE DEF z, Fits
  <2> QED BY <1>0, <2>1
<1>2. ASSUME NEW k \in 0..HEIGHT, k # 0, k - 1 \in T PROVE k \in T
  <2>1. PICK g : Fits(g, k - 1)
    BY <1>2
  <2> DEFINE h == [i \in 0..k |-> IF i = k THEN Up(k, g[k - 1]) ELSE g[i]]
  <2>2. h[0] = leaf
    BY <1>0, <1>2, <2>1
  <2>3. ASSUME NEW i \in 1..k PROVE h[i] = Up(i, h[i - 1])
    <3> HIDE DEF Up
    <3>1. h[i - 1] = g[i - 1]
      BY <1>0
    <3>2. CASE i = k
      BY <1>0, <3>1, <3>2
    <3>3. CASE i # k
      <4>1. i \in 1..(k - 1)
        BY <1>0, <3>3
      <4>2. h[i] = g[i]
        BY <1>0, <3>3
      <4> QED BY <2>1, <3>1, <4>1, <4>2
    <3> QED BY <3>2, <3>3
  <2> HIDE DEF h, Up
  <2> QED BY <2>2, <2>3
<1>3. PICK g : Fits(g, HEIGHT)
  <2> HIDE DEF T
  <2>1. 0..HEIGHT \subseteq T
    BY <1>0, <1>1, <1>2, IntervalInduction
  <2>2. HEIGHT \in T
    BY <1>0, <2>1
  <2> QED BY <2>2 DEF T
<1> DEFINE f == [level \in 0..HEIGHT |-> g[level]]
<1>4. f = Step(f)
  <2> HIDE DEF Up
  <2>1. ASSUME NEW i \in 0..HEIGHT PROVE f[i] = Step(f)[i]
    <3>1. CASE i = 0
      BY <1>3, <3>1
    <3>2. CASE i # 0
      <4>1. i \in 1..HEIGHT /\ i - 1 \in 0..HEIGHT
        BY <1>0, <3>2
      <4> QED BY <1>3, <3>2, <4>1
    <3> QED BY <3>1, <3>2
  <2> QED BY <2>1
<1>5. Climb(leaf, index, filled) = CHOOSE p : p = Step(p)
  BY DEF Climb
<1> DEFINE q == Climb(leaf, index, filled)
<1>6. q = Step(q)
  <2> HIDE DEF Step, f
  <2> QED BY <1>4, <1>5
<1> HIDE DEF q, Up
<1>7. q[0] = leaf
  BY <1>0, <1>6
<1>8. ASSUME NEW level \in 1..HEIGHT PROVE q[level] = Up(level, q[level - 1])
  BY <1>0, <1>6
<1> QED BY <1>7, <1>8 DEF q, Up

\* The client's nodes.
LEMMA NodesIs ==
  ASSUME NEW list
  PROVE  /\ Nodes(list)[0] = Padded(list)
         /\ \A level \in 1..HEIGHT :
              Nodes(list)[level] = Parents(level, Nodes(list)[level - 1])
<1> DEFINE Up(level, below) == Parents(level, below)
           Fits(g, k) == g[0] = Padded(list) /\ \A i \in 1..k : g[i] = Up(i, g[i - 1])
           T == {k \in 0..HEIGHT : \E g : Fits(g, k)}
           Step(p) == [level \in 0..HEIGHT |->
                         IF level = 0 THEN Padded(list) ELSE Up(level, p[level - 1])]
<1>0. HEIGHT \in Nat
  BY TreeAssumption
<1>1. 0 \in T
  <2> DEFINE z == [i \in 0..0 |-> Padded(list)]
  <2>1. Fits(z, 0)
    OBVIOUS
  <2> HIDE DEF z, Fits
  <2> QED BY <1>0, <2>1
<1>2. ASSUME NEW k \in 0..HEIGHT, k # 0, k - 1 \in T PROVE k \in T
  <2>1. PICK g : Fits(g, k - 1)
    BY <1>2
  <2> DEFINE h == [i \in 0..k |-> IF i = k THEN Up(k, g[k - 1]) ELSE g[i]]
  <2>2. h[0] = Padded(list)
    BY <1>0, <1>2, <2>1
  <2>3. ASSUME NEW i \in 1..k PROVE h[i] = Up(i, h[i - 1])
    <3> HIDE DEF Up
    <3>1. h[i - 1] = g[i - 1]
      BY <1>0
    <3>2. CASE i = k
      BY <1>0, <3>1, <3>2
    <3>3. CASE i # k
      <4>1. i \in 1..(k - 1)
        BY <1>0, <3>3
      <4>2. h[i] = g[i]
        BY <1>0, <3>3
      <4> QED BY <2>1, <3>1, <4>1, <4>2
    <3> QED BY <3>2, <3>3
  <2> HIDE DEF h, Up
  <2> QED BY <2>2, <2>3
<1>3. PICK g : Fits(g, HEIGHT)
  <2> HIDE DEF T
  <2>1. 0..HEIGHT \subseteq T
    BY <1>0, <1>1, <1>2, IntervalInduction
  <2>2. HEIGHT \in T
    BY <1>0, <2>1
  <2> QED BY <2>2 DEF T
<1> DEFINE f == [level \in 0..HEIGHT |-> g[level]]
<1>4. f = Step(f)
  <2> HIDE DEF Up
  <2>1. ASSUME NEW i \in 0..HEIGHT PROVE f[i] = Step(f)[i]
    <3>1. CASE i = 0
      BY <1>3, <3>1
    <3>2. CASE i # 0
      <4>1. i \in 1..HEIGHT /\ i - 1 \in 0..HEIGHT
        BY <1>0, <3>2
      <4> QED BY <1>3, <3>2, <4>1
    <3> QED BY <3>1, <3>2
  <2> QED BY <2>1
<1>5. Nodes(list) = CHOOSE p : p = Step(p)
  BY DEF Nodes
<1> DEFINE q == Nodes(list)
<1>6. q = Step(q)
  <2> HIDE DEF Step, f
  <2> QED BY <1>4, <1>5
<1> HIDE DEF q, Up
<1>7. q[0] = Padded(list)
  BY <1>0, <1>6
<1>8. ASSUME NEW level \in 1..HEIGHT PROVE q[level] = Up(level, q[level - 1])
  BY <1>0, <1>6
<1> QED BY <1>7, <1>8 DEF q, Up

\* The circuit's climb.
LEMMA LevelHashesIs ==
  ASSUME NEW leaf, NEW proof
  PROVE  /\ LevelHashes(leaf, proof)[0] = leaf
         /\ \A level \in 1..HEIGHT :
              LevelHashes(leaf, proof)[level] = IF proof.pathIndices[level - 1] = 0
                              THEN HashPair(LevelHashes(leaf, proof)[level - 1], proof.pathElements[level - 1])
                              ELSE HashPair(proof.pathElements[level - 1], LevelHashes(leaf, proof)[level - 1])
<1> DEFINE Up(level, below) == IF proof.pathIndices[level - 1] = 0
                              THEN HashPair(below, proof.pathElements[level - 1])
                              ELSE HashPair(proof.pathElements[level - 1], below)
           Fits(g, k) == g[0] = leaf /\ \A i \in 1..k : g[i] = Up(i, g[i - 1])
           T == {k \in 0..HEIGHT : \E g : Fits(g, k)}
           Step(p) == [level \in 0..HEIGHT |->
                         IF level = 0 THEN leaf ELSE Up(level, p[level - 1])]
<1>0. HEIGHT \in Nat
  BY TreeAssumption
<1>1. 0 \in T
  <2> DEFINE z == [i \in 0..0 |-> leaf]
  <2>1. Fits(z, 0)
    OBVIOUS
  <2> HIDE DEF z, Fits
  <2> QED BY <1>0, <2>1
<1>2. ASSUME NEW k \in 0..HEIGHT, k # 0, k - 1 \in T PROVE k \in T
  <2>1. PICK g : Fits(g, k - 1)
    BY <1>2
  <2> DEFINE h == [i \in 0..k |-> IF i = k THEN Up(k, g[k - 1]) ELSE g[i]]
  <2>2. h[0] = leaf
    BY <1>0, <1>2, <2>1
  <2>3. ASSUME NEW i \in 1..k PROVE h[i] = Up(i, h[i - 1])
    <3> HIDE DEF Up
    <3>1. h[i - 1] = g[i - 1]
      BY <1>0
    <3>2. CASE i = k
      BY <1>0, <3>1, <3>2
    <3>3. CASE i # k
      <4>1. i \in 1..(k - 1)
        BY <1>0, <3>3
      <4>2. h[i] = g[i]
        BY <1>0, <3>3
      <4> QED BY <2>1, <3>1, <4>1, <4>2
    <3> QED BY <3>2, <3>3
  <2> HIDE DEF h, Up
  <2> QED BY <2>2, <2>3
<1>3. PICK g : Fits(g, HEIGHT)
  <2> HIDE DEF T
  <2>1. 0..HEIGHT \subseteq T
    BY <1>0, <1>1, <1>2, IntervalInduction
  <2>2. HEIGHT \in T
    BY <1>0, <2>1
  <2> QED BY <2>2 DEF T
<1> DEFINE f == [level \in 0..HEIGHT |-> g[level]]
<1>4. f = Step(f)
  <2> HIDE DEF Up
  <2>1. ASSUME NEW i \in 0..HEIGHT PROVE f[i] = Step(f)[i]
    <3>1. CASE i = 0
      BY <1>3, <3>1
    <3>2. CASE i # 0
      <4>1. i \in 1..HEIGHT /\ i - 1 \in 0..HEIGHT
        BY <1>0, <3>2
      <4> QED BY <1>3, <3>2, <4>1
    <3> QED BY <3>1, <3>2
  <2> QED BY <2>1
<1>5. LevelHashes(leaf, proof) = CHOOSE p : p = Step(p)
  BY DEF LevelHashes
<1> DEFINE q == LevelHashes(leaf, proof)
<1>6. q = Step(q)
  <2> HIDE DEF Step, f
  <2> QED BY <1>4, <1>5
<1> HIDE DEF q, Up
<1>7. q[0] = leaf
  BY <1>0, <1>6
<1>8. ASSUME NEW level \in 1..HEIGHT PROVE q[level] = Up(level, q[level - 1])
  BY <1>0, <1>6
<1> QED BY <1>7, <1>8 DEF q, Up

-----------------------------------------------------------------------------
(* Where the nodes are *)

LEMMA HeightNat == HEIGHT \in Nat /\ HEIGHT # 0
  BY TreeAssumption

LEMMA PowerOf2Type == \A level \in 0..HEIGHT : PowerOf2[level] \in Nat \ {0}
<1> DEFINE T == {i \in 0..HEIGHT : PowerOf2[i] \in Nat \ {0}}
<1>1. 0 \in T
  BY HeightNat, PowerOf2Is
<1>2. ASSUME NEW i \in 0..HEIGHT, i # 0, i - 1 \in T PROVE i \in T
  <2>1. i \in 1..HEIGHT
    BY <1>2, HeightNat
  <2> QED BY <1>2, <2>1, PowerOf2Is
<1> HIDE DEF T
<1>3. 0..HEIGHT \subseteq T
  BY <1>1, <1>2, HeightNat, IntervalInduction
<1> QED BY <1>3 DEF T

\* A level has half the nodes of the one below, the root's level one.
LEMMA WidthIs ==
  /\ Width(0) = CAPACITY /\ Width(HEIGHT) = 1
  /\ \A level \in 0..HEIGHT : Width(level) \in Nat \ {0}
  /\ \A level \in 1..HEIGHT : Width(level - 1) = 2 * Width(level)
<1>1. Width(0) = CAPACITY /\ Width(HEIGHT) = 1
  BY HeightNat, PowerOf2Is DEF Width, CAPACITY
<1>2. ASSUME NEW level \in 0..HEIGHT PROVE Width(level) \in Nat \ {0}
  <2>1. HEIGHT - level \in 0..HEIGHT
    BY HeightNat
  <2> QED BY <2>1, PowerOf2Type DEF Width
<1>3. ASSUME NEW level \in 1..HEIGHT PROVE Width(level - 1) = 2 * Width(level)
  <2> DEFINE j == HEIGHT - (level - 1)
  <2>1. j \in 1..HEIGHT /\ j - 1 = HEIGHT - level
    BY HeightNat
  <2> HIDE DEF j
  <2>2. PowerOf2[j] = 2 * PowerOf2[j - 1]
    BY <2>1, PowerOf2Is
  <2> QED BY <2>1, <2>2 DEF Width, j
<1> QED BY <1>1, <1>2, <1>3

LEMMA CapacityNat == CAPACITY \in Nat \ {0}
  BY WidthIs, HeightNat

\* Halving, of the empty tree's -1 too.
LEMMA Halves ==
  ASSUME NEW i \in Int
  PROVE  /\ i \div 2 \in Int /\ i % 2 \in {0, 1}
         /\ i = 2 * (i \div 2) + (i % 2)
  OBVIOUS

LEMMA AboveType ==
  ASSUME NEW n \in Int
  PROVE  \A level \in 0..HEIGHT : Above(n)[level] \in Int
<1> DEFINE T == {i \in 0..HEIGHT : Above(n)[i] \in Int}
<1>1. 0 \in T
  BY HeightNat, AboveIs
<1>2. ASSUME NEW i \in 0..HEIGHT, i # 0, i - 1 \in T PROVE i \in T
  <2>1. i \in 1..HEIGHT
    BY <1>2, HeightNat
  <2>2. Above(n)[i] = Above(n)[i - 1] \div 2
    BY <2>1, AboveIs
  <2> QED BY <1>2, <2>2, Halves
<1> HIDE DEF T
<1>3. 0..HEIGHT \subseteq T
  BY <1>1, <1>2, HeightNat, IntervalInduction
<1> QED BY <1>3 DEF T

\* A node is the left or the right child of the node above it.
LEMMA ChildOf ==
  ASSUME NEW n \in Int, NEW level \in 1..HEIGHT
  PROVE  /\ Bit(n, level - 1) \in {0, 1}
         /\ Above(n)[level - 1] = 2 * Above(n)[level] + Bit(n, level - 1)
         /\ Above(n)[level - 1] \in Int /\ Above(n)[level] \in Int
<1>1. level - 1 \in 0..HEIGHT /\ level \in 0..HEIGHT
  BY HeightNat
<1>2. Above(n)[level - 1] \in Int /\ Above(n)[level] \in Int
  BY <1>1, AboveType
<1>3. Above(n)[level] = Above(n)[level - 1] \div 2
  BY AboveIs
<1> QED BY <1>2, <1>3, Halves DEF Bit

\* A leaf of the tree is under a node of every level.
LEMMA AboveWithin ==
  ASSUME NEW n \in 0..(CAPACITY - 1)
  PROVE  \A level \in 0..HEIGHT : Above(n)[level] \in 0..(Width(level) - 1)
<1> DEFINE T == {i \in 0..HEIGHT : Above(n)[i] \in 0..(Width(i) - 1)}
<1>0. n \in Int
  BY CapacityNat
<1>1. 0 \in T
  BY HeightNat, AboveIs, WidthIs
<1>2. ASSUME NEW i \in 0..HEIGHT, i # 0, i - 1 \in T PROVE i \in T
  <2>1. i \in 1..HEIGHT
    BY <1>2, HeightNat
  <2>2. Width(i - 1) = 2 * Width(i) /\ Width(i) \in Nat
    BY <2>1, WidthIs, HeightNat
  <2>3. Above(n)[i - 1] \in 0..(Width(i - 1) - 1)
    BY <1>2
  <2> QED BY <1>0, <2>1, <2>2, <2>3, ChildOf
<1> HIDE DEF T
<1>3. 0..HEIGHT \subseteq T
  BY <1>1, <1>2, HeightNat, IntervalInduction
<1> QED BY <1>3 DEF T

LEMMA AboveTop ==
  ASSUME NEW n \in 0..(CAPACITY - 1)
  PROVE  Above(n)[HEIGHT] = 0
<1>1. Above(n)[HEIGHT] \in 0..(Width(HEIGHT) - 1)
  BY AboveWithin, HeightNat
<1> QED BY <1>1, WidthIs

\* Nothing is to the left of the empty tree's next leaf.
LEMMA AboveBefore == \A level \in 0..HEIGHT : Above(-1)[level] = -1
<1> DEFINE T == {i \in 0..HEIGHT : Above(-1)[i] = -1}
<1>1. 0 \in T
  BY HeightNat, AboveIs
<1>2. ASSUME NEW i \in 0..HEIGHT, i # 0, i - 1 \in T PROVE i \in T
  <2>1. i \in 1..HEIGHT /\ -1 \in Int
    BY <1>2, HeightNat
  <2> DEFINE a == Above(-1)[i]
             b == Above(-1)[i - 1]
             x == Bit(-1, i - 1)
  <2>2. x \in {0, 1} /\ b = 2 * a + x /\ a \in Int /\ b = -1
    BY <1>2, <2>1, ChildOf
  <2>3. a = -1
    <3> HIDE DEF a, b, x
    <3> QED BY <2>2
  <2> QED BY <2>3
<1> HIDE DEF T
<1>3. 0..HEIGHT \subseteq T
  BY <1>1, <1>2, HeightNat, IntervalInduction
<1> QED BY <1>3 DEF T

\* From one leaf to the next the path moves by one node at most.
LEMMA AboveNext ==
  ASSUME NEW n \in Int
  PROVE  \A level \in 0..HEIGHT :
           Above(n + 1)[level] \in {Above(n)[level], Above(n)[level] + 1}
<1> DEFINE T == {i \in 0..HEIGHT :
                   Above(n + 1)[i] \in {Above(n)[i], Above(n)[i] + 1}}
<1>1. 0 \in T
  BY HeightNat, AboveIs
<1>2. ASSUME NEW i \in 0..HEIGHT, i # 0, i - 1 \in T PROVE i \in T
  <2>1. i \in 1..HEIGHT /\ n + 1 \in Int
    BY <1>2, HeightNat
  <2>2. /\ Bit(n, i - 1) \in {0, 1}
        /\ Above(n)[i - 1] = 2 * Above(n)[i] + Bit(n, i - 1)
        /\ Above(n)[i - 1] \in Int /\ Above(n)[i] \in Int
    BY <2>1, ChildOf
  <2>3. /\ Bit(n + 1, i - 1) \in {0, 1}
        /\ Above(n + 1)[i - 1] = 2 * Above(n + 1)[i] + Bit(n + 1, i - 1)
        /\ Above(n + 1)[i - 1] \in Int /\ Above(n + 1)[i] \in Int
    BY <2>1, ChildOf
  <2> DEFINE a == Above(n)[i - 1]
             b == Above(n + 1)[i - 1]
             c == Above(n)[i]
             d == Above(n + 1)[i]
             x == Bit(n, i - 1)
             y == Bit(n + 1, i - 1)
  <2>4. /\ x \in {0, 1} /\ a = 2 * c + x /\ a \in Int /\ c \in Int
        /\ y \in {0, 1} /\ b = 2 * d + y /\ b \in Int /\ d \in Int
    BY <2>2, <2>3
  <2>5. b = a \/ b = a + 1
    BY <1>2
  <2>6. d = c \/ d = c + 1
    <3> HIDE DEF a, b, c, d, x, y
    <3> QED BY <2>4, <2>5
  <2> QED BY <2>6
<1> HIDE DEF T
<1>3. 0..HEIGHT \subseteq T
  BY <1>1, <1>2, HeightNat, IntervalInduction
<1> QED BY <1>3 DEF T

-----------------------------------------------------------------------------
(* What the nodes are *)

LEMMA LeafIs ==
  ASSUME NEW list, NEW k \in 0..(CAPACITY - 1)
  PROVE  Nodes(list)[0][k] = IF k \in DOMAIN list THEN list[k] ELSE EmptyLeaf
<1>1. Nodes(list)[0] = Padded(list)
  BY NodesIs
<1>2. Padded(list)[k] = IF k \in DOMAIN list THEN list[k] ELSE EmptyLeaf
  BY DEF Padded
<1> QED BY <1>1, <1>2

LEMMA NodeIs ==
  ASSUME NEW list, NEW level \in 1..HEIGHT, NEW k \in 0..(Width(level) - 1)
  PROVE  /\ 2 * k \in 0..(Width(level - 1) - 1)
         /\ 2 * k + 1 \in 0..(Width(level - 1) - 1)
         /\ Nodes(list)[level][k] =
              HashPair(Nodes(list)[level - 1][2 * k], Nodes(list)[level - 1][2 * k + 1])
<1>1. Width(level - 1) = 2 * Width(level) /\ Width(level) \in Nat
  BY WidthIs, HeightNat
<1>2. Nodes(list)[level] = Parents(level, Nodes(list)[level - 1])
  BY NodesIs
<1> QED BY <1>1, <1>2 DEF Parents

\* The trees over two lists have the same leaves but at n.
DifferOnlyAt(n, first, second) ==
  \A k \in 0..(CAPACITY - 1) : k # n => Nodes(first)[0][k] = Nodes(second)[0][k]

\* They have the same nodes but above n.
DifferOnlyAbove(n, first, second) ==
  \A level \in 0..HEIGHT : \A k \in 0..(Width(level) - 1) :
    k # Above(n)[level] => Nodes(first)[level][k] = Nodes(second)[level][k]

\* Two lists that differ in one leaf have the same nodes everywhere but on
\* that leaf's path.
LEMMA SameNodes ==
  ASSUME NEW first, NEW second, NEW n \in Int, DifferOnlyAt(n, first, second)
  PROVE  DifferOnlyAbove(n, first, second)
<1> USE DEF DifferOnlyAt, DifferOnlyAbove
<1> DEFINE Same(level) ==
             \A k \in 0..(Width(level) - 1) :
               k # Above(n)[level] => Nodes(first)[level][k] = Nodes(second)[level][k]
           T == {i \in 0..HEIGHT : Same(i)}
<1>1. 0 \in T
  BY HeightNat, AboveIs, WidthIs
<1>2. ASSUME NEW i \in 0..HEIGHT, i # 0, i - 1 \in T PROVE i \in T
  <2>1. i \in 1..HEIGHT /\ i - 1 \in 0..HEIGHT
    BY <1>2, HeightNat
  <2>2. ASSUME NEW k \in 0..(Width(i) - 1), k # Above(n)[i]
        PROVE  Nodes(first)[i][k] = Nodes(second)[i][k]
    <3>1. k \in Nat /\ Width(i) \in Nat /\ Width(i - 1) \in Nat
      BY <2>1, WidthIs
    <3> DEFINE a == Above(n)[i - 1]
               b == Above(n)[i]
               x == Bit(n, i - 1)
    <3>2. 2 * k # a /\ 2 * k + 1 # a
      <4>1. x \in {0, 1} /\ a = 2 * b + x /\ a \in Int /\ b \in Int /\ k # b
        BY <2>1, <2>2, ChildOf
      <4> HIDE DEF a, b, x
      <4> QED BY <3>1, <4>1
    <3>3. 2 * k \in 0..(Width(i - 1) - 1) /\ 2 * k + 1 \in 0..(Width(i - 1) - 1)
      BY <2>1, NodeIs
    <3>4. /\ Nodes(first)[i - 1][2 * k] = Nodes(second)[i - 1][2 * k]
          /\ Nodes(first)[i - 1][2 * k + 1] = Nodes(second)[i - 1][2 * k + 1]
      BY <1>2, <3>2, <3>3
    <3>5. Nodes(first)[i][k] =
            HashPair(Nodes(first)[i - 1][2 * k], Nodes(first)[i - 1][2 * k + 1])
      BY <2>1, NodeIs
    <3>6. Nodes(second)[i][k] =
            HashPair(Nodes(second)[i - 1][2 * k], Nodes(second)[i - 1][2 * k + 1])
      BY <2>1, NodeIs
    <3> QED BY <3>4, <3>5, <3>6
  <2> QED BY <2>1, <2>2
<1> HIDE DEF T
<1>3. 0..HEIGHT \subseteq T
  BY <1>1, <1>2, HeightNat, IntervalInduction
<1> QED BY <1>3 DEF T

\* To the right of the path of the last leaf every subtree is empty.
LEMMA EmptyNodes ==
  ASSUME NEW list, NEW n \in Int, \A k \in DOMAIN list : k <= n
  PROVE  \A level \in 0..HEIGHT : \A k \in 0..(Width(level) - 1) :
           k > Above(n)[level] => Nodes(list)[level][k] = ZeroHash[level]
<1> DEFINE Empty(level) ==
             \A k \in 0..(Width(level) - 1) :
               k > Above(n)[level] => Nodes(list)[level][k] = ZeroHash[level]
           T == {i \in 0..HEIGHT : Empty(i)}
<1>1. 0 \in T
  <2>1. ASSUME NEW k \in 0..(Width(0) - 1), k > Above(n)[0]
        PROVE  Nodes(list)[0][k] = ZeroHash[0]
    <3>1. k \in 0..(CAPACITY - 1) /\ k \in Int /\ k > n
      BY <2>1, AboveIs, WidthIs, CapacityNat
    <3>2. k \notin DOMAIN list
      BY <3>1
    <3> QED BY <3>1, <3>2, LeafIs, ZeroHashIs
  <2> QED BY <2>1, HeightNat
<1>2. ASSUME NEW i \in 0..HEIGHT, i # 0, i - 1 \in T PROVE i \in T
  <2>1. i \in 1..HEIGHT /\ i - 1 \in 0..HEIGHT
    BY <1>2, HeightNat
  <2>2. ASSUME NEW k \in 0..(Width(i) - 1), k > Above(n)[i]
        PROVE  Nodes(list)[i][k] = ZeroHash[i]
    <3>1. k \in Nat /\ Width(i) \in Nat /\ Width(i - 1) \in Nat
      BY <2>1, WidthIs
    <3> DEFINE a == Above(n)[i - 1]
               b == Above(n)[i]
               x == Bit(n, i - 1)
    <3>2. 2 * k > a /\ 2 * k + 1 > a
      <4>1. x \in {0, 1} /\ a = 2 * b + x /\ a \in Int /\ b \in Int /\ k > b
        BY <2>1, <2>2, ChildOf
      <4> HIDE DEF a, b, x
      <4> QED BY <3>1, <4>1
    <3>3. 2 * k \in 0..(Width(i - 1) - 1) /\ 2 * k + 1 \in 0..(Width(i - 1) - 1)
      BY <2>1, NodeIs
    <3>4. /\ Nodes(list)[i - 1][2 * k] = ZeroHash[i - 1]
          /\ Nodes(list)[i - 1][2 * k + 1] = ZeroHash[i - 1]
      BY <1>2, <3>2, <3>3
    <3>5. Nodes(list)[i][k] =
            HashPair(Nodes(list)[i - 1][2 * k], Nodes(list)[i - 1][2 * k + 1])
      BY <2>1, NodeIs
    <3> QED BY <2>1, <3>4, <3>5, ZeroHashIs
  <2> QED BY <2>1, <2>2
<1> HIDE DEF T
<1>3. 0..HEIGHT \subseteq T
  BY <1>1, <1>2, HeightNat, IntervalInduction
<1> QED BY <1>3 DEF T

\* The root says all there is to say about the leaves.
LEMMA RootInjective ==
  ASSUME NEW first, NEW second, RootOf(first) = RootOf(second)
  PROVE  \A k \in 0..(CAPACITY - 1) : Nodes(first)[0][k] = Nodes(second)[0][k]
<1> DEFINE Same(level) ==
             \A k \in 0..(Width(level) - 1) :
               Nodes(first)[level][k] = Nodes(second)[level][k]
           T == {i \in 0..HEIGHT : Same(HEIGHT - i)}
<1>1. 0 \in T
  <2>1. HEIGHT - 0 = HEIGHT /\ 0 \in 0..HEIGHT
    BY HeightNat
  <2>2. \A k \in 0..(Width(HEIGHT) - 1) : k = 0
    BY WidthIs
  <2>3. Same(HEIGHT)
    BY <2>2 DEF RootOf
  <2> QED BY <2>1, <2>3
<1>2. ASSUME NEW i \in 0..HEIGHT, i # 0, i - 1 \in T PROVE i \in T
  <2> DEFINE l == HEIGHT - (i - 1)
  <2>1. l \in 1..HEIGHT /\ HEIGHT - i = l - 1
    BY <1>2, HeightNat
  <2>2. Same(l)
    BY <1>2
  <2> HIDE DEF l
  <2>3. ASSUME NEW j \in 0..(Width(l - 1) - 1)
        PROVE  Nodes(first)[l - 1][j] = Nodes(second)[l - 1][j]
    <3> DEFINE k == j \div 2
    <3>1. Width(l - 1) = 2 * Width(l) /\ Width(l) \in Nat
      BY <2>1, WidthIs, HeightNat
    <3>2. j \in Int /\ k \in Int /\ (j = 2 * k \/ j = 2 * k + 1)
      BY <3>1, Halves
    <3>3. k \in 0..(Width(l) - 1)
      BY <3>1, <3>2
    <3>4. Nodes(first)[l][k] = Nodes(second)[l][k]
      BY <2>2, <3>3
    <3> HIDE DEF k
    <3> DEFINE a == Nodes(first)[l - 1][2 * k]
               b == Nodes(first)[l - 1][2 * k + 1]
               c == Nodes(second)[l - 1][2 * k]
               d == Nodes(second)[l - 1][2 * k + 1]
    <3>5. Nodes(first)[l][k] = HashPair(a, b) /\ Nodes(second)[l][k] = HashPair(c, d)
      BY <2>1, <3>3, NodeIs
    <3>6. HashPair(a, b) = HashPair(c, d)
      BY <3>4, <3>5
    <3>7. a = c /\ b = d
      <4> HIDE DEF a, b, c, d
      <4> QED BY <3>6 DEF HashPair
    <3> QED BY <3>2, <3>7
  <2> QED BY <2>1, <2>3
<1> HIDE DEF T
<1>3. 0..HEIGHT \subseteq T
  BY <1>1, <1>2, HeightNat, IntervalInduction
<1>4. HEIGHT \in T /\ HEIGHT - HEIGHT = 0
  BY <1>3, HeightNat
<1> QED BY <1>4, WidthIs DEF T

\* Two lists of leaves for which the client computes one root
\* (buildMerkleProof) fill every slot of the tree alike.  As a pool only
\* appends, and never the sentinel of an empty slot, its roots are told apart
\* by their numbers of leaves, which is how module ShieldPool writes them.
THEOREM RootsDetermineLeaves ==
  ASSUME NEW first, NEW second, RootOf(first) = RootOf(second)
  PROVE  Padded(first) = Padded(second)
<1>1. Nodes(first)[0] = Padded(first) /\ Nodes(second)[0] = Padded(second)
  BY NodesIs
<1>2. \A k \in 0..(CAPACITY - 1) : Padded(first)[k] = Padded(second)[k]
  BY <1>1, RootInjective
<1> QED BY <1>2 DEF Padded

-----------------------------------------------------------------------------
(* A leaf's path *)

LEMMA ProofIs ==
  ASSUME NEW list, NEW target, NEW level \in 1..HEIGHT
  PROVE  /\ BuildMerkleProof(list, target).pathIndices[level - 1] = Bit(target, level - 1)
         /\ BuildMerkleProof(list, target).pathElements[level - 1] =
              Nodes(list)[level - 1][Sibling(Above(target)[level - 1])]
<1>1. level - 1 \in Levels
  BY HeightNat DEF Levels
<1> QED BY <1>1 DEF BuildMerkleProof

\* The parent of a node on the path is the hash of the node and its sibling,
\* in the order the bit says.
LEMMA ParentOnPath ==
  ASSUME NEW list, NEW target \in 0..(CAPACITY - 1), NEW level \in 1..HEIGHT
  PROVE  LET mine == Nodes(list)[level - 1][Above(target)[level - 1]]
             other == Nodes(list)[level - 1][Sibling(Above(target)[level - 1])]
         IN  Nodes(list)[level][Above(target)[level]] =
               IF Bit(target, level - 1) = 0 THEN HashPair(mine, other)
               ELSE HashPair(other, mine)
<1> DEFINE a == Above(target)[level - 1]
           k == Above(target)[level]
           x == Bit(target, level - 1)
<1>1. target \in Int
  BY CapacityNat
<1>2. x \in {0, 1} /\ a = 2 * k + x /\ a \in Int /\ k \in Int
  BY <1>1, ChildOf
<1>3. k \in 0..(Width(level) - 1)
  BY AboveWithin, HeightNat
<1>4. Nodes(list)[level][k] =
        HashPair(Nodes(list)[level - 1][2 * k], Nodes(list)[level - 1][2 * k + 1])
  BY <1>3, NodeIs
<1>5. CASE x = 0
  <2>1. a = 2 * k /\ Sibling(a) = 2 * k + 1
    <3> HIDE DEF a, k, x
    <3> QED BY <1>2, <1>5 DEF Sibling
  <2> HIDE DEF a, k, x
  <2>2. Nodes(list)[level][k] = HashPair(Nodes(list)[level - 1][a],
                                         Nodes(list)[level - 1][Sibling(a)])
    BY <1>4, <2>1
  <2> QED BY <1>5, <2>2 DEF a, k, x
<1>6. CASE x = 1
  <2>1. a = 2 * k + 1 /\ Sibling(a) = 2 * k
    <3> HIDE DEF a, k, x
    <3> QED BY <1>2, <1>6 DEF Sibling
  <2> HIDE DEF a, k, x
  <2>2. Nodes(list)[level][k] = HashPair(Nodes(list)[level - 1][Sibling(a)],
                                         Nodes(list)[level - 1][a])
    BY <1>4, <2>1
  <2> QED BY <1>6, <2>2 DEF a, k, x
<1> QED BY <1>2, <1>5, <1>6

\* The circuit's climb from the leaf itself is the path of the tree.
LEMMA LeafClimbs ==
  ASSUME NEW list, NEW target \in 0..(CAPACITY - 1)
  PROVE  PathRoot(Nodes(list)[0][target], BuildMerkleProof(list, target)) = RootOf(list)
<1> DEFINE proof == BuildMerkleProof(list, target)
           leaf == Nodes(list)[0][target]
           On(level) == LevelHashes(leaf, proof)[level] =
                          Nodes(list)[level][Above(target)[level]]
           T == {i \in 0..HEIGHT : On(i)}
<1>1. 0 \in T
  BY HeightNat, AboveIs, LevelHashesIs
<1>2. ASSUME NEW i \in 0..HEIGHT, i # 0, i - 1 \in T PROVE i \in T
  <2>1. i \in 1..HEIGHT
    BY <1>2, HeightNat
  <2>2. LevelHashes(leaf, proof)[i - 1] = Nodes(list)[i - 1][Above(target)[i - 1]]
    BY <1>2
  <2>3. /\ proof.pathIndices[i - 1] = Bit(target, i - 1)
        /\ proof.pathElements[i - 1] = Nodes(list)[i - 1][Sibling(Above(target)[i - 1])]
    BY <2>1, ProofIs
  <2>4. LevelHashes(leaf, proof)[i] =
          IF proof.pathIndices[i - 1] = 0
            THEN HashPair(LevelHashes(leaf, proof)[i - 1], proof.pathElements[i - 1])
            ELSE HashPair(proof.pathElements[i - 1], LevelHashes(leaf, proof)[i - 1])
    BY <2>1, LevelHashesIs
  <2> HIDE DEF proof, leaf
  <2>5. On(i)
    BY <2>1, <2>2, <2>3, <2>4, ParentOnPath
  <2> QED BY <2>5
<1> HIDE DEF T
<1>3. 0..HEIGHT \subseteq T
  BY <1>1, <1>2, HeightNat, IntervalInduction
<1>4. On(HEIGHT)
  BY <1>3, HeightNat DEF T
<1> QED BY <1>4, AboveTop DEF PathRoot, RootOf

\* No other leaf climbs to the same root.
LEMMA OnlyLeafClimbs ==
  ASSUME NEW list, NEW target \in 0..(CAPACITY - 1), NEW leaf,
         PathRoot(leaf, BuildMerkleProof(list, target)) = RootOf(list)
  PROVE  leaf = Nodes(list)[0][target]
<1> DEFINE proof == BuildMerkleProof(list, target)
           On(level) == LevelHashes(leaf, proof)[level] =
                          Nodes(list)[level][Above(target)[level]]
           T == {i \in 0..HEIGHT : On(HEIGHT - i)}
<1>1. 0 \in T
  <2>1. HEIGHT - 0 = HEIGHT /\ 0 \in 0..HEIGHT
    BY HeightNat
  <2>2. On(HEIGHT)
    BY AboveTop DEF PathRoot, RootOf
  <2> QED BY <2>1, <2>2
<1>2. ASSUME NEW i \in 0..HEIGHT, i # 0, i - 1 \in T PROVE i \in T
  <2> DEFINE l == HEIGHT - (i - 1)
  <2>1. l \in 1..HEIGHT /\ HEIGHT - i = l - 1
    BY <1>2, HeightNat
  <2>2. On(l)
    BY <1>2
  <2> HIDE DEF l
  <2>3. /\ proof.pathIndices[l - 1] = Bit(target, l - 1)
        /\ proof.pathElements[l - 1] = Nodes(list)[l - 1][Sibling(Above(target)[l - 1])]
    BY <2>1, ProofIs
  <2>4. LevelHashes(leaf, proof)[l] =
          IF proof.pathIndices[l - 1] = 0
            THEN HashPair(LevelHashes(leaf, proof)[l - 1], proof.pathElements[l - 1])
            ELSE HashPair(proof.pathElements[l - 1], LevelHashes(leaf, proof)[l - 1])
    BY <2>1, LevelHashesIs
  <2> HIDE DEF proof
  <2>5. On(l - 1)
    <3> DEFINE mine == Nodes(list)[l - 1][Above(target)[l - 1]]
               other == Nodes(list)[l - 1][Sibling(Above(target)[l - 1])]
               x == Bit(target, l - 1)
               h == LevelHashes(leaf, proof)[l - 1]
    <3>1. LevelHashes(leaf, proof)[l] =
            IF x = 0 THEN HashPair(mine, other) ELSE HashPair(other, mine)
      BY <2>1, <2>2, ParentOnPath
    <3>2. LevelHashes(leaf, proof)[l] =
            IF x = 0 THEN HashPair(h, other) ELSE HashPair(other, h)
      BY <2>3, <2>4
    <3>3. h = mine
      <4> HIDE DEF mine, other, x, h
      <4> QED BY <3>1, <3>2 DEF HashPair
    <3> QED BY <3>3
  <2> QED BY <2>1, <2>5
<1> HIDE DEF T
<1>3. 0..HEIGHT \subseteq T
  BY <1>1, <1>2, HeightNat, IntervalInduction
<1>4. HEIGHT \in T /\ HEIGHT - HEIGHT = 0
  BY <1>3, HeightNat
<1>5. On(0)
  BY <1>4 DEF T
<1> QED BY <1>5, AboveIs, LevelHashesIs

-----------------------------------------------------------------------------
(* The program's tree *)

\* The nodes the program remembers: at a level where the next leaf turns
\* right, its left neighbour.
FilledIsLeft ==
  /\ filledSubtrees = [level \in Levels |-> filledSubtrees[level]]
  /\ \A level \in Levels :
       Bit(nextLeafIndex, level) = 1 =>
         filledSubtrees[level] =
           Nodes(Prefix(nextLeafIndex))[level][Above(nextLeafIndex)[level] - 1]

\* A tree of leaves from S.
TreeInv(S) ==
  /\ leaves \in Seq(S)
  /\ nextLeafIndex = Len(leaves)
  /\ nextLeafIndex <= CAPACITY
  /\ currentRoot = RootOf(Prefix(nextLeafIndex))
  /\ FilledIsLeft

LEMMA TreeInit ==
  ASSUME NEW S, Init
  PROVE  TreeInv(S)
<1>1. leaves \in Seq(S) /\ nextLeafIndex = 0 /\ Len(leaves) = 0
  BY DEF Init
<1>2. nextLeafIndex <= CAPACITY
  BY <1>1, CapacityNat
<1>3. currentRoot = RootOf(Prefix(0))
  <2>1. \A k \in DOMAIN Prefix(0) : k <= -1
    BY DEF Prefix
  <2>2. 0 > Above(-1)[HEIGHT] /\ 0 \in 0..(Width(HEIGHT) - 1) /\ HEIGHT \in 0..HEIGHT
    BY AboveBefore, HeightNat, WidthIs
  <2>3. -1 \in Int
    OBVIOUS
  <2>4. Nodes(Prefix(0))[HEIGHT][0] = ZeroHash[HEIGHT]
    BY <2>1, <2>2, <2>3, EmptyNodes
  <2> QED BY <2>4 DEF RootOf, Init
<1>4. ASSUME NEW level \in 0..HEIGHT PROVE Above(0)[level] = 0
  <2>1. Above(-1 + 1)[level] \in {Above(-1)[level], Above(-1)[level] + 1}
    BY AboveNext
  <2> DEFINE T == {i \in 0..HEIGHT : Above(0)[i] = 0}
  <2>2. 0 \in T
    BY HeightNat, AboveIs
  <2>3. ASSUME NEW i \in 0..HEIGHT, i # 0, i - 1 \in T PROVE i \in T
    <3>1. i \in 1..HEIGHT
      BY <2>3, HeightNat
    <3>2. Above(0)[i] = Above(0)[i - 1] \div 2
      BY <3>1, AboveIs
    <3> QED BY <2>3, <3>2
  <2> HIDE DEF T
  <2>4. 0..HEIGHT \subseteq T
    BY <2>2, <2>3, HeightNat, IntervalInduction
  <2> QED BY <2>4 DEF T
<1>5. FilledIsLeft
  <2>1. ASSUME NEW level \in Levels PROVE Bit(0, level) = 0
    <3>1. Above(0)[level] = 0
      BY <1>4, HeightNat DEF Levels
    <3> QED BY <3>1 DEF Bit
  <2>2. filledSubtrees = [level \in Levels |-> filledSubtrees[level]]
    BY DEF Init
  <2> QED BY <1>1, <2>1, <2>2 DEF FilledIsLeft
<1> QED BY <1>1, <1>2, <1>3, <1>5 DEF TreeInv

LEMMA PrefixGrows ==
  ASSUME NEW S, leaves \in Seq(S), NEW leaf \in S, leaves' = Append(leaves, leaf),
         NEW n \in 0..Len(leaves)
  PROVE  Prefix(n)' = Prefix(n)
<1>1. Len(leaves) \in Nat
  OBVIOUS
<1>2. ASSUME NEW k \in 0..(n - 1) PROVE leaves'[k + 1] = leaves[k + 1]
  <2>1. k + 1 \in 1..Len(leaves)
    BY <1>1
  <2> QED BY <2>1
<1> QED BY <1>2 DEF Prefix

OneMore(n, old, new) ==
  /\ DOMAIN old = 0..(n - 1) /\ DOMAIN new = 0..n
  /\ \A k \in 0..(n - 1) : new[k] = old[k]

\* What the program keeps are the left neighbours on the way up from leaf n.
LeftKept(n, filled, list) ==
  \A level \in Levels :
    Bit(n, level) = 1 => filled[level] = Nodes(list)[level][Above(n)[level] - 1]

ClimbsTo(n, leaf, filled, list) ==
  \A level \in 0..HEIGHT :
    Climb(leaf, n, filled)[level] = Nodes(list)[level][Above(n)[level]]

\* One leaf more: the climb that knows one node per level is the new leaf's
\* path through the whole tree.
LEMMA ClimbIsPath ==
  ASSUME NEW n \in 0..(CAPACITY - 1), NEW filled, NEW old, NEW new,
         OneMore(n, old, new), LeftKept(n, filled, old)
  PROVE  ClimbsTo(n, new[n], filled, new) /\ DifferOnlyAbove(n, new, old)
<1>0. n \in Int /\ CAPACITY \in Nat
  BY CapacityNat
<1>1. DifferOnlyAbove(n, new, old)
  <2>1. ASSUME NEW k \in 0..(CAPACITY - 1), k # n
        PROVE  Nodes(new)[0][k] = Nodes(old)[0][k]
    <3>1. k \in 0..n <=> k \in 0..(n - 1)
      BY <1>0, <2>1
    <3> QED BY <3>1, LeafIs DEF OneMore
  <2>2. DifferOnlyAt(n, new, old)
    BY <2>1 DEF DifferOnlyAt
  <2> QED BY <1>0, <2>2, SameNodes
<1>2. \A level \in 0..HEIGHT : \A k \in 0..(Width(level) - 1) :
        k > Above(n)[level] => Nodes(new)[level][k] = ZeroHash[level]
  <2>1. \A k \in DOMAIN new : k <= n
    BY DEF OneMore
  <2> QED BY <1>0, <2>1, EmptyNodes
<1> DEFINE On(level) == Climb(new[n], n, filled)[level] = Nodes(new)[level][Above(n)[level]]
           T == {i \in 0..HEIGHT : On(i)}
<1>3. 0 \in T
  <2>1. Nodes(new)[0][n] = new[n]
    BY <1>0, LeafIs DEF OneMore
  <2> QED BY <2>1, HeightNat, AboveIs, ClimbIs
<1>4. ASSUME NEW i \in 0..HEIGHT, i # 0, i - 1 \in T PROVE i \in T
  <2>1. i \in 1..HEIGHT /\ i - 1 \in 0..HEIGHT /\ i - 1 \in Levels
    BY <1>4, HeightNat DEF Levels
  <2> DEFINE a == Above(n)[i - 1]
             k == Above(n)[i]
             x == Bit(n, i - 1)
             w == Width(i - 1)
  <2>2. x \in {0, 1} /\ a = 2 * k + x /\ a \in Int /\ k \in Int
    BY <1>0, <2>1, ChildOf
  <2>3. k \in 0..(Width(i) - 1) /\ a \in 0..(w - 1) /\ w = 2 * Width(i)
        /\ Width(i) \in Nat
    BY <2>1, AboveWithin, WidthIs
  <2>4. Nodes(new)[i][k] =
          HashPair(Nodes(new)[i - 1][2 * k], Nodes(new)[i - 1][2 * k + 1])
    BY <2>1, <2>3, NodeIs
  <2>5. Climb(new[n], n, filled)[i - 1] = Nodes(new)[i - 1][a]
    BY <1>4
  <2>6. Climb(new[n], n, filled)[i] =
          IF x = 0 THEN HashPair(Climb(new[n], n, filled)[i - 1], ZeroHash[i - 1])
          ELSE HashPair(filled[i - 1], Climb(new[n], n, filled)[i - 1])
    BY <2>1, ClimbIs
  <2>7. CASE x = 0
    <3>1. a = 2 * k /\ a + 1 = 2 * k + 1 /\ a + 1 \in 0..(w - 1) /\ a + 1 > a
      <4> HIDE DEF a, k, x, w
      <4> QED BY <2>2, <2>3, <2>7
    <3>2. Nodes(new)[i - 1][a + 1] = ZeroHash[i - 1]
      BY <1>2, <2>1, <3>1
    <3> HIDE DEF a, k, x, w
    <3>3. Climb(new[n], n, filled)[i] = Nodes(new)[i][k]
      BY <2>4, <2>5, <2>6, <2>7, <3>1, <3>2
    <3> QED BY <3>3 DEF k
  <2>8. CASE x = 1
    <3>1. a = 2 * k + 1 /\ a - 1 = 2 * k /\ a - 1 \in 0..(w - 1) /\ a - 1 # a
      <4> HIDE DEF a, k, x, w
      <4> QED BY <2>2, <2>3, <2>8
    <3>2. Nodes(new)[i - 1][a - 1] = Nodes(old)[i - 1][a - 1]
      BY <1>1, <2>1, <3>1 DEF DifferOnlyAbove
    <3>3. filled[i - 1] = Nodes(old)[i - 1][a - 1]
      BY <2>1, <2>8 DEF LeftKept
    <3> HIDE DEF a, k, x, w
    <3>4. Climb(new[n], n, filled)[i] = Nodes(new)[i][k]
      BY <2>4, <2>5, <2>6, <2>8, <3>1, <3>2, <3>3
    <3> QED BY <3>4 DEF k
  <2> QED BY <2>2, <2>7, <2>8
<1> HIDE DEF T
<1>5. 0..HEIGHT \subseteq T
  BY <1>3, <1>4, HeightNat, IntervalInduction
<1> QED BY <1>1, <1>5 DEF T, ClimbsTo

LEMMA TreeStep ==
  ASSUME NEW S, NEW leaf \in S, TreeInv(S), InsertLeaf(leaf)
  PROVE  TreeInv(S)'
<1> DEFINE n == nextLeafIndex
           old == Prefix(n)
           new == [k \in 0..n |-> leaves'[k + 1]]
<1>1. leaves \in Seq(S) /\ n = Len(leaves) /\ n \in Nat /\ leaves' = Append(leaves, leaf)
  BY DEF TreeInv, InsertLeaf
<1>2. n \in 0..(CAPACITY - 1) /\ n' = n + 1 /\ n \in Int
  BY <1>1, CapacityNat DEF InsertLeaf
<1>3. leaves' \in Seq(S) /\ n' = Len(leaves') /\ n' <= CAPACITY
  BY <1>1, <1>2, CapacityNat
<1>4. DOMAIN old = 0..(n - 1) /\ DOMAIN new = 0..n /\ new[n] = leaf
  <2>1. DOMAIN old = 0..(n - 1)
    BY DEF Prefix
  <2>2. n \in 0..n /\ leaves'[n + 1] = leaf
    BY <1>1
  <2> QED BY <2>1, <2>2
<1>5. ASSUME NEW k \in 0..(n - 1) PROVE new[k] = old[k]
  <2>1. k \in 0..n /\ k + 1 \in 1..Len(leaves)
    BY <1>1
  <2>2. leaves'[k + 1] = leaves[k + 1]
    BY <1>1, <2>1
  <2> QED BY <2>1, <2>2 DEF Prefix
<1> HIDE DEF old, new
<1>6. \A level \in Levels :
        Bit(n, level) = 1 => filledSubtrees[level] = Nodes(old)[level][Above(n)[level] - 1]
  BY DEF TreeInv, FilledIsLeft, old
<1>7. /\ \A level \in 0..HEIGHT :
           Climb(leaf, n, filledSubtrees)[level] = Nodes(new)[level][Above(n)[level]]
      /\ \A level \in 0..HEIGHT : \A k \in 0..(Width(level) - 1) :
           k # Above(n)[level] => Nodes(new)[level][k] = Nodes(old)[level][k]
  <2>1. OneMore(n, old, new)
    BY <1>4, <1>5 DEF OneMore
  <2>2. LeftKept(n, filledSubtrees, old)
    BY <1>6 DEF LeftKept
  <2>3. ClimbsTo(n, new[n], filledSubtrees, new) /\ DifferOnlyAbove(n, new, old)
    BY <1>2, <2>1, <2>2, ClimbIsPath
  <2> QED BY <1>4, <2>3 DEF ClimbsTo, DifferOnlyAbove
<1>8. Prefix(nextLeafIndex)' = new
  <2>1. Prefix(nextLeafIndex)' = [k \in 0..(n' - 1) |-> leaves'[k + 1]]
    BY DEF Prefix
  <2>2. n' - 1 = n
    BY <1>2
  <2> QED BY <2>1, <2>2 DEF new
<1>9. currentRoot' = RootOf(Prefix(nextLeafIndex)')
  <2>1. currentRoot' = Nodes(new)[HEIGHT][Above(n)[HEIGHT]]
    BY <1>7, HeightNat DEF InsertLeaf
  <2> QED BY <1>2, <1>8, <2>1, AboveTop DEF RootOf
<1>10. FilledIsLeft'
  <2>1. filledSubtrees' = Remember(leaf, n, filledSubtrees)
    BY DEF InsertLeaf
  <2>2. ASSUME NEW level \in Levels, Bit(n + 1, level) = 1
        PROVE  filledSubtrees'[level] = Nodes(new)[level][Above(n + 1)[level] - 1]
    <3> DEFINE a == Above(n)[level]
               b == Above(n + 1)[level]
    <3>1. level \in 0..HEIGHT
      BY HeightNat DEF Levels
    <3>2. b \in {a, a + 1}
      BY <1>2, <3>1, AboveNext
    <3>3. filledSubtrees'[level] =
            IF Bit(n, level) = 0 THEN Climb(leaf, n, filledSubtrees)[level]
            ELSE filledSubtrees[level]
      BY <2>1 DEF Remember
    <3>4. a \in 0..(Width(level) - 1) /\ Width(level) \in Nat
      BY <1>2, <3>1, AboveWithin, WidthIs
    <3>5. Bit(n, level) = a % 2 /\ b % 2 = 1
      BY <2>2 DEF Bit
    <3>6. CASE b = a
      <4>1. a % 2 = 1 /\ a - 1 \in 0..(Width(level) - 1) /\ a - 1 # a
        <5> HIDE DEF a, b
        <5> QED BY <3>4, <3>5, <3>6
      <4>2. Nodes(new)[level][a - 1] = Nodes(old)[level][a - 1]
        BY <1>7, <3>1, <4>1
      <4>3. filledSubtrees[level] = Nodes(old)[level][a - 1]
        BY <1>6, <3>5, <4>1
      <4> HIDE DEF a, b
      <4>4. filledSubtrees'[level] = Nodes(new)[level][b - 1]
        BY <3>3, <3>5, <3>6, <4>1, <4>2, <4>3
      <4> QED BY <4>4 DEF b
    <3>7. CASE b = a + 1
      <4>1. a % 2 = 0 /\ b - 1 = a
        <5> HIDE DEF a, b
        <5> QED BY <3>4, <3>5, <3>7
      <4>2. filledSubtrees'[level] = Nodes(new)[level][a]
        BY <1>7, <3>1, <3>3, <3>5, <4>1
      <4> QED BY <4>1, <4>2
    <3> QED BY <3>2, <3>6, <3>7
  <2>3. filledSubtrees' = [level \in Levels |-> filledSubtrees'[level]]
    BY <2>1 DEF Remember
  <2> QED BY <1>2, <1>8, <2>2, <2>3 DEF FilledIsLeft
<1> QED BY <1>3, <1>9, <1>10 DEF TreeInv

LEMMA TreeStable ==
  ASSUME NEW S, TreeInv(S), UNCHANGED treeVars
  PROVE  TreeInv(S)'
  BY DEF TreeInv, FilledIsLeft, Prefix, treeVars

\* The root the program keeps is the root of the tree the client rebuilds, at
\* every number of leaves and for every height (insert_leaf_light against
\* buildMerkleProof).
THEOREM TreeRootMatchesRebuild == Spec => []RootMatchesRebuild
<1>1. Init => TreeInv(LeafValues)
  BY TreeInit
<1>2. TreeInv(LeafValues) /\ [Next]_treeVars => TreeInv(LeafValues)'
  BY TreeStep, TreeStable DEF Next
<1>3. TreeInv(LeafValues) => RootMatchesRebuild
  BY DEF TreeInv, RootMatchesRebuild
<1> QED BY <1>1, <1>2, <1>3, PTL DEF Spec

LEMMA PrefixLeaf ==
  ASSUME NEW S, TreeInv(S), NEW n \in 0..Len(leaves), NEW k \in 0..(n - 1)
  PROVE  /\ k \in 0..(CAPACITY - 1)
         /\ Nodes(Prefix(n))[0][k] = leaves[k + 1]
         /\ k + 1 \in 1..Len(leaves)
<1>1. Len(leaves) \in Nat /\ Len(leaves) <= CAPACITY
  BY DEF TreeInv
<1>2. k \in 0..(CAPACITY - 1) /\ k + 1 \in 1..Len(leaves)
  BY <1>1, CapacityNat
<1>3. k \in DOMAIN Prefix(n) /\ Prefix(n)[k] = leaves[k + 1]
  BY DEF Prefix
<1> QED BY <1>2, <1>3, LeafIs

\* The path the client builds for a leaf of the tree is accepted by the
\* circuit for that leaf and for no other value (buildMerkleProof and
\* template Membership).
THEOREM TreePathsProveTheirLeafOnly == Spec => []PathsProveTheirLeafOnly
<1>1. Init => TreeInv(LeafValues)
  BY TreeInit
<1>2. TreeInv(LeafValues) /\ [Next]_treeVars => TreeInv(LeafValues)'
  BY TreeStep, TreeStable DEF Next
<1>3. TreeInv(LeafValues) => PathsProveTheirLeafOnly
  <2> SUFFICES ASSUME TreeInv(LeafValues), NEW k \in 0..(Len(leaves) - 1), NEW leaf
               PROVE  PathRoot(leaf, BuildMerkleProof(Prefix(Len(leaves)), k)) = currentRoot
                        <=> leaf = leaves[k + 1]
    BY DEF PathsProveTheirLeafOnly
  <2>1. Len(leaves) \in Nat /\ Len(leaves) \in 0..Len(leaves)
    BY DEF TreeInv
  <2>2. k \in 0..(CAPACITY - 1) /\ Nodes(Prefix(Len(leaves)))[0][k] = leaves[k + 1]
    BY <2>1, PrefixLeaf
  <2>3. currentRoot = RootOf(Prefix(Len(leaves)))
    BY DEF TreeInv
  <2> QED BY <2>2, <2>3, LeafClimbs, OnlyLeafClimbs
<1> QED BY <1>1, <1>2, <1>3, PTL DEF Spec

-----------------------------------------------------------------------------
(* The invariant of the depositors *)

Sent == {"note"} \X Clients \X Nat

\* The leaves of the tree are the leaves of the history.
HistoryInv ==
  /\ history \in Seq({NoLeaf} \union 0..(CAPACITY - 1))
  /\ {history[k] : k \in 1..Len(history)} \ {NoLeaf} = 0..(Len(leaves) - 1)

ClientInv(c) ==
  /\ phase[c] \in {"idle", "sent", "deposited"}
  /\ noteIndex[c] \in Nat

\* A proof is made of leaves of the tree, its owner's own among them.
ProofInv(proof) ==
  /\ proof.client \in Clients /\ LandedWhereMeant(proof.client)
  /\ \E found \in SUBSET (0..(Len(leaves) - 1)) :
       noteIndex[proof.client] \in found /\ proof.list = Materialize(found)

NoteInv ==
  /\ TreeInv(Sent)
  /\ HistoryInv
  /\ phase = [c \in Clients |-> phase[c]]
  /\ noteIndex = [c \in Clients |-> noteIndex[c]]
  /\ \A c \in Clients : ClientInv(c)
  /\ \A proof \in proofs : ProofInv(proof)
  /\ \A c \in spent : \E proof \in proofs : proof.client = c

-----------------------------------------------------------------------------
(* The invariant of the scripts *)

Labels == {"off", "next", "depositing", "deposited", "proved", "withdrawing",
           "answered", "over"}

\* The notes a running script keeps to itself.
Own(s) ==
  IF kind[s] \in Looping THEN {Notes[s][i] : i \in DOMAIN Notes[s]}
  ELSE {Notes[s][1]}

ProofsOf(c) == {proof \in proofs : proof.client = c}

\* The root of a tree that has left the pool's history for good.
Stale(proof) ==
  \E n \in 0..Len(leaves) :
    n <= Len(leaves) - MAX_HISTORICAL_ROOTS /\ proof.list = Prefix(n)

RunInv(s) ==
  /\ kind[s] \in Kinds
  /\ round[s] \in DOMAIN Notes[s]
  /\ kind[s] \notin Looping => round[s] = 1
  /\ kind[s] \in Looping =>
       \A i \in DOMAIN Notes[s] : i > round[s] => phase[Notes[s][i]] = "idle"
  /\ at[s] = "next" => phase[Note(s)] = "idle"
  /\ (at[s] = "depositing" /\ kind[s] = "edge" /\ phase[Note(s)] # "idle") =>
       noteIndex[Note(s)] = leafIdx[s]
  /\ at[s] \in {"next", "depositing", "deposited"} => ProofsOf(Note(s)) = {}
  /\ at[s] \in {"proved", "withdrawing", "answered"} =>
       ProofsOf(Note(s)) = {ProofOf(s)}
  /\ (kind[s] = "overnight" /\ at[s] = "answered") =>
       Note(s) \in spent \/ Note(s) \in barred \/ Stale(ProofOf(s))

ScriptInv(s) ==
  /\ at[s] \in Labels
  /\ leafIdx[s] \in Nat
  /\ at[s] = "off" => round[s] = 1
  /\ at[s] # "off" => RunInv(s)

ScriptTypes ==
  /\ kind = [s \in Scripts |-> kind[s]] /\ at = [s \in Scripts |-> at[s]]
  /\ round = [s \in Scripts |-> round[s]] /\ leafIdx = [s \in Scripts |-> leafIdx[s]]

\* What was sent had passed its simulation.
SentInv(proof) ==
  proof \in proofs /\ \E n \in 0..Len(leaves) : proof.list = Prefix(n)

ReportInv ==
  /\ \A proof \in inflight : SentInv(proof)
  /\ passed \subseteq spent
  /\ leaked \subseteq barred

AllInv ==
  /\ NoteInv
  /\ ScriptTypes
  /\ \A s \in Scripts : ScriptInv(s)
  /\ ReportInv

-----------------------------------------------------------------------------
(* Lists and roots *)

LEMMA NaturalLimits == MAX_HISTORICAL_ROOTS \in Nat \ {0} /\ LIMIT \in Nat
  BY ClientAssumption

LEMMA SentIsNoLeaf == \A leaf \in Sent : leaf # EmptyLeaf
  BY NoteAssumption DEF Sent

LEMMA CommitmentSent ==
  ASSUME NoteInv, NEW c \in Clients
  PROVE  Commitment(c, noteIndex[c]) \in Sent
<1>1. noteIndex[c] \in Nat
  BY DEF NoteInv, ClientInv
<1> QED BY <1>1 DEF Sent, Commitment

\* The list over some leaves of the tree has the root of the first n only if
\* it is the first n: a hole pads as an empty leaf, which nobody sends.
LEMMA RootNamesList ==
  ASSUME TreeInv(Sent), NEW found \in SUBSET (0..(Len(leaves) - 1)),
         NEW n \in 0..Len(leaves), RootOf(Materialize(found)) = RootOf(Prefix(n))
  PROVE  found = 0..(n - 1) /\ Materialize(found) = Prefix(n)
<1>1. Len(leaves) \in Nat /\ leaves \in Seq(Sent)
  BY DEF TreeInv
<1>2. DOMAIN Materialize(found) = found /\ \A k \in found : Materialize(found)[k] = leaves[k + 1]
  BY DEF Materialize
<1>3. DOMAIN Prefix(n) = 0..(n - 1)
  BY DEF Prefix
<1>4. ASSUME NEW k \in 0..(Len(leaves) - 1) PROVE k \in found <=> k \in 0..(n - 1)
  <2>1. k \in 0..(CAPACITY - 1) /\ leaves[k + 1] # EmptyLeaf
    <3>1. Len(leaves) \in 0..Len(leaves) /\ k + 1 \in 1..Len(leaves)
      BY <1>1
    <3>2. leaves[k + 1] \in Sent
      BY <1>1, <3>1
    <3> QED BY <3>1, <3>2, SentIsNoLeaf, PrefixLeaf
  <2>2. Nodes(Materialize(found))[0][k] = Nodes(Prefix(n))[0][k]
    BY <2>1, RootInjective
  <2>3. Nodes(Materialize(found))[0][k] = IF k \in found THEN leaves[k + 1] ELSE EmptyLeaf
    BY <1>2, <2>1, LeafIs
  <2>4. Nodes(Prefix(n))[0][k] = IF k \in 0..(n - 1) THEN leaves[k + 1] ELSE EmptyLeaf
    <3>1. k \in 0..(n - 1) => Prefix(n)[k] = leaves[k + 1]
      BY DEF Prefix
    <3> QED BY <1>3, <2>1, <3>1, LeafIs
  <2> QED BY <2>1, <2>2, <2>3, <2>4
<1>5. found = 0..(n - 1)
  <2>1. 0..(n - 1) \subseteq 0..(Len(leaves) - 1)
    BY <1>1
  <2> QED BY <1>4, <2>1
<1> QED BY <1>5 DEF Materialize, Prefix

\* Trees of different sizes have different roots.
LEMMA RootNamesSize ==
  ASSUME TreeInv(Sent), NEW m \in 0..Len(leaves), NEW n \in 0..Len(leaves),
         RootOf(Prefix(m)) = RootOf(Prefix(n))
  PROVE  m = n
<1>1. Len(leaves) \in Nat
  BY DEF TreeInv
<1>2. 0..(m - 1) \in SUBSET (0..(Len(leaves) - 1)) /\ Prefix(m) = Materialize(0..(m - 1))
  BY <1>1 DEF Prefix, Materialize
<1>3. 0..(m - 1) = 0..(n - 1)
  BY <1>2, RootNamesList
<1>4. m \in Nat /\ n \in Nat
  BY <1>1
<1>5. m > n => n \in 0..(m - 1) /\ n \notin 0..(n - 1)
  BY <1>4
<1>6. n > m => m \in 0..(n - 1) /\ m \notin 0..(m - 1)
  BY <1>4
<1> QED BY <1>3, <1>4, <1>5, <1>6

\* A stale proof is refused, and stays so.
LEMMA StaleIsUnknown ==
  ASSUME TreeInv(Sent), NEW proof, Stale(proof)
  PROVE  ~RootKnown(RootOf(proof.list))
<1>1. PICK n \in 0..Len(leaves) :
        n <= Len(leaves) - MAX_HISTORICAL_ROOTS /\ proof.list = Prefix(n)
  BY DEF Stale
<1>2. Len(leaves) \in Nat
  BY DEF TreeInv
<1>3. SUFFICES ASSUME NEW m \in 0..Len(leaves), m > Len(leaves) - MAX_HISTORICAL_ROOTS,
                      RootOf(proof.list) = RootOf(Prefix(m))
               PROVE  FALSE
  BY DEF RootKnown
<1>4. m = n
  BY <1>1, <1>3, RootNamesSize
<1> QED BY <1>1, <1>2, <1>3, <1>4, NaturalLimits

\* A list that had a root of the pool's is still one of its prefixes; when
\* its root is no longer known, it is stale.
LEMMA KnownOrStale ==
  ASSUME TreeInv(Sent), NEW proof, NEW n \in 0..Len(leaves), proof.list = Prefix(n),
         ~RootKnown(RootOf(proof.list))
  PROVE  Stale(proof)
<1>1. Len(leaves) \in Nat
  BY DEF TreeInv
<1>2. ~(n > Len(leaves) - MAX_HISTORICAL_ROOTS)
  BY DEF RootKnown
<1>3. n <= Len(leaves) - MAX_HISTORICAL_ROOTS
  BY <1>1, <1>2, NaturalLimits
<1> QED BY <1>3 DEF Stale

\* An accepted proof is over the first leaves of the tree, without holes.
LEMMA KnownIsPrefix ==
  ASSUME TreeInv(Sent), NEW proof, ProofInv(proof), RootKnown(RootOf(proof.list))
  PROVE  \E n \in 1..Len(leaves) :
           /\ proof.list = Prefix(n) /\ noteIndex[proof.client] < n
           /\ n > Len(leaves) - MAX_HISTORICAL_ROOTS
<1>1. PICK found \in SUBSET (0..(Len(leaves) - 1)) :
        noteIndex[proof.client] \in found /\ proof.list = Materialize(found)
  BY DEF ProofInv
<1>2. PICK n \in 0..Len(leaves) :
        n > Len(leaves) - MAX_HISTORICAL_ROOTS /\ RootOf(proof.list) = RootOf(Prefix(n))
  BY DEF RootKnown
<1>3. found = 0..(n - 1) /\ Materialize(found) = Prefix(n)
  BY <1>1, <1>2, RootNamesList
<1>4. Len(leaves) \in Nat
  BY DEF TreeInv
<1>5. noteIndex[proof.client] \in 0..(n - 1)
  BY <1>1, <1>3
<1>6. n \in 1..Len(leaves) /\ noteIndex[proof.client] < n
  BY <1>4, <1>5
<1> QED BY <1>1, <1>2, <1>3, <1>6

-----------------------------------------------------------------------------
(* The depositors' steps *)

LEMMA NoteInvInit ==
  ASSUME NoteInit
  PROVE  NoteInv
<1>1. TreeInv(Sent) /\ leaves = <<>> /\ Len(leaves) = 0
  BY TreeInit DEF NoteInit, Init
<1>2. HistoryInv
  BY <1>1 DEF HistoryInv, NoteInit
<1> QED BY <1>1, <1>2 DEF NoteInv, NoteInit, ClientInv

LEMMA LeavesAre ==
  ASSUME NoteInv
  PROVE  leaves \in Seq(Sent) /\ nextLeafIndex = Len(leaves) /\ Len(leaves) \in 0..CAPACITY
  BY CapacityNat DEF NoteInv, TreeInv

\* A note of its owner's is as good after a step that leaves the tree alone.
LEMMA SameTreeProof ==
  ASSUME NEW proof, ProofInv(proof), UNCHANGED treeVars,
         phase'[proof.client] = phase[proof.client],
         noteIndex'[proof.client] = noteIndex[proof.client]
  PROVE  ProofInv(proof)'
  BY DEF ProofInv, LandedWhereMeant, Materialize, treeVars

\* The index of a note that is not sent yet is set.
LEMMA NoteStarts ==
  ASSUME NoteInv, NEW c \in Clients, phase[c] = "idle", NEW index \in Nat,
         noteIndex' = [noteIndex EXCEPT ![c] = index],
         phase' = [phase EXCEPT ![c] = "sent"],
         UNCHANGED <<treeVars, history, proofs, spent>>
  PROVE  NoteInv'
<1>1. TreeInv(Sent)'
  BY TreeStable DEF NoteInv
<1>2. leaves' = leaves
  BY DEF treeVars
<1>3. HistoryInv'
  BY <1>2 DEF NoteInv, HistoryInv
<1>4. ASSUME NEW d \in Clients PROVE ClientInv(d)'
  BY <1>2 DEF NoteInv, ClientInv
<1>5. ASSUME NEW proof \in proofs PROVE ProofInv(proof)'
  <2>1. ProofInv(proof)
    BY DEF NoteInv
  <2>2. proof.client # c /\ proof.client \in Clients
    BY <2>1 DEF ProofInv, LandedWhereMeant
  <2>3. /\ phase'[proof.client] = phase[proof.client]
        /\ noteIndex'[proof.client] = noteIndex[proof.client]
    BY <2>2 DEF NoteInv
  <2> QED BY <2>1, <2>3, SameTreeProof
<1> QED BY <1>1, <1>3, <1>4, <1>5 DEF NoteInv

\* The deposit is over without a leaf.
LEMMA DepositEndsNote ==
  ASSUME NoteInv, NEW c \in Clients, phase[c] = "sent", phase' = [phase EXCEPT ![c] = "idle"],
         HistoryInv', UNCHANGED <<treeVars, noteIndex, proofs, spent>>
  PROVE  NoteInv'
<1>1. TreeInv(Sent)'
  BY TreeStable DEF NoteInv
<1>2. ASSUME NEW d \in Clients PROVE ClientInv(d)'
  BY DEF NoteInv, ClientInv
<1>3. ASSUME NEW proof \in proofs PROVE ProofInv(proof)'
  <2>1. ProofInv(proof)
    BY DEF NoteInv
  <2>2. proof.client # c /\ proof.client \in Clients
    BY <2>1 DEF ProofInv, LandedWhereMeant
  <2>3. /\ phase'[proof.client] = phase[proof.client]
        /\ noteIndex'[proof.client] = noteIndex[proof.client]
    BY <2>2 DEF NoteInv
  <2> QED BY <2>1, <2>3, SameTreeProof
<1> QED BY <1>1, <1>2, <1>3 DEF NoteInv

LEMMA DepositExpiresNote ==
  ASSUME NoteInv, NEW c \in Clients, DepositExpires(c)
  PROVE  NoteInv'
<1>1. HistoryInv'
  BY DEF NoteInv, HistoryInv, DepositExpires, treeVars
<1> QED BY <1>1, DepositEndsNote DEF DepositExpires

\* The tree only grows to the right.
Extends ==
  /\ Len(leaves) <= Len(leaves')
  /\ \A k \in 1..Len(leaves) : leaves'[k] = leaves[k]

LEMMA ExtendsKeeps ==
  ASSUME NoteInv, Extends
  PROVE  /\ \A n \in 0..Len(leaves) : Prefix(n)' = Prefix(n)
         /\ \A found \in SUBSET (0..(Len(leaves) - 1)) :
              Materialize(found)' = Materialize(found)
<1>1. Len(leaves) \in Nat
  BY LeavesAre
<1>2. ASSUME NEW k \in 0..(Len(leaves) - 1) PROVE leaves'[k + 1] = leaves[k + 1]
  <2>1. k + 1 \in 1..Len(leaves)
    BY <1>1
  <2> QED BY <2>1 DEF Extends
<1>3. ASSUME NEW n \in 0..Len(leaves) PROVE Prefix(n)' = Prefix(n)
  <2>1. \A k \in 0..(n - 1) : k \in 0..(Len(leaves) - 1)
    BY <1>1
  <2> QED BY <1>2, <2>1 DEF Prefix
<1>4. ASSUME NEW found \in SUBSET (0..(Len(leaves) - 1))
      PROVE  Materialize(found)' = Materialize(found)
  BY <1>2 DEF Materialize
<1> QED BY <1>3, <1>4

LEMMA DepositExtends ==
  ASSUME NoteInv, NEW c \in Clients, DepositLands(c)
  PROVE  /\ Extends /\ Len(leaves') = Len(leaves) + 1
         /\ leaves' = Append(leaves, Commitment(c, noteIndex[c]))
         /\ Commitment(c, noteIndex[c]) \in Sent
<1>1. Commitment(c, noteIndex[c]) \in Sent
  BY CommitmentSent
<1>2. leaves \in Seq(Sent) /\ leaves' = Append(leaves, Commitment(c, noteIndex[c]))
  BY LeavesAre DEF DepositLands, InsertLeaf
<1> QED BY <1>1, <1>2 DEF Extends

LEMMA AppendTo ==
  ASSUME NEW H, NEW q \in Seq(H), NEW x \in H
  PROVE  /\ Append(q, x) \in Seq(H)
         /\ {Append(q, x)[k] : k \in 1..Len(Append(q, x))} = {q[k] : k \in 1..Len(q)} \union {x}
<1> DEFINE r == Append(q, x)
<1>1. /\ r \in Seq(H) /\ Len(r) = Len(q) + 1 /\ Len(q) \in Nat
      /\ \A k \in 1..Len(q) : r[k] = q[k]
      /\ r[Len(q) + 1] = x
  OBVIOUS
<1>2. 1..Len(r) = 1..Len(q) \union {Len(q) + 1}
  BY <1>1
<1> HIDE DEF r
<1>3. {r[k] : k \in 1..Len(r)} = {q[k] : k \in 1..Len(q)} \union {x}
  BY <1>1, <1>2
<1> QED BY <1>1, <1>3 DEF r

LEMMA DepositLandsNote ==
  ASSUME NoteInv, NEW c \in Clients, DepositLands(c)
  PROVE  NoteInv'
<1>1. /\ Extends /\ Len(leaves') = Len(leaves) + 1
      /\ leaves' = Append(leaves, Commitment(c, noteIndex[c]))
      /\ Commitment(c, noteIndex[c]) \in Sent
  BY DepositExtends
<1>2. TreeInv(Sent)'
  BY <1>1, TreeStep DEF NoteInv, DepositLands
<1>3. Len(leaves) \in Nat /\ nextLeafIndex = Len(leaves) /\ Len(leaves) < CAPACITY
      /\ CAPACITY \in Nat
  BY LeavesAre, CapacityNat DEF DepositLands, InsertLeaf
<1>4. HistoryInv'
  <2> DEFINE H == {NoLeaf} \union 0..(CAPACITY - 1)
             n == Len(leaves)
  <2>1. history \in Seq(H) /\ n \in H /\ history' = Append(history, n)
    BY <1>3 DEF NoteInv, HistoryInv, DepositLands
  <2>2. history' \in Seq(H)
    <3> HIDE DEF H, n
    <3> QED BY <2>1, AppendTo
  <2>3. {history'[k] : k \in 1..Len(history')} = {history[k] : k \in 1..Len(history)} \union {n}
    <3> HIDE DEF H, n
    <3> QED BY <2>1, AppendTo
  <2>4. {history[k] : k \in 1..Len(history)} \ {NoLeaf} = 0..(n - 1)
    BY DEF NoteInv, HistoryInv
  <2>5. n # NoLeaf /\ 0..(n - 1) \union {n} = 0..((n + 1) - 1)
    BY <1>3 DEF NoLeaf
  <2>6. {history'[k] : k \in 1..Len(history')} \ {NoLeaf} = 0..(Len(leaves') - 1)
    <3>1. Len(leaves') = n + 1
      BY <1>1
    <3> HIDE DEF n, H
    <3> QED BY <2>3, <2>4, <2>5, <3>1
  <2> QED BY <2>2, <2>6 DEF HistoryInv
<1>5. ASSUME NEW d \in Clients PROVE ClientInv(d)'
  BY <1>1, <1>3 DEF NoteInv, ClientInv, DepositLands
<1>6. ASSUME NEW proof \in proofs PROVE ProofInv(proof)'
  <2>1. ProofInv(proof)
    BY DEF NoteInv
  <2> DEFINE d == proof.client
  <2>2. d # c /\ d \in Clients /\ phase[d] = "deposited"
    BY <2>1 DEF ProofInv, LandedWhereMeant, DepositLands
  <2>3. phase'[d] = phase[d] /\ noteIndex'[d] = noteIndex[d]
    BY <2>2 DEF NoteInv, DepositLands
  <2>4. noteIndex[d] + 1 \in 1..Len(leaves)
    BY <1>3, <2>1, <2>2 DEF NoteInv, ClientInv, ProofInv, LandedWhereMeant
  <2>5. leaves'[noteIndex[d] + 1] = leaves[noteIndex[d] + 1] /\ noteIndex[d] < Len(leaves')
    BY <1>1, <1>3, <2>4, <2>2 DEF Extends, NoteInv, ClientInv
  <2>6. PICK found \in SUBSET (0..(Len(leaves) - 1)) :
          noteIndex[d] \in found /\ proof.list = Materialize(found)
    BY <2>1 DEF ProofInv
  <2>7. /\ found \in SUBSET (0..(Len(leaves') - 1))
        /\ Materialize(found)' = Materialize(found)
    BY <1>1, <1>3, ExtendsKeeps
  <2> QED BY <2>1, <2>2, <2>3, <2>5, <2>6, <2>7 DEF ProofInv, LandedWhereMeant
<1> QED BY <1>2, <1>4, <1>5, <1>6 DEF NoteInv, DepositLands

\* A step that takes a place in the history without a deposit.
LEMMA TrafficHistory ==
  ASSUME NoteInv, history' = Append(history, NoLeaf), UNCHANGED treeVars
  PROVE  HistoryInv'
<1> DEFINE H == {NoLeaf} \union 0..(CAPACITY - 1)
<1>1. history \in Seq(H) /\ NoLeaf \in H
  BY DEF NoteInv, HistoryInv
<1>2. history' \in Seq(H)
  <2> HIDE DEF H
  <2> QED BY <1>1, AppendTo
<1>3. {history'[k] : k \in 1..Len(history')}
        = {history[k] : k \in 1..Len(history)} \union {NoLeaf}
  <2> HIDE DEF H
  <2> QED BY <1>1, AppendTo
<1> QED BY <1>2, <1>3 DEF NoteInv, HistoryInv, treeVars

\* Such a step may spend notes there are proofs for.
LEMMA TrafficNote ==
  ASSUME NoteInv, history' = Append(history, NoLeaf),
         UNCHANGED <<treeVars, phase, noteIndex, proofs>>,
         \A c \in spent' : c \in spent \/ \E proof \in proofs : proof.client = c
  PROVE  NoteInv'
<1>1. TreeInv(Sent)' /\ leaves' = leaves
  BY TreeStable DEF NoteInv, treeVars
<1>2. HistoryInv'
  BY TrafficHistory
<1>3. ASSUME NEW d \in Clients PROVE ClientInv(d)'
  BY <1>1 DEF NoteInv, ClientInv
<1>4. ASSUME NEW proof \in proofs PROVE ProofInv(proof)'
  BY SameTreeProof DEF NoteInv
<1> QED BY <1>1, <1>2, <1>3, <1>4 DEF NoteInv

LEMMA GenerateProofNote ==
  ASSUME NoteInv, NEW c \in Clients, GenerateProof(c)
  PROVE  /\ NoteInv'
         /\ \E proof : proof.client = c /\ proofs' = proofs \union {proof}
<1>1. TreeInv(Sent)' /\ leaves' = leaves
  BY TreeStable DEF NoteInv, treeVars, GenerateProof
<1>2. HistoryInv'
  BY <1>1 DEF NoteInv, HistoryInv, GenerateProof
<1>3. ASSUME NEW d \in Clients PROVE ClientInv(d)'
  BY <1>1 DEF NoteInv, ClientInv, GenerateProof
<1>4. PICK found \in SUBSET LeafIndices :
        /\ noteIndex[c] \in DOMAIN Materialize(found)
        /\ Materialize(found)[noteIndex[c]] = Commitment(c, noteIndex[c])
        /\ proofs' = proofs \union {[client |-> c, list |-> Materialize(found)]}
  BY DEF GenerateProof
<1> DEFINE made == [client |-> c, list |-> Materialize(found)]
<1>5. found \in SUBSET (0..(Len(leaves) - 1))
  <2>1. LeafIndices \subseteq {history[k] : k \in 1..Len(history)} \ {NoLeaf}
    BY DEF LeafIndices, InWindow
  <2> QED BY <2>1 DEF NoteInv, HistoryInv
<1>6. ProofInv(made)
  <2>1. noteIndex[c] \in found /\ leaves[noteIndex[c] + 1] = Commitment(c, noteIndex[c])
    BY <1>4 DEF Materialize
  <2> QED BY <1>5, <2>1 DEF ProofInv, LandedWhereMeant, GenerateProof
<1>7. ASSUME NEW proof \in proofs' PROVE ProofInv(proof)'
  <2>1. ProofInv(proof)
    <3> HIDE DEF made
    <3> QED BY <1>4, <1>6 DEF NoteInv, made
  <2> QED BY <2>1, SameTreeProof DEF GenerateProof
<1> QED BY <1>1, <1>2, <1>3, <1>4, <1>7 DEF NoteInv, GenerateProof

LEMMA NoteStable ==
  ASSUME NoteInv, UNCHANGED vars
  PROVE  NoteInv'
<1>1. TreeInv(Sent)' /\ leaves' = leaves
  BY TreeStable DEF NoteInv, vars, treeVars
<1>2. ASSUME NEW proof \in proofs PROVE ProofInv(proof)'
  BY SameTreeProof DEF NoteInv, vars, clientVars
<1> QED BY <1>1, <1>2 DEF NoteInv, HistoryInv, ClientInv, vars, clientVars

-----------------------------------------------------------------------------
(* Steps a script has no part in *)

LEMMA NotesAre ==
  ASSUME NEW s \in Scripts
  PROVE  /\ Notes[s] \in Seq(Clients) /\ 1 \in DOMAIN Notes[s]
         /\ DOMAIN Notes[s] = 1..Len(Notes[s])
         /\ \A i \in DOMAIN Notes[s] : Notes[s][i] \in Clients
<1>1. Notes[s] \in Seq(Clients) /\ Notes[s] # <<>>
  BY ScriptsAssumption
<1> DEFINE q == Notes[s]
<1> HIDE DEF q
<1>2. q \in Seq(Clients) /\ q # <<>>
  BY <1>1 DEF q
<1>3. Len(q) \in Nat /\ Len(q) # 0 /\ DOMAIN q = 1..Len(q)
  BY <1>2
<1>4. \A i \in DOMAIN q : q[i] \in Clients
  BY <1>2
<1> QED BY <1>2, <1>3, <1>4 DEF q

LEMMA OwnNotes ==
  ASSUME NEW s \in Scripts, RunInv(s)
  PROVE  Note(s) \in Own(s) /\ Own(s) \subseteq Clients /\ Note(s) \in Clients
  BY NotesAre DEF RunInv, Note, Own

LEMMA OwnInHand ==
  ASSUME NEW s \in Scripts, at[s] # "off"
  PROVE  Own(s) \subseteq InHand
  BY DEF Own, InHand

LEMMA OwnApart ==
  ASSUME NEW s \in Scripts, NEW t \in Scripts, s # t, RunInv(t)
  PROVE  Note(t) \notin Own(s)
  BY ScriptsAssumption, NotesAre DEF RunInv, Note, Own

LEMMA ChosenProof ==
  ASSUME NEW P, NEW c, NEW p, {q \in P : q.client = c} = {p}
  PROVE  p \in P /\ p.client = c /\ (CHOOSE q \in P : q.client = c) = p
<1>1. p \in P /\ p.client = c
  OBVIOUS
<1>2. (CHOOSE q \in P : q.client = c) \in P /\ (CHOOSE q \in P : q.client = c).client = c
  BY <1>1
<1> QED BY <1>1, <1>2

\* What a step may do to the notes of a script that does not take it: its
\* deposit may land or expire, and the tree may grow.
Foreign(s) ==
  /\ Extends /\ spent \subseteq spent' /\ barred \subseteq barred'
  /\ kind'[s] = kind[s] /\ at'[s] = at[s] /\ round'[s] = round[s] /\ leafIdx'[s] = leafIdx[s]
  /\ at[s] # "off" =>
       \A c \in Own(s) :
         /\ noteIndex'[c] = noteIndex[c] /\ ProofsOf(c)' = ProofsOf(c)
         /\ \/ phase'[c] = phase[c]
            \/ phase[c] = "sent" /\ phase'[c] \in {"idle", "deposited"}

LEMMA ForeignScript ==
  ASSUME NoteInv, NoteInv', NEW s \in Scripts, ScriptInv(s), Foreign(s)
  PROVE  ScriptInv(s)'
<1>1. Len(leaves) \in Nat /\ Len(leaves') \in Nat /\ Len(leaves) <= Len(leaves')
  BY LeavesAre DEF NoteInv, TreeInv, Foreign, Extends
<1>2. leafIdx'[s] \in Nat
  BY DEF ScriptInv, Foreign
<1>3. ASSUME at[s] # "off" PROVE RunInv(s)'
  <2>1. RunInv(s)
    BY <1>3 DEF ScriptInv
  <2>c. PICK c : c = Note(s)
    OBVIOUS
  <2>2. Note(s)' = c /\ c \in Own(s)
    BY <2>c, <2>1, OwnNotes DEF Note, Foreign
  <2>3. /\ noteIndex'[c] = noteIndex[c] /\ ProofsOf(c)' = ProofsOf(c)
        /\ \/ phase'[c] = phase[c]
           \/ phase[c] = "sent" /\ phase'[c] \in {"idle", "deposited"}
    BY <1>3, <2>2 DEF Foreign
  <2>4. ASSUME kind[s] \in Looping, NEW i \in DOMAIN Notes[s], i > round[s]
        PROVE  phase'[Notes[s][i]] = "idle"
    <3>1. Notes[s][i] \in Own(s) /\ phase[Notes[s][i]] = "idle"
      BY <2>1, <2>4 DEF RunInv, Own
    <3> QED BY <1>3, <3>1 DEF Foreign
  <2>5. ASSUME at[s] \in {"proved", "withdrawing", "answered"}
        PROVE  ProofOf(s)' = ProofOf(s) /\ ProofsOf(c)' = {ProofOf(s)}
    <3>1. ProofsOf(c)' = {ProofOf(s)}
      BY <2>c, <2>1, <2>3, <2>5 DEF RunInv
    <3>2. {q \in proofs' : q.client = c} = {ProofOf(s)}
      BY <3>1 DEF ProofsOf
    <3>3. (CHOOSE q \in proofs' : q.client = c) = ProofOf(s)
      BY <3>2, ChosenProof
    <3> QED BY <2>2, <3>1, <3>3 DEF ProofOf
  <2>6. ASSUME kind[s] = "overnight", at[s] = "answered"
        PROVE  c \in spent' \/ c \in barred' \/ Stale(ProofOf(s))'
    <3>1. CASE c \in spent \/ c \in barred
      BY <3>1 DEF Foreign
    <3>2. CASE Stale(ProofOf(s))
      <4>1. PICK n \in 0..Len(leaves) :
              n <= Len(leaves) - MAX_HISTORICAL_ROOTS /\ ProofOf(s).list = Prefix(n)
        BY <3>2 DEF Stale
      <4>2. Prefix(n)' = Prefix(n)
        BY ExtendsKeeps DEF Foreign
      <4>3. n \in 0..Len(leaves') /\ n <= Len(leaves') - MAX_HISTORICAL_ROOTS
        BY <1>1, <4>1, NaturalLimits
      <4>4. ProofOf(s)' = ProofOf(s)
        BY <2>5, <2>6
      <4> QED BY <4>1, <4>2, <4>3, <4>4 DEF Stale
    <3> QED BY <2>c, <2>1, <2>6, <3>1, <3>2 DEF RunInv
  <2>7. kind'[s] = kind[s] /\ at'[s] = at[s] /\ round'[s] = round[s] /\ leafIdx'[s] = leafIdx[s]
    BY DEF Foreign
  <2>8. /\ kind'[s] \in Kinds /\ round'[s] \in DOMAIN Notes[s]
        /\ kind'[s] \notin Looping => round'[s] = 1
    BY <2>1, <2>7 DEF RunInv
  <2>9. kind'[s] \in Looping =>
          \A i \in DOMAIN Notes[s] : i > round'[s] => phase'[Notes[s][i]] = "idle"
    BY <2>4, <2>7
  <2>10. at'[s] = "next" => phase'[c] = "idle"
    BY <2>c, <2>1, <2>3, <2>7 DEF RunInv
  <2>11. (at'[s] = "depositing" /\ kind'[s] = "edge" /\ phase'[c] # "idle") =>
           noteIndex'[c] = leafIdx'[s]
    BY <2>c, <2>1, <2>3, <2>7 DEF RunInv
  <2>12. at'[s] \in {"next", "depositing", "deposited"} => ProofsOf(c)' = {}
    BY <2>c, <2>1, <2>3, <2>7 DEF RunInv
  <2>13. at'[s] \in {"proved", "withdrawing", "answered"} => ProofsOf(c)' = {ProofOf(s)'}
    BY <2>5, <2>7
  <2>14. (kind'[s] = "overnight" /\ at'[s] = "answered") =>
           c \in spent' \/ c \in barred' \/ Stale(ProofOf(s))'
    BY <2>6, <2>7
  <2>15. Note(s)' = c
    BY <2>2
  <2>16. ProofsOf(Note(s))' = ProofsOf(c)'
    BY <2>15 DEF ProofsOf
  <2> QED BY <2>16, <2>8, <2>9, <2>10, <2>11, <2>12, <2>13, <2>14, <2>15 DEF RunInv
<1> QED BY <1>2, <1>3 DEF ScriptInv, Foreign

SameScript(s) ==
  kind'[s] = kind[s] /\ at'[s] = at[s] /\ round'[s] = round[s] /\ leafIdx'[s] = leafIdx[s]

LEMMA SameLeavesExtend ==
  ASSUME NoteInv, UNCHANGED treeVars
  PROVE  Extends
  BY LeavesAre DEF Extends, treeVars

LEMMA StartForeign ==
  ASSUME AllInv, NEW s \in Scripts, SameScript(s), NEW c, at[s] # "off" => c \notin Own(s),
         NEW index, NEW label,
         noteIndex' = [noteIndex EXCEPT ![c] = index], phase' = [phase EXCEPT ![c] = label],
         UNCHANGED <<treeVars, proofs, spent, barred>>
  PROVE  Foreign(s)
<1>1. Extends
  BY SameLeavesExtend DEF AllInv
<1>2. ASSUME at[s] # "off", NEW d \in Own(s)
      PROVE  noteIndex'[d] = noteIndex[d] /\ phase'[d] = phase[d] /\ ProofsOf(d)' = ProofsOf(d)
  <2>1. d \in Clients /\ d # c
    BY <1>2, OwnNotes DEF AllInv, ScriptInv
  <2> QED BY <2>1 DEF AllInv, NoteInv, ProofsOf
<1> QED BY <1>1, <1>2 DEF Foreign, SameScript

LEMMA PhaseForeign ==
  ASSUME AllInv, NEW s \in Scripts, SameScript(s), Extends, NEW c, phase[c] = "sent",
         NEW label \in {"idle", "deposited"}, phase' = [phase EXCEPT ![c] = label],
         UNCHANGED <<noteIndex, proofs, spent, barred>>
  PROVE  Foreign(s)
<1>1. ASSUME at[s] # "off", NEW d \in Own(s)
      PROVE  /\ noteIndex'[d] = noteIndex[d] /\ ProofsOf(d)' = ProofsOf(d)
             /\ \/ phase'[d] = phase[d]
                \/ phase[d] = "sent" /\ phase'[d] \in {"idle", "deposited"}
  <2>1. d \in Clients
    BY <1>1, OwnNotes DEF AllInv, ScriptInv
  <2> QED BY <2>1 DEF AllInv, NoteInv, ProofsOf
<1> QED BY <1>1 DEF Foreign, SameScript

LEMMA ProofForeign ==
  ASSUME AllInv, NEW s \in Scripts, SameScript(s), NEW proof,
         at[s] # "off" => proof.client \notin Own(s), proofs' = proofs \union {proof},
         UNCHANGED <<treeVars, phase, noteIndex, spent, barred>>
  PROVE  Foreign(s)
<1>1. Extends
  BY SameLeavesExtend DEF AllInv
<1>2. ASSUME at[s] # "off", NEW d \in Own(s) PROVE ProofsOf(d)' = ProofsOf(d)
  BY <1>2 DEF ProofsOf
<1> QED BY <1>1, <1>2 DEF Foreign, SameScript

LEMMA TrafficForeign ==
  ASSUME AllInv, NEW s \in Scripts, SameScript(s), spent \subseteq spent',
         barred \subseteq barred', UNCHANGED <<treeVars, phase, noteIndex, proofs>>
  PROVE  Foreign(s)
<1>1. Extends
  BY SameLeavesExtend DEF AllInv
<1> QED BY <1>1 DEF Foreign, SameScript, ProofsOf

LEMMA QuietForeign ==
  ASSUME AllInv, NEW s \in Scripts, SameScript(s), UNCHANGED <<vars, barred>>
  PROVE  Foreign(s)
  BY TrafficForeign DEF vars, clientVars

LEMMA ReportKeeps ==
  ASSUME AllInv, Extends, Len(leaves') \in Nat,
         proofs \subseteq proofs', spent \subseteq spent',
         inflight' \subseteq inflight, barred \subseteq barred', UNCHANGED <<passed, leaked>>
  PROVE  ReportInv'
<1>1. ASSUME NEW proof \in inflight' PROVE SentInv(proof)'
  <2>1. proof \in proofs
    BY <1>1 DEF AllInv, ReportInv, SentInv
  <2>2. PICK n \in 0..Len(leaves) : proof.list = Prefix(n)
    BY <1>1 DEF AllInv, ReportInv, SentInv
  <2>3. Prefix(n)' = Prefix(n) /\ n \in 0..Len(leaves')
    BY LeavesAre, ExtendsKeeps DEF AllInv, Extends
  <2> QED BY <2>1, <2>2, <2>3 DEF SentInv
<1> QED BY <1>1 DEF ReportInv, AllInv

LEMMA Together ==
  ASSUME AllInv, NoteInv', ScriptTypes', ReportInv',
         \A s \in Scripts : Foreign(s) \/ ScriptInv(s)'
  PROVE  AllInv'
<1>1. \A s \in Scripts : ScriptInv(s)'
  BY ForeignScript DEF AllInv
<1> QED BY <1>1 DEF AllInv

\* The steps of depositors and relayers beside the scripts.
LEMMA OthersStep ==
  ASSUME AllInv, UNCHANGED scriptVars,
         \/ \E c \in Clients : DepositLands(c) \/ DepositExpires(c)
         \/ \E c \in Clients \ InHand : ReadPool(c) \/ GenerateProof(c)
         \/ \E proof \in proofs : Relayed(proof) /\ WithdrawLands(proof)
         \/ OtherTraffic
  PROVE  AllInv'
<1>1. \A s \in Scripts : SameScript(s)
  BY DEF scriptVars, SameScript
<1>2. ScriptTypes'
  BY DEF scriptVars, ScriptTypes, AllInv
<1>3. NoteInv
  BY DEF AllInv
<1>4. inflight' \subseteq inflight /\ UNCHANGED <<barred, passed, leaked>>
  BY DEF scriptVars
<1>5. ASSUME NEW c \in Clients, DepositLands(c) PROVE AllInv'
  <2>1. NoteInv'
    BY <1>3, <1>5, DepositLandsNote
  <2>2. Extends /\ Len(leaves') \in Nat
    BY <1>3, <1>5, <2>1, DepositExtends DEF NoteInv, TreeInv
  <2>3. UNCHANGED <<noteIndex, proofs, spent>> /\ phase[c] = "sent"
        /\ phase' = [phase EXCEPT ![c] = "deposited"]
    BY <1>5 DEF DepositLands
  <2>4. \A s \in Scripts : Foreign(s)
    BY <1>1, <1>4, <2>2, <2>3, PhaseForeign
  <2>5. ReportInv'
    BY <1>4, <2>2, <2>3, ReportKeeps
  <2> QED BY <1>2, <2>1, <2>4, <2>5, Together
<1>6. ASSUME NEW c \in Clients, DepositExpires(c) PROVE AllInv'
  <2>1. NoteInv'
    BY <1>3, <1>6, DepositExpiresNote
  <2>2. Extends /\ Len(leaves') \in Nat
    BY <1>3, <1>6, <2>1, SameLeavesExtend DEF NoteInv, TreeInv, DepositExpires
  <2>3. UNCHANGED <<noteIndex, proofs, spent>> /\ phase[c] = "sent"
        /\ phase' = [phase EXCEPT ![c] = "idle"]
    BY <1>6 DEF DepositExpires
  <2>4. \A s \in Scripts : Foreign(s)
    BY <1>1, <1>4, <2>2, <2>3, PhaseForeign
  <2>5. ReportInv'
    BY <1>4, <2>2, <2>3, ReportKeeps
  <2> QED BY <1>2, <2>1, <2>4, <2>5, Together
<1>7. ASSUME NEW c \in Clients \ InHand, ReadPool(c) PROVE AllInv'
  <2>1. /\ noteIndex' = [noteIndex EXCEPT ![c] = nextLeafIndex] /\ phase[c] = "idle"
        /\ phase' = [phase EXCEPT ![c] = "sent"]
        /\ UNCHANGED <<treeVars, history, proofs, spent>>
    BY <1>7 DEF ReadPool
  <2>2. nextLeafIndex \in Nat
    BY <1>3, LeavesAre
  <2>3. NoteInv'
    BY <1>3, <2>1, <2>2, NoteStarts
  <2>4. Extends /\ Len(leaves') \in Nat
    BY <1>3, <2>1, <2>3, SameLeavesExtend DEF NoteInv, TreeInv
  <2>5. ASSUME NEW s \in Scripts PROVE Foreign(s)
    <3>1. at[s] # "off" => c \notin Own(s)
      BY <1>7, OwnInHand
    <3> QED BY <1>1, <1>4, <2>1, <3>1, StartForeign
  <2>6. ReportInv'
    BY <1>4, <2>1, <2>4, ReportKeeps
  <2> QED BY <1>2, <2>3, <2>5, <2>6, Together
<1>8. ASSUME NEW c \in Clients \ InHand, GenerateProof(c) PROVE AllInv'
  <2>1. NoteInv'
    BY <1>3, <1>8, GenerateProofNote
  <2>2. PICK proof : proof.client = c /\ proofs' = proofs \union {proof}
    BY <1>3, <1>8, GenerateProofNote
  <2>3. UNCHANGED <<treeVars, phase, noteIndex, spent>>
    BY <1>8 DEF GenerateProof
  <2>4. Extends /\ Len(leaves') \in Nat
    BY <1>3, <2>1, <2>3, SameLeavesExtend DEF NoteInv, TreeInv
  <2>5. ASSUME NEW s \in Scripts PROVE Foreign(s)
    <3>1. at[s] # "off" => proof.client \notin Own(s)
      BY <1>8, <2>2, OwnInHand
    <3> QED BY <1>1, <1>4, <2>2, <2>3, <3>1, ProofForeign
  <2>6. ReportInv'
    BY <1>4, <2>2, <2>3, <2>4, ReportKeeps
  <2> QED BY <1>2, <2>1, <2>5, <2>6, Together
<1>9. ASSUME history' = Append(history, NoLeaf), UNCHANGED <<treeVars, phase, noteIndex, proofs>>,
             spent \subseteq spent',
             \A c \in spent' : c \in spent \/ \E proof \in proofs : proof.client = c
      PROVE  AllInv'
  <2>1. NoteInv'
    BY <1>3, <1>9, TrafficNote
  <2>2. Extends /\ Len(leaves') \in Nat
    BY <1>3, <1>9, <2>1, SameLeavesExtend DEF NoteInv, TreeInv
  <2>3. \A s \in Scripts : Foreign(s)
    BY <1>1, <1>4, <1>9, TrafficForeign
  <2>4. ReportInv'
    BY <1>4, <1>9, <2>2, ReportKeeps
  <2> QED BY <1>2, <2>1, <2>3, <2>4, Together
<1>10. ASSUME NEW proof \in proofs, WithdrawLands(proof) PROVE AllInv'
  BY <1>9, <1>10 DEF WithdrawLands
<1>11. ASSUME OtherTraffic PROVE AllInv'
  BY <1>9, <1>11 DEF OtherTraffic
<1> QED BY <1>5, <1>6, <1>7, <1>8, <1>10, <1>11

-----------------------------------------------------------------------------
(* The scripts' own steps *)

LEMMA IdleHasNoProofs ==
  ASSUME NoteInv, NEW c, phase[c] # "deposited"
  PROVE  ProofsOf(c) = {}
  BY DEF NoteInv, ProofInv, LandedWhereMeant, ProofsOf

\* A step that only moves scripts about.
LEMMA QuietStep ==
  ASSUME AllInv, UNCHANGED <<vars, barred>>, ScriptTypes', NEW t \in Scripts, ScriptInv(t)',
         \A s \in Scripts \ {t} : SameScript(s), ReportInv'
  PROVE  AllInv'
<1>1. NoteInv'
  BY NoteStable DEF AllInv
<1>2. \A s \in Scripts : Foreign(s) \/ ScriptInv(s)'
  BY QuietForeign
<1> QED BY <1>1, <1>2, Together

LEMMA QuietReport ==
  ASSUME AllInv, UNCHANGED vars, inflight' \subseteq inflight,
         UNCHANGED <<barred, passed, leaked>>
  PROVE  ReportInv'
<1>1. Extends /\ Len(leaves') \in Nat
  BY SameLeavesExtend, LeavesAre DEF AllInv, vars, treeVars
<1> QED BY <1>1, ReportKeeps DEF vars, clientVars

LEMMA BeginScript ==
  ASSUME AllInv, NEW t \in Scripts, NEW k \in Kinds, Begin(t, k)
  PROVE  AllInv'
<1>1. /\ UNCHANGED <<vars, barred>>
      /\ ScriptTypes' /\ (\A s \in Scripts \ {t} : SameScript(s))
      /\ kind'[t] = k /\ at'[t] = "next" /\ round'[t] = 1
      /\ leafIdx'[t] = IF k = "edge" THEN nextLeafIndex ELSE 0
  <2>1. round[t] = 1
    BY DEF AllInv, ScriptInv, Begin
  <2> QED BY <2>1 DEF AllInv, Begin, Goto, ScriptTypes, SameScript
<1>2. leafIdx'[t] \in Nat
  BY <1>1, LeavesAre DEF AllInv
<1>3. PICK c : c = Notes[t][1]
  OBVIOUS
<1>4. Note(t)' = c
  BY <1>1, <1>3 DEF Note
<1>5. 1 \in DOMAIN Notes[t] /\ \A i \in DOMAIN Notes[t] : phase[Notes[t][i]] = "idle"
  BY NotesAre DEF Begin
<1>6. ProofsOf(c) = {}
  BY <1>3, <1>5, IdleHasNoProofs DEF AllInv
<1>7. ProofsOf(Note(t))' = {}
  BY <1>1, <1>4, <1>6 DEF ProofsOf, vars, clientVars
<1>8. phase' = phase /\ leaves' = leaves
  BY <1>1 DEF vars, clientVars, treeVars
<1>9. RunInv(t)'
  BY <1>1, <1>3, <1>4, <1>5, <1>7, <1>8 DEF RunInv
<1>10. ScriptInv(t)'
  BY <1>1, <1>2, <1>8, <1>9 DEF ScriptInv, Labels
<1>11. ReportInv'
  BY <1>1, QuietReport DEF Begin
<1> QED BY <1>1, <1>10, <1>11, QuietStep

\* On to the next note, which nobody has touched.
LEMMA NextNoteScript ==
  ASSUME AllInv, NEW t \in Scripts, at[t] # "off", NextNote(t),
         UNCHANGED <<vars, kind, leafIdx, barred>>, ReportInv'
  PROVE  AllInv'
<1>0. RunInv(t) /\ phase' = phase /\ leaves' = leaves /\ ScriptTypes /\ proofs' = proofs
  BY DEF AllInv, ScriptInv, vars, clientVars, treeVars
<1>1. CASE kind[t] \in Looping /\ round[t] < Len(Notes[t])
  <2>1. /\ at' = [at EXCEPT ![t] = "next"] /\ round' = [round EXCEPT ![t] = round[t] + 1]
    BY <1>1 DEF NextNote, Goto
  <2>2. /\ ScriptTypes' /\ (\A s \in Scripts \ {t} : SameScript(s))
        /\ kind'[t] = kind[t] /\ at'[t] = "next" /\ round'[t] = round[t] + 1
        /\ leafIdx'[t] = leafIdx[t]
    BY <1>0, <2>1 DEF ScriptTypes, SameScript
  <2>3. round[t] + 1 \in DOMAIN Notes[t] /\ round[t] + 1 > round[t] /\ round[t] \in Nat
    BY <1>0, <1>1, NotesAre DEF RunInv
  <2>4. PICK c : c = Notes[t][round[t] + 1]
    OBVIOUS
  <2>5. Note(t)' = c /\ phase[c] = "idle"
    BY <1>0, <1>1, <2>2, <2>3, <2>4 DEF Note, RunInv
  <2>6. ProofsOf(c) = {}
    BY <2>5, IdleHasNoProofs DEF AllInv
  <2>7. ProofsOf(Note(t))' = {}
    BY <1>0, <2>5, <2>6 DEF ProofsOf
  <2>8. \A i \in DOMAIN Notes[t] : i > round[t] + 1 => phase[Notes[t][i]] = "idle"
    <3>1. \A i \in DOMAIN Notes[t] : i \in Nat
      BY NotesAre
    <3> QED BY <1>0, <1>1, <2>3, <3>1 DEF RunInv
  <2>9. RunInv(t)'
    BY <1>0, <1>1, <2>2, <2>3, <2>5, <2>7, <2>8 DEF RunInv
  <2>10. ScriptInv(t)'
    BY <1>0, <2>2, <2>9 DEF AllInv, ScriptInv, Labels
  <2> QED BY <2>2, <2>10, QuietStep
<1>2. CASE ~(kind[t] \in Looping /\ round[t] < Len(Notes[t]))
  <2>1. at' = [at EXCEPT ![t] = "over"] /\ round' = round
    BY <1>2 DEF NextNote, Goto
  <2>2. /\ ScriptTypes' /\ (\A s \in Scripts \ {t} : SameScript(s))
        /\ kind'[t] = kind[t] /\ at'[t] = "over" /\ round'[t] = round[t]
        /\ leafIdx'[t] = leafIdx[t]
    BY <1>0, <2>1 DEF ScriptTypes, SameScript
  <2>3. RunInv(t)'
    BY <1>0, <2>2 DEF RunInv
  <2>4. ScriptInv(t)'
    BY <1>0, <2>2, <2>3 DEF AllInv, ScriptInv, Labels
  <2> QED BY <2>2, <2>4, QuietStep
<1> QED BY <1>1, <1>2

\* The deposit is sent: with the index just read, or the counter's.
LEMMA DepositScript ==
  ASSUME AllInv, NEW t \in Scripts, at[t] = "next", NEW index \in Nat,
         kind[t] = "edge" => index = leafIdx[t],
         noteIndex' = [noteIndex EXCEPT ![Note(t)] = index],
         phase' = [phase EXCEPT ![Note(t)] = "sent"],
         Goto(t, "depositing"),
         UNCHANGED <<treeVars, history, proofs, spent, kind, round, leafIdx, inflight,
                     barred, passed, leaked>>
  PROVE  AllInv'
<1>1. RunInv(t) /\ ScriptTypes /\ NoteInv
  BY DEF AllInv, ScriptInv
<1>2. PICK c \in Clients : c = Note(t)
  BY <1>1, OwnNotes
<1>3. phase[c] = "idle"
  BY <1>1, <1>2 DEF RunInv
<1>4. NoteInv'
  BY <1>1, <1>2, <1>3, NoteStarts
<1>5. /\ ScriptTypes' /\ (\A s \in Scripts \ {t} : SameScript(s))
      /\ kind'[t] = kind[t] /\ at'[t] = "depositing" /\ round'[t] = round[t]
      /\ leafIdx'[t] = leafIdx[t]
  BY <1>1 DEF Goto, ScriptTypes, SameScript
<1>6. ASSUME NEW s \in Scripts \ {t} PROVE Foreign(s)
  <2>1. c \notin Own(s)
    BY <1>1, <1>2, OwnApart
  <2> QED BY <1>2, <1>5, <2>1, StartForeign
<1>7. Note(t)' = c /\ phase'[c] = "sent" /\ noteIndex'[c] = index
  BY <1>1, <1>2, <1>5 DEF Note, NoteInv
<1>8. ProofsOf(c) = {}
  BY <1>1, <1>3, IdleHasNoProofs
<1>9. ProofsOf(Note(t))' = {}
  BY <1>7, <1>8 DEF ProofsOf
<1>10. ASSUME kind[t] \in Looping, NEW i \in DOMAIN Notes[t], i > round[t]
       PROVE  phase'[Notes[t][i]] = "idle"
  <2>1. i # round[t] /\ Notes[t][i] # c /\ Notes[t][i] \in Clients
    <3>1. i \in Nat /\ round[t] \in Nat /\ round[t] \in DOMAIN Notes[t]
      BY <1>1, NotesAre DEF RunInv
    <3>2. i # round[t]
      BY <1>10, <3>1
    <3> QED BY <1>2, <3>1, <3>2, ScriptsAssumption, NotesAre DEF Note
  <2> QED BY <1>1, <1>2, <1>10, <2>1 DEF RunInv, NoteInv
<1>11. RunInv(t)'
  BY <1>1, <1>5, <1>7, <1>9, <1>10 DEF RunInv
<1>12. ScriptInv(t)'
  BY <1>5, <1>11 DEF AllInv, ScriptInv, Labels, treeVars
<1>13. ReportInv'
  <2>1. Extends /\ Len(leaves') \in Nat
    BY <1>1, SameLeavesExtend, LeavesAre DEF treeVars
  <2> QED BY <2>1, ReportKeeps
<1> QED BY <1>4, <1>5, <1>6, <1>12, <1>13, Together

LEMMA DepositOnceScript ==
  ASSUME AllInv, NEW t \in Scripts, kind[t] # "edge", DepositOnce(t)
  PROVE  AllInv'
<1>1. nextLeafIndex \in Nat
  BY LeavesAre DEF AllInv
<1> QED BY <1>1, DepositScript DEF DepositOnce, ReadPool

LEMMA DepositAtCounterScript ==
  ASSUME AllInv, NEW t \in Scripts, DepositAtCounter(t)
  PROVE  AllInv'
<1>1. leafIdx[t] \in Nat
  BY DEF AllInv, ScriptInv
<1> QED BY <1>1, DepositScript DEF DepositAtCounter

LEMMA DepositedScript ==
  ASSUME AllInv, NEW t \in Scripts, Deposited(t)
  PROVE  AllInv'
<1>1. RunInv(t) /\ ScriptTypes /\ NoteInv
  BY DEF AllInv, ScriptInv, Deposited
<1>2. UNCHANGED <<vars, barred>> /\ phase' = phase /\ proofs' = proofs
  BY DEF Deposited, vars, clientVars, treeVars
<1>3. /\ ScriptTypes' /\ (\A s \in Scripts \ {t} : SameScript(s))
      /\ kind'[t] = kind[t] /\ at'[t] = "deposited" /\ round'[t] = round[t]
      /\ leafIdx'[t] = IF kind[t] = "edge" THEN leafIdx[t] + 1 ELSE leafIdx[t]
  BY <1>1 DEF Deposited, Goto, ScriptTypes, SameScript
<1>4. leafIdx'[t] \in Nat
  BY <1>3 DEF AllInv, ScriptInv
<1>5. PICK c : c = Note(t)
  OBVIOUS
<1>6. Note(t)' = c /\ ProofsOf(Note(t))' = {}
  BY <1>1, <1>2, <1>3, <1>5 DEF Note, ProofsOf, RunInv, Deposited
<1>7. RunInv(t)'
  BY <1>1, <1>2, <1>3, <1>6 DEF RunInv
<1>8. ScriptInv(t)'
  BY <1>2, <1>3, <1>4, <1>7 DEF ScriptInv, Labels
<1>9. ReportInv'
  BY <1>2, QuietReport DEF Deposited
<1> QED BY <1>2, <1>3, <1>8, <1>9, QuietStep

\* The deposit landed in error, and the script goes on.
LEMMA DepositErrsScript ==
  ASSUME AllInv, NEW t \in Scripts, DepositErrs(t)
  PROVE  AllInv'
<1>1. RunInv(t) /\ ScriptTypes /\ NoteInv
  BY DEF AllInv, ScriptInv, DepositErrs
<1>2. PICK c \in Clients : c = Note(t)
  BY <1>1, OwnNotes
<1>3. /\ phase[c] = "sent" /\ phase' = [phase EXCEPT ![c] = "idle"]
      /\ history' = Append(history, NoLeaf)
      /\ UNCHANGED <<treeVars, noteIndex, proofs, spent, inflight, barred, passed, leaked>>
  BY <1>2 DEF DepositErrs
<1>4. NoteInv'
  BY <1>1, <1>3, TrafficHistory, DepositEndsNote
<1>5. /\ ScriptTypes' /\ (\A s \in Scripts \ {t} : SameScript(s))
      /\ kind'[t] = kind[t] /\ at'[t] = "deposited" /\ round'[t] = round[t]
      /\ leafIdx'[t] = IF kind[t] = "edge" THEN leafIdx[t] + 1 ELSE leafIdx[t]
  BY <1>1 DEF DepositErrs, Goto, ScriptTypes, SameScript
<1>6. Extends /\ Len(leaves') \in Nat
  BY <1>1, <1>3, SameLeavesExtend, LeavesAre DEF treeVars
<1>7. \A s \in Scripts \ {t} : Foreign(s)
  BY <1>3, <1>5, <1>6, PhaseForeign
<1>8. Note(t)' = c /\ ProofsOf(Note(t))' = {}
  BY <1>1, <1>2, <1>3, <1>5 DEF Note, ProofsOf, RunInv, DepositErrs
<1>9. ASSUME kind[t] \in Looping, NEW i \in DOMAIN Notes[t], i > round[t]
      PROVE  phase'[Notes[t][i]] = "idle"
  <2>1. phase[Notes[t][i]] = "idle" /\ Notes[t][i] \in Clients
    BY <1>1, <1>9, NotesAre DEF RunInv
  <2> QED BY <1>1, <1>3, <2>1 DEF NoteInv
<1>10. RunInv(t)'
  BY <1>1, <1>5, <1>8, <1>9 DEF RunInv
<1>11. ScriptInv(t)'
  BY <1>5, <1>10 DEF AllInv, ScriptInv, Labels
<1>12. ReportInv'
  BY <1>3, <1>6, ReportKeeps
<1> QED BY <1>4, <1>5, <1>7, <1>11, <1>12, Together

LEMMA BuildProofScript ==
  ASSUME AllInv, NEW t \in Scripts, BuildProofFor(t)
  PROVE  AllInv'
<1>1. RunInv(t) /\ ScriptTypes /\ NoteInv /\ at[t] = "deposited"
  BY DEF AllInv, ScriptInv, BuildProofFor
<1>2. PICK c \in Clients : c = Note(t)
  BY <1>1, OwnNotes
<1>3. GenerateProof(c) /\ UNCHANGED <<treeVars, phase, noteIndex, spent, barred>>
  BY <1>2 DEF BuildProofFor, GenerateProof
<1>4. NoteInv'
  BY <1>1, <1>3, GenerateProofNote
<1>5. PICK proof : proof.client = c /\ proofs' = proofs \union {proof}
  BY <1>1, <1>3, GenerateProofNote
<1>6. /\ ScriptTypes' /\ (\A s \in Scripts \ {t} : SameScript(s))
      /\ kind'[t] = kind[t] /\ at'[t] = "proved" /\ round'[t] = round[t]
      /\ leafIdx'[t] = leafIdx[t]
  BY <1>1 DEF BuildProofFor, Goto, ScriptTypes, SameScript
<1>7. ASSUME NEW s \in Scripts \ {t} PROVE Foreign(s)
  <2>1. proof.client \notin Own(s)
    BY <1>1, <1>2, <1>5, OwnApart
  <2> QED BY <1>3, <1>5, <1>6, <2>1, ProofForeign
<1>8. Note(t)' = c
  BY <1>2, <1>6 DEF Note
<1>9. {q \in proofs' : q.client = c} = {proof}
  <2>1. {q \in proofs : q.client = c} = {}
    BY <1>1, <1>2 DEF RunInv, ProofsOf
  <2> QED BY <1>5, <2>1
<1>10. ProofOf(t)' = proof
  <2>1. (CHOOSE q \in proofs' : q.client = c) = proof
    BY <1>9, ChosenProof
  <2> QED BY <1>8, <2>1 DEF ProofOf
<1>11. ProofsOf(Note(t))' = {ProofOf(t)'}
  BY <1>8, <1>9, <1>10 DEF ProofsOf
<1>12. RunInv(t)'
  BY <1>1, <1>3, <1>6, <1>8, <1>11 DEF RunInv
<1>13. ScriptInv(t)'
  BY <1>3, <1>6, <1>12 DEF AllInv, ScriptInv, Labels, treeVars
<1>14. ReportInv'
  <2>1. Extends /\ Len(leaves') \in Nat
    BY <1>1, <1>3, SameLeavesExtend, LeavesAre DEF treeVars
  <2> QED BY <1>3, <1>5, <2>1, ReportKeeps DEF BuildProofFor
<1> QED BY <1>4, <1>6, <1>7, <1>13, <1>14, Together

LEMMA SentStays ==
  ASSUME NEW proof, SentInv(proof), UNCHANGED vars
  PROVE  SentInv(proof)'
  BY DEF SentInv, Prefix, vars, clientVars, treeVars

\* A step after the proof was made that stays with the note.
LEMMA MoveScript ==
  ASSUME AllInv, NEW t \in Scripts, at[t] \in {"proved", "withdrawing", "answered"},
         NEW label \in {"withdrawing", "answered"}, Goto(t, label),
         kind[t] = "overnight" => label = "withdrawing",
         UNCHANGED <<vars, kind, round, leafIdx, barred>>, ReportInv'
  PROVE  AllInv'
<1>1. RunInv(t) /\ ScriptTypes
  BY DEF AllInv, ScriptInv
<1>2. phase' = phase /\ leaves' = leaves /\ proofs' = proofs
  BY DEF vars, clientVars, treeVars
<1>3. /\ ScriptTypes' /\ (\A s \in Scripts \ {t} : SameScript(s))
      /\ kind'[t] = kind[t] /\ at'[t] = label /\ round'[t] = round[t]
      /\ leafIdx'[t] = leafIdx[t]
  BY <1>1 DEF Goto, ScriptTypes, SameScript
<1>4. Note(t)' = Note(t) /\ ProofOf(t)' = ProofOf(t)
  BY <1>2, <1>3 DEF Note, ProofOf
<1>5. ProofsOf(Note(t))' = {ProofOf(t)'}
  BY <1>1, <1>2, <1>4 DEF RunInv, ProofsOf
<1>6. RunInv(t)'
  BY <1>1, <1>2, <1>3, <1>4, <1>5 DEF RunInv
<1>7. ScriptInv(t)'
  BY <1>2, <1>3, <1>6 DEF AllInv, ScriptInv, Labels
<1> QED BY <1>3, <1>7, QuietStep

LEMMA SubmitScript ==
  ASSUME AllInv, NEW t \in Scripts, SubmitWithdraw(t)
  PROVE  AllInv'
<1>1. RunInv(t) /\ NoteInv /\ at[t] = "proved"
  BY DEF AllInv, ScriptInv, SubmitWithdraw
<1>2. PICK p : p = ProofOf(t)
  OBVIOUS
<1>3. p \in proofs
  BY <1>1, <1>2 DEF RunInv, ProofsOf
<1>4. \E n \in 0..Len(leaves) : p.list = Prefix(n)
  <2>1. ProofInv(p) /\ TreeInv(Sent) /\ RootKnown(RootOf(p.list))
    BY <1>1, <1>2, <1>3 DEF NoteInv, SubmitWithdraw, WouldPay
  <2>2. \E n \in 1..Len(leaves) : p.list = Prefix(n)
    BY <2>1, KnownIsPrefix
  <2> QED BY <2>2, LeavesAre, <1>1
<1>5. SentInv(p)
  BY <1>3, <1>4 DEF SentInv
<1>6. \A q \in inflight' : SentInv(q)
  BY <1>2, <1>5 DEF AllInv, ReportInv, SubmitWithdraw
<1>7. ReportInv'
  <2>1. \A q \in inflight' : SentInv(q)'
    BY <1>6, SentStays DEF SubmitWithdraw
  <2> QED BY <2>1 DEF AllInv, ReportInv, SubmitWithdraw, vars, clientVars
<1> QED BY <1>1, <1>7, MoveScript DEF SubmitWithdraw

LEMMA RelayScript ==
  ASSUME AllInv, NEW t \in Scripts, kind[t] = "relayer",
         PostToRelayer(t) \/ RelayerAnswers(t)
  PROVE  AllInv'
<1>1. UNCHANGED <<vars, kind, round, leafIdx, inflight, barred, passed, leaked>>
  BY DEF PostToRelayer, RelayerAnswers
<1>2. ReportInv'
  BY <1>1, QuietReport
<1> QED BY <1>1, <1>2, MoveScript DEF PostToRelayer, RelayerAnswers

\* The report is true because the recipient was looked at.
LEMMA CheckScript ==
  ASSUME AllInv, NEW t \in Scripts, CheckRecipient(t)
  PROVE  AllInv'
<1>1. /\ at[t] # "off" /\ NextNote(t) /\ UNCHANGED <<vars, kind, leafIdx, inflight, barred>>
      /\ leaked' = leaked /\ passed' \subseteq passed \union spent
  BY DEF CheckRecipient
<1>2. ReportInv'
  <2>1. \A q \in inflight' : SentInv(q)'
    BY <1>1, SentStays DEF AllInv, ReportInv
  <2> QED BY <1>1, <2>1 DEF AllInv, ReportInv, vars, clientVars
<1> QED BY <1>1, <1>2, NextNoteScript

LEMMA LeaveScript ==
  ASSUME AllInv, NEW t \in Scripts, Recovered(t) \/ Throws(t)
  PROVE  AllInv'
<1>1. /\ at[t] # "off" /\ NextNote(t)
      /\ UNCHANGED <<vars, kind, leafIdx, inflight, barred, passed, leaked>>
  BY DEF Recovered, Throws
<1>2. ReportInv'
  BY <1>1, QuietReport
<1> QED BY <1>1, <1>2, NextNoteScript

\* A replay is accepted only when the withdrawal was barred: otherwise it spent
\* the note, or its root has left the pool's history for good.
LEMMA ReplayScript ==
  ASSUME AllInv, NEW t \in Scripts, kind[t] = "overnight", ExpectReplayBlocked(t)
  PROVE  AllInv'
<1>1. RunInv(t) /\ NoteInv /\ at[t] = "answered"
  BY DEF AllInv, ScriptInv, ExpectReplayBlocked
<1>2. PICK p : p = ProofOf(t)
  OBVIOUS
<1>3. /\ p \in proofs /\ p.client = Note(t)
      /\ Note(t) \in spent \/ Note(t) \in barred \/ Stale(p)
  BY <1>1, <1>2 DEF RunInv, ProofsOf
<1>4. WouldPay(p) => Note(t) \in barred /\ SentInv(p)
  <2>1. Stale(p) => ~RootKnown(RootOf(p.list))
    BY <1>1, StaleIsUnknown DEF NoteInv
  <2>2. WouldPay(p) => SentInv(p)
    <3>1. ASSUME RootKnown(RootOf(p.list)) PROVE SentInv(p)
      <4>1. \E n \in 1..Len(leaves) : p.list = Prefix(n)
        BY <1>1, <1>3, <3>1, KnownIsPrefix DEF NoteInv
      <4> QED BY <1>1, <1>3, <4>1, LeavesAre DEF SentInv
    <3> QED BY <3>1 DEF WouldPay
  <2> QED BY <1>3, <2>1, <2>2 DEF WouldPay
<1>5. NextNote(t) /\ UNCHANGED <<vars, kind, leafIdx, barred, passed>>
  BY DEF ExpectReplayBlocked
<1>6. /\ leaked' \subseteq barred
      /\ \A q \in inflight' : SentInv(q)
  BY <1>2, <1>4 DEF ExpectReplayBlocked, AllInv, ReportInv
<1>7. ReportInv'
  <2>1. \A q \in inflight' : SentInv(q)'
    BY <1>5, <1>6, SentStays
  <2> QED BY <1>5, <1>6, <2>1 DEF AllInv, ReportInv, vars, clientVars
<1> QED BY <1>1, <1>5, <1>7, NextNoteScript

LEMMA LostScript ==
  ASSUME AllInv, NEW proof \in inflight, GetsLost(proof)
  PROVE  AllInv'
<1>1. ReportInv'
  BY QuietReport DEF GetsLost
<1>2. (\A s \in Scripts : SameScript(s)) /\ ScriptTypes'
  BY DEF GetsLost, SameScript, AllInv, ScriptTypes
<1>3. NoteInv' /\ \A s \in Scripts : Foreign(s)
  BY <1>2, NoteStable, QuietForeign DEF AllInv, GetsLost
<1> QED BY <1>1, <1>2, <1>3, Together

LEMMA ExecutesScript ==
  ASSUME AllInv, NEW proof \in inflight, Executes(proof)
  PROVE  AllInv'
<1>1. NoteInv /\ ScriptTypes /\ SentInv(proof) /\ proof \in proofs
  BY DEF AllInv, ReportInv, SentInv
<1>2. /\ UNCHANGED <<treeVars, phase, noteIndex, proofs, kind, round, leafIdx, passed, leaked>>
      /\ history' = Append(history, NoLeaf) /\ inflight' \subseteq inflight
      /\ spent' = spent \/ spent' = spent \union {proof.client}
      /\ barred \subseteq barred'
      /\ WouldPay(proof) => proof.client \in spent' \/ proof.client \in barred'
      /\ leaves' = leaves
  BY DEF Executes, treeVars
<1>3. spent \subseteq spent' /\ \A c \in spent' : c \in spent \/ \E p \in proofs : p.client = c
  BY <1>1, <1>2
<1>4. NoteInv'
  BY <1>1, <1>2, <1>3, TrafficNote
<1>5. ReportInv'
  <2>1. Extends /\ Len(leaves') \in Nat
    BY <1>1, <1>2, SameLeavesExtend, LeavesAre
  <2> QED BY <1>2, <1>3, <2>1, ReportKeeps
<1>6. ScriptTypes'
  BY <1>1, <1>2 DEF Executes, ScriptTypes
<1>7. ASSUME NEW s \in Scripts PROVE Foreign(s) \/ ScriptInv(s)'
  <2> DEFINE Answered == at[s] = "withdrawing" /\ kind[s] # "relayer" /\ Note(s) = proof.client
  <2>1. at'[s] = IF Answered THEN "answered" ELSE at[s]
    BY DEF Executes
  <2>2. CASE ~Answered
    <3>1. SameScript(s)
      BY <1>2, <2>1, <2>2 DEF SameScript
    <3> QED BY <1>2, <1>3, <3>1, TrafficForeign
  <2>3. CASE Answered
    <3>1. RunInv(s)
      BY <2>3 DEF AllInv, ScriptInv
    <3>2. ProofsOf(Note(s)) = {ProofOf(s)} /\ proof = ProofOf(s)
      BY <1>1, <2>3, <3>1 DEF RunInv, ProofsOf
    <3>3. /\ kind'[s] = kind[s] /\ at'[s] = "answered" /\ round'[s] = round[s]
          /\ leafIdx'[s] = leafIdx[s] /\ phase' = phase /\ proofs' = proofs
      BY <1>2, <2>1, <2>3
    <3>4. Note(s)' = Note(s) /\ ProofOf(s)' = proof
      BY <3>2, <3>3 DEF Note, ProofOf
    <3>5. ProofsOf(Note(s))' = {ProofOf(s)'}
      BY <3>2, <3>3, <3>4 DEF ProofsOf
    <3>6. Note(s)' \in spent' \/ Note(s)' \in barred' \/ Stale(proof)
      <4>1. CASE proof.client \in spent
        BY <1>2, <2>3, <3>4, <4>1
      <4>2. CASE RootKnown(RootOf(proof.list)) /\ proof.client \notin spent
        <5>1. WouldPay(proof)
          BY <4>2 DEF WouldPay
        <5> QED BY <1>2, <2>3, <3>4, <5>1
      <4>3. CASE ~RootKnown(RootOf(proof.list))
        <5>1. PICK n \in 0..Len(leaves) : proof.list = Prefix(n)
          BY <1>1 DEF SentInv
        <5> QED BY <1>1, <4>3, <5>1, KnownOrStale DEF NoteInv
      <4> QED BY <4>1, <4>2, <4>3
    <3>7. Stale(proof) => Stale(ProofOf(s))'
      BY <1>2, <3>4 DEF Stale, Prefix
    <3>8. RunInv(s)'
      BY <3>1, <3>3, <3>4, <3>5, <3>6, <3>7 DEF RunInv
    <3>9. ScriptInv(s)'
      BY <1>2, <3>3, <3>8 DEF AllInv, ScriptInv, Labels
    <3> QED BY <3>9
  <2> QED BY <2>2, <2>3
<1> QED BY <1>4, <1>5, <1>6, <1>7, Together

LEMMA ScriptStep ==
  ASSUME AllInv, ScriptNext
  PROVE  AllInv'
<1>1. ASSUME NEW t \in Scripts, NEW k \in Kinds, Begin(t, k) PROVE AllInv'
  BY <1>1, BeginScript
<1>2. ASSUME NEW t \in Scripts, Started(t) PROVE AllInv'
  BY <1>2, DepositedScript, DepositErrsScript, BuildProofScript, LeaveScript DEF Started
<1>3. ASSUME NEW t \in Scripts, kind[t] = "e2e", E2eMain(t) PROVE AllInv'
  BY <1>2, <1>3, DepositOnceScript, SubmitScript, CheckScript DEF E2eMain
<1>4. ASSUME NEW t \in Scripts, kind[t] = "fullstack", FullstackMain(t) PROVE AllInv'
  BY <1>2, <1>4, DepositOnceScript, SubmitScript, CheckScript DEF FullstackMain
<1>5. ASSUME NEW t \in Scripts, kind[t] = "relayer", RelayerMain(t) PROVE AllInv'
  BY <1>2, <1>5, DepositOnceScript, RelayScript, CheckScript DEF RelayerMain
<1>6. ASSUME NEW t \in Scripts, kind[t] = "overnight", OvernightMain(t) PROVE AllInv'
  BY <1>2, <1>6, DepositOnceScript, SubmitScript, ReplayScript DEF OvernightMain
<1>7. ASSUME NEW t \in Scripts, kind[t] = "edge", EdgeMain(t) PROVE AllInv'
  BY <1>2, <1>7, DepositAtCounterScript, SubmitScript, CheckScript, LeaveScript DEF EdgeMain
<1>8. ASSUME NEW proof \in inflight, Executes(proof) \/ GetsLost(proof) PROVE AllInv'
  BY <1>8, ExecutesScript, LostScript
<1> QED BY <1>1, <1>3, <1>4, <1>5, <1>6, <1>7, <1>8, OthersStep DEF ScriptNext

LEMMA ScriptStable ==
  ASSUME AllInv, UNCHANGED allVars
  PROVE  AllInv'
<1>1. ReportInv'
  BY QuietReport DEF allVars, scriptVars
<1>2. (\A s \in Scripts : SameScript(s)) /\ ScriptTypes'
  BY DEF allVars, scriptVars, SameScript, AllInv, ScriptTypes
<1>3. NoteInv' /\ \A s \in Scripts : Foreign(s)
  BY <1>2, NoteStable, QuietForeign DEF AllInv, allVars, scriptVars
<1> QED BY <1>1, <1>2, <1>3, Together

LEMMA ScriptStart ==
  ASSUME ScriptInit
  PROVE  AllInv
<1>1. NoteInv
  BY NoteInvInit DEF ScriptInit
<1>2. Len(leaves) \in Nat
  BY <1>1, LeavesAre
<1> QED BY <1>1, <1>2 DEF ScriptInit, AllInv, ScriptTypes, ScriptInv, Labels, ReportInv

\* What depositors, scripts and relayers can come to, for every number of them.
THEOREM ScriptsInvariant == ScriptSpec => []AllInv
<1>1. ScriptInit => AllInv
  BY ScriptStart
<1>2. AllInv /\ [ScriptNext]_allVars => AllInv'
  BY ScriptStep, ScriptStable
<1> QED BY <1>1, <1>2, PTL DEF ScriptSpec

-----------------------------------------------------------------------------
(* The properties *)

\* A note that landed where its commitment says can be withdrawn at once as
\* long as the fetch reaches back to the first deposit (fetchPoolLeaves and
\* generateMembershipProof, against is_known_root).
THEOREM NotesProvableWithinWindow == ScriptSpec => []ProvableWithinWindow
<1>1. AllInv => ProvableWithinWindow
  <2> SUFFICES ASSUME AllInv, NEW c \in Clients, LandedWhereMeant(c), Len(history) <= LIMIT
               PROVE  noteIndex[c] \in LeafIndices /\ RootKnown(RootOf(Materialize(LeafIndices)))
    BY DEF ProvableWithinWindow
  <2>1. NoteInv /\ Len(leaves) \in Nat /\ Len(history) \in Nat
    BY LeavesAre DEF AllInv, NoteInv, HistoryInv
  <2>2. InWindow = 1..Len(history)
    BY <2>1, NaturalLimits DEF InWindow
  <2>3. LeafIndices = 0..(Len(leaves) - 1)
    BY <2>1, <2>2 DEF LeafIndices, NoteInv, HistoryInv
  <2>4. noteIndex[c] \in LeafIndices
    BY <2>1, <2>3 DEF NoteInv, ClientInv, LandedWhereMeant
  <2>5. Materialize(LeafIndices) = Prefix(Len(leaves))
    BY <2>3 DEF Materialize, Prefix
  <2>6. Len(leaves) \in 0..Len(leaves) /\ Len(leaves) > Len(leaves) - MAX_HISTORICAL_ROOTS
    BY <2>1, NaturalLimits
  <2> QED BY <2>4, <2>5, <2>6 DEF RootKnown
<1> QED BY <1>1, ScriptsInvariant, PTL

\* What a script reports of a payment is so (the checks of the recipient), and
\* test-zk-overnight.mjs reports a replay that was accepted only of a withdrawal
\* that landed in error on a good proof, never of a note that had been paid nor
\* of a root the pool had forgotten.
THEOREM ScriptReportsAreTrue == ScriptSpec => []ReportsAreTrue
<1>1. AllInv => ReportsAreTrue
  <2> SUFFICES ASSUME AllInv, NEW c \in passed PROVE c \in spent /\ LandedWhereMeant(c)
    BY DEF ReportsAreTrue, AllInv, ReportInv
  <2>1. c \in spent
    BY DEF AllInv, ReportInv
  <2>2. PICK proof \in proofs : proof.client = c /\ ProofInv(proof)
    BY <2>1 DEF AllInv, NoteInv
  <2> QED BY <2>1, <2>2 DEF ProofInv
<1> QED BY <1>1, ScriptsInvariant, PTL

\* A nullifier is spent only by a proof over the first leaves of the pool's
\* own tree, its own among them (withdraw).
THEOREM SpentNotesWereInTheTree == ScriptSpec => SpentNotesAreInTheTree
<1> DEFINE InTree(c) == \E proof \in proofs, n \in 1..Len(leaves) :
                           proof.client = c /\ proof.list = Prefix(n) /\ noteIndex[c] < n
           Good == \A c \in spent' \ spent : InTree(c)
<1>1. ASSUME AllInv, NEW proof \in proofs, RootKnown(RootOf(proof.list))
      PROVE  InTree(proof.client)
  <2>1. ProofInv(proof) /\ TreeInv(Sent)
    BY <1>1 DEF AllInv, NoteInv
  <2> QED BY <1>1, <2>1, KnownIsPrefix
<1> HIDE DEF InTree
<1>2. AllInv /\ [ScriptNext]_allVars => [Good]_vars
  <2> SUFFICES ASSUME AllInv, [ScriptNext]_allVars, NEW c, c \in spent', c \notin spent
               PROVE  InTree(c)
    OBVIOUS
  <2>1. ASSUME NEW proof \in proofs, WithdrawLands(proof) PROVE InTree(c)
    <3>1. c = proof.client /\ RootKnown(RootOf(proof.list))
      BY <2>1 DEF WithdrawLands
    <3> QED BY <1>1, <3>1
  <2>2. ASSUME NEW proof \in inflight, Executes(proof) PROVE InTree(c)
    <3>1. c = proof.client /\ RootKnown(RootOf(proof.list))
      BY <2>2 DEF Executes, WouldPay
    <3>2. proof \in proofs
      BY <2>2 DEF AllInv, ReportInv, SentInv
    <3> QED BY <1>1, <3>1, <3>2
  <2>3. ASSUME spent' = spent PROVE InTree(c)
    BY <2>3
  <2>4. ASSUME NEW t \in Scripts, Started(t) PROVE spent' = spent
    BY <2>4 DEF Started, Deposited, DepositErrs, BuildProofFor, GenerateProof, Throws, vars,
       clientVars
  <2>5. ASSUME NEW t \in Scripts,
               \/ E2eMain(t) \/ FullstackMain(t) \/ RelayerMain(t)
               \/ OvernightMain(t) \/ EdgeMain(t)
        PROVE  spent' = spent
    BY <2>4, <2>5 DEF E2eMain, FullstackMain, RelayerMain, OvernightMain, EdgeMain,
       DepositOnce, ReadPool, DepositAtCounter, SubmitWithdraw, PostToRelayer, RelayerAnswers,
       CheckRecipient, ExpectReplayBlocked, Recovered, vars, clientVars
  <2>6. ASSUME NEW t \in Scripts, NEW k \in Kinds, Begin(t, k) PROVE spent' = spent
    BY <2>6 DEF Begin, vars, clientVars
  <2>7. ASSUME NEW proof \in inflight, GetsLost(proof) PROVE spent' = spent
    BY <2>7 DEF GetsLost, vars, clientVars
  <2>8. ASSUME NEW d \in Clients,
               DepositLands(d) \/ DepositExpires(d) \/ ReadPool(d) \/ GenerateProof(d)
        PROVE  spent' = spent
    BY <2>8 DEF DepositLands, DepositExpires, ReadPool, GenerateProof
  <2>9. ASSUME OtherTraffic PROVE spent' = spent
    BY <2>9 DEF OtherTraffic
  <2>10. ASSUME UNCHANGED allVars PROVE spent' = spent
    BY <2>10 DEF allVars, vars, clientVars
  <2> QED BY <2>1, <2>2, <2>3, <2>5, <2>6, <2>7, <2>8, <2>9, <2>10 DEF ScriptNext
<1> QED BY <1>2, ScriptsInvariant, PTL DEF ScriptSpec, SpentNotesAreInTheTree, InTree
=============================================================================
