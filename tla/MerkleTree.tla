----------------------------- MODULE MerkleTree -----------------------------
(***************************************************************************)
(* The tree of commitments of a shield pool, three times over: the program *)
(* inserts a leaf knowing one node per level (insert_leaf_light in         *)
(* src/programs/kirite/src/utils/crypto.rs), the client rebuilds all of it *)
(* from the deposit events (buildMerkleProof in src/sdk/src/zk.mjs), and   *)
(* the circuit climbs one path (src/circuits/membership.circom).           *)
(*                                                                         *)
(* Poseidon is free of collisions: the hash of a pair is the pair.         *)
(***************************************************************************)
EXTENDS Integers, Sequences

CONSTANTS
  HEIGHT,               \* MERKLE_TREE_HEIGHT
  LeafValues,           \* commitments depositors may send
  EmptyLeaf,            \* Poseidon([0])
  AllZero               \* 32 zero bytes

ASSUME TreeAssumption == HEIGHT \in Nat \ {0} /\ EmptyLeaf # AllZero

VARIABLES
  leaves,               \* every commitment inserted, in order
  nextLeafIndex, filledSubtrees, currentRoot

treeVars == <<leaves, nextLeafIndex, filledSubtrees, currentRoot>>

Levels == 0..(HEIGHT - 1)

PowerOf2[n \in 0..HEIGHT] == IF n = 0 THEN 1 ELSE 2 * PowerOf2[n - 1]

CAPACITY == PowerOf2[HEIGHT]

\* The node above leaf n at each level, counted from the left: the index is
\* halved on the way up.
Above(n) ==
  LET index[level \in 0..HEIGHT] ==
        IF level = 0 THEN n ELSE index[level - 1] \div 2
  IN  index

Bit(n, level) == Above(n)[level] % 2

HashPair(left, right) == <<left, right>>

ZeroHash[level \in 0..HEIGHT] ==
  IF level = 0 THEN EmptyLeaf
  ELSE HashPair(ZeroHash[level - 1], ZeroHash[level - 1])

-----------------------------------------------------------------------------
(* The program *)

\* The node above the leaf at each level, when every node to its right is
\* still empty and those to its left are in filled.
Climb(leaf, index, filled) ==
  LET node[level \in 0..HEIGHT] ==
        IF level = 0 THEN leaf
        ELSE IF Bit(index, level - 1) = 0
             THEN HashPair(node[level - 1], ZeroHash[level - 1])
             ELSE HashPair(filled[level - 1], node[level - 1])
  IN  node

\* Slips the checks must notice are named Mut...; the program does not make them.
\* Here: the node is kept at the levels where it is a right child.
MutRemember(leaf, index, filled) ==
  [level \in Levels |->
     IF Bit(index, level) = 1 THEN Climb(leaf, index, filled)[level]
     ELSE filled[level]]

\* Only a left child will be needed again.
Remember(leaf, index, filled) ==
  [level \in Levels |->
     IF Bit(index, level) = 0 THEN Climb(leaf, index, filled)[level]
     ELSE filled[level]]

InsertLeaf(leaf) ==
  /\ nextLeafIndex < CAPACITY
  /\ leaf # AllZero
  /\ currentRoot' = Climb(leaf, nextLeafIndex, filledSubtrees)[HEIGHT]
  /\ filledSubtrees' = Remember(leaf, nextLeafIndex, filledSubtrees)
  /\ nextLeafIndex' = nextLeafIndex + 1
  /\ leaves' = Append(leaves, leaf)

-----------------------------------------------------------------------------
(* The client *)

\* The leaves of a list numbered from 0; a slot the list has no leaf for is
\* padded with the sentinel.
Padded(list) ==
  [k \in 0..(CAPACITY - 1) |-> IF k \in DOMAIN list THEN list[k] ELSE EmptyLeaf]

\* How many nodes a level has.
Width(level) == PowerOf2[HEIGHT - level]

Parents(level, below) ==
  [k \in 0..(Width(level) - 1) |-> HashPair(below[2 * k], below[2 * k + 1])]

\* All nodes of the tree over a list, level by level.
Nodes(list) ==
  LET node[level \in 0..HEIGHT] ==
        IF level = 0 THEN Padded(list) ELSE Parents(level, node[level - 1])
  IN  node

RootOf(list) == Nodes(list)[HEIGHT][0]

\* Slip: the neighbour to the right, also of a right child.
MutSibling(k) == IF k + 1 < CAPACITY THEN k + 1 ELSE k

Sibling(k) == IF k % 2 = 0 THEN k + 1 ELSE k - 1

BuildMerkleProof(list, target) ==
  [root         |-> RootOf(list),
   pathElements |-> [level \in Levels |->
                       Nodes(list)[level][Sibling(Above(target)[level])]],
   pathIndices  |-> [level \in Levels |-> Bit(target, level)]]

-----------------------------------------------------------------------------
(* The circuit *)

\* levelHashes: the hashes the circuit computes up the path.
LevelHashes(leaf, proof) ==
  LET hash[level \in 0..HEIGHT] ==
        IF level = 0 THEN leaf
        ELSE IF proof.pathIndices[level - 1] = 0
             THEN HashPair(hash[level - 1], proof.pathElements[level - 1])
             ELSE HashPair(proof.pathElements[level - 1], hash[level - 1])
  IN  hash

PathRoot(leaf, proof) == LevelHashes(leaf, proof)[HEIGHT]

-----------------------------------------------------------------------------

Init ==
  /\ leaves = <<>>
  /\ nextLeafIndex = 0
  /\ filledSubtrees = [level \in Levels |-> ZeroHash[level]]
  /\ currentRoot = ZeroHash[HEIGHT]

Next == \E leaf \in LeafValues : InsertLeaf(leaf)

Spec == Init /\ [][Next]_treeVars

-----------------------------------------------------------------------------
(* Properties *)

\* The first n leaves as the client numbers them.
Prefix(n) == [k \in 0..(n - 1) |-> leaves[k + 1]]

\* The root the program keeps from one node per level is the root of the
\* whole tree, rebuilt from the events: at every number of leaves, also the
\* last, a client's proof can name the root the pool holds.
RootMatchesRebuild ==
  nextLeafIndex = Len(leaves) /\ currentRoot = RootOf(Prefix(Len(leaves)))

\* The circuit accepts the client's path for every leaf of the tree, and for
\* no other commitment at that place.
PathsProveTheirLeafOnly ==
  \A k \in 0..(Len(leaves) - 1) :
    LET proof == BuildMerkleProof(Prefix(Len(leaves)), k)
    IN  \A leaf \in LeafValues \union {EmptyLeaf} :
          PathRoot(leaf, proof) = currentRoot <=> leaf = leaves[k + 1]
=============================================================================
