------------------------ MODULE ShieldPoolRefinement ------------------------
(***************************************************************************)
(* The shield pool implements the pot of notes of module NotePool.  A leaf *)
(* is a note; when leaves share a nullifier, spending it takes the first   *)
(* of them out and the others stay in the pot for ever.  What withdrawals  *)
(* pay back into the vault is nobody's and does not count.                 *)
(***************************************************************************)
EXTENDS ShieldPool

\* The leaf a nullifier spends.
FirstLeaf(commitment) ==
  CHOOSE i \in 1..Len(leaves) :
    leaves[i] = commitment /\ \A j \in 1..(i - 1) : leaves[j] # commitment

LiveLeaves == (1..Len(leaves)) \ {FirstLeaf(n) : n \in nullifiers}

Notes == INSTANCE NotePool WITH
           minted <- totalDeposits, live <- LiveLeaves,
           pot <- vault - received[PoolVault]

\* Each leaf is paid out at most once, from a pot that holds one denomination
\* per leaf still live: every step of the pool is a step of NotePool or
\* leaves the pot alone.
ImplementsNotePool == Notes!Spec
=============================================================================
