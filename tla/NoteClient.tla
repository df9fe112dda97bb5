----------------------------- MODULE NoteClient -----------------------------
(***************************************************************************)
(* Depositors who use the SDK (src/sdk/src/kirite-zk.mjs and zk.mjs, the   *)
(* way src/scripts/test-zk-e2e.mjs puts them together) against one pool.   *)
(*                                                                         *)
(* A depositor reads next_leaf_index, hashes it into the commitment and    *)
(* sends the deposit, while others do the same.  To withdraw it rebuilds   *)
(* the leaves from the newest transactions of the program's history, which *)
(* may miss some, and proves that its leaf is in that tree.  The pool      *)
(* accepts the root of any of its last MAX_HISTORICAL_ROOTS trees (module  *)
(* ShieldPool checks this of its ring of roots).                           *)
(***************************************************************************)
EXTENDS MerkleTree

CONSTANTS
  Clients,              \* depositors, one note each
  MAX_HISTORICAL_ROOTS,
  LIMIT,                \* options.limit of fetchPoolLeaves
  MaxHistory            \* bound on the transactions of the program

ASSUME ClientAssumption ==
  /\ MAX_HISTORICAL_ROOTS \in Nat \ {0} /\ LIMIT \in Nat /\ MaxHistory \in Nat

VARIABLES
  phase,                \* how far each depositor is
  noteIndex,            \* note.leafIndex, read before the deposit is sent
  history,              \* the program's transactions: the index of the leaf a
                        \* deposit inserted, or NoLeaf
  proofs,               \* [client, list]: a proof for the tree over the list
  spent                 \* clients whose nullifier record exists

clientVars == <<phase, noteIndex, history, proofs, spent>>
vars == <<treeVars, clientVars>>

NoLeaf == -1

Commitment(client, index) == <<"note", client, index>>

\* Poseidon is free of collisions: no note, whatever index it was made for,
\* hashes to the empty leaf.
ASSUME NoteAssumption == EmptyLeaf \notin {"note"} \X Clients \X Nat

NoteInit ==
  /\ Init
  /\ phase = [c \in Clients |-> "idle"]
  /\ noteIndex = [c \in Clients |-> 0]
  /\ history = <<>>
  /\ proofs = {}
  /\ spent = {}

\* The leaf index the commitment will carry is the one read now.
ReadPool(c) ==
  /\ phase[c] = "idle"
  /\ noteIndex' = [noteIndex EXCEPT ![c] = nextLeafIndex]
  /\ phase' = [phase EXCEPT ![c] = "sent"]
  /\ UNCHANGED <<treeVars, history, proofs, spent>>

\* The program takes the commitment on trust and puts it at the next leaf,
\* which may be another by now.
DepositLands(c) ==
  /\ phase[c] = "sent"
  /\ Len(history) < MaxHistory
  /\ InsertLeaf(Commitment(c, noteIndex[c]))
  /\ history' = Append(history, nextLeafIndex)
  /\ phase' = [phase EXCEPT ![c] = "deposited"]
  /\ UNCHANGED <<noteIndex, proofs, spent>>

\* The transaction expires; the depositor starts again.
DepositExpires(c) ==
  /\ phase[c] = "sent"
  /\ phase' = [phase EXCEPT ![c] = "idle"]
  /\ UNCHANGED <<treeVars, noteIndex, history, proofs, spent>>

\* Withdrawals of other pools, governance, stealth addresses: every call of
\* the program takes a place in its history.
OtherTraffic ==
  /\ Len(history) < MaxHistory
  /\ history' = Append(history, NoLeaf)
  /\ UNCHANGED <<treeVars, phase, noteIndex, proofs, spent>>

-----------------------------------------------------------------------------
(* fetchPoolLeaves *)

\* Slips the checks must notice are named Mut...; here the fetch stops one
\* transaction short of its limit.
MutInWindow == {k \in 1..Len(history) : k > Len(history) + 1 - LIMIT}

InWindow == {k \in 1..Len(history) : k > Len(history) - LIMIT}

LeafIndices == {history[k] : k \in InWindow} \ {NoLeaf}

\* A leaf that was not found leaves a hole, which pads like an empty slot.
Materialize(found) == [k \in found |-> leaves[k + 1]]

\* generateMembershipProof: it throws unless the list has the note's own
\* commitment at the note's index.
GenerateProof(c) ==
  /\ phase[c] = "deposited"
  /\ \E found \in SUBSET LeafIndices :
       LET list == Materialize(found)
       IN  /\ noteIndex[c] \in DOMAIN list
           /\ list[noteIndex[c]] = Commitment(c, noteIndex[c])
           /\ proofs' = proofs \union {[client |-> c, list |-> list]}
  /\ UNCHANGED <<treeVars, phase, noteIndex, history, spent>>

-----------------------------------------------------------------------------

\* Slip: a root that no tree of the pool ever had is not refused.
MutRootKnown(root) == TRUE

\* is_known_root, by what module ShieldPool shows of it.
RootKnown(root) ==
  \E n \in 0..Len(leaves) :
    n > Len(leaves) - MAX_HISTORICAL_ROOTS /\ root = RootOf(Prefix(n))

\* withdraw, of a proof that was sent to a relayer at any time.
WithdrawLands(proof) ==
  /\ proof.client \notin spent
  /\ Len(history) < MaxHistory
  /\ RootKnown(RootOf(proof.list))
  /\ spent' = spent \union {proof.client}
  /\ history' = Append(history, NoLeaf)
  /\ UNCHANGED <<treeVars, phase, noteIndex, proofs>>

NoteNext ==
  \/ \E c \in Clients :
       ReadPool(c) \/ DepositLands(c) \/ DepositExpires(c) \/ GenerateProof(c)
  \/ \E proof \in proofs : WithdrawLands(proof)
  \/ OtherTraffic

NoteSpec == NoteInit /\ [][NoteNext]_vars

-----------------------------------------------------------------------------
(* Properties *)

LandedWhereMeant(c) ==
  /\ phase[c] = "deposited" /\ noteIndex[c] < Len(leaves)
  /\ leaves[noteIndex[c] + 1] = Commitment(c, noteIndex[c])

\* A nullifier is only spent by a note whose leaf is in the pool's own tree:
\* a proof over a list with holes, or of a tree the pool has outgrown, costs
\* its owner nothing but the fee of a failed transaction.
SpentNotesAreInTheTree ==
  [][\A c \in spent' \ spent :
       \E proof \in proofs, n \in 1..Len(leaves) :
         proof.client = c /\ proof.list = Prefix(n) /\ noteIndex[c] < n]_vars

\* A note that landed at the index it was made for is good as long as the
\* fetch reaches back to the first deposit: the proof made from everything
\* in the window is accepted at once.
ProvableWithinWindow ==
  \A c \in Clients :
    (LandedWhereMeant(c) /\ Len(history) <= LIMIT) =>
      /\ noteIndex[c] \in LeafIndices
      /\ RootKnown(RootOf(Materialize(LeafIndices)))

=============================================================================
