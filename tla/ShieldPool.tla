----------------------------- MODULE ShieldPool -----------------------------
(***************************************************************************)
(* One shield pool of the privacy program: deposit and withdraw            *)
(* (src/programs/kirite/src/instructions/deposit.rs and withdraw.rs), the  *)
(* pool account with its history of roots (state/shield_pool.rs), and the  *)
(* membership circuit as far as the program relies on it                   *)
(* (src/circuits/membership.circom).                                       *)
(*                                                                         *)
(* Hashes are free of collisions: a commitment stands for the secrets it   *)
(* hashes, and its nullifier for the same secrets.  The root of a tree     *)
(* that holds the first n leaves is written n (module MerkleTree relates   *)
(* the tree to the leaves); leaves are only ever appended.                 *)
(***************************************************************************)
EXTENDS ProtocolConfig, FeeMath, Sequences

CONSTANTS
  PoolMint, NativeMint, \* NativeMint tells whether PoolMint is wrapped SOL
  DENOMINATION,
  TimelockSeconds,      \* pool.timelock_seconds
  CAPACITY,             \* MERKLE_TREE_CAPACITY
  MAX_HISTORICAL_ROOTS,
  Commitments,          \* commitments depositors may send
  TokenAccounts,        \* token accounts of PoolMint, whoever owns them
  PoolVault,            \* pool.vault, one of them
  Recipients            \* those proofs may be bound to

ASSUME PoolAssumption ==
  /\ PoolMint \in Mints /\ NativeMint \in BOOLEAN
  /\ DENOMINATION \in Nat \ {0} /\ TimelockSeconds \in Nat
  /\ PoolVault \in TokenAccounts /\ Recipients \subseteq TokenAccounts
  /\ CAPACITY \in Nat /\ MAX_HISTORICAL_ROOTS \in Nat \ {0}
  /\ MAX_FEE_BPS <= BPS_DENOMINATOR    \* both are 10_000 in the program

VARIABLES
  leaves,               \* commitments in the tree, in leaf order
  nextLeafIndex, currentRoot, historicalRoots, rootHistoryIndex,
  isFrozen, totalDeposits, totalWithdrawals, feesCollected, lastDepositAt,
  nullifiers,           \* nullifiers whose NullifierRecord exists
  vault,                \* tokens in the pool's vault
  received, burned,     \* tokens withdrawals have sent to each account, and
                        \* burned
  proofs                \* proofs made so far; a relayer may send any of them,
                        \* in any order, any number of times, or never

treeVars  == <<leaves, nextLeafIndex, currentRoot, historicalRoots,
               rootHistoryIndex>>
statVars  == <<totalDeposits, totalWithdrawals, feesCollected, lastDepositAt>>
tokenVars == <<vault, received, burned>>
poolVars  == <<treeVars, isFrozen, statVars, nullifiers, tokenVars>>
vars      == <<configVars, poolVars, proofs, now>>

-----------------------------------------------------------------------------
(* Roots *)

NoRoot == -1            \* the all-zero bytes historical_roots starts with

Slots == 0..(MAX_HISTORICAL_ROOTS - 1)

\* Slips the checks must notice are named Mut...; the program does not make them.
\* Here: the history is not consulted.
MutKnownRootNoHistory(root) == root = currentRoot

IsKnownRoot(root) ==
  root = currentRoot \/ \E i \in Slots : historicalRoots[i] = root

\* Slip: the index does not wrap around.
MutPushRoot(root) ==
  /\ historicalRoots' = [historicalRoots EXCEPT ![rootHistoryIndex] = root]
  /\ rootHistoryIndex' = rootHistoryIndex + 1
  /\ currentRoot' = root

PushRoot(root) ==
  /\ historicalRoots' = [historicalRoots EXCEPT ![rootHistoryIndex] = root]
  /\ rootHistoryIndex' = (rootHistoryIndex + 1) % MAX_HISTORICAL_ROOTS
  /\ currentRoot' = root

-----------------------------------------------------------------------------
(* The membership circuit: the prover knows the secrets of a leaf of the   *)
(* tree with this root, wherever the leaf is, and the proof is good for    *)
(* one recipient only.                                                     *)

Proof == [root : 0..CAPACITY, nullifier : Commitments, recipient : Recipients]

\* Slip: the recipient is not among the public inputs.
MutProofVerifies(proof, recipient) == proof \in proofs

ProofVerifies(proof, recipient) ==
  /\ proof \in proofs
  /\ proof.recipient = recipient

\* The holder of a note rebuilds the tree from the deposit events and proves
\* membership under the root of the moment.
Prove(commitment, recipient) ==
  /\ \E i \in 1..Len(leaves) : leaves[i] = commitment
  /\ proofs' = proofs \union {[root      |-> Len(leaves),
                               nullifier |-> commitment,
                               recipient |-> recipient]}
  /\ UNCHANGED <<configVars, poolVars, now>>

-----------------------------------------------------------------------------
(* Handlers *)

\* The state after initialize_protocol, add_supported_mint for the pool's
\* mint and initialize_shield_pool.
Init ==
  /\ ConfigInit({PoolMint})
  /\ leaves = <<>>
  /\ nextLeafIndex = 0
  /\ currentRoot = 0
  /\ historicalRoots = [i \in Slots |-> NoRoot]
  /\ rootHistoryIndex = 0
  /\ isFrozen = FALSE
  /\ totalDeposits = 0 /\ totalWithdrawals = 0 /\ feesCollected = 0
  /\ lastDepositAt = 0
  /\ nullifiers = {}
  /\ vault = 0 /\ burned = 0
  /\ received = [a \in TokenAccounts |-> 0]
  /\ proofs = {}
  /\ now = 1

\* deposit: takes the commitment on trust, whatever it hashes.
Deposit(commitment) ==
  /\ ~isPaused /\ ~isFrozen
  /\ PoolMint \in supportedMints
  /\ nextLeafIndex < CAPACITY
  /\ vault' = vault + DENOMINATION
  /\ leaves' = Append(leaves, commitment)
  /\ PushRoot(nextLeafIndex + 1)
  /\ nextLeafIndex' = nextLeafIndex + 1
  /\ totalDeposits' = totalDeposits + 1
  /\ lastDepositAt' = now
  /\ UNCHANGED <<configVars, isFrozen, totalWithdrawals, feesCollected,
                 nullifiers, received, burned, proofs, now>>

\* Slip: a nullifier record may be initialised again.
MutUnspent(nullifier) == TRUE

\* The nullifier record's `init` constraint fails if the account exists.
Unspent(nullifier) == nullifier \notin nullifiers

\* A native mint cannot be burned: its burn share goes to the treasury.
Burned(fee) == IF NativeMint THEN 0 ELSE BurnShare(fee, burnRatioBps)

\* Slip: the burn share of a native mint is forgotten.
MutToTreasury(fee) == TreasuryShare(fee, burnRatioBps)

ToTreasury(fee) ==
  TreasuryShare(fee, burnRatioBps)
    + (IF NativeMint THEN BurnShare(fee, burnRatioBps) ELSE 0)

\* What a transfer takes out of the vault: one back to the vault moves nothing.
TakenBy(account, amount) == IF account = PoolVault THEN 0 ELSE amount

\* withdraw: the recipient the proof is bound to gets the net amount, at the
\* fee of this moment; the rest of the fee goes to the account the relayer
\* passes as treasury_token_account, of which only the mint is checked: it may
\* be the relayer's own, the recipient or the vault.
Withdraw(proof, recipient, treasury) ==
  LET fee == CalculateFee(DENOMINATION, feeBps)
      net == NetAmount(DENOMINATION, feeBps)
      netTaken == TakenBy(recipient, net)
      feeTaken == TakenBy(treasury, ToTreasury(fee))
  IN  /\ ~isPaused /\ ~isFrozen
      /\ PoolMint \in supportedMints
      /\ Unspent(proof.nullifier)
      /\ IsKnownRoot(proof.root)
      /\ ProofVerifies(proof, recipient)
      /\ fee <= DENOMINATION
      /\ net <= vault
      /\ netTaken + ToTreasury(fee) <= vault
      /\ netTaken + feeTaken + Burned(fee) <= vault
      /\ received' = [a \in TokenAccounts |->
                        received[a] + (IF a = recipient THEN net ELSE 0)
                          + (IF a = treasury THEN ToTreasury(fee) ELSE 0)]
      /\ burned' = burned + Burned(fee)
      /\ vault' = vault - netTaken - feeTaken - Burned(fee)
      /\ totalWithdrawals' = totalWithdrawals + 1
      /\ feesCollected' = feesCollected + fee
      /\ nullifiers' = nullifiers \union {proof.nullifier}
      /\ UNCHANGED <<configVars, treeVars, isFrozen, totalDeposits,
                     lastDepositAt, proofs, now>>

FreezePool(signer) ==
  /\ SignedByAuthority(signer)
  /\ isFrozen' = TRUE
  /\ UNCHANGED <<configVars, treeVars, statVars, nullifiers, tokenVars,
                 proofs, now>>

UnfreezePool(signer) ==
  /\ SignedByAuthority(signer)
  /\ isFrozen' = FALSE
  /\ UNCHANGED <<configVars, treeVars, statVars, nullifiers, tokenVars,
                 proofs, now>>

\* The other handlers; when a fee update may be executed is the business of
\* module Governance.
ConfigChange ==
  /\ \/ \E signer \in Keys : ConfigHandler(signer)
     \/ \E fees \in FeeSettings : ValidFees(fees) /\ InstallFees(fees)
  /\ UNCHANGED <<poolVars, proofs, now>>

Tick ==
  /\ ClockTicks
  /\ UNCHANGED <<configVars, poolVars, proofs>>

PoolNext ==
  \/ \E c \in Commitments : Deposit(c)
  \/ \E c \in Commitments, r \in Recipients : Prove(c, r)
  \/ \E p \in proofs, r, t \in TokenAccounts : Withdraw(p, r, t)

Next ==
  \/ PoolNext
  \/ \E signer \in Keys : FreezePool(signer) \/ UnfreezePool(signer)
  \/ ConfigChange
  \/ Tick

Spec == Init /\ [][Next]_vars

\* A holder keeps proving for the current root while the note is unspent,
\* and relayers keep sending what the program would accept.
FairSpec ==
  /\ Spec
  /\ \A c \in Commitments, r \in Recipients :
       /\ WF_vars(Prove(c, r))
       /\ WF_vars(\E p \in Proof, t \in TokenAccounts :
                    p.nullifier = c /\ Withdraw(p, r, t))

-----------------------------------------------------------------------------
(* Properties *)

TypeOK ==
  /\ ConfigTypeOK
  /\ leaves \in Seq(Commitments)
  /\ nextLeafIndex \in 0..CAPACITY
  /\ currentRoot \in 0..CAPACITY
  /\ historicalRoots \in [Slots -> {NoRoot} \union 0..CAPACITY]
  /\ rootHistoryIndex \in Slots
  /\ isFrozen \in BOOLEAN
  /\ totalDeposits \in Nat /\ totalWithdrawals \in Nat
  /\ feesCollected \in Nat /\ lastDepositAt \in Nat
  /\ nullifiers \subseteq Commitments
  /\ vault \in Nat /\ burned \in Nat
  /\ received \in [TokenAccounts -> Nat]
  /\ proofs \subseteq Proof

\* The vault backs every unspent leaf: it holds one denomination for each
\* leaf minus one for each spent nullifier, and what withdrawals paid back into
\* it, whatever order proofs were sent in, however often each was sent, whoever
\* was named as the treasury and however the fees changed.
VaultBacksNotes ==
  /\ vault = DENOMINATION * (Len(leaves) - Cardinality(nullifiers))
               + received[PoolVault]
  /\ totalDeposits = Len(leaves) /\ nextLeafIndex = Len(leaves)
  /\ totalWithdrawals = Cardinality(nullifiers)
  /\ nullifiers \subseteq {leaves[i] : i \in 1..Len(leaves)}

\* A note that is in the tree and unspent can be redeemed whenever the pool
\* runs: a proof made now would name a known root, and the vault can pay the
\* note at any fee the protocol may have set.
NotesRedeemable ==
  \A i \in 1..Len(leaves) :
    leaves[i] \notin nullifiers =>
      /\ IsKnownRoot(Len(leaves))
      /\ DENOMINATION <= vault
      /\ CalculateFee(DENOMINATION, feeBps) <= DENOMINATION

\* Exactly the last MAX_HISTORICAL_ROOTS roots are accepted, so a proof stays
\* good while fewer deposits than that overtake it, and no longer.
RecentRootsKnown ==
  \A root \in 0..CAPACITY :
    IsKnownRoot(root) <=>
      /\ root <= Len(leaves)
      /\ root > Len(leaves) - MAX_HISTORICAL_ROOTS
      /\ root = 0 => Len(leaves) = 0

\* What a step sends an account.
Paid(account) == received'[account] - received[account]

\* Each withdrawal creates exactly one nullifier record and spends exactly one
\* denomination, which a recipient, the account named as the treasury's and the
\* burn share without a remainder; the vault loses what it is not itself sent.
WithdrawalsConserveTokens ==
  [][nullifiers' # nullifiers =>
       /\ Cardinality(nullifiers' \ nullifiers) = 1
       /\ \E r, t \in TokenAccounts :
            /\ \A a \in TokenAccounts \ {r, t} : Paid(a) = 0
            /\ Paid(r) + (IF t = r THEN 0 ELSE Paid(t)) + (burned' - burned)
                 = DENOMINATION
       /\ vault - vault' = DENOMINATION - Paid(PoolVault)]_vars

\* The spent notes of which some proof, and every proof, was made for account.
SpentFor(account) ==
  {n \in nullifiers :
     \E p \in proofs : p.nullifier = n /\ p.recipient = account}

SpentOnlyFor(account) ==
  {n \in nullifiers :
     \A p \in proofs : p.nullifier = n => p.recipient = account}

\* A relayer that resends, delays or reorders proofs and names whom it likes as
\* the treasury disposes of the fees and of nothing else: no account has got
\* more than the notes spent on proofs made for it are worth and all the fees
\* not burned, and none less than the notes proved for it alone are worth
\* without all the fees.
RelayersMoveOnlyFees ==
  \A a \in TokenAccounts :
    /\ received[a] <= DENOMINATION * Cardinality(SpentFor(a))
                        + (feesCollected - burned)
    /\ received[a] >= DENOMINATION * Cardinality(SpentOnlyFor(a))
                        - feesCollected

\* Once the pool runs undisturbed, every deposited note is withdrawn in the
\* end, however many deposits overtake its proofs.
PoolRuns == ~isPaused /\ ~isFrozen /\ PoolMint \in supportedMints

NotesEventuallyWithdrawn ==
  <>[]PoolRuns =>
    \A c \in Commitments :
      (\E i \in 1..Len(leaves) : leaves[i] = c) ~> c \in nullifiers

=============================================================================
