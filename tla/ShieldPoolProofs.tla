-------------------------- MODULE ShieldPoolProofs --------------------------
(***************************************************************************)
(* Theorems about the shield pool, for every denomination, every capacity  *)
(* of the tree, every length of the root history, every set of mints,      *)
(* commitments, accounts and fee settings: the vault backs the notes, a    *)
(* note stays redeemable, the history holds exactly the recent roots, no   *)
(* withdrawal creates or loses tokens, relayers dispose of nothing but the *)
(* fees, and the pool implements the pot of notes of module NotePool.      *)
(***************************************************************************)
EXTENDS ShieldPoolRefinement, FiniteSetTheorems, TLAPS

-----------------------------------------------------------------------------
(* What the handlers of the protocol config keep, whoever signs. *)

\* The types of the config, with the finiteness that counting its mints needs.
ConfigSound == ConfigTypeOK /\ IsFiniteSet(supportedMints)

LEMMA ConfigInitSound ==
  ASSUME NEW mint \in Mints, ConfigInit({mint}), now \in Nat
  PROVE  ConfigSound
<1>1. PICK fees \in FeeSettings :
        ValidFees(fees) /\ feeBps = fees[1] /\ burnRatioBps = fees[2]
  BY DEF ConfigInit
<1>2. feeBps \in 0..MAX_FEE_BPS /\ burnRatioBps \in 0..MAX_FEE_BPS
  BY <1>1, FeeSettingsAssumption, ConfigLimitsAssumption DEF ValidFees
<1>3. IsFiniteSet({mint}) /\ Cardinality({mint}) = 1
  BY FS_Singleton
<1>4. IsFiniteSet(supportedMints)
      /\ Cardinality(supportedMints) <= MAX_SUPPORTED_MINTS
  BY <1>3, ConfigLimitsAssumption DEF ConfigInit
<1> QED BY <1>2, <1>4 DEF ConfigInit, ConfigSound, ConfigTypeOK

\* Only an allowed mint list comes out of adding or removing a mint.
LEMMA MintListSound ==
  ASSUME ConfigSound, NEW signer \in Keys, NEW mint \in Mints,
         AddSupportedMint(signer, mint) \/ RemoveSupportedMint(signer, mint)
  PROVE  /\ supportedMints' \subseteq Mints
         /\ IsFiniteSet(supportedMints')
         /\ Cardinality(supportedMints') <= MAX_SUPPORTED_MINTS
<1>1. /\ supportedMints \subseteq Mints /\ IsFiniteSet(supportedMints)
      /\ Cardinality(supportedMints) \in Nat
      /\ Cardinality(supportedMints) <= MAX_SUPPORTED_MINTS
      /\ MAX_SUPPORTED_MINTS \in Nat
  BY FS_CardinalityType, ConfigLimitsAssumption DEF ConfigSound, ConfigTypeOK
<1>2. CASE AddSupportedMint(signer, mint)
  <2>1. /\ supportedMints' = supportedMints \union {mint}
        /\ mint \notin supportedMints
        /\ Cardinality(supportedMints) < MAX_SUPPORTED_MINTS
    BY <1>2 DEF AddSupportedMint, MayAddMint
  <2>2. /\ IsFiniteSet(supportedMints')
        /\ Cardinality(supportedMints') = Cardinality(supportedMints) + 1
    BY <1>1, <2>1, FS_AddElement
  <2> QED BY <1>1, <2>1, <2>2
<1>3. CASE RemoveSupportedMint(signer, mint)
  <2>1. /\ supportedMints' = supportedMints \ {mint}
        /\ mint \in supportedMints
    BY <1>3 DEF RemoveSupportedMint
  <2>2. /\ IsFiniteSet(supportedMints')
        /\ Cardinality(supportedMints') = Cardinality(supportedMints) - 1
    BY <1>1, <2>1, FS_RemoveElement
  <2> QED BY <1>1, <2>1, <2>2
<1> QED BY <1>2, <1>3

LEMMA ConfigHandlerSound ==
  ASSUME ConfigSound, NEW signer \in Keys, ConfigHandler(signer), UNCHANGED now
  PROVE  ConfigSound'
<1>1. CASE PauseProtocol(signer)
  BY <1>1 DEF PauseProtocol, ConfigSound, ConfigTypeOK, feeVars
<1>2. CASE ResumeProtocol(signer)
  BY <1>2 DEF ResumeProtocol, ConfigSound, ConfigTypeOK, feeVars
<1>3. ASSUME NEW mint \in Mints,
             AddSupportedMint(signer, mint) \/ RemoveSupportedMint(signer, mint)
      PROVE  ConfigSound'
  <2>1. UNCHANGED <<authority, pendingAuthority, feeBps, burnRatioBps, isPaused>>
    BY <1>3 DEF AddSupportedMint, RemoveSupportedMint, feeVars
  <2> QED BY <1>3, <2>1, MintListSound DEF ConfigSound, ConfigTypeOK
<1>4. ASSUME NEW key \in Keys \union {NoKey},
             InitiateAuthorityTransfer(signer, key)
      PROVE  ConfigSound'
  BY <1>4 DEF InitiateAuthorityTransfer, ConfigSound, ConfigTypeOK, feeVars
<1>5. CASE AcceptAuthorityTransfer(signer)
  BY <1>5 DEF AcceptAuthorityTransfer, ConfigSound, ConfigTypeOK, feeVars
<1> QED BY <1>1, <1>2, <1>3, <1>4, <1>5 DEF ConfigHandler

LEMMA InstallFeesSound ==
  ASSUME ConfigSound, NEW fees \in FeeSettings, ValidFees(fees),
         InstallFees(fees), UNCHANGED now
  PROVE  ConfigSound'
<1>1. fees[1] \in 0..MAX_FEE_BPS /\ fees[2] \in 0..MAX_FEE_BPS
  BY FeeSettingsAssumption, ConfigLimitsAssumption DEF ValidFees
<1> QED BY <1>1 DEF InstallFees, ConfigSound, ConfigTypeOK

LEMMA ConfigUntouched ==
  ASSUME ConfigSound, UNCHANGED configVars, now' \in Nat
  PROVE  ConfigSound'
BY DEF ConfigSound, ConfigTypeOK, configVars, feeVars

-----------------------------------------------------------------------------
(* Fee arithmetic: what the fee and its shares are bounded by *)

LEMMA ProductBounds ==
  \A x, y, z \in Nat : y <= z => x * y \in Nat /\ x * y <= x * z
OBVIOUS

\* Dividing by a positive constant is monotonic: the two uses made of it here.
LEMMA BasisPoints ==
  \A p, a \in Nat :
    /\ p \div 10000 \in Nat
    /\ (p + 9999) \div 10000 \in Nat
    /\ p <= a * 10000 => p \div 10000 <= a /\ (p + 9999) \div 10000 <= a
OBVIOUS

\* The fee never exceeds what it is taken from.
LEMMA FeeWithinAmount ==
  ASSUME NEW amount \in Nat, NEW bps \in 0..MAX_FEE_BPS
  PROVE  CalculateFee(amount, bps) \in 0..amount
<1>1. bps \in Nat /\ bps <= 10000
  BY PoolAssumption, ConfigLimitsAssumption DEF BPS_DENOMINATOR
<1>2. amount * bps \in Nat /\ amount * bps <= amount * 10000
  BY <1>1, ProductBounds
<1>3. /\ (amount * bps + 9999) \div 10000 \in Nat
      /\ (amount * bps + 9999) \div 10000 <= amount
  <2> DEFINE p == amount * bps
  <2> HIDE DEF p
  <2>1. p \in Nat /\ p <= amount * 10000
    BY <1>2 DEF p
  <2>2. (p + 9999) \div 10000 \in Nat /\ (p + 9999) \div 10000 <= amount
    BY <2>1, BasisPoints
  <2> QED BY <2>2 DEF p
<1>4. amount * bps + 10000 - 1 = amount * bps + 9999
  BY <1>2
<1> QED BY <1>1, <1>3, <1>4 DEF CalculateFee, BPS_DENOMINATOR, MIN_FEE_LAMPORTS

\* The burned share is a part of the fee.
LEMMA BurnWithinFee ==
  ASSUME NEW fee \in Nat, NEW ratio \in 0..MAX_FEE_BPS
  PROVE  BurnShare(fee, ratio) \in 0..fee
<1>1. ratio \in Nat /\ ratio <= 10000
  BY PoolAssumption, ConfigLimitsAssumption DEF BPS_DENOMINATOR
<1>2. fee * ratio \in Nat /\ fee * ratio <= fee * 10000
  BY <1>1, ProductBounds
<1>3. (fee * ratio) \div 10000 \in Nat /\ (fee * ratio) \div 10000 <= fee
  BY <1>2, BasisPoints
<1> QED BY <1>3 DEF BurnShare, BPS_DENOMINATOR

\* A withdrawal divides one denomination between the recipient, the treasury
\* and the burn without a remainder, whatever the rates.
LEMMA Shares ==
  ASSUME ConfigTypeOK
  PROVE  LET fee == CalculateFee(DENOMINATION, feeBps)
             net == NetAmount(DENOMINATION, feeBps)
         IN  /\ fee \in 0..DENOMINATION /\ net \in 0..DENOMINATION
             /\ ToTreasury(fee) \in Nat /\ Burned(fee) \in Nat
             /\ ToTreasury(fee) + Burned(fee) = fee
             /\ net + fee = DENOMINATION
<1> DEFINE fee == CalculateFee(DENOMINATION, feeBps)
           burn == BurnShare(fee, burnRatioBps)
<1>1. DENOMINATION \in Nat
  BY PoolAssumption
<1>2. fee \in 0..DENOMINATION
  BY <1>1, FeeWithinAmount DEF ConfigTypeOK
<1>3. burn \in 0..fee
  <2> HIDE DEF fee
  <2> QED BY <1>1, <1>2, BurnWithinFee DEF ConfigTypeOK
<1>4. NetAmount(DENOMINATION, feeBps) = DENOMINATION - fee
  BY DEF NetAmount
<1>5. /\ ToTreasury(fee) = fee - burn + (IF NativeMint THEN burn ELSE 0)
      /\ Burned(fee) = IF NativeMint THEN 0 ELSE burn
  BY DEF ToTreasury, Burned, TreasuryShare
<1> HIDE DEF fee, burn
<1>6. /\ fee \in Nat /\ burn \in Nat /\ burn <= fee /\ fee <= DENOMINATION
  BY <1>1, <1>2, <1>3
<1>7. /\ ToTreasury(fee) \in Nat /\ Burned(fee) \in Nat
      /\ ToTreasury(fee) + Burned(fee) = fee
  BY <1>5, <1>6
<1>8. /\ NetAmount(DENOMINATION, feeBps) \in 0..DENOMINATION
      /\ NetAmount(DENOMINATION, feeBps) + fee = DENOMINATION
  BY <1>1, <1>4, <1>6
<1> QED BY <1>2, <1>7, <1>8 DEF fee

-----------------------------------------------------------------------------
(* The inductive invariant *)

\* What slot i of the ring of roots holds: the slots before the index were
\* written in this lap, the others, if at all, in the one before.
RootInSlot(i) ==
  LET root == Len(leaves) - rootHistoryIndex + i + 1
                - (IF i < rootHistoryIndex THEN 0 ELSE MAX_HISTORICAL_ROOTS)
  IN  IF root > 0 THEN root ELSE NoRoot

RingHoldsRoots ==
  /\ currentRoot = Len(leaves)
  /\ rootHistoryIndex <= Len(leaves)
  /\ \A i \in Slots : historicalRoots[i] = RootInSlot(i)

ProofsAreOfLeaves ==
  \A p \in proofs : \E i \in 1..Len(leaves) : leaves[i] = p.nullifier

PoolInv ==
  /\ ConfigSound
  /\ TypeOK
  /\ RingHoldsRoots
  /\ ProofsAreOfLeaves
  /\ IsFiniteSet(nullifiers)
  /\ VaultBacksNotes

LEMMA InitPool == Init => PoolInv
<1> SUFFICES ASSUME Init PROVE PoolInv
  OBVIOUS
<1>1. ConfigSound
  BY ConfigInitSound, PoolAssumption DEF Init
<1>2. /\ leaves = <<>> /\ Len(leaves) = 0 /\ leaves \in Seq(Commitments)
      /\ nullifiers = {} /\ IsFiniteSet(nullifiers)
      /\ Cardinality(nullifiers) = 0
  BY FS_EmptySet DEF Init
<1>3. TypeOK
  BY <1>1, <1>2, PoolAssumption DEF Init, TypeOK, ConfigSound, Slots
<1>4. RingHoldsRoots
  BY <1>2, PoolAssumption DEF Init, RingHoldsRoots, RootInSlot, Slots
<1>5. ProofsAreOfLeaves
  BY DEF Init, ProofsAreOfLeaves
<1>6. VaultBacksNotes
  BY <1>2, PoolAssumption DEF Init, VaultBacksNotes
<1> QED BY <1>1, <1>2, <1>3, <1>4, <1>5, <1>6 DEF PoolInv

\* The pool's part of the invariant reads only the pool's variables and the
\* proofs.
LEMMA PoolUntouched ==
  ASSUME PoolInv, ConfigSound', UNCHANGED <<poolVars, proofs>>
  PROVE  PoolInv'
<1>1. /\ UNCHANGED <<leaves, nextLeafIndex, currentRoot, historicalRoots,
                     rootHistoryIndex, isFrozen, totalDeposits>>
      /\ UNCHANGED <<totalWithdrawals, feesCollected, lastDepositAt,
                     nullifiers, vault, received, burned, proofs>>
  BY DEF poolVars, treeVars, statVars, tokenVars
<1>2. TypeOK'
  BY <1>1 DEF PoolInv, TypeOK, ConfigSound
<1>3. RingHoldsRoots'
  BY <1>1 DEF PoolInv, RingHoldsRoots, RootInSlot
<1>4. ProofsAreOfLeaves'
  BY <1>1 DEF PoolInv, ProofsAreOfLeaves
<1>5. VaultBacksNotes'
  BY <1>1 DEF PoolInv, VaultBacksNotes
<1> QED BY <1>1, <1>2, <1>3, <1>4, <1>5 DEF PoolInv

\* The index of the ring wraps around.
LEMMA NextSlot ==
  ASSUME NEW i \in Slots
  PROVE  (i + 1) % MAX_HISTORICAL_ROOTS
           = IF i + 1 = MAX_HISTORICAL_ROOTS THEN 0 ELSE i + 1
<1>1. /\ MAX_HISTORICAL_ROOTS \in Nat \ {0} /\ i \in Nat
      /\ i < MAX_HISTORICAL_ROOTS
  BY PoolAssumption DEF Slots
<1> QED BY <1>1

\* An appended sequence keeps its leaves and ends in the new one.
LEMMA AppendedLeaves ==
  ASSUME leaves \in Seq(Commitments), NEW c \in Commitments,
         leaves' = Append(leaves, c)
  PROVE  /\ leaves' \in Seq(Commitments)
         /\ Len(leaves) \in Nat /\ Len(leaves') = Len(leaves) + 1
         /\ \A i \in 1..Len(leaves) : leaves'[i] = leaves[i]
         /\ leaves'[Len(leaves) + 1] = c
OBVIOUS

LEMMA DepositRing ==
  ASSUME PoolInv, NEW c \in Commitments, Deposit(c)
  PROVE  RingHoldsRoots' /\ rootHistoryIndex' \in Slots
<1> DEFINE n == Len(leaves)
           r == rootHistoryIndex
           M == MAX_HISTORICAL_ROOTS
<1>1. /\ leaves \in Seq(Commitments) /\ r \in Slots
      /\ historicalRoots \in [Slots -> {NoRoot} \union 0..CAPACITY]
      /\ M \in Nat \ {0}
  BY PoolAssumption DEF PoolInv, TypeOK
<1>2. n \in Nat /\ Len(leaves') = n + 1 /\ nextLeafIndex = n
  BY <1>1, AppendedLeaves DEF Deposit, PoolInv, VaultBacksNotes
<1>3. /\ r <= n
      /\ \A i \in Slots : historicalRoots[i] = RootInSlot(i)
  BY DEF PoolInv, RingHoldsRoots
<1>4. /\ historicalRoots' = [historicalRoots EXCEPT ![r] = n + 1]
      /\ currentRoot' = n + 1
      /\ rootHistoryIndex' = IF r + 1 = M THEN 0 ELSE r + 1
  BY <1>1, <1>2, NextSlot DEF Deposit, PushRoot
<1>5. /\ r \in Nat /\ r < M
      /\ rootHistoryIndex' \in Slots /\ rootHistoryIndex' <= Len(leaves')
  BY <1>1, <1>2, <1>3, <1>4 DEF Slots
<1>6. ASSUME NEW i \in Slots
      PROVE  historicalRoots'[i] = RootInSlot(i)'
  <2>1. i \in Nat /\ i < M
    BY <1>1 DEF Slots
  <2>2. RootInSlot(i)'
          = LET root == Len(leaves') - rootHistoryIndex' + i + 1
                          - (IF i < rootHistoryIndex' THEN 0 ELSE M)
            IN  IF root > 0 THEN root ELSE NoRoot
    BY DEF RootInSlot
  <2>3. CASE i = r
    <3>1. historicalRoots'[i] = n + 1
      BY <1>1, <1>4, <2>3
    <3>2. RootInSlot(i)' = n + 1
      BY <1>1, <1>2, <1>4, <1>5, <2>1, <2>2, <2>3
    <3> QED BY <3>1, <3>2
  <2>4. CASE i # r
    <3>1. historicalRoots'[i] = RootInSlot(i)
      BY <1>1, <1>3, <1>4, <2>4
    <3>2. RootInSlot(i) = LET root == n - r + i + 1 - (IF i < r THEN 0 ELSE M)
                          IN  IF root > 0 THEN root ELSE NoRoot
      BY DEF RootInSlot
    <3>3. RootInSlot(i)' = RootInSlot(i)
      BY <1>1, <1>2, <1>3, <1>4, <1>5, <2>1, <2>2, <2>4, <3>2
    <3> QED BY <3>1, <3>3
  <2> QED BY <2>3, <2>4
<1> QED BY <1>2, <1>4, <1>5, <1>6 DEF RingHoldsRoots

\* Every deposit adds one leaf and one denomination, and leaves the leaves
\* before it, hence every proof made for one of them, as they were.
LEMMA DepositKeeps ==
  ASSUME PoolInv, NEW c \in Commitments, Deposit(c)
  PROVE  PoolInv'
<1> DEFINE n == Len(leaves)
<1>1. /\ ConfigSound /\ TypeOK /\ ProofsAreOfLeaves /\ VaultBacksNotes
      /\ IsFiniteSet(nullifiers)
  BY DEF PoolInv
<1>2. leaves \in Seq(Commitments) /\ leaves' = Append(leaves, c)
  BY <1>1 DEF Deposit, TypeOK
<1>3. /\ leaves' \in Seq(Commitments) /\ n \in Nat /\ Len(leaves') = n + 1
      /\ \A i \in 1..n : leaves'[i] = leaves[i]
  BY <1>2, AppendedLeaves
<1>4. /\ UNCHANGED <<configVars, isFrozen, totalWithdrawals, feesCollected,
                     nullifiers, received, burned, proofs, now>>
      /\ nextLeafIndex' = nextLeafIndex + 1
      /\ totalDeposits' = totalDeposits + 1
      /\ lastDepositAt' = now
      /\ vault' = vault + DENOMINATION
      /\ nextLeafIndex < CAPACITY
      /\ currentRoot' = nextLeafIndex + 1
      /\ historicalRoots' =
           [historicalRoots EXCEPT ![rootHistoryIndex] = nextLeafIndex + 1]
  BY DEF Deposit, PushRoot
<1>5. ConfigSound'
  BY <1>1, <1>4, ConfigUntouched DEF ConfigSound, ConfigTypeOK
<1>6. RingHoldsRoots' /\ rootHistoryIndex' \in Slots
  BY DepositRing
<1>7. TypeOK'
  <2>1. /\ nextLeafIndex' \in 0..CAPACITY /\ currentRoot' \in 0..CAPACITY
        /\ historicalRoots' \in [Slots -> {NoRoot} \union 0..CAPACITY]
    BY <1>1, <1>4, PoolAssumption DEF TypeOK
  <2>2. /\ vault' \in Nat /\ totalDeposits' \in Nat /\ lastDepositAt' \in Nat
    BY <1>1, <1>4, PoolAssumption DEF TypeOK, ConfigTypeOK
  <2> QED BY <1>1, <1>3, <1>4, <1>5, <1>6, <2>1, <2>2 DEF TypeOK, ConfigSound
<1>8. ProofsAreOfLeaves'
  BY <1>1, <1>3, <1>4 DEF ProofsAreOfLeaves
<1>9. VaultBacksNotes'
  <2>1. Cardinality(nullifiers) \in Nat /\ DENOMINATION \in Nat
    BY <1>1, FS_CardinalityType, PoolAssumption
  <2>2. \A x \in Int : DENOMINATION * (x + 1) = DENOMINATION * x + DENOMINATION
    BY <2>1
  <2>3. vault' = DENOMINATION * (Len(leaves') - Cardinality(nullifiers'))
                   + received'[PoolVault]
    <3> DEFINE unspent == n - Cardinality(nullifiers)
    <3>1. /\ unspent \in Int
          /\ vault = DENOMINATION * unspent + received[PoolVault]
          /\ Len(leaves') - Cardinality(nullifiers') = unspent + 1
      BY <1>1, <1>3, <1>4, <2>1 DEF VaultBacksNotes
    <3>2. DENOMINATION * unspent \in Int /\ received[PoolVault] \in Nat
          /\ received' = received
      BY <1>1, <1>4, <2>1, <3>1, PoolAssumption DEF TypeOK
    <3> HIDE DEF unspent
    <3> QED BY <1>4, <2>1, <2>2, <3>1, <3>2
  <2>4. nullifiers' \subseteq {leaves'[i] : i \in 1..Len(leaves')}
    BY <1>1, <1>3, <1>4 DEF VaultBacksNotes
  <2> QED BY <1>1, <1>3, <1>4, <2>3, <2>4 DEF VaultBacksNotes
<1> QED BY <1>1, <1>4, <1>5, <1>6, <1>7, <1>8, <1>9 DEF PoolInv

LEMMA ProveKeeps ==
  ASSUME PoolInv, NEW c \in Commitments, NEW r \in Recipients, Prove(c, r)
  PROVE  PoolInv'
<1> DEFINE p == [root |-> Len(leaves), nullifier |-> c, recipient |-> r]
<1>1. /\ UNCHANGED <<configVars, poolVars, now>>
      /\ proofs' = proofs \union {p}
      /\ \E i \in 1..Len(leaves) : leaves[i] = c
  BY DEF Prove
<1>2. p \in Proof
  BY DEF Proof, PoolInv, TypeOK, VaultBacksNotes
<1>3. UNCHANGED <<leaves, nextLeafIndex, currentRoot, historicalRoots,
                  rootHistoryIndex, isFrozen, totalDeposits,
                  totalWithdrawals, feesCollected, lastDepositAt,
                  nullifiers, vault, received, burned>>
  BY <1>1 DEF poolVars, treeVars, statVars, tokenVars
<1>4. ConfigSound'
  BY <1>1, ConfigUntouched DEF PoolInv, ConfigSound, ConfigTypeOK
<1>5. TypeOK'
  <2>1. proofs' \subseteq Proof
    BY <1>1, <1>2 DEF PoolInv, TypeOK
  <2> QED BY <1>3, <1>4, <2>1 DEF PoolInv, TypeOK, ConfigSound
<1>6. RingHoldsRoots' /\ VaultBacksNotes'
  BY <1>3 DEF PoolInv, RingHoldsRoots, RootInSlot, VaultBacksNotes
<1>7. ProofsAreOfLeaves'
  BY <1>1, <1>3 DEF PoolInv, ProofsAreOfLeaves
<1> QED BY <1>3, <1>4, <1>5, <1>6, <1>7 DEF PoolInv

\* What a withdrawal moves: the net amount to the recipient, a share of the fee
\* to the treasury's account, the rest of the fee to the burn, one denomination
\* in all, of which the vault keeps what goes back to it.
Moves(r, t, net, share, burn) ==
  /\ net \in Nat /\ share \in Nat /\ burn \in Nat
  /\ net + share + burn = DENOMINATION
  /\ received' = [a \in TokenAccounts |->
                    received[a] + (IF a = r THEN net ELSE 0)
                      + (IF a = t THEN share ELSE 0)]
  /\ received' \in [TokenAccounts -> Nat]
  /\ burned' = burned + burn
  /\ feesCollected' = feesCollected + share + burn
  /\ vault' \in Nat
  /\ vault' = vault - DENOMINATION + Paid(PoolVault)

LEMMA WithdrawMoves ==
  ASSUME PoolInv, NEW p \in proofs,
         NEW r \in TokenAccounts, NEW t \in TokenAccounts, Withdraw(p, r, t)
  PROVE  \E net, share, burn \in Nat : Moves(r, t, net, share, burn)
<1> DEFINE fee   == CalculateFee(DENOMINATION, feeBps)
           net   == NetAmount(DENOMINATION, feeBps)
           share == ToTreasury(fee)
           burn  == Burned(fee)
<1>1. /\ received' = [a \in TokenAccounts |->
                        received[a] + (IF a = r THEN net ELSE 0)
                          + (IF a = t THEN share ELSE 0)]
      /\ burned' = burned + burn
      /\ vault' = vault - TakenBy(r, net) - TakenBy(t, share) - burn
      /\ TakenBy(r, net) + TakenBy(t, share) + burn <= vault
      /\ feesCollected' = feesCollected + fee
  BY DEF Withdraw
<1>2. /\ fee \in 0..DENOMINATION /\ net \in 0..DENOMINATION
      /\ share \in Nat /\ burn \in Nat
      /\ share + burn = fee /\ net + fee = DENOMINATION
  BY Shares DEF PoolInv, ConfigSound
<1>3. /\ received \in [TokenAccounts -> Nat] /\ vault \in Nat
      /\ feesCollected \in Nat
      /\ DENOMINATION \in Nat /\ PoolVault \in TokenAccounts
  BY PoolAssumption DEF PoolInv, TypeOK
<1> HIDE DEF fee, net, share, burn
<1>4. /\ fee \in Nat /\ net \in Nat
      /\ net + share + burn = DENOMINATION
      /\ feesCollected' = feesCollected + share + burn
  BY <1>1, <1>2, <1>3
<1>5. received' \in [TokenAccounts -> Nat]
  <2>1. \A a \in TokenAccounts :
          received[a] + (IF a = r THEN net ELSE 0)
            + (IF a = t THEN share ELSE 0) \in Nat
    BY <1>2, <1>3, <1>4
  <2> QED BY <1>1, <2>1
<1>6. Paid(PoolVault) = (IF r = PoolVault THEN net ELSE 0)
                          + (IF t = PoolVault THEN share ELSE 0)
  <2>1. received[PoolVault] \in Nat
    BY <1>3
  <2>2. received'[PoolVault] = received[PoolVault]
          + (IF r = PoolVault THEN net ELSE 0)
          + (IF t = PoolVault THEN share ELSE 0)
    BY <1>1, <1>3
  <2> QED BY <1>2, <1>4, <2>1, <2>2 DEF Paid
<1>7. /\ TakenBy(r, net) = net - (IF r = PoolVault THEN net ELSE 0)
      /\ TakenBy(t, share) = share - (IF t = PoolVault THEN share ELSE 0)
  BY <1>2, <1>4 DEF TakenBy
<1>8. vault' \in Nat /\ vault' = vault - DENOMINATION + Paid(PoolVault)
  BY <1>1, <1>2, <1>3, <1>4, <1>6, <1>7
<1>9. Moves(r, t, net, share, burn)
  BY <1>1, <1>2, <1>4, <1>5, <1>8 DEF Moves
<1> QED BY <1>2, <1>4, <1>9

\* A withdrawal spends the nullifier of a leaf and takes one denomination.
LEMMA WithdrawKeeps ==
  ASSUME PoolInv, NEW p \in proofs,
         NEW r \in TokenAccounts, NEW t \in TokenAccounts, Withdraw(p, r, t)
  PROVE  PoolInv'
<1>1. /\ ConfigSound /\ TypeOK /\ RingHoldsRoots /\ ProofsAreOfLeaves
      /\ VaultBacksNotes /\ IsFiniteSet(nullifiers)
  BY DEF PoolInv
<1>2. /\ UNCHANGED <<configVars, treeVars, isFrozen, totalDeposits,
                     lastDepositAt, proofs, now>>
      /\ p.nullifier \notin nullifiers
      /\ nullifiers' = nullifiers \union {p.nullifier}
      /\ totalWithdrawals' = totalWithdrawals + 1
  BY DEF Withdraw, Unspent
<1>3. PICK net, share, burn \in Nat : Moves(r, t, net, share, burn)
  BY WithdrawMoves
<1>4. UNCHANGED <<leaves, nextLeafIndex, currentRoot, historicalRoots,
                  rootHistoryIndex>>
  BY <1>2 DEF treeVars
<1>5. /\ received' \in [TokenAccounts -> Nat] /\ vault' \in Nat
      /\ vault' = vault - DENOMINATION
                    + (received'[PoolVault] - received[PoolVault])
      /\ burned' = burned + burn
      /\ feesCollected' = feesCollected + share + burn
  BY <1>3 DEF Moves, Paid
<1>6. ConfigSound'
  BY <1>1, <1>2, ConfigUntouched DEF ConfigSound, ConfigTypeOK
<1>7. /\ IsFiniteSet(nullifiers')
      /\ Cardinality(nullifiers) \in Nat
      /\ Cardinality(nullifiers') = Cardinality(nullifiers) + 1
  BY <1>1, <1>2, FS_AddElement, FS_CardinalityType
<1>8. TypeOK'
  <2>1. p.nullifier \in Commitments
    BY <1>1 DEF TypeOK, Proof
  <2>2. burned' \in Nat /\ totalWithdrawals' \in Nat /\ feesCollected' \in Nat
    BY <1>1, <1>2, <1>5 DEF TypeOK
  <2> QED BY <1>1, <1>2, <1>4, <1>5, <1>6, <2>1, <2>2 DEF TypeOK, ConfigSound
<1>9. RingHoldsRoots' /\ ProofsAreOfLeaves'
  BY <1>1, <1>2, <1>4 DEF RingHoldsRoots, RootInSlot, ProofsAreOfLeaves
<1>10. VaultBacksNotes'
  <2>1. Len(leaves) \in Nat /\ DENOMINATION \in Nat
    BY <1>1, PoolAssumption DEF TypeOK
  <2>2. \A x \in Int : DENOMINATION * (x - 1) = DENOMINATION * x - DENOMINATION
    BY <2>1
  <2>3. vault' = DENOMINATION * (Len(leaves') - Cardinality(nullifiers'))
                   + received'[PoolVault]
    <3> DEFINE unspent == Len(leaves) - Cardinality(nullifiers)
    <3>1. /\ unspent \in Int
          /\ vault = DENOMINATION * unspent + received[PoolVault]
          /\ Len(leaves') - Cardinality(nullifiers') = unspent - 1
      BY <1>1, <1>4, <1>7, <2>1 DEF VaultBacksNotes
    <3>2. /\ DENOMINATION * unspent \in Int
          /\ received[PoolVault] \in Nat /\ received'[PoolVault] \in Nat
      BY <1>1, <1>5, <2>1, <3>1, PoolAssumption DEF TypeOK
    <3> HIDE DEF unspent
    <3>3. DENOMINATION * (unspent - 1) = DENOMINATION * unspent - DENOMINATION
      BY <2>2, <3>1
    <3>4. vault' = DENOMINATION * unspent - DENOMINATION + received'[PoolVault]
      <4> DEFINE backing == DENOMINATION * unspent
      <4>1. /\ backing \in Int /\ vault = backing + received[PoolVault]
            /\ received[PoolVault] \in Nat /\ received'[PoolVault] \in Nat
        BY <3>1, <3>2
      <4> HIDE DEF backing
      <4>2. vault' = vault - DENOMINATION
                       + (received'[PoolVault] - received[PoolVault])
        BY <1>5
      <4>3. vault' = backing - DENOMINATION + received'[PoolVault]
        BY <2>1, <4>1, <4>2
      <4> QED BY <4>3 DEF backing
    <3> QED BY <3>1, <3>3, <3>4
  <2>4. p.nullifier \in {leaves[i] : i \in 1..Len(leaves)}
    BY <1>1 DEF ProofsAreOfLeaves
  <2> QED BY <1>1, <1>2, <1>4, <1>7, <2>3, <2>4 DEF VaultBacksNotes
<1> QED BY <1>6, <1>7, <1>8, <1>9, <1>10 DEF PoolInv

LEMMA NextPool ==
  ASSUME PoolInv, [Next]_vars
  PROVE  PoolInv'
<1>1. ASSUME NEW c \in Commitments, Deposit(c) PROVE PoolInv'
  BY <1>1, DepositKeeps
<1>2. ASSUME NEW c \in Commitments, NEW r \in Recipients, Prove(c, r)
      PROVE  PoolInv'
  BY <1>2, ProveKeeps
<1>3. ASSUME NEW p \in proofs, NEW r \in TokenAccounts,
             NEW t \in TokenAccounts, Withdraw(p, r, t)
      PROVE  PoolInv'
  BY <1>3, WithdrawKeeps
<1>4. ASSUME NEW signer \in Keys, FreezePool(signer) \/ UnfreezePool(signer)
      PROVE  PoolInv'
  <2>1. /\ UNCHANGED <<configVars, treeVars, statVars, nullifiers, tokenVars,
                       proofs, now>>
        /\ isFrozen' \in BOOLEAN
    BY <1>4 DEF FreezePool, UnfreezePool
  <2>2. UNCHANGED <<leaves, nextLeafIndex, currentRoot, historicalRoots,
                    rootHistoryIndex, totalDeposits, totalWithdrawals,
                    feesCollected, lastDepositAt, vault, received, burned>>
    BY <2>1 DEF treeVars, statVars, tokenVars
  <2>3. ConfigSound'
    BY <2>1, ConfigUntouched DEF PoolInv, ConfigSound, ConfigTypeOK
  <2>4. TypeOK'
    BY <2>1, <2>2, <2>3 DEF PoolInv, TypeOK, ConfigSound
  <2>5. RingHoldsRoots' /\ ProofsAreOfLeaves' /\ VaultBacksNotes'
    BY <2>1, <2>2 DEF PoolInv, RingHoldsRoots, RootInSlot, ProofsAreOfLeaves,
                      VaultBacksNotes
  <2> QED BY <2>1, <2>3, <2>4, <2>5 DEF PoolInv
<1>5. CASE ConfigChange
  <2>1. UNCHANGED <<poolVars, proofs, now>>
    BY <1>5 DEF ConfigChange
  <2>2. ConfigSound'
    BY <1>5, <2>1, ConfigHandlerSound, InstallFeesSound DEF ConfigChange, PoolInv
  <2> QED BY <2>1, <2>2, PoolUntouched
<1>6. CASE Tick
  <2>1. ConfigSound'
    BY <1>6, ConfigUntouched
       DEF Tick, ClockTicks, PoolInv, ConfigSound, ConfigTypeOK
  <2> QED BY <1>6, <2>1, PoolUntouched DEF Tick
<1>7. CASE UNCHANGED vars
  <2>1. ConfigSound'
    BY <1>7, ConfigUntouched DEF vars, PoolInv, ConfigSound, ConfigTypeOK
  <2> QED BY <1>7, <2>1, PoolUntouched DEF vars
<1> QED BY <1>1, <1>2, <1>3, <1>4, <1>5, <1>6, <1>7 DEF Next, PoolNext

\* The inductive invariant holds throughout.
THEOREM PoolInvariant == Spec => []PoolInv
<1>1. Init => PoolInv
  BY InitPool
<1>2. PoolInv /\ [Next]_vars => PoolInv'
  BY NextPool
<1> QED BY <1>1, <1>2, PTL DEF Spec

-----------------------------------------------------------------------------
(* The safety properties *)

\* Every part of the pool's state keeps its type: no balance below zero, no
\* index outside its ring or its tree, no rate above 100%.
THEOREM PoolTypeCorrect == Spec => []TypeOK
<1>1. PoolInv => TypeOK
  BY DEF PoolInv
<1> QED BY <1>1, PoolInvariant, PTL

\* The vault holds exactly one denomination for each unspent leaf.
THEOREM VaultBacked == Spec => []VaultBacksNotes
<1>1. PoolInv => VaultBacksNotes
  BY DEF PoolInv
<1> QED BY <1>1, PoolInvariant, PTL

\* There are no more distinct leaves than positions in the tree.
LEMMA LeavesCounted ==
  ASSUME leaves \in Seq(Commitments)
  PROVE  LET distinct == {leaves[i] : i \in 1..Len(leaves)}
         IN  /\ IsFiniteSet(distinct)
             /\ Cardinality(distinct) <= Len(leaves)
<1> DEFINE n        == Len(leaves)
           distinct == {leaves[i] : i \in 1..n}
           leafAt   == [i \in 1..n |-> leaves[i]]
<1>1. n \in Nat
  OBVIOUS
<1>2. IsFiniteSet(1..n) /\ Cardinality(1..n) = n
  <2> HIDE DEF n
  <2> QED BY <1>1, FS_Interval
<1>3. leafAt \in Surjection(1..n, distinct)
  BY DEF Surjection
<1>4. IsFiniteSet(distinct) /\ Cardinality(distinct) <= Cardinality(1..n)
  <2> HIDE DEF n, distinct, leafAt
  <2> QED BY <1>2, <1>3, FS_Surjection
<1> QED BY <1>2, <1>4

\* While a leaf is unspent fewer nullifiers than leaves exist, so the vault
\* holds a denomination at least.
LEMMA UnspentIsBacked ==
  ASSUME PoolInv, NEW i \in 1..Len(leaves), leaves[i] \notin nullifiers
  PROVE  DENOMINATION <= vault
<1> DEFINE distinct == {leaves[j] : j \in 1..Len(leaves)}
           unspent  == Len(leaves) - Cardinality(nullifiers)
<1>1. /\ TypeOK /\ VaultBacksNotes /\ IsFiniteSet(nullifiers)
      /\ leaves \in Seq(Commitments) /\ Len(leaves) \in Nat
  BY DEF PoolInv, TypeOK
<1>2. IsFiniteSet(distinct) /\ Cardinality(distinct) <= Len(leaves)
  BY <1>1, LeavesCounted
<1>3. nullifiers \union {leaves[i]} \subseteq distinct
  BY <1>1 DEF VaultBacksNotes
<1>4. Cardinality(nullifiers \union {leaves[i]}) = Cardinality(nullifiers) + 1
  BY <1>1, FS_AddElement
<1>5. Cardinality(nullifiers \union {leaves[i]}) <= Cardinality(distinct)
  <2> HIDE DEF distinct
  <2> QED BY <1>2, <1>3, FS_Subset
<1>6. Cardinality(nullifiers) \in Nat /\ Cardinality(distinct) \in Nat
  <2> HIDE DEF distinct
  <2> QED BY <1>1, <1>2, FS_CardinalityType
<1>7. unspent \in Nat /\ unspent >= 1
  <2> HIDE DEF distinct
  <2> QED BY <1>1, <1>2, <1>4, <1>5, <1>6
<1>8. vault = DENOMINATION * unspent + received[PoolVault]
  BY <1>1 DEF VaultBacksNotes
<1>9. /\ DENOMINATION \in Nat /\ DENOMINATION * unspent \in Nat
      /\ DENOMINATION <= DENOMINATION * unspent
  <2> HIDE DEF unspent
  <2> QED BY <1>7, PoolAssumption, ProductBounds
<1>10. received[PoolVault] \in Nat
  BY <1>1, PoolAssumption DEF TypeOK
<1> DEFINE backing == DENOMINATION * unspent
<1>11. backing \in Nat /\ DENOMINATION <= backing
       /\ vault = backing + received[PoolVault]
  BY <1>8, <1>9
<1> HIDE DEF backing
<1> QED BY <1>9, <1>10, <1>11

\* A note in the tree whose nullifier is unused can be redeemed at any time
\* the pool runs.
THEOREM NotesStayRedeemable == Spec => []NotesRedeemable
<1>1. ASSUME PoolInv PROVE NotesRedeemable
  <2> SUFFICES ASSUME NEW i \in 1..Len(leaves), leaves[i] \notin nullifiers
               PROVE  /\ IsKnownRoot(Len(leaves))
                      /\ DENOMINATION <= vault
                      /\ CalculateFee(DENOMINATION, feeBps) <= DENOMINATION
    BY DEF NotesRedeemable
  <2>1. IsKnownRoot(Len(leaves))
    BY <1>1 DEF PoolInv, RingHoldsRoots, IsKnownRoot
  <2>2. DENOMINATION <= vault
    BY <1>1, UnspentIsBacked
  <2>3. CalculateFee(DENOMINATION, feeBps) <= DENOMINATION
    BY <1>1, Shares, PoolAssumption DEF PoolInv, ConfigSound
  <2> QED BY <2>1, <2>2, <2>3
<1> QED BY <1>1, PoolInvariant, PTL

\* A root is accepted exactly while fewer deposits than the history has slots
\* have overtaken it.
THEOREM RecentRootsAccepted == Spec => []RecentRootsKnown
<1>1. ASSUME PoolInv PROVE RecentRootsKnown
  <2> DEFINE n == Len(leaves)
             r == rootHistoryIndex
             M == MAX_HISTORICAL_ROOTS
  <2>1. /\ n \in Nat /\ r \in Nat /\ r < M /\ r <= n /\ M \in Nat \ {0}
        /\ currentRoot = n
        /\ \A i \in Slots : historicalRoots[i] = RootInSlot(i)
    BY <1>1, PoolAssumption DEF PoolInv, TypeOK, RingHoldsRoots, Slots
  <2>2. \A i \in Slots :
          RootInSlot(i) = LET root == n - r + i + 1 - (IF i < r THEN 0 ELSE M)
                          IN  IF root > 0 THEN root ELSE NoRoot
    BY DEF RootInSlot
  <2> HIDE DEF n, r, M
  <2> SUFFICES ASSUME NEW root \in 0..CAPACITY
               PROVE  IsKnownRoot(root) <=>
                        /\ root <= n
                        /\ root > n - M
                        /\ root = 0 => n = 0
    BY DEF RecentRootsKnown, n, M
  <2>3. root \in Nat
    BY PoolAssumption
  <2>4. ASSUME NEW i \in Slots, historicalRoots[i] = root
        PROVE  root <= n /\ root > n - M /\ root # 0
    <3>1. i \in Nat /\ i < M
      BY <2>1 DEF Slots, M
    <3>2. RootInSlot(i) = root
      BY <2>1, <2>4
    <3> QED BY <2>1, <2>2, <2>3, <3>1, <3>2 DEF NoRoot
  <2>5. ASSUME root <= n, root > n - M, root # 0
        PROVE  \E i \in Slots : historicalRoots[i] = root
    <3>1. CASE root > n - r
      <4>1. root - (n - r) - 1 \in Slots /\ root - (n - r) - 1 < r
        BY <2>1, <2>3, <2>5, <3>1 DEF Slots, M
      <4>2. RootInSlot(root - (n - r) - 1) = root
        BY <2>1, <2>2, <2>3, <2>5, <4>1
      <4> QED BY <2>1, <4>1, <4>2
    <3>2. CASE root <= n - r
      <4>1. /\ root - (n - r) - 1 + M \in Slots
            /\ ~(root - (n - r) - 1 + M < r)
        BY <2>1, <2>3, <2>5, <3>2 DEF Slots, M
      <4>2. RootInSlot(root - (n - r) - 1 + M) = root
        BY <2>1, <2>2, <2>3, <2>5, <4>1
      <4> QED BY <2>1, <4>1, <4>2
    <3> QED BY <2>1, <2>3, <3>1, <3>2
  <2>6. IsKnownRoot(root)
          <=> root = n \/ \E i \in Slots : historicalRoots[i] = root
    BY <2>1 DEF IsKnownRoot
  <2>7. CASE root = n
    BY <2>1, <2>6, <2>7
  <2>8. CASE root # n
    BY <2>1, <2>3, <2>4, <2>5, <2>6, <2>8
  <2> QED BY <2>7, <2>8
<1> QED BY <1>1, PoolInvariant, PTL

-----------------------------------------------------------------------------
(* What a step may do *)

\* Tokens, leaves and nullifiers move by deposits and withdrawals only, and
\* proofs are only ever added, by Prove.
LEMMA StepKinds ==
  ASSUME [Next]_vars
  PROVE  \/ \E c \in Commitments : Deposit(c)
         \/ \E p \in proofs, r, t \in TokenAccounts : Withdraw(p, r, t)
         \/ /\ UNCHANGED <<leaves, totalDeposits, nullifiers, vault, received,
                           burned, feesCollected>>
            /\ proofs \subseteq proofs'
BY DEF Next, PoolNext, Prove, FreezePool, UnfreezePool, ConfigChange, Tick,
       vars, poolVars, treeVars, statVars, tokenVars

\* What one withdrawal pays whom, and which nullifier it spends.
LEMMA WithdrawPays ==
  ASSUME PoolInv, NEW p \in proofs,
         NEW r \in TokenAccounts, NEW t \in TokenAccounts, Withdraw(p, r, t)
  PROVE  /\ p.recipient = r
         /\ p.nullifier \notin nullifiers
         /\ nullifiers' = nullifiers \union {p.nullifier}
         /\ nullifiers' \ nullifiers = {p.nullifier}
         /\ vault - vault' = DENOMINATION - Paid(PoolVault)
         /\ \A a \in TokenAccounts \ {r, t} : Paid(a) = 0
         /\ Paid(r) + (IF t = r THEN 0 ELSE Paid(t)) + (burned' - burned)
              = DENOMINATION
<1>1. /\ p.recipient = r
      /\ p.nullifier \notin nullifiers
      /\ nullifiers' = nullifiers \union {p.nullifier}
  BY DEF Withdraw, Unspent, ProofVerifies
<1>2. PICK net, share, burn \in Nat : Moves(r, t, net, share, burn)
  BY WithdrawMoves
<1>3. /\ received \in [TokenAccounts -> Nat]
      /\ burned \in Nat /\ vault \in Nat /\ DENOMINATION \in Nat
      /\ PoolVault \in TokenAccounts
  BY PoolAssumption DEF PoolInv, TypeOK
<1>4. \A a \in TokenAccounts :
        Paid(a) = (IF a = r THEN net ELSE 0) + (IF a = t THEN share ELSE 0)
  <2> SUFFICES ASSUME NEW a \in TokenAccounts
               PROVE  Paid(a) = (IF a = r THEN net ELSE 0)
                                  + (IF a = t THEN share ELSE 0)
    OBVIOUS
  <2>1. received'[a] = received[a] + (IF a = r THEN net ELSE 0)
                         + (IF a = t THEN share ELSE 0)
    BY <1>2 DEF Moves
  <2>2. received[a] \in Nat
    BY <1>3
  <2> QED BY <2>1, <2>2 DEF Paid
<1>5. vault - vault' = DENOMINATION - Paid(PoolVault)
  <2>1. Paid(PoolVault) \in Int
    BY <1>3, <1>4
  <2> QED BY <1>2, <1>3, <2>1 DEF Moves
<1>6. Paid(r) + (IF t = r THEN 0 ELSE Paid(t)) + (burned' - burned)
        = DENOMINATION
  <2>1. burned' - burned = burn /\ net + share + burn = DENOMINATION
    BY <1>2, <1>3 DEF Moves
  <2> QED BY <1>4, <2>1
<1> QED BY <1>1, <1>4, <1>5, <1>6

\* No withdrawal creates or loses tokens, whatever the fee and the burn share
\* round to and whoever is named as the treasury.
THEOREM WithdrawalsConserve == Spec => WithdrawalsConserveTokens
<1> DEFINE Conserved ==
             /\ Cardinality(nullifiers' \ nullifiers) = 1
             /\ \E r, t \in TokenAccounts :
                  /\ \A a \in TokenAccounts \ {r, t} : Paid(a) = 0
                  /\ Paid(r) + (IF t = r THEN 0 ELSE Paid(t))
                       + (burned' - burned) = DENOMINATION
             /\ vault - vault' = DENOMINATION - Paid(PoolVault)
<1>1. ASSUME PoolInv, [Next]_vars
      PROVE  [nullifiers' # nullifiers => Conserved]_vars
  <2> SUFFICES ASSUME nullifiers' # nullifiers
               PROVE  Conserved
    OBVIOUS
  <2>1. PICK p \in proofs, r \in TokenAccounts, t \in TokenAccounts :
          Withdraw(p, r, t)
    BY <1>1, StepKinds DEF Deposit
  <2>2. Cardinality(nullifiers' \ nullifiers) = 1
    BY <1>1, <2>1, WithdrawPays, FS_Singleton
  <2> QED BY <1>1, <2>1, <2>2, WithdrawPays
<1> QED BY <1>1, PoolInvariant, PTL DEF Spec, WithdrawalsConserveTokens

\* Counting the spent notes of an account, of a finite set of nullifiers.
LEMMA SpentCounted ==
  ASSUME IsFiniteSet(nullifiers), NEW a
  PROVE  /\ IsFiniteSet(SpentFor(a)) /\ Cardinality(SpentFor(a)) \in Nat
         /\ IsFiniteSet(SpentOnlyFor(a)) /\ Cardinality(SpentOnlyFor(a)) \in Nat
<1>1. SpentFor(a) \subseteq nullifiers /\ SpentOnlyFor(a) \subseteq nullifiers
  BY DEF SpentFor, SpentOnlyFor
<1> QED BY <1>1, FS_Subset, FS_CardinalityType

\* More proofs: the notes spent for an account grow, those proved for it alone
\* become fewer.
LEMMA MoreProofs ==
  ASSUME IsFiniteSet(nullifiers), nullifiers' = nullifiers,
         proofs \subseteq proofs', NEW a
  PROVE  /\ Cardinality(SpentFor(a)) <= Cardinality(SpentFor(a)')
         /\ Cardinality(SpentOnlyFor(a)') <= Cardinality(SpentOnlyFor(a))
<1>1. /\ SpentFor(a) \subseteq SpentFor(a)'
      /\ SpentOnlyFor(a)' \subseteq SpentOnlyFor(a)
      /\ SpentFor(a)' \subseteq nullifiers
  BY DEF SpentFor, SpentOnlyFor
<1>2. IsFiniteSet(SpentFor(a)') /\ IsFiniteSet(SpentOnlyFor(a))
  BY <1>1, SpentCounted, FS_Subset
<1> QED BY <1>1, <1>2, FS_Subset

\* A withdrawal adds its note to those of the account its proof names.
LEMMA SpentNote ==
  ASSUME IsFiniteSet(nullifiers), NEW p \in proofs, NEW r, NEW a,
         p.recipient = r, p.nullifier \notin nullifiers, proofs' = proofs,
         nullifiers' = nullifiers \union {p.nullifier}
  PROVE  LET one == IF a = r THEN 1 ELSE 0
         IN  /\ Cardinality(SpentFor(a)') >= Cardinality(SpentFor(a)) + one
             /\ Cardinality(SpentOnlyFor(a)') <= Cardinality(SpentOnlyFor(a)) + one
<1> DEFINE n == p.nullifier
<1>1. /\ IsFiniteSet(nullifiers')
      /\ IsFiniteSet(SpentFor(a)) /\ Cardinality(SpentFor(a)) \in Nat
      /\ IsFiniteSet(SpentOnlyFor(a)) /\ Cardinality(SpentOnlyFor(a)) \in Nat
  BY SpentCounted, FS_AddElement
<1>2. /\ SpentFor(a) \subseteq SpentFor(a)' /\ SpentFor(a)' \subseteq nullifiers'
      /\ SpentOnlyFor(a)' \subseteq SpentOnlyFor(a) \union {n}
      /\ n \notin SpentFor(a) /\ n \notin SpentOnlyFor(a)
      /\ a = r => n \in SpentFor(a)'
      /\ a # r => SpentOnlyFor(a)' \subseteq SpentOnlyFor(a)
  BY DEF SpentFor, SpentOnlyFor
<1>3. IsFiniteSet(SpentFor(a)')
  BY <1>1, <1>2, FS_Subset
<1>4. CASE a = r
  <2>1. /\ SpentFor(a) \union {n} \subseteq SpentFor(a)'
        /\ Cardinality(SpentFor(a) \union {n}) = Cardinality(SpentFor(a)) + 1
        /\ Cardinality(SpentOnlyFor(a) \union {n})
             = Cardinality(SpentOnlyFor(a)) + 1
        /\ IsFiniteSet(SpentOnlyFor(a) \union {n})
    BY <1>1, <1>2, <1>4, FS_AddElement
  <2>2. /\ Cardinality(SpentFor(a) \union {n}) <= Cardinality(SpentFor(a)')
        /\ Cardinality(SpentOnlyFor(a)')
             <= Cardinality(SpentOnlyFor(a) \union {n})
    BY <1>2, <1>3, <2>1, FS_Subset
  <2> QED BY <1>1, <1>4, <2>1, <2>2
<1>5. CASE a # r
  <2>1. /\ Cardinality(SpentFor(a)) <= Cardinality(SpentFor(a)')
        /\ Cardinality(SpentOnlyFor(a)') <= Cardinality(SpentOnlyFor(a))
    BY <1>1, <1>2, <1>3, <1>5, FS_Subset
  <2> QED BY <1>1, <1>5, <2>1
<1> QED BY <1>4, <1>5

\* Both bounds on what an account received, in numbers.
LEMMA WithdrawKeepsBounds ==
  ASSUME PoolInv, RelayersMoveOnlyFees, NEW p \in proofs,
         NEW r \in TokenAccounts, NEW t \in TokenAccounts, Withdraw(p, r, t)
  PROVE  RelayersMoveOnlyFees'
<1> SUFFICES ASSUME NEW a \in TokenAccounts
             PROVE  /\ received'[a] <= DENOMINATION * Cardinality(SpentFor(a)')
                                        + (feesCollected' - burned')
                    /\ received'[a] >= DENOMINATION * Cardinality(SpentOnlyFor(a)')
                                        - feesCollected'
  BY DEF RelayersMoveOnlyFees
<1> DEFINE x  == Cardinality(SpentFor(a))
           x1 == Cardinality(SpentFor(a)')
           y  == Cardinality(SpentOnlyFor(a))
           y1 == Cardinality(SpentOnlyFor(a)')
           D  == DENOMINATION
           one == IF a = r THEN 1 ELSE 0
<1>1. PICK net, share, burn \in Nat : Moves(r, t, net, share, burn)
  BY WithdrawMoves
<1>2. /\ x \in Nat /\ y \in Nat /\ x1 \in Nat /\ y1 \in Nat
      /\ x1 >= x + one /\ y1 <= y + one
  <2>1. /\ IsFiniteSet(nullifiers) /\ IsFiniteSet(nullifiers')
        /\ p.recipient = r /\ p.nullifier \notin nullifiers /\ proofs' = proofs
        /\ nullifiers' = nullifiers \union {p.nullifier}
    BY WithdrawPays, FS_AddElement DEF PoolInv, Withdraw
  <2>2. x \in Nat /\ y \in Nat
    BY <2>1, SpentCounted
  <2>3. /\ SpentFor(a)' \subseteq nullifiers'
        /\ SpentOnlyFor(a)' \subseteq nullifiers'
    BY DEF SpentFor, SpentOnlyFor
  <2>4. x1 \in Nat /\ y1 \in Nat
    BY <2>1, <2>3, FS_Subset, FS_CardinalityType
  <2>5. x1 >= x + one /\ y1 <= y + one
    BY <2>1, SpentNote
  <2> QED BY <2>2, <2>4, <2>5
<1>3. /\ received[a] <= D * x + (feesCollected - burned)
      /\ received[a] >= D * y - feesCollected
  BY DEF RelayersMoveOnlyFees
<1>4. /\ received[a] \in Nat /\ feesCollected \in Nat /\ burned \in Nat
      /\ D \in Nat
  BY PoolAssumption DEF PoolInv, TypeOK
<1>5. /\ net + share + burn = D
      /\ received'[a] = received[a] + (IF a = r THEN net ELSE 0)
                          + (IF a = t THEN share ELSE 0)
      /\ burned' = burned + burn
      /\ feesCollected' = feesCollected + share + burn
  BY <1>1 DEF Moves
<1> HIDE DEF x, x1, y, y1, D
<1>6. /\ D * x \in Nat /\ D * y \in Nat /\ D * x1 \in Nat /\ D * y1 \in Nat
      /\ D * x1 >= D * x + D * one /\ D * y1 <= D * y + D * one
  <2>1. D * (x + one) = D * x + D * one /\ D * (y + one) = D * y + D * one
    BY <1>2, <1>4
  <2>2. D * (x + one) <= D * x1 /\ D * y1 <= D * (y + one)
    BY <1>2, <1>4, ProductBounds
  <2> QED BY <1>2, <1>4, <2>1, <2>2, ProductBounds
<1>7. D * one = IF a = r THEN D ELSE 0
  BY <1>4
<1>8. received'[a] <= D * x1 + (feesCollected' - burned')
  BY <1>3, <1>4, <1>5, <1>6, <1>7
<1>9. received'[a] >= D * y1 - feesCollected'
  BY <1>3, <1>4, <1>5, <1>6, <1>7
<1> QED BY <1>8, <1>9 DEF x1, y1, D

\* Whoever sends the proofs and whomever they name as the treasury, relayers
\* dispose of the fees and of nothing else.
THEOREM RelayersMoveFees == Spec => []RelayersMoveOnlyFees
<1>1. Init => RelayersMoveOnlyFees
  <2> SUFFICES ASSUME Init, NEW a \in TokenAccounts
               PROVE  /\ received[a] <= DENOMINATION * Cardinality(SpentFor(a))
                                         + (feesCollected - burned)
                      /\ received[a] >= DENOMINATION * Cardinality(SpentOnlyFor(a))
                                         - feesCollected
    BY DEF RelayersMoveOnlyFees
  <2>1. SpentFor(a) = {} /\ SpentOnlyFor(a) = {} /\ Cardinality({}) = 0
    BY FS_EmptySet DEF Init, SpentFor, SpentOnlyFor
  <2> QED BY <2>1, PoolAssumption DEF Init
<1>2. ASSUME PoolInv, RelayersMoveOnlyFees, [Next]_vars
      PROVE  RelayersMoveOnlyFees'
  <2>1. CASE \E p \in proofs, r, t \in TokenAccounts : Withdraw(p, r, t)
    BY <1>2, <2>1, WithdrawKeepsBounds
  <2>2. CASE /\ UNCHANGED <<nullifiers, received, burned, feesCollected>>
             /\ proofs \subseteq proofs'
    <3> SUFFICES ASSUME NEW a \in TokenAccounts
                 PROVE  /\ received[a]
                             <= DENOMINATION * Cardinality(SpentFor(a)')
                                  + (feesCollected - burned)
                        /\ received[a]
                             >= DENOMINATION * Cardinality(SpentOnlyFor(a)')
                                  - feesCollected
      BY <2>2 DEF RelayersMoveOnlyFees
    <3> DEFINE x  == Cardinality(SpentFor(a))
               x1 == Cardinality(SpentFor(a)')
               y  == Cardinality(SpentOnlyFor(a))
               y1 == Cardinality(SpentOnlyFor(a)')
    <3>1. x \in Nat /\ y \in Nat /\ x <= x1 /\ y1 <= y
      BY <1>2, <2>2, SpentCounted, MoreProofs DEF PoolInv
    <3>2. x1 \in Nat /\ y1 \in Nat
      <4>1. /\ SpentFor(a)' \subseteq nullifiers
            /\ SpentOnlyFor(a)' \subseteq nullifiers
        BY <2>2 DEF SpentFor, SpentOnlyFor
      <4> QED BY <1>2, <4>1, FS_Subset, FS_CardinalityType DEF PoolInv
    <3>3. /\ received[a] <= DENOMINATION * x + (feesCollected - burned)
          /\ received[a] >= DENOMINATION * y - feesCollected
      BY <1>2 DEF RelayersMoveOnlyFees
    <3>4. /\ received[a] \in Nat /\ feesCollected \in Nat /\ burned \in Nat
          /\ DENOMINATION \in Nat
      BY <1>2, PoolAssumption DEF PoolInv, TypeOK
    <3> HIDE DEF x, x1, y, y1
    <3>5. /\ DENOMINATION * x <= DENOMINATION * x1
          /\ DENOMINATION * y1 <= DENOMINATION * y
          /\ DENOMINATION * x \in Nat /\ DENOMINATION * x1 \in Nat
          /\ DENOMINATION * y \in Nat /\ DENOMINATION * y1 \in Nat
      BY <3>1, <3>2, <3>4, ProductBounds
    <3>6. /\ received[a] <= DENOMINATION * x1 + (feesCollected - burned)
          /\ received[a] >= DENOMINATION * y1 - feesCollected
      BY <3>3, <3>4, <3>5
    <3> QED BY <3>6 DEF x1, y1
  <2>3. ASSUME NEW c \in Commitments, Deposit(c)
        PROVE  /\ UNCHANGED <<nullifiers, received, burned, feesCollected>>
               /\ proofs \subseteq proofs'
    BY <2>3 DEF Deposit
  <2> QED BY <1>2, <2>1, <2>2, <2>3, StepKinds
<1> QED BY <1>1, <1>2, PoolInvariant, PTL DEF Spec

-----------------------------------------------------------------------------
(* The pool implements the pot of notes *)

LEMMA LeastNatural ==
  ASSUME NEW S \in SUBSET Nat, S # {}
  PROVE  \E m \in S : \A k \in S : m <= k
<1>1. PICK m \in S : \A k \in S : ~(<<k, m>> \in OpToRel(<, Nat))
  BY NatLessThanWellFounded, WFMin
<1>2. ASSUME NEW k \in S PROVE m <= k
  <2>1. k \in Nat /\ m \in Nat
    OBVIOUS
  <2>2. k < m => <<k, m>> \in OpToRel(<, Nat)
    BY <2>1 DEF OpToRel
  <2>3. ~(k < m)
    BY <1>1, <2>2
  <2> QED BY <2>1, <2>3
<1> QED BY <1>2

\* The leaf of a commitment is determined by coming first.
LEMMA FirstLeafIs ==
  ASSUME NEW s, NEW c, NEW i \in 1..Len(s), Len(s) \in Nat,
         s[i] = c, \A j \in 1..(i - 1) : s[j] # c
  PROVE  (CHOOSE k \in 1..Len(s) :
            s[k] = c /\ \A j \in 1..(k - 1) : s[j] # c) = i
<1>1. \A k \in 1..Len(s) :
        (s[k] = c /\ \A j \in 1..(k - 1) : s[j] # c) => k = i
  <2> SUFFICES ASSUME NEW k \in 1..Len(s), s[k] = c,
                      \A j \in 1..(k - 1) : s[j] # c
               PROVE  k = i
    OBVIOUS
  <2>1. ~(k < i) /\ ~(i < k)
    OBVIOUS
  <2> QED BY <2>1
<1> QED BY <1>1

\* A commitment in the tree has a first leaf.
LEMMA FirstLeafExists ==
  ASSUME leaves \in Seq(Commitments), NEW c \in {leaves[i] : i \in 1..Len(leaves)}
  PROVE  /\ FirstLeaf(c) \in 1..Len(leaves)
         /\ leaves[FirstLeaf(c)] = c
         /\ \A j \in 1..(FirstLeaf(c) - 1) : leaves[j] # c
<1> DEFINE S == {i \in 1..Len(leaves) : leaves[i] = c}
<1>1. S \in SUBSET Nat /\ S # {} /\ Len(leaves) \in Nat
  OBVIOUS
<1>2. PICK m \in S : \A k \in S : m <= k
  <2> HIDE DEF S
  <2> QED BY <1>1, LeastNatural
<1>3. \A j \in 1..(m - 1) : leaves[j] # c
  BY <1>1, <1>2
<1>4. FirstLeaf(c) = m
  BY <1>1, <1>3, FirstLeafIs DEF FirstLeaf
<1> QED BY <1>3, <1>4

\* Spent leaves stay where they are when a leaf is appended.
LEMMA DepositMints ==
  ASSUME PoolInv, NEW c \in Commitments, Deposit(c)
  PROVE  Notes!Mint
<1> DEFINE n == Len(leaves)
<1>1. /\ TypeOK /\ VaultBacksNotes /\ leaves \in Seq(Commitments)
      /\ nullifiers \subseteq {leaves[i] : i \in 1..n}
      /\ totalDeposits = n
  BY DEF PoolInv, TypeOK, VaultBacksNotes
<1>2. /\ leaves' = Append(leaves, c) /\ nullifiers' = nullifiers
      /\ totalDeposits' = totalDeposits + 1
      /\ vault' = vault + DENOMINATION /\ received' = received
      /\ vault \in Nat /\ received[PoolVault] \in Nat /\ DENOMINATION \in Nat
  BY <1>1, PoolAssumption DEF Deposit, TypeOK
<1>3. /\ leaves' \in Seq(Commitments) /\ n \in Nat /\ Len(leaves') = n + 1
      /\ \A i \in 1..n : leaves'[i] = leaves[i]
  BY <1>1, <1>2, AppendedLeaves
<1>4. ASSUME NEW spent \in nullifiers
      PROVE  FirstLeaf(spent)' = FirstLeaf(spent) /\ FirstLeaf(spent) \in 1..n
  <2> DEFINE i == FirstLeaf(spent)
  <2>1. /\ i \in 1..n /\ leaves[i] = spent
        /\ \A j \in 1..(i - 1) : leaves[j] # spent
    BY <1>1, FirstLeafExists
  <2> HIDE DEF i, n
  <2>2. /\ i \in 1..Len(leaves') /\ Len(leaves') \in Nat
        /\ leaves'[i] = spent
        /\ \A j \in 1..(i - 1) : leaves'[j] # spent
    BY <1>3, <2>1
  <2>3. FirstLeaf(spent)' = i
    <3> DEFINE s == leaves'
    <3> HIDE DEF s
    <3>1. (CHOOSE k \in 1..Len(s) :
             s[k] = spent /\ \A j \in 1..(k - 1) : s[j] # spent) = i
      BY <2>2, FirstLeafIs DEF s
    <3> QED BY <3>1 DEF s, FirstLeaf
  <2> QED BY <2>1, <2>3 DEF i
<1>5. {FirstLeaf(spent)' : spent \in nullifiers'}
        = {FirstLeaf(spent) : spent \in nullifiers}
  BY <1>2, <1>4
<1>6. LiveLeaves' = LiveLeaves \union {n + 1}
  <2>1. LiveLeaves' = (1..Len(leaves')) \ {FirstLeaf(spent)' : spent \in nullifiers'}
    BY DEF LiveLeaves
  <2>2. n + 1 \notin {FirstLeaf(spent) : spent \in nullifiers}
    BY <1>3, <1>4
  <2>3. 1..Len(leaves') = (1..n) \union {n + 1}
    BY <1>3
  <2> QED BY <1>5, <2>1, <2>2, <2>3 DEF LiveLeaves
<1> QED BY <1>1, <1>2, <1>6 DEF Notes!Mint

\* An unused nullifier names a live leaf; using it takes that leaf out.
LEMMA WithdrawRedeems ==
  ASSUME PoolInv, NEW p \in proofs,
         NEW r \in TokenAccounts, NEW t \in TokenAccounts, Withdraw(p, r, t)
  PROVE  \E note \in LiveLeaves : Notes!Redeem(note)
<1> DEFINE n    == Len(leaves)
           note == FirstLeaf(p.nullifier)
<1>1. /\ TypeOK /\ VaultBacksNotes /\ leaves \in Seq(Commitments)
      /\ nullifiers \subseteq {leaves[i] : i \in 1..n}
      /\ p.nullifier \in {leaves[i] : i \in 1..n}
  BY DEF PoolInv, TypeOK, VaultBacksNotes, ProofsAreOfLeaves
<1>2. /\ p.nullifier \notin nullifiers
      /\ nullifiers' = nullifiers \union {p.nullifier}
      /\ vault - vault' = DENOMINATION - Paid(PoolVault)
  BY WithdrawPays
<1>3. UNCHANGED <<leaves, totalDeposits>>
  BY DEF Withdraw, treeVars
<1>4. note \in 1..n /\ leaves[note] = p.nullifier
  BY <1>1, FirstLeafExists
<1>5. note \notin {FirstLeaf(spent) : spent \in nullifiers}
  <2>1. \A spent \in nullifiers : leaves[FirstLeaf(spent)] = spent
    BY <1>1, FirstLeafExists
  <2> QED BY <1>2, <1>4, <2>1
<1>6. note \in LiveLeaves
  BY <1>4, <1>5 DEF LiveLeaves
<1>7. LiveLeaves' = LiveLeaves \ {note}
  <2>1. \A spent : FirstLeaf(spent)' = FirstLeaf(spent)
    BY <1>3 DEF FirstLeaf
  <2>2. LiveLeaves' = (1..n) \ {FirstLeaf(spent) : spent \in nullifiers'}
    BY <1>3, <2>1 DEF LiveLeaves
  <2>3. {FirstLeaf(spent) : spent \in nullifiers'}
          = {FirstLeaf(spent) : spent \in nullifiers} \union {note}
    BY <1>2
  <2> QED BY <2>2, <2>3 DEF LiveLeaves
<1>8. vault' - received'[PoolVault]
        = vault - received[PoolVault] - DENOMINATION
  <2>1. PoolInv'
    BY WithdrawKeeps
  <2>2. /\ vault \in Nat /\ vault' \in Nat /\ DENOMINATION \in Nat
        /\ received[PoolVault] \in Nat /\ received'[PoolVault] \in Nat
    BY <1>1, <2>1, PoolAssumption DEF PoolInv, TypeOK
  <2> QED BY <1>2, <2>2 DEF Paid
<1> QED BY <1>3, <1>6, <1>7, <1>8 DEF Notes!Redeem

\* The pool implements the pot of notes: no leaf is paid out twice, and the
\* pot holds one denomination for each leaf still live.
THEOREM PoolImplementsNotes == Spec => ImplementsNotePool
<1>1. Init => Notes!Init
  <2> SUFFICES ASSUME Init PROVE Notes!Init
    OBVIOUS
  <2>1. /\ leaves = <<>> /\ nullifiers = {} /\ totalDeposits = 0
        /\ vault = 0 /\ received[PoolVault] = 0
    BY PoolAssumption DEF Init
  <2>2. LiveLeaves = {}
    BY <2>1 DEF LiveLeaves
  <2> QED BY <2>1, <2>2 DEF Notes!Init
<1>2. ASSUME PoolInv, [Next]_vars
      PROVE  [Notes!Next]_<<totalDeposits, LiveLeaves, vault - received[PoolVault]>>
  <2>1. ASSUME NEW c \in Commitments, Deposit(c) PROVE Notes!Next
    BY <1>2, <2>1, DepositMints DEF Notes!Next
  <2>2. ASSUME NEW p \in proofs, NEW r \in TokenAccounts,
               NEW t \in TokenAccounts, Withdraw(p, r, t)
        PROVE  Notes!Next
    BY <1>2, <2>2, WithdrawRedeems DEF Notes!Next
  <2>3. CASE UNCHANGED <<leaves, totalDeposits, nullifiers, vault, received>>
    BY <2>3 DEF LiveLeaves, FirstLeaf
  <2> QED BY <1>2, <2>1, <2>2, <2>3, StepKinds
<1> QED BY <1>1, <1>2, PoolInvariant, PTL DEF Spec, ImplementsNotePool, Notes!Spec
=============================================================================
