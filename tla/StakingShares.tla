--------------------------- MODULE StakingShares ---------------------------
(***************************************************************************)
(* The staking program run beside an ideal ledger that splits every fee    *)
(* the moment it reaches the vault, in proportion to the weights of that   *)
(* moment.  The program splits lazily, in whole units, and only when       *)
(* somebody calls it; the properties say how far the two may drift apart.  *)
(***************************************************************************)
EXTENDS Staking

CONSTANTS
  SyncLoss,           \* lamports of rounding one sync may cost a position
  MaxTouches          \* bound on the calls that sync the pool

\* The accumulator is rounded down to a whole unit, worth a SCALE-th of a
\* lamport for each unit of weight.
ASSUME LossAssumption ==
  /\ SyncLoss \in Nat
  /\ \A days \in LockOptions : WeightOf(Supply, days) <= SyncLoss * SCALE
ASSUME TouchesAssumption == MaxTouches \in Nat

VARIABLES
  fairHigh, fairLow,  \* ideal share of each staker, each fee rounded up, down
  stranded,           \* fees that arrived while nobody was staked
  paid,               \* lamports the vault has sent to each staker
  touches             \* calls that have synced the pool

ledgerVars == <<fairHigh, fairLow, stranded, paid, touches>>
allVars == <<vars, ledgerVars>>

LedgerInit ==
  /\ Init
  /\ fairHigh = [s \in Stakers |-> 0]
  /\ fairLow = [s \in Stakers |-> 0]
  /\ paid = [s \in Stakers |-> 0]
  /\ stranded = 0
  /\ touches = 0

CeilDiv(x, y) == (x + y - 1) \div y

\* The ideal ledger splits the fee at once.
SplitFee(d) ==
  /\ DepositFees(d)
  /\ IF totalWeight = 0
     THEN /\ stranded' = stranded + d
          /\ UNCHANGED <<fairHigh, fairLow>>
     ELSE /\ fairHigh' = [s \in Stakers |->
               fairHigh[s] + CeilDiv(d * weight[s], totalWeight)]
          /\ fairLow' = [s \in Stakers |->
               fairLow[s] + (d * weight[s]) \div totalWeight]
          /\ UNCHANGED stranded
  /\ UNCHANGED <<paid, touches>>

\* A call that syncs the pool: what left the vault went to the caller.
Touch(s) ==
  /\ touches < MaxTouches
  /\ touches' = touches + 1
  /\ paid' = [paid EXCEPT ![s] = @ + (feeVault - feeVault')]
  /\ UNCHANGED <<fairHigh, fairLow, stranded>>

LedgerStake(s, amt, days) ==
  Stake(s, amt, days) /\ Touch(s)

LedgerClaim(s) == Claim(s) /\ Touch(s)

LedgerUnstake(s) == Unstake(s) /\ Touch(s)

LedgerSwitch ==
  /\ \E enable \in BOOLEAN : SetClaimEnabled(enable) \/ SetDrainMode(enable)
  /\ UNCHANGED ledgerVars

LedgerTick == Tick /\ UNCHANGED ledgerVars

LedgerNext ==
  \/ \E d \in DepositSizes : SplitFee(d)
  \/ \E s \in Stakers, amt \in StakeAmounts, days \in LockOptions :
       LedgerStake(s, amt, days)
  \/ \E s \in Stakers : LedgerClaim(s)
  \/ \E s \in Stakers : LedgerUnstake(s)
  \/ LedgerSwitch
  \/ LedgerTick

LedgerSpec == LedgerInit /\ [][LedgerNext]_allVars

-----------------------------------------------------------------------------
(* Properties *)

\* What a staker was paid and is owed never exceeds the ideal share: the lazy
\* sync gives nobody fees that arrived before the stake, or at a weight the
\* staker did not have when they arrived.
NeverOverpaid ==
  \A s \in Stakers : paid[s] + Owed[s] <= fairHigh[s]

\* What a staker was paid and is owed falls short of the ideal share by
\* rounding only: that of the accumulator at each sync and of one division at
\* each accrual, and both once more for the next accrual.
NeverShortchanged ==
  \A s \in Stakers :
    paid[s] + Owed[s] + (SyncLoss + 1) * touches + SyncLoss >= fairLow[s]

\* Each staker's share follows the ideal ledger, from above and from below.
FairlyShared == NeverOverpaid /\ NeverShortchanged

\* No fee disappears: every lamport sent to the vault was paid out, is owed
\* to a staker, was stranded because nobody was staked when it came, or is
\* rounding.
NoFeeLost ==
  deposited <= Sum(paid, NumStakers) + Sum(Owed, NumStakers) + stranded
                 + (NumStakers * SyncLoss + 1) * touches + NumStakers * (SyncLoss + 1)

=============================================================================
