------------------------------ MODULE Staking ------------------------------
(***************************************************************************)
(* The staking program (src/programs/kirite-staking/src/lib.rs).           *)
(*                                                                         *)
(* Stakers lock KIRITE tokens and share the lamports that arrive in the    *)
(* fee vault.  Distribution is lazy: fees are noticed as the difference    *)
(* between the vault's lamports and last_accounted_lamports the next time  *)
(* any staker touches the pool, and are folded into an accumulator of      *)
(* lamports per unit of weight in fixed point (SCALE).                     *)
(*                                                                         *)
(* Each instruction is one atomic step: a Solana transaction that fails a  *)
(* check reverts, so a failed call changes nothing.                        *)
(***************************************************************************)
EXTENDS Sums

CONSTANTS
  NumStakers,       \* stakers are 1..NumStakers
  LockOptions,      \* lock lengths in days offered by LOCK_OPTIONS
  Multiplier,       \* their weight multiplier, in hundredths
  MIN_STAKE,
  SCALE,            \* fixed-point unit of the accumulator
  SECONDS_PER_DAY,
  U64, U128,        \* 2^64 and 2^128 in the program
  FeeVaultFloor,    \* rent_min, the rent-exempt balance of the fee vault
  Prefunding,       \* lamports that may sit at the vault before initialize
  Supply,           \* KIRITE each staker holds at the start
  StakeAmounts,     \* amounts a staker may ask to stake
  DepositSizes,     \* sizes of one fee deposit
  MaxFees,          \* bound on the lamports ever deposited
  MaxTime           \* bound on the clock

Stakers == 1..NumStakers

ASSUME StakersAssumption == NumStakers \in Nat \ {0}
ASSUME LockAssumption ==
  /\ LockOptions \subseteq Nat
  /\ Multiplier \in [LockOptions -> Nat]
  /\ \A d \in LockOptions : Multiplier[d] >= 100
ASSUME UnitsAssumption ==
  /\ MIN_STAKE \in Nat \ {0} /\ SCALE \in Nat \ {0}
  /\ SECONDS_PER_DAY \in Nat \ {0}
  /\ U64 \in Nat \ {0} /\ U128 \in Nat \ {0}
ASSUME FundsAssumption ==
  /\ FeeVaultFloor \in Nat /\ Prefunding \subseteq Nat /\ Supply \in Nat
  /\ StakeAmounts \subseteq Nat /\ DepositSizes \subseteq Nat \ {0}
  /\ MaxFees \in Nat /\ MaxTime \in Nat
\* Lamports fit in a u64, and SCALE times a u64 in a u128: 10^12 * 2^64 < 2^128.
ASSUME WordsAssumption ==
  /\ \A p \in Prefunding : FeeVaultFloor + p + MaxFees < U64
  /\ SCALE * U64 <= U128

VARIABLES
  (* StakingPool *)
  totalWeight,      \* total_stake_weight
  acc,              \* acc_reward_per_weight
  lastAccounted,    \* last_accounted_lamports
  draining,         \* is_draining
  drainStartedAt,   \* drain_started_at, 0 when unset
  claimEnabled,     \* claim_enabled
  (* StakeAccount, one per staker; all zero until init_if_needed creates it *)
  amount, lockDays, weight, stakeAt, lastAcc, unclaimed,
  (* the chain around the program *)
  feeVault,         \* lamports of the fee_vault account
  kiriteVault,      \* tokens in the pool's vault
  wallet,           \* tokens each staker still holds
  deposited,        \* lamports ever sent to the fee vault
  now               \* Clock::get()?.unix_timestamp

poolVars    == <<totalWeight, acc, lastAccounted>>
switchVars  == <<draining, drainStartedAt, claimEnabled>>
stakeVars   == <<amount, lockDays, weight, stakeAt, lastAcc, unclaimed>>
chainVars   == <<feeVault, kiriteVault, wallet, deposited, now>>
vars        == <<poolVars, switchVars, stakeVars, chainVars>>

-----------------------------------------------------------------------------
(* Accounting shared by the instructions *)

WeightOf(a, days) == (a * Multiplier[days]) \div 100

\* Slips the checks must notice are named Mut...; the program does not make them.
\* Here: the lock runs from the call instead of from the stake.
MutUnlockAt(s) == now + lockDays[s] * SECONDS_PER_DAY

UnlockAt(s) == stakeAt[s] + lockDays[s] * SECONDS_PER_DAY

\* Slip: the whole vault counts as fresh, whatever was accounted for.
MutFreshFees == feeVault - FeeVaultFloor

\* Lamports that reached the vault since the last sync.
FreshFees == IF feeVault > lastAccounted THEN feeVault - lastAccounted ELSE 0

Increment == (FreshFees * SCALE) \div totalWeight

\* sync_pool: the accumulator once the fees that reached the vault are
\* folded in.  With nobody staked they are skipped, and last_accounted
\* still moves past them.
SyncedAcc == IF totalWeight > 0 THEN acc + Increment ELSE acc

\* The checked operations of sync_pool that make the instruction fail.
SyncSucceeds ==
  totalWeight > 0 => /\ FreshFees * SCALE < U128
                     /\ SyncedAcc < U128

Min2(x, y) == IF x <= y THEN x ELSE y

\* Slip: the product is cast to u64 before it is divided.
MutPending(s, a) ==
  (((a - lastAcc[s]) * weight[s]) % U64) \div SCALE

\* What accrue adds: the product saturates at u128, the quotient is cast to
\* u64, which drops the high bits.
Pending(s, a) ==
  (Min2((a - lastAcc[s]) * weight[s], U128 - 1) \div SCALE) % U64

\* Slip: the new reward replaces the bucket.
MutAccruedAssigns(s, a) ==
  IF weight[s] = 0 \/ a <= lastAcc[s] THEN unclaimed[s] ELSE Pending(s, a)

\* The unclaimed bucket after accrue; the sum saturates at u64.
Accrued(s, a) ==
  IF weight[s] = 0 \/ a <= lastAcc[s]
  THEN unclaimed[s]
  ELSE Min2(unclaimed[s] + Pending(s, a), U64 - 1)

\* A system transfer out of the vault may empty it, or must leave it
\* rent-exempt.
VaultCanPay(lamports) ==
  \/ lamports = 0
  \/ feeVault - lamports >= FeeVaultFloor
  \/ feeVault = lamports

\* transfer_checked fails unless the source holds the tokens.
Holds(balance, tokens) == tokens <= balance

\* Slip: a second stake is taken for a first one.
MutOldWeight(s) == 0

\* The weight of a position that its next stake replaces.
OldWeight(s) == IF amount[s] > 0 THEN weight[s] ELSE 0

\* Slip: accrue leaves last_acc_reward_per_weight behind.
MutSettle(s, bucket) ==
  /\ SyncSucceeds
  /\ acc' = SyncedAcc
  /\ lastAcc' = lastAcc
  /\ unclaimed' = [unclaimed EXCEPT ![s] = bucket]

\* sync_pool and accrue, which every call on a position starts with: the
\* position keeps `bucket` as its unclaimed rewards.
Settle(s, bucket) ==
  /\ SyncSucceeds
  /\ acc' = SyncedAcc
  /\ lastAcc' = [lastAcc EXCEPT ![s] = SyncedAcc]
  /\ unclaimed' = [unclaimed EXCEPT ![s] = bucket]

\* Slip: the balance before the transfer counts as accounted for.
MutPayOut(lamports) ==
  /\ VaultCanPay(lamports)
  /\ feeVault' = feeVault - lamports
  /\ lastAccounted' = feeVault

\* Lamports leave the fee vault, and what remains counts as accounted for.
PayOut(lamports) ==
  /\ VaultCanPay(lamports)
  /\ feeVault' = feeVault - lamports
  /\ lastAccounted' = feeVault'

\* Slip: the amount survives the exit.
MutClosePosition(s) ==
  /\ weight' = [weight EXCEPT ![s] = 0]
  /\ lockDays' = [lockDays EXCEPT ![s] = 0]
  /\ stakeAt' = [stakeAt EXCEPT ![s] = 0]
  /\ UNCHANGED amount

\* The end of unstake: the position is emptied.
ClosePosition(s) ==
  /\ amount' = [amount EXCEPT ![s] = 0]
  /\ weight' = [weight EXCEPT ![s] = 0]
  /\ lockDays' = [lockDays EXCEPT ![s] = 0]
  /\ stakeAt' = [stakeAt EXCEPT ![s] = 0]

-----------------------------------------------------------------------------
(* The pool as `initialize` leaves it *)

Init ==
  /\ totalWeight = 0
  /\ acc = 0
  /\ draining = FALSE
  /\ drainStartedAt = 0
  /\ claimEnabled = FALSE
  /\ amount = [s \in Stakers |-> 0]
  /\ lockDays = [s \in Stakers |-> 0]
  /\ weight = [s \in Stakers |-> 0]
  /\ stakeAt = [s \in Stakers |-> 0]
  /\ lastAcc = [s \in Stakers |-> 0]
  /\ unclaimed = [s \in Stakers |-> 0]
  /\ feeVault \in {FeeVaultFloor + p : p \in Prefunding}
  /\ lastAccounted = feeVault
  /\ kiriteVault = 0
  /\ wallet = [s \in Stakers |-> Supply]
  /\ deposited = 0
  /\ now = 1

\* set_claim_enabled, callable by pool.authority only.
SetClaimEnabled(enable) ==
  /\ claimEnabled' = enable
  /\ UNCHANGED <<poolVars, draining, drainStartedAt, stakeVars, chainVars>>

\* set_drain_mode, callable by pool.authority only.
SetDrainMode(enable) ==
  /\ draining' = enable
  /\ drainStartedAt' =
       IF ~enable THEN 0
       ELSE IF drainStartedAt = 0 THEN now ELSE drainStartedAt
  /\ UNCHANGED <<poolVars, claimEnabled, stakeVars, chainVars>>

\* stake: adds to the position, which takes the new lock as a whole and
\* starts it again from now.
Stake(s, amt, days) ==
  LET newAmount == amount[s] + amt
      newWeight == WeightOf(newAmount, days)
  IN  /\ amt >= MIN_STAKE
      /\ days \in LockOptions
      /\ Settle(s, Accrued(s, SyncedAcc))
      /\ lastAccounted' = feeVault
      /\ Holds(wallet[s], amt)
      /\ OldWeight(s) <= totalWeight
      /\ newAmount < U64
      /\ newAmount * Multiplier[days] < U128
      /\ totalWeight - OldWeight(s) + newWeight < U128
      /\ now + days * SECONDS_PER_DAY <= MaxTime
      /\ wallet' = [wallet EXCEPT ![s] = @ - amt]
      /\ kiriteVault' = kiriteVault + amt
      /\ amount' = [amount EXCEPT ![s] = newAmount]
      /\ lockDays' = [lockDays EXCEPT ![s] = days]
      /\ stakeAt' = [stakeAt EXCEPT ![s] = now]
      /\ weight' = [weight EXCEPT ![s] = newWeight]
      /\ totalWeight' = totalWeight - OldWeight(s) + newWeight
      /\ UNCHANGED <<switchVars, feeVault, deposited, now>>

\* claim: settles the position and pays the whole unclaimed bucket.  With
\* nothing to pay the transaction reverts, the sync included.
Claim(s) ==
  LET payout == Accrued(s, SyncedAcc)
  IN  /\ claimEnabled
      /\ payout > 0
      /\ Settle(s, 0)
      /\ PayOut(payout)
      /\ UNCHANGED <<totalWeight, switchVars, amount, lockDays, weight,
                     stakeAt, kiriteVault, wallet, deposited, now>>

\* What else unstake asks for than a position whose lock has run out: the
\* checked arithmetic of the sync, the rent rule of the fee vault, the tokens
\* of the principal and the checked subtraction of the weight.
ExitOpen(s) ==
  /\ SyncSucceeds
  /\ VaultCanPay(IF claimEnabled THEN Accrued(s, SyncedAcc) ELSE 0)
  /\ Holds(kiriteVault, amount[s])
  /\ weight[s] <= totalWeight

\* unstake: returns the principal once unlocked (or at once while the pool
\* drains); pays the rewards too, or parks them while claims are disabled.
Unstake(s) ==
  LET payout == Accrued(s, SyncedAcc)
      paid   == IF claimEnabled THEN payout ELSE 0
  IN  /\ draining \/ now >= UnlockAt(s)
      /\ amount[s] > 0
      /\ ExitOpen(s)
      /\ Settle(s, payout - paid)
      /\ PayOut(paid)
      /\ kiriteVault' = kiriteVault - amount[s]
      /\ wallet' = [wallet EXCEPT ![s] = @ + amount[s]]
      /\ totalWeight' = totalWeight - weight[s]
      /\ ClosePosition(s)
      /\ UNCHANGED <<switchVars, deposited, now>>

\* Anyone, the relayer in practice, sends lamports to the fee vault with a
\* plain system transfer: the program is not called.
DepositFees(d) ==
  /\ deposited + d <= MaxFees
  /\ deposited' = deposited + d
  /\ feeVault' = feeVault + d
  /\ UNCHANGED <<poolVars, switchVars, stakeVars, kiriteVault, wallet, now>>

Tick ==
  /\ now < MaxTime
  /\ now' = now + 1
  /\ UNCHANGED <<poolVars, switchVars, stakeVars,
                 feeVault, kiriteVault, wallet, deposited>>

Next ==
  \/ \E enable \in BOOLEAN : SetClaimEnabled(enable)
  \/ \E enable \in BOOLEAN : SetDrainMode(enable)
  \/ \E s \in Stakers, amt \in StakeAmounts, days \in LockOptions :
       Stake(s, amt, days)
  \/ \E s \in Stakers : Claim(s)
  \/ \E s \in Stakers : Unstake(s)
  \/ \E d \in DepositSizes : DepositFees(d)
  \/ Tick

Spec == Init /\ [][Next]_vars

\* The chain's clock advances, and a staker who may leave submits unstake.
FairSpec ==
  /\ Spec
  /\ WF_vars(Tick)
  /\ \A s \in Stakers : WF_vars(Unstake(s))

-----------------------------------------------------------------------------
(* Properties *)

\* Every variable has its type: no balance, weight or time ever goes below
\* zero.
TypeOK ==
  /\ totalWeight \in Nat /\ acc \in Nat /\ lastAccounted \in Nat
  /\ draining \in BOOLEAN /\ drainStartedAt \in Nat
  /\ claimEnabled \in BOOLEAN
  /\ amount \in [Stakers -> Nat]
  /\ lockDays \in [Stakers -> Nat]
  /\ weight \in [Stakers -> Nat]
  /\ stakeAt \in [Stakers -> Nat]
  /\ lastAcc \in [Stakers -> Nat]
  /\ unclaimed \in [Stakers -> Nat]
  /\ feeVault \in Nat /\ kiriteVault \in Nat
  /\ wallet \in [Stakers -> Nat]
  /\ deposited \in Nat /\ now \in Nat

\* The pool's total weight, which every share is divided by, stays the sum
\* of the positions' weights through any mix of stakes, re-stakes under
\* another lock and unstakes; and it is zero only when nobody is staked.
WeightsAddUp ==
  /\ totalWeight = Sum(weight, NumStakers)
  /\ \A s \in Stakers :
       IF amount[s] = 0
       THEN weight[s] = 0
       ELSE lockDays[s] \in LockOptions
            /\ weight[s] = WeightOf(amount[s], lockDays[s])

\* The token vault holds exactly the stakers' principal.
PrincipalBacked ==
  /\ kiriteVault = Sum(amount, NumStakers)
  /\ \A s \in Stakers : wallet[s] + amount[s] = Supply

\* The vault can pay at once everything every staker is owed, fees not yet
\* synced included, without touching its rent-exempt floor.
Owed == [s \in Stakers |-> Accrued(s, SyncedAcc)]
Solvent == FeeVaultFloor + Sum(Owed, NumStakers) <= feeVault

\* What a staker is owed is the exact quotient: neither the cast to u64, which
\* would drop high bits without a trace, nor the saturating operations of
\* accrue ever bite, however long a position waits to be touched.
ExactOwed ==
  \A s \in Stakers :
    Owed[s] = unclaimed[s] + ((SyncedAcc - lastAcc[s]) * weight[s]) \div SCALE

\* Why the pool is solvent: in fixed point, what the positions can draw at
\* the accumulator's present value is covered by the lamports accounted for
\* above the floor, however many divisions dropped a remainder on the way.
Due == [s \in Stakers |-> SCALE * unclaimed[s] + weight[s] * (acc - lastAcc[s])]

FeesCover ==
  /\ \A s \in Stakers : lastAcc[s] <= acc
  /\ FeeVaultFloor <= lastAccounted /\ lastAccounted <= feeVault
  /\ Sum(Due, NumStakers) <= SCALE * (lastAccounted - FeeVaultFloor)

\* Nothing but the lock keeps a staker in: when the lock has run out or the
\* pool drains, no arithmetic check, vault balance or rent rule makes
\* unstake fail, whatever the others did.
ExitNeverBlocked ==
  \A s \in Stakers :
    (amount[s] > 0 /\ (draining \/ now >= UnlockAt(s))) => ExitOpen(s)

\* What a staker is owed changes in two ways only: it grows when fees reach
\* the vault, and it is paid out whole, lamport for lamport.  Staking more,
\* or for longer, earns nothing from fees already there and takes nothing
\* from the others; neither does anybody's claim or unstake.
OwedOnlyMovesByFeesAndPayouts ==
  [][\A s \in Stakers :
       \/ Owed'[s] = Owed[s]
       \/ deposited' > deposited /\ Owed'[s] > Owed[s]
       \/ Owed'[s] = 0 /\ feeVault' = feeVault - Owed[s]]_vars

\* A staker who wants out gets the principal back in the end.
PrincipalEventuallyReturned ==
  \A s \in Stakers : amount[s] > 0 ~> amount[s] = 0

=============================================================================
