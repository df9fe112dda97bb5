--------------------------- MODULE StakingClient ---------------------------
(***************************************************************************)
(* The staking client (src/sdk/src/staking.mjs) against the program: it    *)
(* encodes instructions and decodes accounts by hand, for want of an IDL.  *)
(***************************************************************************)
EXTENDS Staking, Layouts

Wallet(s)  == <<"wallet", s>>
KiriteMint == <<"kirite_mint">>

\* The staker's token account and the pool's, as the callers derive them.
TokenAccount(owner) == <<"token_account", KiriteMint, owner>>

-----------------------------------------------------------------------------
(* Addresses: seeds of the program, seeds of the client *)

StakingPool    == <<"staking_pool">>
StakeAccount(s) == <<"stake_account", Wallet(s)>>
VaultAuthority == <<"vault_authority", StakingPool>>
FeeVaultKey    == <<"fee_vault", StakingPool>>

deriveStakingPool     == <<"staking_pool">>
deriveVaultAuthority  == <<"vault_authority", deriveStakingPool>>
deriveFeeVault        == <<"fee_vault", deriveStakingPool>>
deriveStakeAccount(s) == <<"stake_account", Wallet(s)>>

-----------------------------------------------------------------------------
(* The contexts the program checks a call against *)

InitializeContext(key) ==
  [args |-> <<>>,
   keys |-> <<Writable(StakingPool), ReadOnly(KiriteMint),
              ReadOnly(TokenAccount(VaultAuthority)), ReadOnly(VaultAuthority),
              Writable(FeeVaultKey), Payer(key), SystemProgram>>]

StakeContext(s) ==
  [args |-> <<Field("amount", "u64"), Field("lock_days", "u32")>>,
   keys |-> <<Writable(StakingPool), Writable(StakeAccount(s)),
              Writable(TokenAccount(Wallet(s))),
              Writable(TokenAccount(VaultAuthority)),
              ReadOnly(KiriteMint), Writable(FeeVaultKey), Payer(Wallet(s)),
              TokenProgram, SystemProgram>>]

ClaimContext(s) ==
  [args |-> <<>>,
   keys |-> <<Writable(StakingPool), Writable(StakeAccount(s)),
              Writable(FeeVaultKey), Payer(Wallet(s)), SystemProgram>>]

UnstakeContext(s) ==
  [args |-> <<>>,
   keys |-> <<Writable(StakingPool), Writable(StakeAccount(s)),
              Writable(TokenAccount(Wallet(s))),
              Writable(TokenAccount(VaultAuthority)),
              ReadOnly(KiriteMint), ReadOnly(VaultAuthority),
              Writable(FeeVaultKey), Payer(Wallet(s)),
              TokenProgram, SystemProgram>>]

-----------------------------------------------------------------------------
(* The instructions the client builds *)

buildInitializeIx(key) ==
  [args |-> <<>>,
   keys |-> <<Writable(deriveStakingPool), ReadOnly(KiriteMint),
              ReadOnly(TokenAccount(deriveVaultAuthority)), ReadOnly(deriveVaultAuthority),
              Writable(deriveFeeVault), Payer(key), SystemProgram>>]

buildStakeIx(s) ==
  [args |-> <<Field("amount", "u64"), Field("lock_days", "u32")>>,
   keys |-> <<Writable(deriveStakingPool), Writable(deriveStakeAccount(s)),
              Writable(TokenAccount(Wallet(s))),
              Writable(TokenAccount(deriveVaultAuthority)),
              Writable(deriveFeeVault), Payer(Wallet(s)),
              TokenProgram, SystemProgram>>]

buildClaimIx(s) ==
  [args |-> <<>>,
   keys |-> <<Writable(deriveStakingPool), Writable(deriveStakeAccount(s)),
              Writable(deriveFeeVault), Payer(Wallet(s)), SystemProgram>>]

buildUnstakeIx(s) ==
  [args |-> <<>>,
   keys |-> <<Writable(deriveStakingPool), Writable(deriveStakeAccount(s)),
              Writable(TokenAccount(Wallet(s))),
              Writable(TokenAccount(deriveVaultAuthority)),
              ReadOnly(deriveVaultAuthority), Writable(deriveFeeVault),
              Payer(Wallet(s)), TokenProgram, SystemProgram>>]

-----------------------------------------------------------------------------
(* Accounts *)

PoolLayout ==
  <<Field("authority", "pubkey"), Field("kirite_mint", "pubkey"),
    Field("kirite_vault", "pubkey"), Field("fee_vault", "pubkey"),
    Field("total_stake_weight", "u128"), Field("acc_reward_per_weight", "u128"),
    Field("last_accounted_lamports", "u64"), Field("fee_vault_floor", "u64"),
    Field("bump", "u8"), Field("vault_authority_bump", "u8"),
    Field("fee_vault_bump", "u8"), Field("is_draining", "bool"),
    Field("drain_started_at", "i64"), Field("claim_enabled", "bool")>>

StakeLayout ==
  <<Field("owner", "pubkey"), Field("amount", "u64"), Field("lock_days", "u32"),
    Field("weight", "u128"), Field("stake_at", "i64"),
    Field("last_acc", "u128"), Field("unclaimed", "u64"), Field("bump", "u8")>>

decodeStakingPool ==
  <<Field("authority", "pubkey"), Field("kirite_mint", "pubkey"),
    Field("kirite_vault", "pubkey"), Field("fee_vault", "pubkey"),
    Field("total_stake_weight", "u128"), Field("acc_reward_per_weight", "u128"),
    Field("last_accounted_lamports", "u64"), Field("fee_vault_floor", "u64"),
    Field("bump", "u8"), Field("vault_authority_bump", "u8"),
    Field("fee_vault_bump", "u8"), Field("is_draining", "bool"),
    Field("drain_started_at", "i64"), Field("claim_enabled", "bool")>>

\* Slip: the order of the comment above the decoder, weight before lock_days.
MutDecodeStakeAccount ==
  <<Field("owner", "pubkey"), Field("amount", "u64"), Field("weight", "u128"),
    Field("lock_days", "u32"), Field("stake_at", "i64"),
    Field("last_acc", "u128"), Field("unclaimed", "u64"), Field("bump", "u8")>>

decodeStakeAccount ==
  <<Field("owner", "pubkey"), Field("amount", "u64"), Field("lock_days", "u32"),
    Field("weight", "u128"), Field("stake_at", "i64"),
    Field("last_acc", "u128"), Field("unclaimed", "u64"), Field("bump", "u8")>>

\* The contents of the two accounts, as far as Staking keeps them.
PoolData ==
  [total_stake_weight |-> totalWeight, acc_reward_per_weight |-> acc,
   last_accounted_lamports |-> lastAccounted, fee_vault_floor |-> FeeVaultFloor,
   is_draining |-> draining, drain_started_at |-> drainStartedAt,
   claim_enabled |-> claimEnabled]

StakeData(s) ==
  [amount |-> amount[s], lock_days |-> lockDays[s], weight |-> weight[s],
   stake_at |-> stakeAt[s], last_acc |-> lastAcc[s],
   unclaimed |-> unclaimed[s]]

-----------------------------------------------------------------------------
(* Properties *)

PoolSources  == Sources(PoolLayout, decodeStakingPool)
StakeSources == Sources(StakeLayout, decodeStakeAccount)

\* What the client shows of the pool and of each position, in every state of
\* the program, is what the program has (decodeStakingPool and
\* decodeStakeAccount against the two #[account] structs).
DecodedAccountsAreTheState ==
  /\ \A f \in DOMAIN PoolData :
       {PoolData[src[2]] : src \in PoolSources[f]} = {PoolData[f]}
  /\ \A s \in Stakers :
       LET data == StakeData(s) IN
       \A f \in DOMAIN data :
         {data[src[2]] : src \in StakeSources[f]} = {data[f]}

\* Whenever the program would pay a staker's claim, the instruction the client
\* builds for it is accepted, as was the one the pool was initialized with.
ClaimsReachTheProgram ==
  \A s \in Stakers :
    /\ ENABLED Claim(s) => Accepted(buildClaimIx(s), ClaimContext(s))
    /\ Accepted(buildInitializeIx(Wallet(s)), InitializeContext(Wallet(s)))

\* The client and the program, built apart, agree on what a position is and on
\* how its rewards are claimed.
ClientAgrees == DecodedAccountsAreTheState /\ ClaimsReachTheProgram

\* Whenever the program would let a staker out, the instructions the client
\* builds for the exit, and for the stake before it, are accepted:
\* scripts/test-staking-unstake.mjs stakes and unstakes through the client and
\* ends with "unstake flow OK on devnet" (line 155).
ExitsReachTheProgram ==
  \A s \in Stakers : ENABLED Unstake(s) =>
    /\ Accepted(buildStakeIx(s), StakeContext(s))
    /\ Accepted(buildUnstakeIx(s), UnstakeContext(s))
=============================================================================
