----------------------------- MODULE Deployment -----------------------------
(***************************************************************************)
(* The scripts that put the protocol on chain (src/scripts/: migrate.ts,   *)
(* init-protocol.mjs, add-supported-mint.mjs, init-standard-pools.mjs,     *)
(* init-wsol-pool-v2.mjs, init-mainnet-staking.mjs), run from several      *)
(* terminals, in any order and again, over the handlers they call.         *)
(*                                                                         *)
(* Each script works through a list of items.  For an item it looks up an  *)
(* account; if that is there the item is skipped, else the script sends    *)
(* the item's instructions, one transaction after the other, and waits for *)
(* each.  Between any two steps a script may be stopped, a read may fail   *)
(* and a transaction may be late, be lost or land in error though its      *)
(* handler would accept it (mishaps, of which there are at most            *)
(* MaxMishaps).                                                            *)
(***************************************************************************)
EXTENDS ProtocolConfig, Sequences

CONSTANTS
  Terminals,            \* where scripts run
  ScriptsAt,            \* the scripts that are run at each terminal
  Deployer,             \* the key all of them sign with
  WSOL,                 \* NATIVE_MINT
  StandardPools,        \* POOLS of init-standard-pools
  MigrateMints,         \* MINTS of migrate, as a sequence
  MigratePools,         \* DEVNET_POOLS or MAINNET_POOLS of migrate
  MainnetCluster,       \* migrate --cluster mainnet-beta
  WsolPool,             \* the pool init-wsol-pool-v2 is asked for
  MIN_TIMELOCK_SECONDS, MAX_TIMELOCK_SECONDS,
  MIN_DENOMINATION, MAX_DENOMINATION,
  MaxMishaps

Scripts == {"migrate", "init-protocol", "add-supported-mint",
            "init-standard-pools", "init-wsol-pool-v2", "init-mainnet-staking"}

PoolSpec == [mint : Mints, denomination : Nat, timelock : Nat]

ASSUME DeploymentAssumption ==
  /\ ScriptsAt \in [Terminals -> SUBSET Scripts]
  /\ Deployer \in Keys /\ WSOL \in Mints
  /\ StandardPools \in Seq(PoolSpec) /\ MigratePools \in Seq(PoolSpec)
  /\ MigrateMints \in Seq(Mints) /\ WsolPool \in PoolSpec
  /\ MainnetCluster \in BOOLEAN /\ MaxMishaps \in Nat
  /\ \E fees \in FeeSettings : ValidFees(fees)

VARIABLES
  initialized,          \* the config and governance accounts exist
  pools,                \* pool accounts by address: the timelock and the vault
  vaults,               \* token accounts owned by a pool's vault authority
  stakingVault,         \* the staking program's token account exists
  stakingPool,          \* its pool account exists
  job,                  \* what each terminal runs
  inflight,             \* transactions sent and neither landed nor lost
  failed,               \* instructions that have landed in error by mishap
  reports,              \* what scripts have printed or written as done
  mishaps

accountVars == <<configVars, now, initialized, pools, vaults, stakingVault, stakingPool>>
vars == <<accountVars, job, inflight, failed, reports, mishaps>>

\* The address of a pool is derived from its mint and denomination.
Address(spec) == [mint |-> spec.mint, denomination |-> spec.denomination]
Vault(spec, kind) == [pool |-> Address(spec), kind |-> kind]

-----------------------------------------------------------------------------
(* What the instructions do. *)

\* A slip the checks must notice: init_if_needed in place of init.
MutMayInitializeProtocol == TRUE

MayInitializeProtocol == ~initialized

InitializeProtocol(signer) ==
  /\ MayInitializeProtocol
  /\ initialized' = TRUE
  /\ authority' = signer
  /\ pendingAuthority' = NoKey
  /\ \E fees \in FeeSettings :
       ValidFees(fees) /\ feeBps' = fees[1] /\ burnRatioBps' = fees[2]
  /\ isPaused' = FALSE
  /\ supportedMints' = {}
  /\ UNCHANGED <<now, pools, vaults, stakingVault, stakingPool>>

MayInitializeShieldPool(signer, spec, kind) ==
  /\ initialized /\ ~isPaused /\ SignedByAuthority(signer)
  /\ Address(spec) \notin DOMAIN pools
  /\ Vault(spec, kind) \in vaults
  /\ spec.denomination \in MIN_DENOMINATION..MAX_DENOMINATION
  /\ spec.timelock \in MIN_TIMELOCK_SECONDS..MAX_TIMELOCK_SECONDS
  /\ spec.mint \in supportedMints

InitializeShieldPool(signer, spec, kind) ==
  /\ MayInitializeShieldPool(signer, spec, kind)
  /\ pools' = [a \in DOMAIN pools \union {Address(spec)} |->
                 IF a = Address(spec) THEN [timelock |-> spec.timelock, vault |-> kind]
                                      ELSE pools[a]]
  /\ UNCHANGED <<configVars, now, initialized, vaults, stakingVault, stakingPool>>

AddMint(signer, mint) ==
  /\ initialized
  /\ AddSupportedMint(signer, mint)
  /\ UNCHANGED <<now, initialized, pools, vaults, stakingVault, stakingPool>>

\* The associated token account of a vault authority exists at most once; the
\* idempotent instruction succeeds on one that is there.
MayCreateAta(spec, idempotent) == idempotent \/ Vault(spec, "ata") \notin vaults

CreateAta(spec, idempotent) ==
  /\ MayCreateAta(spec, idempotent)
  /\ vaults' = vaults \union {Vault(spec, "ata")}
  /\ UNCHANGED <<configVars, now, initialized, pools, stakingVault, stakingPool>>

\* A token account at a key made for the occasion.
CreateVault(spec) ==
  /\ vaults' = vaults \union {Vault(spec, "fresh")}
  /\ UNCHANGED <<configVars, now, initialized, pools, stakingVault, stakingPool>>

MayCreateStakingVault == ~stakingVault

CreateStakingVault ==
  /\ MayCreateStakingVault
  /\ stakingVault' = TRUE
  /\ UNCHANGED <<configVars, now, initialized, pools, vaults, stakingPool>>

MayInitializeStaking == ~stakingPool /\ stakingVault

InitializeStaking ==
  /\ MayInitializeStaking
  /\ stakingPool' = TRUE
  /\ UNCHANGED <<configVars, now, initialized, pools, vaults, stakingVault>>

\* A slip the checks must notice: the plain instruction for the vault.
MutAta(spec) == [type |-> "create_ata", spec |-> spec, idempotent |-> FALSE]

Ata(spec) == [type |-> "create_ata", spec |-> spec, idempotent |-> TRUE]

Protocol             == [type |-> "initialize_protocol"]
Mint(mint)           == [type |-> "add_supported_mint", mint |-> mint]
Pool(spec, kind)     == [type |-> "initialize_shield_pool", spec |-> spec, kind |-> kind]
FreshVault(spec)     == [type |-> "create_vault", spec |-> spec]
StakingVault         == [type |-> "create_staking_vault"]
Staking              == [type |-> "initialize_staking"]
\* Instructions that cannot succeed: Anchor refuses to build one that lacks an
\* account, and the program one that names the wrong account.
Incomplete           == [type |-> "no treasury given"]
WrongGovernanceState == [type |-> "update_governance_signers of another address"]

Executes(ix) ==
  \/ ix.type = "initialize_protocol"    /\ InitializeProtocol(Deployer)
  \/ ix.type = "add_supported_mint"     /\ AddMint(Deployer, ix.mint)
  \/ ix.type = "initialize_shield_pool" /\ InitializeShieldPool(Deployer, ix.spec, ix.kind)
  \/ ix.type = "create_ata"             /\ CreateAta(ix.spec, ix.idempotent)
  \/ ix.type = "create_vault"           /\ CreateVault(ix.spec)
  \/ ix.type = "create_staking_vault"   /\ CreateStakingVault
  \/ ix.type = "initialize_staking"     /\ InitializeStaking

\* An instruction succeeds where its handler finds what it requires.
WouldSucceed(ix) ==
  \/ ix.type = "initialize_protocol"    /\ MayInitializeProtocol
  \/ ix.type = "add_supported_mint"     /\ initialized /\ MayAddMint(Deployer, ix.mint)
  \/ ix.type = "initialize_shield_pool" /\ MayInitializeShieldPool(Deployer, ix.spec, ix.kind)
  \/ ix.type = "create_ata"             /\ MayCreateAta(ix.spec, ix.idempotent)
  \/ ix.type = "create_vault"
  \/ ix.type = "create_staking_vault"   /\ MayCreateStakingVault
  \/ ix.type = "initialize_staking"     /\ MayInitializeStaking

-----------------------------------------------------------------------------
(* What the scripts do for an item: the account they look up, and the      *)
(* instructions they send when it is missing.                              *)

\* migrate: initializeProtocol passes no treasury and no governance account.
MigrateProtocol == [found |-> initialized, send |-> <<Incomplete>>]

\* migrate: addSupportedMints reads the list from the config.
MigrateMint(mint) ==
  [found |-> initialized /\ mint \in supportedMints, send |-> <<Mint(mint)>>]

\* migrate: createShieldPools names the associated token account of the vault
\* authority and does not create it.
MigratePool(spec) ==
  [found |-> Address(spec) \in DOMAIN pools, send |-> <<Pool(spec, "ata")>>]

\* migrate: setupGovernance leaves mainnet alone; elsewhere it looks for the
\* governance account at an address the program does not use.
MigrateGovernance ==
  [found |-> MainnetCluster, send |-> <<WrongGovernanceState>>]

\* init-protocol
InitProtocolMain == [found |-> initialized, send |-> <<Protocol>>]

\* add-supported-mint looks nothing up.
AddSupportedMintMain == [found |-> FALSE, send |-> <<Mint(WSOL)>>]

\* init-standard-pools: ensurePool
EnsurePool(spec) ==
  [found |-> Address(spec) \in DOMAIN pools, send |-> <<Ata(spec), Pool(spec, "ata")>>]

\* init-wsol-pool-v2
InitWsolPoolMain ==
  [found |-> Address(WsolPool) \in DOMAIN pools,
   send  |-> <<FreshVault(WsolPool), Pool(WsolPool, "fresh")>>]

\* init-mainnet-staking, steps 1 and 2
EnsureStakingVault == [found |-> stakingVault, send |-> <<StakingVault>>]
EnsureStakingPool  == [found |-> stakingPool, send |-> <<Staking>>]

Item(what)             == [what |-> what]
MintItem(what, mint)   == [what |-> what, mint |-> mint]
PoolItem(what, spec)   == [what |-> what, spec |-> spec]

Migration ==
  <<Item("config")>> \o [i \in DOMAIN MigrateMints |-> MintItem("mint", MigrateMints[i])]
    \o [i \in DOMAIN MigratePools |-> PoolItem("pool", MigratePools[i])]
    \o <<Item("governance")>>

Items(script) ==
  CASE script = "migrate"              -> Migration
    [] script = "init-protocol"        -> <<Item("protocol")>>
    [] script = "add-supported-mint"   -> <<Item("wsol")>>
    [] script = "init-standard-pools"  ->
         [i \in DOMAIN StandardPools |-> PoolItem("standard", StandardPools[i])]
    [] script = "init-wsol-pool-v2"    -> <<Item("wsol pool")>>
    [] script = "init-mainnet-staking" -> <<Item("staking vault"), Item("staking pool")>>

Plan(item) ==
  CASE item.what = "config"        -> MigrateProtocol
    [] item.what = "mint"          -> MigrateMint(item.mint)
    [] item.what = "pool"          -> MigratePool(item.spec)
    [] item.what = "governance"    -> MigrateGovernance
    [] item.what = "protocol"      -> InitProtocolMain
    [] item.what = "wsol"          -> AddSupportedMintMain
    [] item.what = "standard"      -> EnsurePool(item.spec)
    [] item.what = "wsol pool"     -> InitWsolPoolMain
    [] item.what = "staking vault" -> EnsureStakingVault
    [] item.what = "staking pool"  -> EnsureStakingPool

\* Errors that a script catches and goes on after, with the next item.
Caught(script, item) ==
  \/ script = "init-standard-pools"
  \/ script = "migrate" /\ item.what # "config"

\* Anchor's rpc() and spl-token's createAccount throw when a transaction lands
\* and fails.  connection.confirmTransaction returns the error, which the
\* scripts that call it do not look at.
SeesErrors(script) == script \in {"migrate", "init-protocol", "init-wsol-pool-v2"}

-----------------------------------------------------------------------------
(* Running a script. *)

Idle == [script |-> "none"]

Running(t) == job[t] # Idle

Script(t)  == job[t].script
NextUp(t)  == Head(job[t].items)
Looking(t) == Running(t) /\ job[t].items # <<>> /\ job[t].txs = <<>>
Sending(t) == Running(t) /\ job[t].txs # <<>> /\ job[t].state = "ready"
Waiting(t) == Running(t) /\ job[t].state = "sent"

Awaited(tx) == Waiting(tx.by) /\ Head(job[tx.by].txs) = tx.ix

Mishap == mishaps < MaxMishaps /\ mishaps' = mishaps + 1

SkipItem(t) ==
  job' = [job EXCEPT ![t].items = Tail(@), ![t].txs = <<>>, ![t].state = "ready"]

Begin(t, txs) == job' = [job EXCEPT ![t].txs = txs]

\* An item that failed: the script goes on or exits.
Fails(t) ==
  IF Caught(Script(t), NextUp(t)) THEN SkipItem(t) ELSE job' = [job EXCEPT ![t] = Idle]

\* A transaction taken for done.
Advance(t) ==
  IF Len(job[t].txs) = 1
    THEN SkipItem(t)
    ELSE job' = [job EXCEPT ![t].txs = Tail(@), ![t].state = "ready"]

Start(t, script) ==
  /\ ~Running(t)
  /\ job' = [job EXCEPT ![t] =
               [script |-> script, items |-> Items(script), txs |-> <<>>, state |-> "ready"]]
  /\ UNCHANGED <<accountVars, inflight, failed, reports, mishaps>>

LookUp(t) ==
  /\ Looking(t)
  /\ IF Plan(NextUp(t)).found
       THEN SkipItem(t) ELSE Begin(t, Plan(NextUp(t)).send)
  /\ UNCHANGED <<accountVars, inflight, failed, reports, mishaps>>

\* migrate takes an account it cannot read for a missing one.
LookUpFails(t) ==
  /\ Looking(t)
  /\ NextUp(t).what \notin {"wsol", "governance"}
  /\ Mishap
  /\ IF Script(t) = "migrate" THEN Begin(t, Plan(NextUp(t)).send) ELSE Fails(t)
  /\ UNCHANGED <<accountVars, inflight, failed, reports>>

\* The node simulates a transaction before it passes it on.
Send(t) ==
  /\ Sending(t)
  /\ IF WouldSucceed(Head(job[t].txs))
       THEN /\ inflight' = inflight \union {[by |-> t, ix |-> Head(job[t].txs)]}
            /\ job' = [job EXCEPT ![t].state = "sent"]
       ELSE Fails(t) /\ UNCHANGED inflight
  /\ UNCHANGED <<accountVars, failed, reports, mishaps>>

Answered(tx, result) ==
  job' = IF Awaited(tx) THEN [job EXCEPT ![tx.by].state = result] ELSE job

Lands(tx) ==
  /\ tx \in inflight
  /\ inflight' = inflight \ {tx}
  /\ IF WouldSucceed(tx.ix)
       THEN Executes(tx.ix) /\ Answered(tx, "done")
       ELSE UNCHANGED accountVars /\ Answered(tx, "error")
  /\ UNCHANGED <<failed, reports, mishaps>>

\* The paying key, which all scripts share, cannot pay the rent any more, or
\* what the handler finds has passed the simulation and fails now.
LandsInError(tx) ==
  /\ tx \in inflight /\ WouldSucceed(tx.ix)
  /\ Mishap
  /\ inflight' = inflight \ {tx}
  /\ failed' = failed \union {tx.ix}
  /\ Answered(tx, "error")
  /\ UNCHANGED <<accountVars, reports>>

GetsLost(tx) ==
  /\ tx \in inflight
  /\ Mishap
  /\ inflight' = inflight \ {tx}
  /\ UNCHANGED <<accountVars, job, failed, reports>>

Confirm(t) ==
  /\ Running(t) /\ job[t].state \in {"done", "error"}
  /\ IF job[t].state = "error" /\ SeesErrors(Script(t))
       THEN Fails(t) ELSE Advance(t)
  /\ UNCHANGED <<accountVars, inflight, failed, reports, mishaps>>

\* A slip the checks must notice: the confirmation is not awaited.
MutTimesOut(t) ==
  /\ Waiting(t)
  /\ Advance(t)
  /\ UNCHANGED <<accountVars, inflight, failed, reports, mishaps>>

\* A transaction still on its way may outlive the wait for it.
TimesOut(t) ==
  /\ Waiting(t)
  /\ IF [by |-> t, ix |-> Head(job[t].txs)] \in inflight THEN Mishap ELSE UNCHANGED mishaps
  /\ Fails(t)
  /\ UNCHANGED <<accountVars, inflight, failed, reports>>

\* migrate writes its receipt and init-mainnet-staking says that it is ready.
Finish(t) ==
  /\ Running(t) /\ job[t].items = <<>>
  /\ job' = [job EXCEPT ![t] = Idle]
  /\ reports' = reports \union
       CASE Script(t) = "migrate"              -> {"receipt"}
         [] Script(t) = "init-mainnet-staking" -> {"ready"}
         [] OTHER                              -> {}
  /\ UNCHANGED <<accountVars, inflight, failed, mishaps>>

Stop(t) ==
  /\ Running(t)
  /\ Mishap
  /\ job' = [job EXCEPT ![t] = Idle]
  /\ UNCHANGED <<accountVars, inflight, failed, reports>>

\* The authority pauses and resumes the protocol while scripts run.
Pause ==
  /\ initialized
  /\ PauseProtocol(Deployer) \/ ResumeProtocol(Deployer)
  /\ UNCHANGED <<now, initialized, pools, vaults, stakingVault, stakingPool, job, inflight,
                 failed, reports, mishaps>>

DeploymentInit ==
  /\ authority = NoKey /\ pendingAuthority = NoKey /\ feeBps = 0 /\ burnRatioBps = 0
  /\ isPaused = FALSE /\ supportedMints = {} /\ now = 0
  /\ initialized = FALSE /\ pools = <<>> /\ vaults = {}
  /\ stakingVault = FALSE /\ stakingPool = FALSE
  /\ job = [t \in Terminals |-> Idle]
  /\ inflight = {} /\ failed = {} /\ reports = {} /\ mishaps = 0

ScriptStep(t) == LookUp(t) \/ Send(t) \/ Confirm(t) \/ TimesOut(t) \/ Finish(t)

DeploymentNext ==
  \/ \E t \in Terminals :
       \/ \E script \in ScriptsAt[t] : Start(t, script)
       \/ ScriptStep(t) \/ LookUpFails(t) \/ Stop(t)
  \/ \E tx \in inflight : Lands(tx) \/ LandsInError(tx) \/ GetsLost(tx)
  \/ Pause

\* Somebody keeps running the three scripts that make the standard pools.
Needed == {"init-protocol", "add-supported-mint", "init-standard-pools"}

DeploymentSpec ==
  /\ DeploymentInit /\ [][DeploymentNext]_vars
  /\ \A t \in Terminals :
       /\ WF_vars(ScriptStep(t))
       /\ WF_vars(\E tx \in inflight : tx.by = t /\ Lands(tx))
       /\ \A script \in Needed \intersect ScriptsAt[t] : SF_vars(Start(t, script))

-----------------------------------------------------------------------------
(* Properties *)

\* Whatever is stopped, lost or run twice, running the scripts again leads to
\* all standard pools in the end, if the protocol does not stay paused: what a
\* stopped script left half done stops none of the following.
StandardPoolsGetMade ==
  <>[]~isPaused =>
    <>(\A i \in DOMAIN StandardPools : Address(StandardPools[i]) \in DOMAIN pools)

\* No script, run again or beside another, undoes what one has done: the mint
\* list only grows, and the authority, a handover begun, the fees, the pools and
\* the staking program's accounts stay as they are.
RerunsUndoNothing ==
  [][ /\ initialized => /\ initialized'
                        /\ UNCHANGED <<authority, pendingAuthority, feeVars>>
      /\ supportedMints \subseteq supportedMints'
      /\ \A a \in DOMAIN pools : a \in DOMAIN pools' /\ pools'[a] = pools[a]
      /\ stakingVault => stakingVault'
      /\ stakingPool => stakingPool' ]_vars

\* "MAINNET STAKING POOL READY" is printed over a vault at least: no error of
\* the first transaction goes unnoticed, since the second would not pass its
\* simulation.  Over a missing pool it is printed only when the transaction that
\* should have made the pool landed in error, which the script does not look at;
\* a script stopped, overtaken or run twice never prints it so.
ReadyUnlessErrorOverlooked ==
  "ready" \in reports => stakingVault /\ (stakingPool \/ Staking \in failed)
=============================================================================
