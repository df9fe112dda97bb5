# KIRITE in TLA+

KIRITE is a Solana privacy protocol: two on-chain programs (Rust, Anchor), a
zero-knowledge circuit, and JavaScript clients. This directory holds TLA+
modules translated from that code, TLC configurations that check them on small
instances, and TLAPS proofs of the properties that matter most.

## 1. Inventory

On chain, every instruction is one atomic transaction: a check that fails
reverts everything. Concurrency is the order in which the transactions of
stakers, depositors, relayers and the authority land, and the time between what
a client read and when its transaction lands.

| Component | State | Operations | Hard behaviours | Correct when |
|---|---|---|---|---|
| Staking program (`programs/kirite-staking/src/lib.rs`) | `StakingPool` (total weight, accumulator, accounted lamports, switches), one `StakeAccount` per staker, two vaults | `initialize`, `stake`, `claim`, `unstake`, `set_claim_enabled`, `set_drain_mode`; fees arrive as plain transfers the program does not see | lazy distribution, rounding, casts, re-stakes, switches flipped between calls, the rent rule of the fee vault | the vaults back all claims, nobody earns another's fees, everybody can leave |
| Shield pool (`programs/kirite`: `deposit.rs`, `withdraw.rs`, `state/shield_pool.rs`) | leaves, root ring, nullifier records, token vault, statistics, frozen flag | `deposit`, `withdraw`, `freeze_pool`, `unfreeze_pool` | proofs delayed, repeated, reordered by relayers; roots evicted while a proof is on its way; fees changed in between | each leaf pays at most one denomination, the net of it to the account the proof names, and every unspent leaf is payable |
| Merkle tree (`utils/crypto.rs`, `sdk/src/zk.mjs`, `circuits/membership.circom`) | one node per level on chain, the whole tree off chain | `insert_leaf_light`, `buildMerkleProof`, path check | nodes kept from earlier insertions, the full tree, padded slots | program, client and circuit agree on the root |
| Note client (`sdk/src/kirite-zk.mjs`, `zk.mjs`, `scripts/test-zk-e2e.mjs`) | note (secrets, leaf index), leaves found in the history | read the pool, deposit, `fetchPoolLeaves`, `generateMembershipProof` | two deposits race for an index; the window of history forgets; missing transactions leave holes | a note in the tree can be proved, a proof from a wrong list spends nothing |
| Protocol config (`initialize.rs`, `state/protocol.rs`) | authority, pending authority, fees, pause, mint list | initialize, pause, resume, add and remove mint, hand over the authority | the other components read it at a later time than their clients did | rates never above 100%, one authority at a time |
| Governance (`governance.rs`) | fee proposals, signers, counters | propose, execute, cancel, `burn_fees`, `update_governance_signers` | overlapping timelocks, handover of the authority in between | fees change only after notice, a proposal is settled once |
| Fee arithmetic (`utils/math.rs`) | none | `calculate_fee`, `calculate_net_amount`, `split_fee` | rounding in opposite directions | the parts add up |
| Stealth registry (`create_stealth.rs`, `state/stealth.rs`) | registries, one-time addresses, the pause switch of the config | register, deactivate, resolve, claim | a registry deactivated, or the protocol paused, between resolution and claim | each address claimed once, a resolved one always claimable |
| Stealth client (`sdk/src/stealth/*`, `cli/src/commands/stealth.ts`, `utils/keypair.ts`) | announcements, the scan under way | derive, look up, send, announce, two scans | view tags that collide, keys, addresses and tags that belong to another payment, announcements made while a scan runs, requests that fail | own payments found, and no others |
| Transaction client (`sdk/src/utils/transaction.ts`, `connection.ts`) | signature, blockhash, attempt | build, send, sign again, confirm | a retry signs anew while the first may land; the timer races the answer | a success is one, a repeat needs a lost answer, the call ends |
| Note commands (`cli/src/commands/deposit.ts`, `withdraw.ts`, `scripts/sdk-deposit.mjs`, `sdk-withdraw.mjs`) | note files | deposit, save, withdraw | killed between the deposit and the file | as the transaction client |
| Staking client (`sdk/src/staking.mjs`), pool client (`kirite-zk.mjs`) | none | derive addresses, build instructions, decode accounts and events, all by hand | layouts and account lists drift from the program's | what they build is accepted, what they read is so |
| Command-line settings (`cli/src/utils/config.ts`, `wallet.ts`, `commands/config.ts`) | the settings file | set, reset, load, load again for the wallet | the file is emptied before it is written; two commands overlap; JSON has no infinite number | what a command works with was accepted, what was set stays |
| Migration and operator scripts (`scripts/migrate.ts`, `init-*.mjs`, `add-supported-mint.mjs`) | the accounts they create | look up, create, wait, report | stopped half way, run again, beside each other; errors of landed transactions not looked at | reruns undo nothing and finish the job |
| Test scripts (`scripts/test-zk-*.mjs`, `test-relayer-e2e.mjs`) | the note in hand, a counter of leaves | deposit, prove, withdraw, replay, report | other depositors in between, deposits and withdrawals that land in error | what is reported as paid is so, and a false alarm has one cause |
| Groth16 verifier, curve code, `range64.circom`, ceremony | none | cryptography | outside of state machines | |

Interactions: `withdraw` reads the fees, the pause switch and the mint list of
the config, which governance changes; the client reads the pool and its events;
the relayer (an external service) sends withdrawals and forwards fees to the
staking program's fee vault, the only link between the two programs. All
clients reach the programs through transactions that are simulated by a node,
passed on, and land, expire or get lost.

`PROJECT.json` lists the components with their status and the hazards, each at
its line.

## 2. Modules

| Module | Models | State and actions |
|---|---|---|
| `Sums` | sums over accounts 1..n | recursive functions, so that facts about them can be proved |
| `Staking` | the staking program | the fields of `StakingPool` and `StakeAccount` under the source's names (`acc` is `acc_reward_per_weight`, `lastAccounted` is `last_accounted_lamports`), vault and wallet balances, the clock. `Stake`, `Claim`, `Unstake`, `SetClaimEnabled`, `SetDrainMode` are the instructions, `DepositFees` and `Tick` the environment. `SyncedAcc`/`SyncSucceeds` are `sync_pool`, `Accrued`/`Pending` are `accrue`, with the word sizes as constants |
| `StakingShares` | `Staking` beside an ideal ledger | each action of `Staking` conjoined with its effect on the ledger: the fair share of each staker rounded up and down, fees stranded, payments made (what left the vault; the payout an event names is not recorded) |
| `FeeMath` | `utils/math.rs` | operators |
| `ProtocolConfig` | the config account and its handlers, the clock | one action per handler; every handler names its signer, compared with the authority |
| `ShieldPool` | deposit, withdraw, freeze, unfreeze over `ProtocolConfig` and `FeeMath` | the fields of the pool account; nullifier records are a set; `proofs` is the set of all proofs made, any of which may be sent at any time, any number of times, with any token account of the mint as the recipient's and any as the treasury's (`received` is what each got; the pool's own vault is one of them) |
| `NotePool` | what a shield pool promises | a pot of notes of equal worth, each redeemed once |
| `ShieldPoolRefinement` | the mapping from `ShieldPool` to `NotePool` | live notes are the leaves whose nullifier is unspent, the first of equal ones |
| `Governance` | proposals, signers, burning, over `ProtocolConfig` | a proposal account is an entry of the sequence `proposals` |
| `MerkleTree` | the tree as program, client and circuit see it | `InsertLeaf` is the program (`Climb` its loop up the levels, `Remember` the nodes it keeps); `Nodes`, `RootOf`, `BuildMerkleProof` the client; `LevelHashes`, `PathRoot` the circuit |
| `NoteClient` | depositors who use the SDK, over `MerkleTree` | `ReadPool`, `DepositLands`, `DepositExpires`, `GenerateProof`, `WithdrawLands`, and `OtherTraffic` that fills the history |
| `Layouts` | what encoders and decoders written apart must agree on | operators: offsets of a layout, which field a reader takes, whether a call's accounts fit a context |
| `StakingClient` | `staking.mjs` against the contexts and accounts of the program, over `Staking` | no variables: the client's addresses, instructions and layouts beside the program's |
| `PoolClient` | the same part of `kirite-zk.mjs`, over `ShieldPool` | the same |
| `NoteScripts` | five test scripts, over `NoteClient` | `kind`, `at`, `round`: which script runs and how far it is; withdrawals on their way; `barred`, the notes whose withdrawal landed in error on a good proof; what was reported |
| `TxClient` | `sendAndConfirmTransaction` against a cluster | per call where it is, its attempts and blockhash; transactions on their way and landed; `Land`, `Drop`, `NextBlock` are the cluster |
| `NoteCommands` | deposit and withdrawal commands, over `TxClient` | note files, how each command ended; `Kill` stops a process anywhere |
| `Deployment` | migration and operator scripts, over `ProtocolConfig` | `job` of each terminal (items left, transactions left), transactions on their way, which accounts exist, and which instructions landed in an error by mishap (`failed`); a script is a table of items with what it looks up and what it sends; the guards of the handlers (`May...`) are what a simulation asks (`WouldSucceed`) |
| `StealthRegistry` | the stealth instructions | a registry per owner, an address per owner and ephemeral key |
| `StealthClient` | payments to one-time addresses, over `StealthRegistry` | what `stealth send` printed, announcements, and per recipient the scan under way; `announce` takes its three arguments freely |
| `CliConfig` | the settings file and the processes that use it | the file, and per process its command and what it loaded; `Stringified` is what JSON makes of the settings |
| `StakingProofs` | theorems on `Staking` and `StakingShares`; lemmas on sums | |
| `ShieldPoolProofs`, `GovernanceProofs` | theorems on `ShieldPool`, its refinement, and `Governance`; lemmas on `ProtocolConfig` | |
| `NoteProofs` | theorems on `MerkleTree`, `NoteClient` and `NoteScripts` | |
| `DeploymentProofs`, `NoteCommandsProofs`, `CliConfigProofs`, `StealthProofs` | theorems on `Deployment`, `TxClient` under `NoteCommands`, `CliConfig`, and `StealthClient` over `StealthRegistry` | |
| `MC*` | instances for TLC | |

Operators named `Mut...` are slips of the pen that the code does not make; no
action uses them. `PROJECT.json` says which property each of them would break.

### What is abstracted

- Hashes are injective and a proof exists only for a leaf of a tree the pool
  had: `ShieldPool` writes a root as its number of leaves. That is what two
  theorems on `MerkleTree` allow: the program's root is that of its leaves
  (`TreeRootMatchesRebuild`), and trees with one root have the same leaves
  (`RootsDetermineLeaves`).
- A commitment in `ShieldPool` stands for its secrets and its nullifier.
- Token accounts of the mint are the set `TokenAccounts`, the pool's vault among
  them. The account passed as the treasury's in `withdraw`, of which the program
  compares nothing but the mint (`withdraw.rs:66-67,115-118`), is any of them: a
  relayer's own, the recipient's, the vault. A transfer from the vault to itself
  moves nothing. Who owns an account does not matter to the program and is left
  out. The balance of the depositor is taken to suffice.
- Signatures, account derivation and rent of new accounts are the guards they
  amount to: who signs, and whether an account exists.
- The words `u64` and `u128` of the staking program are `U64` and `U128`; those
  of the other programs cannot overflow at amounts that fit a token supply.
- A transaction is the instruction it carries and the height of its blockhash;
  why a node refuses one (balances, fees, network) is one choice of the cluster.
- Simulation is idealised: a node passes on what would succeed at that moment,
  and answers from the state of the moment (no node lags behind).
- What may make a transaction land in error though its guards hold (the pool
  paused or frozen or the mint removed in between, `withdraw.rs:37,102,105`; rent
  or fees the shared paying key cannot pay; compute) is a choice of the cluster:
  `Executes` and `DepositErrs` in `NoteScripts`, where it may happen to any
  transaction, `LandsInError` in `Deployment`, where it counts as a mishap.
- A note is its depositor; recipients are fresh, so that a balance tells whether
  the note was paid.
- `sdk/src/kirite.mjs` and the `KiriteClient` of the SDK, which `sdk-deposit`,
  `sdk-withdraw`, `init-protocol`, `init-wsol-pool-v2` and the command line
  import, are not in the repository. They are taken to send as
  `sendAndConfirmTransaction` does.
- The program that takes stealth announcements is not in the repository either;
  the constant `Announces` stands for it.
- Key derivation and X25519 are tuples of what they are derived from.
- In `StealthClient`, recipients who hand out their meta-address are a constant
  (`Shown`); an announced address is one `stealth send` printed, as any other is
  nobody's.
- The settings file holds what commands wrote. One edited by hand, which
  `loadConfig` merges into the defaults unchecked (`config.ts:59-62`), is left out.
- `Deployment` leaves the treasury account of the config out, which no script
  changes.
- `config.total_deposits`, `total_withdrawals` and `total_fees_collected` are
  never written after initialisation and not modelled.

## 3. What is checked

`CHECK_DEADLOCK FALSE` everywhere: clocks and counters are bounded, and a full
tree or an empty wallet really ends the activity.

### Runs that pass

| Run | Properties | Bounds, and why they are enough |
|---|---|---|
| `MCStaking` | `WeightsAddUp`, `PrincipalBacked`, `Solvent`, `FeesCover`, `ExactOwed`, `ExitNeverBlocked`, `ClientAgrees`, `OwedOnlyMovesByFeesAndPayouts`, `PrincipalEventuallyReturned` | two stakers (the fewest that share a fee unevenly), two stakes each (a re-stake under another lock), two fee deposits of two lamports, three days. `SCALE` 10 is small so that both divisions round; `U64` and `U128` (32 and 2,048) lie just above the largest balances and accumulator values these bounds reach, so that a wrapped or truncated amount would show |
| `MCStakingShares` | `FairlyShared`, `NoFeeLost` | two deposits of 100 lamports against roundings of a few (`SyncLoss` 1: the heaviest position weighs less than `SCALE`); five calls, so that a position is opened, replaced, paid and closed around each deposit; lamports in the vault before `initialize` |
| `MCShieldPool` | `VaultBacksNotes`, `NotesRedeemable`, `RecentRootsKnown`, `ClientAgrees`, `WithdrawalsConserveTokens`, `ImplementsNotePool` | four leaves and three roots: the ring wraps; two commitments in four leaves: equal leaves (taken up to symmetry: commitments are only compared for equality and the properties of this run are safety properties); rates of 50% with a 50% burn of an odd denomination (both divisions round), 100%, and one the program must refuse |
| `MCShieldPoolRelay` | `WithdrawalsConserveTokens`, `RelayersMoveOnlyFees`, `NotesEventuallyWithdrawn` | the native mint, two recipients and the vault as token accounts: any proof with any of them as recipient and as treasury, the same one included; with a single root of history every later deposit overtakes the proofs on their way |
| `MCGovernance` | `ProposalsSettleOnce`, `FeesChangeOnlyWithNotice` | two keys, two proposals, a timelock of two on a clock of four: timelocks overlap and the authority changes hands within them |
| `MCMerkleTree` | `RootMatchesRebuild`, `PathsProveTheirLeafOnly` | three levels, every sequence of up to eight leaves from two values, beside one the program refuses: each pattern of turns, a full tree |
| `MCNoteClient` | `ProvableWithinWindow`, `ReportsAreTrue`, `SpentNotesAreInTheTree` | three depositors, two roots, a window of three transactions in a history of five: the window forgets deposits and the ring forgets roots. One script of any kind with two notes, so that a loop goes on after an error, a root is lost between the simulation of a withdrawal and its landing, and a deposit or a withdrawal lands in error; the false alarm of a replay is among the states reached |
| `MCDeployment` | `ReadyUnlessErrorOverlooked`, `RerunsUndoNothing`, `StandardPoolsGetMade` | two terminals with six scripts: each pair of lookups and creations interleaves, every script may run again at any time; two mints, and a pool of the migration at the address of a standard one. One mishap (a stop, a failed read, a lost transaction, one that lands in error though its guards hold, a wait that ends early), beside any number of refusals and of transactions that land in error because they were overtaken; a second one would fall into a rerun, which the first already reaches |
| `MCNoteCommands` | `SuccessMeansEffect`, `RepeatsNeedLostAnswers`, `CommandsEnd` | a deposit and two withdrawals of its note, one of them without simulation; one retry each, blockhashes valid for one block of a chain of two: the first transaction can land before, after or beside the retry, expire, or land in error |
| `MCStealth` | `ClaimsNeverBlocked`, `ScanFindsOwnPayments`, `DeactivationIsFinal` | two recipients and two ephemeral keys, for one of which the view tags collide; two announcements in two slots, each of any key, printed address and tag; one recipient who shows the meta-address, one who must register; one scan, of either kind, limit one, with and without a range, at any moment; one resolved address under each registry |
| `MCCliConfig` | `LoadedConfigIsValid`, `SettingsKept` | three processes: two that write and one that reads overlap in every way, and a set follows a set; each kind of key with a text it accepts and one it refuses, and a number too large |

`TypeOK` is checked in `MCStaking` and `MCShieldPool`.

`ReportsAreTrue` rests on the scripts looking at the recipient's balance:
`confirmTransaction` returns the error of a transaction that landed, and no
script reads it. Its second half bounds the alarm of `test-zk-overnight`: a
replay can be reported as accepted when the withdrawal had landed in error, and
in no other case. `ReadyUnlessErrorOverlooked` is as exact about the READY of
`init-mainnet-staking`. `RelayersMoveOnlyFees` bounds what a relayer that orders,
repeats and pairs withdrawals as it likes can move over all of them.
`RepeatsNeedLostAnswers` is the exact promise of the retry
loop: it is not "at most once". `SettingsKept` says what holds as long as
commands run to their ends one after the other; overlapping commands do lose
settings, and `LoadedConfigIsValid` says that even then the rest was accepted.
`StandardPoolsGetMade` shows why `init-standard-pools` uses the idempotent
instruction for the vault.

### The run that ends in a violation

`MCStakingClient` checks `ExitsReachTheProgram`: where the program would let a
staker out, the instructions the client builds for the stake and the exit are
accepted. They are not: `buildStakeIx` and `buildUnstakeIx`
(`sdk/src/staking.mjs:106-186`) leave out the mint account that the `Stake` and
`Unstake` contexts of `kirite-staking/src/lib.rs` require, so that every account
behind it is one place off. `scripts/test-staking-unstake.mjs:4-6,155` says the
flow works. (It also stakes with a lock of no days, which `LOCK_OPTIONS` does
not offer.) `buildClaimIx` and `buildInitializeIx` fit (`ClientAgrees`).

### Statements that do not hold, without a run of their own

The models show these too; each is a sentence of the repository.

- `README.md:24`, fees are routed to stakers: fees that arrive while nobody is
  staked are skipped for ever (`SyncedAcc`; `NoFeeLost` is the exact statement).
- `kirite-staking/src/lib.rs:280-282`, unstake with claims disabled pays no
  rewards: its event names a payout all the same (`lib.rs:345`).
- `kirite/src/lib.rs:48`, no withdrawal before `timelock_seconds`: `withdraw`
  reads neither the timelock nor the deposit time.
- `membership.circom:105-107`, two leaves never share a nullifier: equal
  commitments are accepted, and only one of the leaves can be withdrawn.
- `test-zk-edge.mjs:14`, concurrent deposits land at correct indices: the second
  of two racing deposits lands where its commitment does not say. The script's
  own counter goes wrong the same way when a deposit lands after the wait for it
  threw.
- `docs/internal-security-review.md:510` counts "`current_root` plus three
  historical roots". `push_root` writes the current root into the ring too, so
  two older ones are known: `RecentRootsKnown` is the exact statement.
- `kirite-staking/src/lib.rs:3`, "lock for a chosen period": a further stake
  replaces the lock of the whole position, by a shorter one too (`Stake`
  assigns `lockDays` and `stakeAt` afresh).
- The same comment offers a lock of no days, and the shortest of `LOCK_OPTIONS`
  is 30 (`lib.rs:30-35`).
- `kirite/README.md:26,31`, fees gated by "multisig-style signers": no handler
  reads the list; `ExecuteFeeUpdate` asks for the authority alone.
- `deposit.rs:113-114` refuses 32 zero bytes to keep the empty-leaf sentinel out
  of the tree, but the sentinel is Poseidon([0]), which passes. `MCMerkleTree`
  leaves it out of the leaf values: a sentinel inserted would repeat a root.
- `kirite-zk.mjs:320-336`: the offsets in the comment of `decodeShieldPool` are
  those of an older layout from `created_at` on; the code is right
  (`ClientAgrees`). So is that of `decodeStakeAccount`, unlike its comment.
- `migrate.ts`: the stage that initializes the protocol names no treasury and no
  governance account and cannot succeed (`Incomplete`), pools are created over a
  vault the script does not create, and the stage for governance looks at an
  address the program does not use; the stages that fail are caught and the
  receipt is written all the same.
- `stealth/registry.ts`: `parseRegistryEntry` reads a label the program does not
  store, so an account with many addresses counts as unregistered (`Readable`),
  and it does not look at `is_active`.
- `test-zk-overnight.mjs` counts a cycle as done though the recipient may have
  got nothing, and may report a leak that did not happen (`215-238`, `305`): a
  withdrawal that passed its simulation lands in error, say because the pool was
  paused for a moment (`withdraw.rs:37,102,105`), nobody looks at the error, and
  the replay is the first to succeed. `ReportsAreTrue` is the exact statement.
  `test-zk-edge.mjs` could call a double spend accepted for the same reason.
- `test-zk-edge.mjs:199-201` counts a leaf after a deposit that landed in error;
  all later notes are then made for the wrong leaf (`DepositErrs`).
- `init-mainnet-staking.mjs:123` prints "MAINNET STAKING POOL READY" over no pool
  when the transaction that makes it lands in error: line 104 ignores the error,
  and `if (verify)` (112) has no else (`ReadyUnlessErrorOverlooked`).
- `cli/src/utils/config.ts:126-131`: `maxRetries` "must be a non-negative
  integer", but enough digits give Infinity, which passes, is saved as null and
  is null from then on; `confirmTimeout` and `priorityFee` alike (`Stringified`).

### Fairness

- `Staking!FairSpec`: the clock ticks, and a staker who may leave submits
  `unstake`. Nothing is assumed of the operator, the other stakers or fees: weak
  fairness suffices because an enabled exit stays enabled
  (`ExitNeverBlocked`, and stakes are bounded by the wallets).
- `ShieldPool!FairSpec`: a holder keeps proving for the current root and
  relayers keep sending what would be accepted. The property asks this only of
  behaviours in which the pool runs from some point on; an authority that pauses
  for ever stops every withdrawal. Deposits end because the tree is finite.
- `NoteCommands!NoteSpec`: a command that is running takes its next step; a wait
  is ended by its timer. Nothing is assumed of the cluster, which may stay
  silent.
- `Deployment!DeploymentSpec`: a script that is running goes on, a transaction
  on its way lands unless it is lost, and somebody keeps starting the three
  scripts that make the pools (strong fairness, as a terminal is busy in
  between). The property asks for the pools only if the protocol does not stay
  paused.
- The other specifications state safety alone.

## 4. What is proved

Eight modules hold theorems. All are about the specifications as the runs check
them, for every value of the constants that satisfies the named assumptions of
the modules: any number of stakers, leaves, roots, proposals, calls, processes
or recipients, not those of a `.cfg`. The bounds in the guards (`MaxFees`,
`MaxTouches`, `MaxTime`, ...) are constants too, so that they bound a
behaviour but not the theorem.

| Module | Theorem | States |
|---|---|---|
| `StakingProofs` | `TypeCorrect` | `Spec => []TypeOK` |
| | `WeightsCorrect` | `Spec => []WeightsAddUp` |
| | `PrincipalSafe` | `Spec => []PrincipalBacked` |
| | `FeesAlwaysCover` | `Spec => []FeesCover` |
| | `AlwaysSolvent` | `Spec => []Solvent` |
| | `OwedIsExact` | `Spec => []ExactOwed` |
| | `OwedIsOnesOwn` | `Spec => OwedOnlyMovesByFeesAndPayouts` |
| | `ExitsStayOpen` | `Spec => []ExitNeverBlocked` |
| | `SharesInvariant` | `LedgerSpec => []SharesInv` |
| | `SharesAreFair` | `LedgerSpec => []FairlyShared` |
| | `FeesAreAccountedFor` | `LedgerSpec => []NoFeeLost` |
| `ShieldPoolProofs` | `PoolInvariant` | `Spec => []PoolInv` |
| | `PoolTypeCorrect` | `Spec => []TypeOK` |
| | `VaultBacked` | `Spec => []VaultBacksNotes` |
| | `NotesStayRedeemable` | `Spec => []NotesRedeemable` |
| | `RecentRootsAccepted` | `Spec => []RecentRootsKnown` |
| | `WithdrawalsConserve` | `Spec => WithdrawalsConserveTokens` |
| | `RelayersMoveFees` | `Spec => []RelayersMoveOnlyFees` |
| | `PoolImplementsNotes` | `Spec => ImplementsNotePool` |
| `GovernanceProofs` | `GovernanceInvariant` | `Spec => []GovInv` |
| | `SettledOnce` | `Spec => []ProposalsSettleOnce` |
| | `NoticeIsGiven` | `Spec => FeesChangeOnlyWithNotice` |
| `NoteProofs` | `RootsDetermineLeaves` | `RootOf(first) = RootOf(second)` implies `Padded(first) = Padded(second)` |
| | `TreeRootMatchesRebuild` | `Spec => []RootMatchesRebuild` |
| | `TreePathsProveTheirLeafOnly` | `Spec => []PathsProveTheirLeafOnly` |
| | `ScriptsInvariant` | `ScriptSpec => []AllInv` |
| | `NotesProvableWithinWindow` | `ScriptSpec => []ProvableWithinWindow` |
| | `ScriptReportsAreTrue` | `ScriptSpec => []ReportsAreTrue` |
| | `SpentNotesWereInTheTree` | `ScriptSpec => SpentNotesAreInTheTree` |
| `DeploymentProofs` | `NothingUndone` | `DeploymentSpec => RerunsUndoNothing` |
| | `DeploymentInvariant` | `DeploymentSpec => []DeploymentInv` |
| | `ReadyIsTrueOrErred` | `DeploymentSpec => []ReadyUnlessErrorOverlooked` |
| `NoteCommandsProofs` | `TxInvariant` | `NoteSpec => []TxInv` |
| | `SuccessIsTrue` | `NoteSpec => []SuccessMeansEffect` |
| | `RepeatsAreLostAnswers` | `NoteSpec => []RepeatsNeedLostAnswers` |
| `CliConfigProofs` | `FileInvariant` | `Spec => []FileInv` |
| | `SettingsAreValid` | `Spec => []LoadedConfigIsValid` |
| | `SettingsAreKept` | `Spec => []SettingsKept` |
| `StealthProofs` | `ScanInvariant` | `Spec => []ScanInv` |
| | `ScansAreExact` | `Spec => []ScanFindsOwnPayments` |
| | `DeactivatedForGood` | `Spec => DeactivationIsFinal` |

`ShieldPoolProofs` begins with lemmas on the handlers of the config: each keeps
its types, its rates within 100% and its list of mints finite and bounded;
`GovernanceProofs` shows of the rates what it needs. Most of these theorems rest on an invariant that is stronger than the
property; each was checked by TLC on the instance of its run before it was
proved.

### Assumptions on the constants

- `WordsAssumption`: lamports fit in a `u64` and `SCALE` times a `u64` in a
  `u128`, as 10^12 * 2^64 < 2^128.
- `LossAssumption`: the rounding of one sync costs a position at most
  `SyncLoss` lamports, `weight <= SyncLoss * SCALE`. It is a constant, and not one
  lamport, because weights may exceed the scale: 1,000 tokens of nine decimals
  weigh as much as `SCALE`, 10^12. Every supply has some `SyncLoss`.
- `PoolAssumption`: a positive denomination and history, and `MAX_FEE_BPS` at
  most `BPS_DENOMINATOR`; both are 10,000 in the program. The vault and the
  recipients are token accounts.
  `ConfigLimitsAssumption`: room for at least one mint.
- `TreeAssumption`: a height of at least one level; the hash of an empty slot is
  not 32 zero bytes. `NoteAssumption`: no commitment is the sentinel of an empty
  slot, as no hash of four inputs is the hash of one.
- `ScriptsAssumption`: a script has notes, and each note is of one script and one
  round, as each run draws fresh secrets.
- `DeploymentAssumption`: the types of the lists the scripts carry, and that some
  setting of the fees passes `ValidFees`, as the ones `init-protocol` sends do.
- `FileAssumption`, `NumberAssumption`, `DefaultsAssumption`: a missing file and
  one that does not parse are told from settings, infinity and null from numbers
  and each other, and the built-in defaults are acceptable and finite.
- The other assumptions are the types of the constants.

### The arguments

**Solvency.** `Solvent` is not inductive, because it speaks of rounded
quotients. `FeesCover` is its fixed-point form: for each staker
`SCALE * unclaimed + weight * (acc - lastAcc)` is due, and the sum of what is
due never exceeds `SCALE` times the lamports accounted for above the floor. A
sync adds `increment * totalWeight`, at most `SCALE` times the fresh fees, and
the weights add up to `totalWeight` (`WeightsAddUp`); an accrual moves at most
as much into the bucket as it takes out of the difference of accumulators; a
payment takes the bucket from both sides. So `Covering == TypeOK /\ WeightsAddUp
/\ FeesCover` is inductive (`NextCovering`) and implies `Solvent`
(`CoveringSolvent`). `ExactOwed` follows with `VaultBounded`, which bounds the
vault by what was ever sent: a product that is covered fits the words of
`accrue`. With exact arithmetic, an accrual at the current accumulator changes
nothing for the others, which gives `OwedOnlyMovesByFeesAndPayouts`.

**Exits.** `ExitNeverBlocked` says that for a position whose lock has ended, or in
drain mode, the rest of what `unstake` asks for (`ExitOpen`: the checked
arithmetic of the sync, the rent rule of the fee vault, the tokens of the
principal, the subtraction of the weight) is met. `ExitOpen` is a conjunct of
`Unstake`, and `ExitOpenSuffices` shows that no guard is missing from it. The
rent rule needs `Solvent`, the tokens `PrincipalBacked`, the weight
`WeightsAddUp`, and the sync `AccBounded`: the accumulator is at most `SCALE`
times the fees folded in.

**Fair shares.** For each staker, `Gap` is `SCALE` times what the ideal ledger
grants beyond what was paid and is parked, minus what the accumulator still
holds for the position. Fees that no call has folded in yet make the gap of
`fairHigh` large enough to cover the position's part of them (`CoversFresh`),
and that of `fairLow` no larger than this part and the roundings so far
(`OnlyRounding`). A deposit raises both sides by the share of the deposit, a sync
moves fresh fees into the accumulator and rounds at most once more, an accrual
and a payout move between terms of the gap. `AllAccounted` is the same for the
sum over all stakers, where the weights cancel against `totalWeight`. All three
are inductive only together with solvency: a vault that could run short would
cut a payout.

**Sums.** `StakingProofs` begins with what this needs of finite sums: a sum with
one term changed, the sum of two functions, a scaled sum, a term is at most the
sum. Induction over the accounts is the lemma `IntervalInduction`, proved from
the set of numbers below a bound, as the induction theorems of the library
cannot be instantiated.

**Shield pool.** The ring is known slot by slot (`RootInSlot`): those before the
index were written in this lap, the others, if at all, in the one before. A
deposit changes one slot and the length in step, and `RecentRootsKnown` is read
off for any length of the ring. A proof in circulation names the nullifier of a
leaf (`ProofsAreOfLeaves`), so a withdrawal spends a leaf not spent before and
`VaultBacksNotes` is kept; an unspent leaf then means a whole denomination in
the vault. The fee lemmas (rounded up, split rounded down, never above the
amount) give conservation for every rate the config may hold, which
`ConfigSound` bounds. `RelayersMoveOnlyFees` is kept account by account: a
withdrawal moves one nullifier of a proof for the recipient into `SpentFor`, and
sends the account one denomination less the fee, plus the fee if it was named as
the treasury, both of which the bounds allow for.

**Refinement.** A live note is the first of the leaves with an unspent nullifier;
`PoolImplementsNotes` shows that a deposit of a new commitment adds one, that of
an equal one stutters, a withdrawal redeems the note of its nullifier, and
every other step leaves the pot alone. The pot is the vault without what
withdrawals paid back into it.

**Governance.** A proposal on file passed `ValidFees` and is executable one
timelock after it was filed (`FiledProperly`); settling one touches its flags
only, and one step sets one flag. Handing over the authority changes no
proposal, so the notice survives it.

**Tree.** The functions of `MerkleTree` run over the levels; `NoteProofs` shows
first that each exists and unfolds level by level, as `IntervalInduction` allows.
A leaf added to the list changes the nodes above it and no others. The inductive
invariant `TreeInv` says of the nodes the program keeps that, at each level where
the next leaf's way up comes from the right, the node kept is the left neighbour
there (`FilledIsLeft`), so `Climb` computes the nodes of the full tree
(`TreeRootMatchesRebuild`). As hashing is injective, one root means one pair of nodes
below it, and so on to the leaves (`RootsDetermineLeaves`); along a path the same
shows that only one leaf climbs to the root (`TreePathsProveTheirLeafOnly`).

**Notes and scripts.** `AllInv` has three layers: the history holds the indices of
all leaves (`HistoryInv`), every proof is over leaves of the tree with its owner's
among them (`ProofInv`), and what each script holds at each of its steps
(`RunInv`). A proof whose list is no prefix of the tree has a root the pool never
had, as roots determine leaves; one that left the ring of roots stays out
(`Stale`), because the tree only grows. A withdrawal of the overnight script that
was answered is therefore spent, barred (it landed in error on a good proof) or
stale, and its replay can be accepted only if it is barred
(`ScriptReportsAreTrue`).

**Deployment.** `RerunsUndoNothing` follows from what each instruction may do to
the accounts (`KeepsAccounts`) and from the config listing no mint before it
exists. `ReadyUnlessErrorOverlooked` needs the scripts: `init-mainnet-staking`
passes an item only with its account made (`StakingProgress`), be it that it
found the account, that its transaction landed, or that this landed in error
because the account was there; or else the transaction landed in error by mishap
(`failed`). For the vault the last case does not lead on, as the next
transaction needs the vault to pass its simulation. That is where the look-up
before each item and the wait behind each transaction matter, and it holds of
any number of terminals.

**Transaction client.** `SendsCounted`: of a call, as many transactions reached
the cluster as answers were lost, and one more once the call holds a signature.
The cluster moves transactions from flight to ledger and makes none.

**Settings.** Whoever writes the file writes, for each key, a value that was
accepted or the null of a number in `Lost` (`OnlyValidSettings`), whatever is
killed or overlaps; `Lost` only grows, and writing keeps this
(`StringifiedValid`). To save, load and set is to set and save
(`StringifiedOnce`), so a chain of commands loses no more than one would. As long as nothing did (`undisturbed`), only one
process is under way and its step says what the file holds (`StepsInOrder`).

**Stealth.** `FoundSoFar`: the payments found are those in the announcements
looked at, which stay those fetched when the scan began; a tag that
collides lets an announcement through, but the address is compared after it and
tells whose it is. That uses that an announced address is one that was printed,
and is announced once with each key (`AnnouncedProperly`): the address the
recipient derives contains the key, so an address announced with the key of
another payment is nobody's match.

### Only model-checked

- Liveness: `PrincipalEventuallyReturned`, `NotesEventuallyWithdrawn`,
  `CommandsEnd`, `StandardPoolsGetMade`.
- What is stated with `ENABLED`: `ClaimsNeverBlocked`, and the halves of
  `StakingClient`'s `ClientAgrees` and `ExitsReachTheProgram` that speak of what
  the program would accept. (`ExitNeverBlocked` and the simulations of `Deployment`
  are written with the guards of the handlers instead; TLC finds them equal to
  `ENABLED Unstake(s)` and `ENABLED Executes(ix)` on every state of the instances.)
- `ClientAgrees` of both clients compares fixed tables of account lists and
  layouts with the sizes of the deployed programs; TLC evaluates those very
  tables, and there is no constant to generalise over.

Liveness and `ENABLED` are out of the prover's reach.

## 5. Not modelled

- The Groth16 verifier, curve arithmetic, `range64.circom`, the generated
  verifying keys and the ceremony: cryptography, taken by its contract.
- `kirite pool`, `kirite transfer` and the display helpers: one-shot calls of a
  client that is not in the repository; the program has no instruction for
  confidential transfers.
- The registry instruction builders and the balance lookup of the stealth SDK:
  they address a program that is not in the repository.
- In the test scripts: how `ensureProtocol` and `ensurePool` set up the cluster
  (as `init-standard-pools`, `Deployment`); in `test-zk-edge` the wrong recipient
  of case 2 (`RelayersMoveOnlyFees` is about it), the second try of case 5, and the
  deposit pair of case 6; the spoilt attempts of cases 3 and 4, which change
  nothing.
- `test-staking-*`, `test-v2-e2e`, `test-zk-browser`, `test-zk-relayer`,
  `stress-deposit`, `verify-staking-multipliers`, `mint-test-kirite`: linear
  scripts over calls that are modelled, or over the absent client.
- `admin-freeze` and `admin-toggle-drain` send one instruction each; the handlers
  are actions of `ShieldPool` and `Staking`.
- Relayer service, wallets and web pages: external.

## 6. Plan

1. Done: all components of the inventory but those above.
2. Done: proofs of every safety property the runs check, but for those stated
   with `ENABLED` and the two tables of the clients (section 4).
3. Compose `ShieldPool` with `Governance`, so that the fee a withdrawal pays is
   one that was announced; today `ShieldPool` changes fees freely, which allows
   more behaviours.
