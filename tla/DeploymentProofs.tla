-------------------------- MODULE DeploymentProofs --------------------------
(***************************************************************************)
(* Theorems about the scripts that put the protocol on chain, for every    *)
(* number of terminals, whichever scripts run at each, every list of pools *)
(* and mints, and any number of stops, failed reads, and transactions that *)
(* are late, lost or land in error.                                        *)
(***************************************************************************)
EXTENDS Deployment, TLAPS

-----------------------------------------------------------------------------
(* What the instructions leave alone *)

\* What one transaction may do to the accounts.
KeepsAccounts ==
  /\ initialized => /\ initialized'
                    /\ UNCHANGED <<authority, pendingAuthority, feeVars>>
  /\ supportedMints \subseteq supportedMints'
  /\ \A a \in DOMAIN pools : a \in DOMAIN pools' /\ pools'[a] = pools[a]
  /\ stakingVault => stakingVault'
  /\ stakingPool => stakingPool'

\* Before the config exists it lists no mint, and the staking pool is made only
\* where its vault is.
AccountsInOrder ==
  /\ ~initialized => supportedMints = {}
  /\ stakingPool => stakingVault

LEMMA UntouchedKept ==
  ASSUME UNCHANGED accountVars
  PROVE  KeepsAccounts
BY DEF accountVars, configVars, feeVars, KeepsAccounts

LEMMA ExecutesKeeps ==
  ASSUME AccountsInOrder, NEW ix, Executes(ix)
  PROVE  KeepsAccounts /\ AccountsInOrder'
<1>1. CASE InitializeProtocol(Deployer)
  BY <1>1 DEF InitializeProtocol, MayInitializeProtocol, AccountsInOrder, KeepsAccounts
<1>2. CASE AddMint(Deployer, ix.mint)
  BY <1>2 DEF AddMint, AddSupportedMint, AccountsInOrder, KeepsAccounts
<1>3. CASE InitializeShieldPool(Deployer, ix.spec, ix.kind)
  <2>1. ASSUME NEW a \in DOMAIN pools
        PROVE  a \in DOMAIN pools' /\ pools'[a] = pools[a]
    BY <1>3 DEF InitializeShieldPool, MayInitializeShieldPool
  <2> QED BY <1>3, <2>1 DEF InitializeShieldPool, configVars, AccountsInOrder, KeepsAccounts
<1>4. CASE CreateAta(ix.spec, ix.idempotent)
  BY <1>4 DEF CreateAta, configVars, AccountsInOrder, KeepsAccounts
<1>5. CASE CreateVault(ix.spec)
  BY <1>5 DEF CreateVault, configVars, AccountsInOrder, KeepsAccounts
<1>6. CASE CreateStakingVault
  BY <1>6 DEF CreateStakingVault, configVars, AccountsInOrder, KeepsAccounts
<1>7. CASE InitializeStaking
  BY <1>7 DEF InitializeStaking, MayInitializeStaking, configVars, AccountsInOrder, KeepsAccounts
<1> QED BY <1>1, <1>2, <1>3, <1>4, <1>5, <1>6, <1>7 DEF Executes

\* Apart from transactions that land, and from the authority's pauses, no step
\* touches an account.
LEMMA StepKeeps ==
  ASSUME AccountsInOrder, [DeploymentNext]_vars
  PROVE  KeepsAccounts /\ AccountsInOrder'
<1>1. ASSUME UNCHANGED accountVars PROVE KeepsAccounts /\ AccountsInOrder'
  BY <1>1, UntouchedKept DEF accountVars, configVars, AccountsInOrder
<1>2. ASSUME NEW t \in Terminals,
             \/ \E script \in ScriptsAt[t] : Start(t, script)
             \/ ScriptStep(t) \/ LookUpFails(t) \/ Stop(t)
      PROVE  UNCHANGED accountVars
  BY <1>2 DEF Start, ScriptStep, LookUp, LookUpFails, Send, Confirm, TimesOut, Finish, Stop
<1>3. ASSUME NEW tx \in inflight, Lands(tx) PROVE KeepsAccounts /\ AccountsInOrder'
  <2>1. PICK ix : ix = tx.ix
    OBVIOUS
  <2>2. Executes(ix) \/ UNCHANGED accountVars
    BY <1>3, <2>1 DEF Lands
  <2> QED BY <1>1, <2>2, ExecutesKeeps
<1>4. ASSUME NEW tx \in inflight, LandsInError(tx) \/ GetsLost(tx)
      PROVE  UNCHANGED accountVars
  BY <1>4 DEF LandsInError, GetsLost
<1>5. CASE Pause
  BY <1>5 DEF Pause, PauseProtocol, ResumeProtocol, feeVars, KeepsAccounts, AccountsInOrder
<1>6. CASE UNCHANGED vars
  BY <1>1, <1>6 DEF vars
<1> QED BY <1>1, <1>2, <1>3, <1>4, <1>5, <1>6 DEF DeploymentNext

LEMMA InitNoMints == DeploymentInit => AccountsInOrder
BY DEF DeploymentInit, AccountsInOrder

\* Running the scripts again, or side by side, takes back nothing: the config
\* keeps its authority and its fees, no mint and no pool disappears or is
\* overwritten.
THEOREM NothingUndone == DeploymentSpec => RerunsUndoNothing
<1>1. AccountsInOrder /\ [DeploymentNext]_vars => AccountsInOrder'
  BY StepKeeps
<1>2. AccountsInOrder /\ [DeploymentNext]_vars
      => [ /\ initialized => /\ initialized'
                             /\ UNCHANGED <<authority, pendingAuthority, feeVars>>
           /\ supportedMints \subseteq supportedMints'
           /\ \A a \in DOMAIN pools : a \in DOMAIN pools' /\ pools'[a] = pools[a]
           /\ stakingVault => stakingVault'
           /\ stakingPool => stakingPool' ]_vars
  BY StepKeeps DEF KeepsAccounts
<1> QED BY <1>1, <1>2, InitNoMints, PTL DEF DeploymentSpec, RerunsUndoNothing

-----------------------------------------------------------------------------
(* How far init-mainnet-staking has come *)

\* A job with the four fields that Start gives it.
IsJob(j) == j = [script |-> j.script, items |-> j.items, txs |-> j.txs, state |-> j.state]

\* The pool is there, or the transaction for it has landed in error by mishap.
PoolMadeOrErred == stakingPool \/ Staking \in failed

\* An item is looked up, its transaction sent where it passes the simulation,
\* and the script goes on only when the transaction has landed.
Within(txs, state, send, sendable, made) ==
  \/ txs = <<>> /\ state = "ready"
  \/ txs = send /\ state = "ready"
  \/ txs = send /\ state = "sent" /\ sendable
  \/ txs = send /\ state \in {"done", "error"} /\ sendable /\ made

\* Whatever came of the vault's transaction, that of the pool is sent only over
\* a vault, since its simulation fails without one.
StakingProgress(items, txs, state) ==
  \/ /\ items = <<Item("staking vault"), Item("staking pool")>>
     /\ Within(txs, state, <<StakingVault>>, TRUE, TRUE)
  \/ /\ items = <<Item("staking pool")>>
     /\ Within(txs, state, <<Staking>>, stakingVault, PoolMadeOrErred)
  \/ /\ items = <<>> /\ stakingVault /\ PoolMadeOrErred
     /\ txs = <<>> /\ state = "ready"

JobSound(j) ==
  \/ j = Idle
  \/ /\ IsJob(j)
     /\ j.script = "init-mainnet-staking" => StakingProgress(j.items, j.txs, j.state)

JobsSound ==
  /\ job = [t \in Terminals |-> job[t]]
  /\ \A t \in Terminals : JobSound(job[t])

DeploymentInv == AccountsInOrder /\ JobsSound /\ ReadyUnlessErrorOverlooked

\* Accounts are only added, and errors never forgotten.
KeepsAll == KeepsAccounts /\ failed \subseteq failed'

\* What holds of a job goes on holding while accounts are only added.
LEMMA JobStays ==
  ASSUME NEW j, JobSound(j), KeepsAll
  PROVE  JobSound(j)'
BY DEF JobSound, StakingProgress, Within, PoolMadeOrErred, KeepsAll, KeepsAccounts

\* A step that sets the job of one terminal.
LEMMA OneJobSet ==
  ASSUME DeploymentInv, KeepsAll, NEW t \in Terminals, NEW j,
         job' = [job EXCEPT ![t] = j], JobSound(j)'
  PROVE  JobsSound'
<1>1. job = [u \in Terminals |-> job[u]]
  BY DEF DeploymentInv, JobsSound
<1>2. /\ job' = [u \in Terminals |-> job'[u]]
      /\ job'[t] = j
      /\ \A u \in Terminals : u # t => job'[u] = job[u]
  BY <1>1
<1>3. ASSUME NEW u \in Terminals PROVE JobSound(job[u])'
  <2>1. CASE u = t
    <3>1. PICK i : i = job'[u]
      OBVIOUS
    <3> QED BY <1>2, <2>1, <3>1
  <2>2. CASE u # t
    <3>1. PICK i : i = job[u]
      OBVIOUS
    <3>2. JobSound(i)
      BY <3>1 DEF DeploymentInv, JobsSound
    <3>3. JobSound(i)' /\ job'[u] = i
      BY <1>2, <2>2, <3>1, <3>2, JobStays
    <3> QED BY <3>3
  <2> QED BY <2>1, <2>2
<1> QED BY <1>2, <1>3 DEF JobsSound

\* What the steps of a script make of its job.
LEMMA JobUpdates ==
  ASSUME DeploymentInv, NEW t \in Terminals, Running(t)
  PROVE  /\ IsJob(job[t])
         /\ SkipItem(t) =>
              job' = [job EXCEPT ![t] = [script |-> Script(t), items |-> Tail(job[t].items),
                                         txs |-> <<>>, state |-> "ready"]]
         /\ \A txs : Begin(t, txs) =>
              job' = [job EXCEPT ![t] = [script |-> Script(t), items |-> job[t].items,
                                         txs |-> txs, state |-> job[t].state]]
         /\ \A state : job' = [job EXCEPT ![t].state = state] =>
              job' = [job EXCEPT ![t] = [script |-> Script(t), items |-> job[t].items,
                                         txs |-> job[t].txs, state |-> state]]
         /\ job' = [job EXCEPT ![t].txs = Tail(@), ![t].state = "ready"] =>
              job' = [job EXCEPT ![t] = [script |-> Script(t), items |-> job[t].items,
                                         txs |-> Tail(job[t].txs), state |-> "ready"]]
<1>1. IsJob(job[t])
  BY DEF DeploymentInv, JobsSound, JobSound, Running
<1>2. PICK j : j = job[t]
  OBVIOUS
<1>3. /\ [j EXCEPT !.items = Tail(@), !.txs = <<>>, !.state = "ready"]
           = [script |-> j.script, items |-> Tail(j.items), txs |-> <<>>, state |-> "ready"]
      /\ \A txs : [j EXCEPT !.txs = txs]
           = [script |-> j.script, items |-> j.items, txs |-> txs, state |-> j.state]
      /\ \A state : [j EXCEPT !.state = state]
           = [script |-> j.script, items |-> j.items, txs |-> j.txs, state |-> state]
      /\ [j EXCEPT !.txs = Tail(@), !.state = "ready"]
           = [script |-> j.script, items |-> j.items, txs |-> Tail(j.txs), state |-> "ready"]
  <2>1. PICK a, b, c, d : j = [script |-> a, items |-> b, txs |-> c, state |-> d]
    BY <1>1, <1>2 DEF IsJob
  <2>2. j.script = a /\ j.items = b /\ j.txs = c /\ j.state = d
    BY <2>1
  <2>3. [j EXCEPT !.items = Tail(@), !.txs = <<>>, !.state = "ready"]
           = [script |-> a, items |-> Tail(b), txs |-> <<>>, state |-> "ready"]
    <3>1. PICK x : x = Tail(b)
      OBVIOUS
    <3>2. PICK k : k = [script |-> a, items |-> x, txs |-> c, state |-> d]
      OBVIOUS
    <3>3. PICK l : l = [script |-> a, items |-> x, txs |-> <<>>, state |-> d]
      OBVIOUS
    <3>4. [j EXCEPT !.items = x] = k
      BY <2>1, <3>2
    <3>5. [k EXCEPT !.txs = <<>>] = l
      BY <3>2, <3>3
    <3>6. [l EXCEPT !.state = "ready"]
            = [script |-> a, items |-> x, txs |-> <<>>, state |-> "ready"]
      BY <3>3
    <3>7. [j EXCEPT !.items = x, !.txs = <<>>, !.state = "ready"]
            = [[[j EXCEPT !.items = x] EXCEPT !.txs = <<>>] EXCEPT !.state = "ready"]
      BY <2>1
    <3> QED BY <2>2, <3>1, <3>4, <3>5, <3>6, <3>7
  <2>4. \A txs : [j EXCEPT !.txs = txs]
           = [script |-> a, items |-> b, txs |-> txs, state |-> d]
    BY <2>1
  <2>5. \A state : [j EXCEPT !.state = state]
           = [script |-> a, items |-> b, txs |-> c, state |-> state]
    BY <2>1
  <2>6. [j EXCEPT !.txs = Tail(@), !.state = "ready"]
           = [script |-> a, items |-> b, txs |-> Tail(c), state |-> "ready"]
    <3>1. PICK x : x = Tail(c)
      OBVIOUS
    <3>2. PICK k : k = [script |-> a, items |-> b, txs |-> x, state |-> d]
      OBVIOUS
    <3>3. [j EXCEPT !.txs = x] = k
      BY <2>1, <3>2
    <3>4. [k EXCEPT !.state = "ready"]
            = [script |-> a, items |-> b, txs |-> x, state |-> "ready"]
      BY <3>2
    <3>5. [j EXCEPT !.txs = x, !.state = "ready"]
            = [[j EXCEPT !.txs = x] EXCEPT !.state = "ready"]
      BY <2>1
    <3> QED BY <2>2, <3>1, <3>3, <3>4, <3>5
  <2> QED BY <2>2, <2>3, <2>4, <2>5, <2>6
<1>4. job = [u \in Terminals |-> job[u]]
  BY DEF DeploymentInv, JobsSound
<1>5. /\ [job EXCEPT ![t].items = Tail(@), ![t].txs = <<>>, ![t].state = "ready"]
           = [job EXCEPT ![t] = [j EXCEPT !.items = Tail(@), !.txs = <<>>, !.state = "ready"]]
      /\ \A txs : [job EXCEPT ![t].txs = txs] = [job EXCEPT ![t] = [j EXCEPT !.txs = txs]]
      /\ \A state :
           [job EXCEPT ![t].state = state] = [job EXCEPT ![t] = [j EXCEPT !.state = state]]
      /\ [job EXCEPT ![t].txs = Tail(@), ![t].state = "ready"]
           = [job EXCEPT ![t] = [j EXCEPT !.txs = Tail(@), !.state = "ready"]]
  BY <1>2, <1>4
<1> QED BY <1>1, <1>2, <1>3, <1>5 DEF SkipItem, Begin, Script

LEMMA NewJob ==
  ASSUME NEW script, NEW items, NEW txs, NEW state,
         (script = "init-mainnet-staking" => StakingProgress(items, txs, state))'
  PROVE  JobSound([script |-> script, items |-> items, txs |-> txs, state |-> state])'
<1> DEFINE j == [script |-> script, items |-> items, txs |-> txs, state |-> state]
<1>1. /\ j.script = script /\ j.items = items /\ j.txs = txs /\ j.state = state
      /\ IsJob(j)
  BY DEF IsJob
<1> HIDE DEF j
<1>2. JobSound(j)'
  BY <1>1 DEF JobSound
<1> QED BY <1>2 DEF j

\* The two items of init-mainnet-staking, in their order.
LEMMA StakingItems ==
  /\ Items("init-mainnet-staking") = <<Item("staking vault"), Item("staking pool")>>
  /\ Head(<<Item("staking vault"), Item("staking pool")>>) = Item("staking vault")
  /\ Tail(<<Item("staking vault"), Item("staking pool")>>) = <<Item("staking pool")>>
  /\ Head(<<Item("staking pool")>>) = Item("staking pool")
  /\ Tail(<<Item("staking pool")>>) = <<>>
  /\ <<StakingVault>> # <<>> /\ <<Staking>> # <<>>
  /\ Plan(Item("staking vault")).found = stakingVault
  /\ Plan(Item("staking vault")).send = <<StakingVault>>
  /\ Plan(Item("staking pool")).found = stakingPool
  /\ Plan(Item("staking pool")).send = <<Staking>>
<1>1. /\ Plan(Item("staking vault")) = EnsureStakingVault
      /\ Plan(Item("staking pool")) = EnsureStakingPool
  BY DEF Plan, Item
<1>2. Items("init-mainnet-staking") = <<Item("staking vault"), Item("staking pool")>>
  BY DEF Items
<1>3. \A a, b : /\ Head(<<a, b>>) = a /\ Tail(<<a, b>>) = <<b>>
                /\ Head(<<b>>) = b /\ Tail(<<b>>) = <<>> /\ <<b>> # <<>>
  OBVIOUS
<1>4. \A a, b : [found |-> a, send |-> b].found = a /\ [found |-> a, send |-> b].send = b
  OBVIOUS
<1>5. /\ EnsureStakingVault.found = stakingVault
      /\ EnsureStakingVault.send = <<StakingVault>>
  BY <1>4 DEF EnsureStakingVault
<1>6. /\ EnsureStakingPool.found = stakingPool
      /\ EnsureStakingPool.send = <<Staking>>
  BY <1>4 DEF EnsureStakingPool
<1> QED BY <1>1, <1>2, <1>3, <1>5, <1>6

LEMMA IdleIsSound ==
  ASSUME DeploymentInv, KeepsAll, NEW t \in Terminals, job' = [job EXCEPT ![t] = Idle]
  PROVE  JobsSound'
<1>1. JobSound(Idle)'
  BY DEF JobSound
<1> QED BY <1>1, OneJobSet

\* An item is left only when its account is there.
LEMMA SkipIsSound ==
  ASSUME DeploymentInv, KeepsAll, NEW t \in Terminals, Running(t), SkipItem(t),
         Script(t) = "init-mainnet-staking" =>
           /\ job[t].items # <<>>
           /\ NextUp(t) = Item("staking pool") => stakingVault /\ PoolMadeOrErred
  PROVE  JobsSound'
<1>1. PICK script, items : script = Script(t) /\ items = job[t].items
  OBVIOUS
<1>2. job' = [job EXCEPT ![t] = [script |-> script, items |-> Tail(items),
                                 txs |-> <<>>, state |-> "ready"]]
  BY <1>1, JobUpdates
<1>3. ASSUME script = "init-mainnet-staking"
      PROVE  StakingProgress(Tail(items), <<>>, "ready")'
  <2>1. StakingProgress(items, job[t].txs, job[t].state)
    BY <1>1, <1>3 DEF DeploymentInv, JobsSound, JobSound, Running, Script
  <2>2. CASE items = <<Item("staking vault"), Item("staking pool")>>
    BY <2>2, StakingItems DEF StakingProgress, Within
  <2>3. CASE items = <<Item("staking pool")>>
    <3>1. stakingVault /\ PoolMadeOrErred
      BY <1>1, <1>3, <2>3, StakingItems DEF NextUp
    <3>2. stakingVault' /\ PoolMadeOrErred'
      BY <3>1 DEF KeepsAll, KeepsAccounts, PoolMadeOrErred
    <3> QED BY <2>3, <3>2, StakingItems DEF StakingProgress
  <2>4. items # <<>>
    BY <1>1, <1>3
  <2> QED BY <2>1, <2>2, <2>3, <2>4 DEF StakingProgress
<1>4. JobSound([script |-> script, items |-> Tail(items), txs |-> <<>>, state |-> "ready"])'
  BY <1>3, NewJob
<1> QED BY <1>2, <1>4, OneJobSet

LEMMA FailsIsSound ==
  ASSUME DeploymentInv, KeepsAll, NEW t \in Terminals, Running(t), Fails(t)
  PROVE  JobsSound'
<1>1. CASE Caught(Script(t), NextUp(t))
  <2>1. Script(t) # "init-mainnet-staking" /\ SkipItem(t)
    BY <1>1 DEF Caught, Fails
  <2> QED BY <2>1, SkipIsSound
<1>2. CASE job' = [job EXCEPT ![t] = Idle]
  BY <1>2, IdleIsSound
<1> QED BY <1>1, <1>2 DEF Fails

\* The job of a running script, as the steps below use it.
LEMMA RunningJob ==
  ASSUME DeploymentInv, NEW t \in Terminals, Running(t),
         Script(t) = "init-mainnet-staking"
  PROVE  StakingProgress(job[t].items, job[t].txs, job[t].state)
BY DEF DeploymentInv, JobsSound, JobSound, Running, Script

LEMMA StartIsSound ==
  ASSUME DeploymentInv, KeepsAll, NEW t \in Terminals, NEW script, Start(t, script)
  PROVE  JobsSound'
<1>1. PICK items : items = Items(script)
  OBVIOUS
<1>2. job' = [job EXCEPT ![t] = [script |-> script, items |-> items, txs |-> <<>>,
                                 state |-> "ready"]]
  BY <1>1 DEF Start
<1>3. (script = "init-mainnet-staking" => StakingProgress(items, <<>>, "ready"))'
  BY <1>1, StakingItems DEF StakingProgress, Within
<1>4. JobSound([script |-> script, items |-> items, txs |-> <<>>, state |-> "ready"])'
  BY <1>3, NewJob
<1> QED BY <1>2, <1>4, OneJobSet

\* A script that begins the transactions of the item it has looked up.
LEMMA BeginIsSound ==
  ASSUME DeploymentInv, KeepsAll, NEW t \in Terminals, Looking(t),
         Begin(t, Plan(NextUp(t)).send)
  PROVE  JobsSound'
<1>1. PICK script, items, txs, state :
        script = Script(t) /\ items = job[t].items /\ txs = Plan(NextUp(t)).send
        /\ state = job[t].state
  OBVIOUS
<1>2. job' = [job EXCEPT ![t] = [script |-> script, items |-> items, txs |-> txs,
                                 state |-> state]]
  BY <1>1, JobUpdates DEF Looking
<1>3. ASSUME script = "init-mainnet-staking"
      PROVE  StakingProgress(items, txs, state)'
  <2>1. StakingProgress(items, job[t].txs, state) /\ job[t].txs = <<>> /\ items # <<>>
    BY <1>1, <1>3, RunningJob DEF Looking
  <2>2. state = "ready"
    BY <2>1, StakingItems DEF StakingProgress, Within
  <2>3. CASE items = <<Item("staking vault"), Item("staking pool")>>
    <3>1. NextUp(t) = Item("staking vault")
      BY <1>1, <2>3, StakingItems DEF NextUp
    <3>2. txs = <<StakingVault>>
      BY <1>1, <3>1, StakingItems
    <3> QED BY <2>2, <2>3, <3>2 DEF StakingProgress, Within
  <2>4. CASE items = <<Item("staking pool")>>
    <3>1. NextUp(t) = Item("staking pool")
      BY <1>1, <2>4, StakingItems DEF NextUp
    <3>2. txs = <<Staking>>
      BY <1>1, <3>1, StakingItems
    <3> QED BY <2>2, <2>4, <3>2 DEF StakingProgress, Within
  <2> QED BY <2>1, <2>3, <2>4 DEF StakingProgress
<1>4. JobSound([script |-> script, items |-> items, txs |-> txs, state |-> state])'
  BY <1>3, NewJob
<1> QED BY <1>2, <1>4, OneJobSet

LEMMA LookUpIsSound ==
  ASSUME DeploymentInv, KeepsAll, NEW t \in Terminals, LookUp(t) \/ LookUpFails(t)
  PROVE  JobsSound'
<1>1. Looking(t) /\ Running(t)
  BY DEF LookUp, LookUpFails, Looking
<1>2. CASE Begin(t, Plan(NextUp(t)).send)
  BY <1>1, <1>2, BeginIsSound
<1>3. CASE Plan(NextUp(t)).found /\ SkipItem(t)
  <2>1. ASSUME Script(t) = "init-mainnet-staking"
        PROVE  /\ job[t].items # <<>>
               /\ NextUp(t) = Item("staking pool") => stakingVault /\ PoolMadeOrErred
    <3>1. job[t].items # <<>>
      BY <1>1 DEF Looking
    <3>2. NextUp(t) = Item("staking pool") => stakingPool
      BY <1>3, StakingItems
    <3> QED BY <3>1, <3>2 DEF DeploymentInv, AccountsInOrder, PoolMadeOrErred
  <2> QED BY <1>1, <1>3, <2>1, SkipIsSound
<1>4. CASE Fails(t)
  BY <1>1, <1>4, FailsIsSound
<1> QED BY <1>2, <1>3, <1>4 DEF LookUp, LookUpFails

LEMMA SendIsSound ==
  ASSUME DeploymentInv, KeepsAll, NEW t \in Terminals, Send(t)
  PROVE  JobsSound'
<1>1. Sending(t) /\ Running(t)
  BY DEF Send, Sending
<1>2. CASE job' = [job EXCEPT ![t].state = "sent"] /\ WouldSucceed(Head(job[t].txs))
  <2>1. PICK script, items, txs :
          script = Script(t) /\ items = job[t].items /\ txs = job[t].txs
    OBVIOUS
  <2>2. job' = [job EXCEPT ![t] = [script |-> script, items |-> items, txs |-> txs,
                                   state |-> "sent"]]
    BY <1>1, <1>2, <2>1, JobUpdates
  <2>3. ASSUME script = "init-mainnet-staking"
        PROVE  StakingProgress(items, txs, "sent")'
    <3>1. StakingProgress(items, txs, "ready") /\ txs # <<>>
      BY <1>1, <2>1, <2>3, RunningJob DEF Sending
    <3>2. txs = <<Staking>> => stakingVault
      <4>1. \A b : Head(<<b>>) = b
        OBVIOUS
      <4>2. WouldSucceed(Staking) => stakingVault
        BY DEF WouldSucceed, Staking, MayInitializeStaking
      <4> QED BY <1>2, <2>1, <4>1, <4>2
    <3>3. stakingVault => stakingVault'
      BY DEF KeepsAll, KeepsAccounts
    <3> QED BY <3>1, <3>2, <3>3 DEF StakingProgress, Within
  <2>4. JobSound([script |-> script, items |-> items, txs |-> txs, state |-> "sent"])'
    BY <2>3, NewJob
  <2> QED BY <2>2, <2>4, OneJobSet
<1>3. CASE Fails(t)
  BY <1>1, <1>3, FailsIsSound
<1> QED BY <1>2, <1>3 DEF Send

LEMMA NoJobSet ==
  ASSUME DeploymentInv, KeepsAll, UNCHANGED job
  PROVE  JobsSound'
<1>1. job = [t \in Terminals |-> job[t]]
  BY DEF DeploymentInv, JobsSound
<1>2. ASSUME NEW t \in Terminals PROVE JobSound(job[t])'
  <2>1. PICK j : j = job[t]
    OBVIOUS
  <2>2. JobSound(j)
    BY <2>1 DEF DeploymentInv, JobsSound
  <2>3. JobSound(j)' /\ job'[t] = j
    BY <2>1, <2>2, JobStays
  <2> QED BY <2>3
<1> QED BY <1>1, <1>2 DEF JobsSound

\* The transaction that makes the pool, sent over a vault, leaves the pool behind
\* or is one that landed in error by mishap.
LEMMA StakingLands ==
  ASSUME NEW tx, Lands(tx) \/ LandsInError(tx), tx.ix = Staking, stakingVault
  PROVE  PoolMadeOrErred'
<1>1. CASE Lands(tx) /\ WouldSucceed(tx.ix)
  <2>1. Executes(Staking)
    BY <1>1 DEF Lands
  <2>2. InitializeStaking
    BY <2>1 DEF Executes, Staking
  <2> QED BY <2>2 DEF InitializeStaking, PoolMadeOrErred
<1>2. CASE Lands(tx) /\ ~WouldSucceed(tx.ix)
  <2>1. stakingPool
    BY <1>2 DEF WouldSucceed, Staking, MayInitializeStaking
  <2> QED BY <1>2, <2>1 DEF Lands, accountVars, PoolMadeOrErred
<1>3. CASE LandsInError(tx)
  BY <1>3 DEF LandsInError, PoolMadeOrErred
<1> QED BY <1>1, <1>2, <1>3

LEMMA LandsIsSound ==
  ASSUME DeploymentInv, KeepsAll, NEW tx, Lands(tx) \/ LandsInError(tx)
  PROVE  JobsSound'
<1>1. PICK result \in {"done", "error"} : Answered(tx, result)
  BY DEF Lands, LandsInError
<1>2. CASE UNCHANGED job
  BY <1>2, NoJobSet
<1>3. CASE tx.by \in Terminals /\ Awaited(tx)
  <2>1. PICK t \in Terminals :
          t = tx.by /\ job' = [job EXCEPT ![t].state = result]
    BY <1>1, <1>3 DEF Answered
  <2>2. Running(t) /\ job[t].state = "sent" /\ Head(job[t].txs) = tx.ix
    BY <1>3, <2>1 DEF Awaited, Waiting
  <2>3. PICK script, items, txs :
          script = Script(t) /\ items = job[t].items /\ txs = job[t].txs
    OBVIOUS
  <2>4. job' = [job EXCEPT ![t] = [script |-> script, items |-> items, txs |-> txs,
                                   state |-> result]]
    BY <2>1, <2>2, <2>3, JobUpdates
  <2>5. ASSUME script = "init-mainnet-staking"
        PROVE  StakingProgress(items, txs, result)'
    <3>1. StakingProgress(items, txs, "sent")
      BY <2>2, <2>3, <2>5, RunningJob
    <3>2. \A b : Head(<<b>>) = b
      OBVIOUS
    <3>3. CASE items = <<Item("staking vault"), Item("staking pool")>>
               /\ txs = <<StakingVault>>
      BY <3>3 DEF StakingProgress, Within
    <3>4. CASE items = <<Item("staking pool")>> /\ stakingVault /\ txs = <<Staking>>
      <4>1. PoolMadeOrErred' /\ stakingVault'
        BY <2>2, <2>3, <3>2, <3>4, StakingLands DEF KeepsAll, KeepsAccounts
      <4> QED BY <3>4, <4>1 DEF StakingProgress, Within
    <3> QED BY <3>1, <3>3, <3>4 DEF StakingProgress, Within
  <2>6. JobSound([script |-> script, items |-> items, txs |-> txs, state |-> result])'
    BY <2>5, NewJob
  <2> QED BY <2>4, <2>6, OneJobSet
<1>4. CASE tx.by \notin Terminals /\ Awaited(tx)
  <2>1. job' = [job EXCEPT ![tx.by].state = result]
    BY <1>1, <1>4 DEF Answered
  <2>2. job = [t \in Terminals |-> job[t]]
    BY DEF DeploymentInv, JobsSound
  <2>3. job' = job
    BY <1>4, <2>1, <2>2
  <2> QED BY <2>3, NoJobSet
<1> QED BY <1>1, <1>2, <1>3, <1>4 DEF Answered

LEMMA ConfirmIsSound ==
  ASSUME DeploymentInv, KeepsAll, NEW t \in Terminals, Confirm(t)
  PROVE  JobsSound'
<1>1. Running(t) /\ job[t].state \in {"done", "error"}
  BY DEF Confirm
<1>2. CASE Fails(t)
  BY <1>1, <1>2, FailsIsSound
<1>3. CASE Script(t) = "init-mainnet-staking" /\ Advance(t)
  <2>1. StakingProgress(job[t].items, job[t].txs, job[t].state)
    BY <1>1, <1>3, RunningJob
  <2>2. \A b : Len(<<b>>) = 1 /\ <<b>> # <<>>
    OBVIOUS
  <2>3. CASE /\ job[t].items = <<Item("staking vault"), Item("staking pool")>>
             /\ job[t].txs = <<StakingVault>>
    <3>1. NextUp(t) # Item("staking pool") /\ job[t].items # <<>>
      <4>1. \A a, b : <<a, b>> # <<>>
        OBVIOUS
      <4>2. Item("staking vault") # Item("staking pool")
        BY DEF Item
      <4> QED BY <2>3, <4>1, <4>2, StakingItems DEF NextUp
    <3>2. SkipItem(t)
      BY <1>3, <2>2, <2>3 DEF Advance
    <3> QED BY <1>1, <2>3, <3>1, <3>2, SkipIsSound
  <2>4. CASE /\ job[t].items = <<Item("staking pool")>>
             /\ job[t].txs = <<Staking>> /\ stakingVault /\ PoolMadeOrErred
    <3>1. job[t].items # <<>>
      BY <2>2, <2>4
    <3>2. SkipItem(t)
      BY <1>3, <2>2, <2>4 DEF Advance
    <3> QED BY <1>1, <2>4, <3>1, <3>2, SkipIsSound
  <2> QED BY <1>1, <2>1, <2>3, <2>4 DEF StakingProgress, Within
<1>4. CASE Script(t) # "init-mainnet-staking" /\ SkipItem(t)
  BY <1>1, <1>4, SkipIsSound
<1>5. CASE /\ Script(t) # "init-mainnet-staking"
           /\ job' = [job EXCEPT ![t].txs = Tail(@), ![t].state = "ready"]
  <2>1. PICK script, items, txs :
          script = Script(t) /\ items = job[t].items /\ txs = Tail(job[t].txs)
    OBVIOUS
  <2>2. job' = [job EXCEPT ![t] = [script |-> script, items |-> items, txs |-> txs,
                                   state |-> "ready"]]
    BY <1>1, <1>5, <2>1, JobUpdates
  <2>3. JobSound([script |-> script, items |-> items, txs |-> txs, state |-> "ready"])'
    BY <1>5, <2>1, NewJob
  <2> QED BY <2>2, <2>3, OneJobSet
<1> QED BY <1>2, <1>3, <1>4, <1>5 DEF Confirm, Advance, SeesErrors

-----------------------------------------------------------------------------
(* Every step keeps the invariant *)

LEMMA FinishIsSound ==
  ASSUME DeploymentInv, NEW t \in Terminals, Finish(t)
  PROVE  JobsSound' /\ ReadyUnlessErrorOverlooked'
<1>1. Running(t) /\ job[t].items = <<>> /\ job' = [job EXCEPT ![t] = Idle] /\ KeepsAll
  BY UntouchedKept DEF Finish, KeepsAll
<1>2. JobsSound'
  BY <1>1, IdleIsSound
<1>3. CASE Script(t) = "init-mainnet-staking"
  <2>1. stakingVault /\ PoolMadeOrErred
    <3>1. \A a, b : <<a, b>> # <<>> /\ <<a>> # <<>>
      OBVIOUS
    <3>2. StakingProgress(job[t].items, job[t].txs, job[t].state)
      BY <1>1, <1>3, RunningJob
    <3> QED BY <1>1, <3>1, <3>2 DEF StakingProgress
  <2> QED BY <1>1, <1>2, <2>1
       DEF KeepsAll, KeepsAccounts, PoolMadeOrErred, ReadyUnlessErrorOverlooked
<1>4. CASE Script(t) # "init-mainnet-staking"
  <2>1. "ready" \in reports' => "ready" \in reports
    <3>1. CASE Script(t) = "migrate"
      BY <3>1 DEF Finish
    <3>2. CASE Script(t) # "migrate"
      BY <1>4, <3>2 DEF Finish
    <3> QED BY <3>1, <3>2
  <2> QED BY <1>1, <1>2, <2>1
       DEF DeploymentInv, KeepsAll, KeepsAccounts, ReadyUnlessErrorOverlooked
<1> QED BY <1>3, <1>4

LEMMA InitDeployment == DeploymentInit => DeploymentInv
<1> SUFFICES ASSUME DeploymentInit PROVE DeploymentInv
  OBVIOUS
<1>1. job = [t \in Terminals |-> Idle]
  BY DEF DeploymentInit
<1>2. JobsSound
  BY <1>1 DEF JobsSound, JobSound
<1> QED BY <1>2, InitNoMints DEF DeploymentInit, DeploymentInv, ReadyUnlessErrorOverlooked

LEMMA ErrorsKept ==
  ASSUME [DeploymentNext]_vars
  PROVE  failed \subseteq failed'
BY DEF DeploymentNext, ScriptStep, Start, LookUp, LookUpFails, Send, Confirm, TimesOut,
       Finish, Stop, Lands, LandsInError, GetsLost, Pause, vars

LEMMA NextDeployment ==
  ASSUME DeploymentInv, [DeploymentNext]_vars
  PROVE  DeploymentInv'
<1>1. KeepsAll /\ AccountsInOrder'
  BY StepKeeps, ErrorsKept DEF DeploymentInv, KeepsAll
<1>2. ASSUME UNCHANGED reports PROVE ReadyUnlessErrorOverlooked'
  BY <1>1, <1>2 DEF DeploymentInv, KeepsAll, KeepsAccounts, ReadyUnlessErrorOverlooked
<1>3. ASSUME NEW t \in Terminals, NEW script, Start(t, script) PROVE JobsSound' /\ UNCHANGED reports
  BY <1>1, <1>3, StartIsSound DEF Start
<1>4. ASSUME NEW t \in Terminals, LookUp(t) \/ LookUpFails(t) PROVE JobsSound' /\ UNCHANGED reports
  BY <1>1, <1>4, LookUpIsSound DEF LookUp, LookUpFails
<1>5. ASSUME NEW t \in Terminals, Send(t) PROVE JobsSound' /\ UNCHANGED reports
  BY <1>1, <1>5, SendIsSound DEF Send
<1>6. ASSUME NEW t \in Terminals, Confirm(t) PROVE JobsSound' /\ UNCHANGED reports
  BY <1>1, <1>6, ConfirmIsSound DEF Confirm
<1>7. ASSUME NEW t \in Terminals, TimesOut(t) PROVE JobsSound' /\ UNCHANGED reports
  BY <1>1, <1>7, FailsIsSound DEF TimesOut, Waiting
<1>8. ASSUME NEW t \in Terminals, Stop(t) PROVE JobsSound' /\ UNCHANGED reports
  BY <1>1, <1>8, IdleIsSound DEF Stop
<1>9. ASSUME NEW t \in Terminals, Finish(t) PROVE JobsSound' /\ ReadyUnlessErrorOverlooked'
  BY <1>9, FinishIsSound
<1>10. ASSUME NEW tx \in inflight, Lands(tx) \/ LandsInError(tx)
       PROVE  JobsSound' /\ UNCHANGED reports
  BY <1>1, <1>10, LandsIsSound DEF Lands, LandsInError
<1>11. CASE UNCHANGED <<job, reports>>
  BY <1>1, <1>2, <1>11, NoJobSet DEF DeploymentInv
<1>12. JobsSound' /\ ReadyUnlessErrorOverlooked'
  <2>1. CASE \E t \in Terminals :
               \/ \E script \in ScriptsAt[t] : Start(t, script)
               \/ ScriptStep(t) \/ LookUpFails(t) \/ Stop(t)
    BY <1>2, <1>3, <1>4, <1>5, <1>6, <1>7, <1>8, <1>9, <2>1 DEF ScriptStep
  <2>2. CASE \E tx \in inflight : Lands(tx) \/ LandsInError(tx) \/ GetsLost(tx)
    BY <1>2, <1>10, <1>11, <2>2 DEF GetsLost, DeploymentInv
  <2>3. CASE Pause \/ UNCHANGED vars
    BY <1>11, <2>3 DEF Pause, vars, DeploymentInv
  <2> QED BY <2>1, <2>2, <2>3 DEF DeploymentNext
<1> QED BY <1>1, <1>12 DEF DeploymentInv

\* However the scripts are stopped, repeated and overtaken by transactions of
\* an earlier run, the list of mints is empty until there is a config, the staking
\* pool has a vault, and a staking script is past its first item only with a vault
\* and past the second only with a pool or an error by mishap.
THEOREM DeploymentInvariant == DeploymentSpec => []DeploymentInv
<1>1. DeploymentInit => DeploymentInv
  BY InitDeployment
<1>2. DeploymentInv /\ [DeploymentNext]_vars => DeploymentInv'
  BY NextDeployment
<1> QED BY <1>1, <1>2, PTL DEF DeploymentSpec

\* "Ready" is said only of a vault that is there, and of a pool that is there
\* unless the transaction for it landed in an error nobody looked at.
THEOREM ReadyIsTrueOrErred == DeploymentSpec => []ReadyUnlessErrorOverlooked
<1>1. DeploymentInv => ReadyUnlessErrorOverlooked
  BY DEF DeploymentInv
<1> QED BY <1>1, DeploymentInvariant, PTL
=============================================================================
