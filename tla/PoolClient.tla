----------------------------- MODULE PoolClient -----------------------------
(***************************************************************************)
(* The pool client (src/sdk/src/kirite-zk.mjs) against the privacy         *)
(* program: addresses, instructions, the deposit event and the pool        *)
(* account, all of them encoded and decoded by hand.                       *)
(***************************************************************************)
EXTENDS ShieldPoolRefinement, Layouts

Mint      == <<"mint", PoolMint>>
Depositor == <<"depositor">>
Relayer   == <<"relayer">>
TokenAccountOf(owner) == <<"token_account", Mint, owner>>

-----------------------------------------------------------------------------
(* Addresses: seeds of the program, seeds of the client *)

ProtocolConfigKey       == <<"protocol_config">>
GovernanceKey           == <<"governance", ProtocolConfigKey>>
PoolKey                 == <<"shield_pool", Mint, DENOMINATION>>
VaultAuthority          == <<"vault_authority", PoolKey>>
NullifierRecordKey(nullifier) == <<"nullifier", PoolKey, nullifier>>

deriveProtocolConfig         == <<"protocol_config">>
deriveGovernance(config)     == <<"governance", config>>
deriveShieldPool(mint, denomination) == <<"shield_pool", mint, denomination>>
deriveVaultAuthority(pool)   == <<"vault_authority", pool>>

\* Slip: the seeds in another order than the program's.
MutDeriveNullifierRecord(pool, nullifier) == <<"nullifier", nullifier, pool>>

deriveNullifierRecord(pool, nullifier) == <<"nullifier", pool, nullifier>>

ClientPool == deriveShieldPool(Mint, DENOMINATION)

-----------------------------------------------------------------------------
(* Contexts of the program *)

InitializeProtocolContext(key, treasurer) ==
  [args |-> <<Field("fee_bps", "u16"), Field("burn_ratio_bps", "u16")>>,
   keys |-> <<Writable(ProtocolConfigKey), Writable(GovernanceKey), Payer(key),
              ReadOnly(treasurer), SystemProgram>>]

InitializeShieldPoolContext(operator) ==
  [args |-> <<Field("denomination", "u64"), Field("timelock_seconds", "i64")>>,
   keys |-> <<Writable(PoolKey), Writable(ProtocolConfigKey),
              ReadOnly(VaultAuthority), Writable(TokenAccountOf(VaultAuthority)),
              ReadOnly(Mint), Payer(operator), SystemProgram>>]

DepositContext ==
  [args |-> <<Field("commitment", "bytes32")>>,
   keys |-> <<Writable(PoolKey), ReadOnly(ProtocolConfigKey),
              Writable(TokenAccountOf(Depositor)),
              Writable(TokenAccountOf(VaultAuthority)), Payer(Depositor),
              TokenProgram, SystemProgram>>]

WithdrawContext(nullifier, recipient, treasurer) ==
  [args |-> <<Field("proof", "bytes256"), Field("nullifier_hash", "bytes32"),
              Field("proof_root", "bytes32")>>,
   keys |-> <<Writable(PoolKey), ReadOnly(ProtocolConfigKey),
              Writable(NullifierRecordKey(nullifier)),
              Writable(TokenAccountOf(VaultAuthority)),
              ReadOnly(VaultAuthority), Writable(TokenAccountOf(recipient)),
              Writable(TokenAccountOf(treasurer)), Writable(Mint),
              Payer(Relayer), TokenProgram, SystemProgram>>]

-----------------------------------------------------------------------------
(* Instructions of the client *)

buildInitializeProtocolIx(key, treasurer) ==
  [args |-> <<Field("fee_bps", "u16"), Field("burn_ratio_bps", "u16")>>,
   keys |-> <<Writable(deriveProtocolConfig),
              Writable(deriveGovernance(deriveProtocolConfig)), Payer(key),
              ReadOnly(treasurer), SystemProgram>>]

buildInitializeShieldPoolIx(operator) ==
  [args |-> <<Field("denomination", "u64"), Field("timelock_seconds", "i64")>>,
   keys |-> <<Writable(ClientPool), Writable(deriveProtocolConfig),
              ReadOnly(deriveVaultAuthority(ClientPool)),
              Writable(TokenAccountOf(deriveVaultAuthority(ClientPool))),
              ReadOnly(Mint), Payer(operator), SystemProgram>>]

buildDepositIx ==
  [args |-> <<Field("commitment", "bytes32")>>,
   keys |-> <<Writable(ClientPool), ReadOnly(deriveProtocolConfig),
              Writable(TokenAccountOf(Depositor)),
              Writable(TokenAccountOf(deriveVaultAuthority(ClientPool))),
              Payer(Depositor), TokenProgram, SystemProgram>>]

buildWithdrawIx(nullifier, recipient, treasurer) ==
  [args |-> <<Field("proof", "bytes256"), Field("nullifier_hash", "bytes32"),
              Field("proof_root", "bytes32")>>,
   keys |-> <<Writable(ClientPool), ReadOnly(deriveProtocolConfig),
              Writable(deriveNullifierRecord(ClientPool, nullifier)),
              Writable(TokenAccountOf(deriveVaultAuthority(ClientPool))),
              ReadOnly(deriveVaultAuthority(ClientPool)),
              Writable(TokenAccountOf(recipient)),
              Writable(TokenAccountOf(treasurer)), Writable(Mint),
              Payer(Relayer), TokenProgram, SystemProgram>>]

-----------------------------------------------------------------------------
(* The pool account and the deposit event *)

MERKLE_TREE_HEIGHT == 15

PoolFields(roots, height) ==
  <<Field("mint", "pubkey"), Field("operator", "pubkey"),
    Field("protocol_config", "pubkey"), Field("vault", "pubkey"),
    Field("current_root", "bytes32")>>
  \o Entries("historical_roots", roots, "bytes32")
  \o Entries("filled_subtrees", height, "bytes32")
  \o <<Field("denomination", "u64"), Field("total_deposits", "u64"),
       Field("total_withdrawals", "u64"), Field("fees_collected", "u64"),
       Field("timelock_seconds", "i64"), Field("created_at", "i64"),
       Field("last_deposit_at", "i64"), Field("next_leaf_index", "u32"),
       Field("root_history_index", "u8"), Field("is_frozen", "u8"),
       Field("bump", "u8"), Field("vault_authority_bump", "u8")>>

ShieldPoolLayout == PoolFields(MAX_HISTORICAL_ROOTS, MERKLE_TREE_HEIGHT)

\* The client has constants of its own for the two array lengths.
decodeShieldPool == PoolFields(3, 15)

DepositCommitted ==
  <<Field("pool", "pubkey"), Field("depositor", "pubkey"),
    Field("commitment_hash", "bytes32"), Field("encrypted_amount", "bytes64"),
    Field("leaf_index", "u32"), Field("timestamp", "i64")>>

decodeDepositEvent ==
  <<Field("pool", "pubkey"), Field("depositor", "pubkey"),
    Field("commitment_hash", "bytes32"), Field("encrypted_amount", "bytes64"),
    Field("leaf_index", "u32"), Field("timestamp", "i64")>>

Scalar(v) == [slot \in {0} |-> v]

\* The contents of the account, as far as ShieldPool keeps them.
PoolData ==
  [current_root |-> Scalar(currentRoot), historical_roots |-> historicalRoots,
   denomination |-> Scalar(DENOMINATION), total_deposits |-> Scalar(totalDeposits),
   total_withdrawals |-> Scalar(totalWithdrawals),
   fees_collected |-> Scalar(feesCollected),
   timelock_seconds |-> Scalar(TimelockSeconds),
   last_deposit_at |-> Scalar(lastDepositAt),
   next_leaf_index |-> Scalar(nextLeafIndex),
   root_history_index |-> Scalar(rootHistoryIndex),
   is_frozen |-> Scalar(isFrozen)]

\* The event deposit emitted for leaf i.
EventData(i) == [commitment_hash |-> leaves[i], leaf_index |-> i - 1]

PoolSources  == Sources(ShieldPoolLayout, decodeShieldPool)
EventSources == Sources(DepositCommitted, decodeDepositEvent)

-----------------------------------------------------------------------------
(* Properties *)

\* What decodeShieldPool reads from the account is the pool's state, root by
\* root, whatever has been deposited and withdrawn, and the leaves read from
\* the deposit events are the pool's, each at its own index: the client's note
\* builders take the next index, the accepted roots and the tree from them.
DecodedPoolIsTheState ==
  /\ \A f \in DOMAIN PoolData :
       {<<src[1], PoolData[src[2]][src[3]]>> : src \in PoolSources[f]}
         = {<<slot, PoolData[f][slot]>> : slot \in DOMAIN PoolData[f]}
  /\ \A i \in 1..Len(leaves) : \A f \in DOMAIN EventData(i) :
       {EventData(i)[src[2]] : src \in EventSources[f]} = {EventData(i)[f]}

\* A note the program would pay is payable through the client: the withdrawal
\* it builds for any proof made so far, the deposits before it and the calls
\* that set up protocol and pool carry the accounts and arguments the handlers
\* ask for, the proof's nullifier record among them.
NotesReachTheProgram ==
  /\ Accepted(buildDepositIx, DepositContext)
  /\ \A p \in proofs : \A t \in TokenAccounts :
       Accepted(buildWithdrawIx(p.nullifier, p.recipient, t),
                WithdrawContext(p.nullifier, p.recipient, t))
  /\ \A k, t \in Keys :
       /\ Accepted(buildInitializeProtocolIx(k, t), InitializeProtocolContext(k, t))
       /\ Accepted(buildInitializeShieldPoolIx(k), InitializeShieldPoolContext(k))

\* The client and the program, built apart, agree on every account and
\* argument, in both directions and in every state of the pool.
ClientAgrees == DecodedPoolIsTheState /\ NotesReachTheProgram
=============================================================================
