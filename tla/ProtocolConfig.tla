--------------------------- MODULE ProtocolConfig ---------------------------
(***************************************************************************)
(* The ProtocolConfig account of the privacy program and the handlers that *)
(* change it at once (src/programs/kirite/src/instructions/initialize.rs   *)
(* and governance.rs).  Every handler names the key that signed; Anchor's  *)
(* account constraints make it fail unless that key is config.authority.   *)
(***************************************************************************)
EXTENDS Integers, FiniteSets

CONSTANTS
  Keys,                 \* public keys that may sign
  NoKey,                \* Pubkey::default()
  Mints,                \* token mints
  FeeSettings,          \* fee settings <<fee_bps, burn_ratio_bps>> tried
  MAX_FEE_BPS,
  MAX_SUPPORTED_MINTS,
  MaxTime               \* bound on the clock

ASSUME KeysAssumption == NoKey \notin Keys /\ Keys # {}
ASSUME FeeSettingsAssumption == FeeSettings \subseteq Nat \X Nat
ASSUME ConfigLimitsAssumption ==
  MAX_FEE_BPS \in Nat /\ MAX_SUPPORTED_MINTS \in Nat \ {0} /\ MaxTime \in Nat

VARIABLES
  authority,            \* config.authority
  pendingAuthority,     \* config.pending_authority
  feeBps, burnRatioBps, \* config.fee_bps, config.burn_ratio_bps
  isPaused,             \* config.is_paused
  supportedMints,       \* config.supported_mints, whose order is immaterial
  now                   \* Clock::get()?.unix_timestamp

feeVars    == <<feeBps, burnRatioBps>>
configVars == <<authority, pendingAuthority, feeVars, isPaused, supportedMints>>

\* A slip the checks must notice: the rates are stored unchecked.
MutValidFees(fees) == TRUE

\* Both handlers that write the rates refuse one above 100%.
ValidFees(fees) == fees[1] <= MAX_FEE_BPS /\ fees[2] <= MAX_FEE_BPS

\* The config after initialize_protocol and add_supported_mint for each of mints.
ConfigInit(mints) ==
  /\ authority \in Keys
  /\ pendingAuthority = NoKey
  /\ \E fees \in FeeSettings :
       ValidFees(fees) /\ feeBps = fees[1] /\ burnRatioBps = fees[2]
  /\ isPaused = FALSE
  /\ supportedMints = mints

SignedByAuthority(signer) == signer = authority

PauseProtocol(signer) ==
  /\ SignedByAuthority(signer)
  /\ isPaused' = TRUE
  /\ UNCHANGED <<authority, pendingAuthority, feeVars, supportedMints>>

ResumeProtocol(signer) ==
  /\ SignedByAuthority(signer)
  /\ isPaused' = FALSE
  /\ UNCHANGED <<authority, pendingAuthority, feeVars, supportedMints>>

\* add_supported_mint fails on a full list and on a mint already there.
MayAddMint(signer, mint) ==
  /\ SignedByAuthority(signer)
  /\ Cardinality(supportedMints) < MAX_SUPPORTED_MINTS
  /\ mint \notin supportedMints

AddSupportedMint(signer, mint) ==
  /\ MayAddMint(signer, mint)
  /\ supportedMints' = supportedMints \union {mint}
  /\ UNCHANGED <<authority, pendingAuthority, feeVars, isPaused>>

RemoveSupportedMint(signer, mint) ==
  /\ SignedByAuthority(signer)
  /\ mint \in supportedMints
  /\ supportedMints' = supportedMints \ {mint}
  /\ UNCHANGED <<authority, pendingAuthority, feeVars, isPaused>>

\* The account offered may be any; naming the default key calls a handover off.
InitiateAuthorityTransfer(signer, newAuthority) ==
  /\ SignedByAuthority(signer)
  /\ pendingAuthority' = newAuthority
  /\ UNCHANGED <<authority, feeVars, isPaused, supportedMints>>

AcceptAuthorityTransfer(signer) ==
  /\ signer = pendingAuthority
  /\ authority' = signer
  /\ pendingAuthority' = NoKey
  /\ UNCHANGED <<feeVars, isPaused, supportedMints>>

\* What execute_fee_update writes to the config.
InstallFees(fees) ==
  /\ feeBps' = fees[1]
  /\ burnRatioBps' = fees[2]
  /\ UNCHANGED <<authority, pendingAuthority, isPaused, supportedMints>>

\* The handlers of the config alone, whoever signs them.
ConfigHandler(signer) ==
  \/ PauseProtocol(signer) \/ ResumeProtocol(signer)
  \/ \E mint \in Mints :
       AddSupportedMint(signer, mint) \/ RemoveSupportedMint(signer, mint)
  \/ \E key \in Keys \union {NoKey} : InitiateAuthorityTransfer(signer, key)
  \/ AcceptAuthorityTransfer(signer)

ClockTicks == now < MaxTime /\ now' = now + 1

ConfigTypeOK ==
  /\ now \in Nat
  /\ authority \in Keys
  /\ pendingAuthority \in Keys \union {NoKey}
  /\ feeBps \in 0..MAX_FEE_BPS
  /\ burnRatioBps \in 0..MAX_FEE_BPS
  /\ isPaused \in BOOLEAN
  /\ supportedMints \subseteq Mints
  /\ Cardinality(supportedMints) <= MAX_SUPPORTED_MINTS
=============================================================================
