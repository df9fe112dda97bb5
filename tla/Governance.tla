----------------------------- MODULE Governance -----------------------------
(***************************************************************************)
(* Fee governance of the privacy program                                   *)
(* (src/programs/kirite/src/instructions/governance.rs): fee proposals     *)
(* behind a timelock, the handover of the authority, the list of signers,  *)
(* and the burning of collected fees.                                      *)
(*                                                                         *)
(* A proposal is an account of its own, created at the address derived     *)
(* from total_proposals; here it is an entry of the sequence proposals.    *)
(***************************************************************************)
EXTENDS ProtocolConfig, Sequences

CONSTANTS
  TIMELOCK,             \* GOVERNANCE_TIMELOCK_SECONDS
  SignerLists,          \* lists update_governance_signers may be given
  FeeTokens,            \* tokens in the fee account at the start
  BurnAmounts,          \* amounts burn_fees may be given
  MaxProposals          \* bound on the proposals filed

ASSUME GovernanceAssumption ==
  /\ TIMELOCK \in Nat \ {0} /\ MaxProposals \in Nat /\ FeeTokens \in Nat
  /\ BurnAmounts \subseteq Nat
  /\ SignerLists \subseteq Seq(Keys \union {NoKey})

VARIABLES
  proposals,            \* the FeeProposal accounts, in the order of filing
  totalProposals, totalExecuted,
  signers, requiredSigners,
  feeTokens,            \* tokens the fee authority holds
  totalFeesBurned       \* config.total_fees_burned

proposalVars == <<proposals, totalProposals, totalExecuted>>
signerVars   == <<signers, requiredSigners>>
burnVars     == <<feeTokens, totalFeesBurned>>
govVars      == <<proposalVars, signerVars, burnVars>>
vars         == <<configVars, govVars, now>>

MAX_SIGNERS == 7

FeeProposal ==
  [proposer : Keys, fees : FeeSettings, proposedAt : Nat, executableAt : Nat,
   executed : BOOLEAN, cancelled : BOOLEAN]

\* Slip: a cancelled proposal may still be executed.
MutOpen(proposal) == ~proposal.executed

Open(proposal) == ~proposal.executed /\ ~proposal.cancelled

\* Slip: the first second of the timelock is enough.
MutTimelockElapsed(proposal) == now >= proposal.proposedAt

TimelockElapsed(proposal) == now - proposal.proposedAt >= TIMELOCK

-----------------------------------------------------------------------------

Init ==
  /\ ConfigInit({})
  /\ now = 1
  /\ proposals = <<>>
  /\ totalProposals = 0 /\ totalExecuted = 0
  /\ signers = <<authority>>
  /\ requiredSigners = 1
  /\ feeTokens = FeeTokens
  /\ totalFeesBurned = 0

ProposeFeeUpdate(signer, fees) ==
  /\ SignedByAuthority(signer)
  /\ ValidFees(fees)
  /\ totalProposals < MaxProposals
  /\ proposals' = Append(proposals,
       [proposer |-> signer, fees |-> fees, proposedAt |-> now,
        executableAt |-> now + TIMELOCK,
        executed |-> FALSE, cancelled |-> FALSE])
  /\ totalProposals' = totalProposals + 1
  /\ UNCHANGED <<configVars, totalExecuted, signerVars, burnVars, now>>

\* Whoever is the authority by now may execute the proposal.
ExecuteFeeUpdate(signer, i) ==
  /\ SignedByAuthority(signer)
  /\ Open(proposals[i])
  /\ TimelockElapsed(proposals[i])
  /\ InstallFees(proposals[i].fees)
  /\ proposals' = [proposals EXCEPT ![i].executed = TRUE]
  /\ totalExecuted' = totalExecuted + 1
  /\ UNCHANGED <<totalProposals, signerVars, burnVars, now>>

\* The key that filed the proposal may cancel it, the authority or not.
CancelFeeProposal(signer, i) ==
  /\ Open(proposals[i])
  /\ proposals[i].proposer = signer
  /\ proposals' = [proposals EXCEPT ![i].cancelled = TRUE]
  /\ UNCHANGED <<configVars, totalProposals, totalExecuted, signerVars,
                 burnVars, now>>

BurnFees(signer, tokens) ==
  /\ SignedByAuthority(signer)
  /\ tokens > 0
  /\ tokens <= feeTokens
  /\ feeTokens' = feeTokens - tokens
  /\ totalFeesBurned' = totalFeesBurned + tokens
  /\ UNCHANGED <<configVars, proposalVars, signerVars, now>>

UpdateGovernanceSigners(signer, list, required) ==
  /\ SignedByAuthority(signer)
  /\ Len(list) <= MAX_SIGNERS
  /\ required > 0 /\ required <= Len(list)
  /\ signers' = list
  /\ requiredSigners' = required
  /\ UNCHANGED <<configVars, proposalVars, burnVars, now>>

ConfigStep ==
  /\ \E signer \in Keys : ConfigHandler(signer)
  /\ UNCHANGED <<govVars, now>>

Tick ==
  /\ ClockTicks
  /\ UNCHANGED <<configVars, govVars>>

GovernanceNext ==
  \E signer \in Keys :
    \/ \E fees \in FeeSettings : ProposeFeeUpdate(signer, fees)
    \/ \E i \in 1..Len(proposals) :
         ExecuteFeeUpdate(signer, i) \/ CancelFeeProposal(signer, i)
    \/ \E tokens \in BurnAmounts : BurnFees(signer, tokens)
    \/ \E list \in SignerLists, required \in 0..MAX_SIGNERS :
         UpdateGovernanceSigners(signer, list, required)

Next == GovernanceNext \/ ConfigStep \/ Tick

Spec == Init /\ [][Next]_vars

-----------------------------------------------------------------------------
(* Properties *)

\* A proposal is settled once: executed or cancelled, never both, by however
\* many hands it passes; and the counters of the governance account agree
\* with the proposals' own flags.
ProposalsSettleOnce ==
  /\ \A i \in 1..Len(proposals) :
       ~(proposals[i].executed /\ proposals[i].cancelled)
  /\ totalProposals = Len(proposals)
  /\ totalExecuted =
       Cardinality({i \in 1..Len(proposals) : proposals[i].executed})

\* The fees never change without notice: the rates come, both of them, from
\* a proposal that was on chain, open, for the whole timelock.
FeesChangeOnlyWithNotice ==
  [][feeVars' # feeVars =>
       \E i \in 1..Len(proposals) :
         /\ feeVars' = proposals[i].fees
         /\ ~proposals[i].executed /\ ~proposals[i].cancelled
         /\ now >= proposals[i].executableAt
         /\ proposals'[i].executed]_vars
=============================================================================
