-------------------------- MODULE GovernanceProofs --------------------------
(***************************************************************************)
(* Theorems about fee governance, for every timelock, every set of keys    *)
(* and fee settings, and any number of proposals: a proposal is settled    *)
(* once, and the fees change only by one that was public for the whole     *)
(* timelock.                                                               *)
(***************************************************************************)
EXTENDS Governance, FiniteSetTheorems, TLAPS

-----------------------------------------------------------------------------
(* The inductive invariant *)

\* The clock and the rates, within what validate_fee_bps allows.
RatesSound ==
  /\ now \in Nat
  /\ feeBps \in 0..MAX_FEE_BPS
  /\ burnRatioBps \in 0..MAX_FEE_BPS

\* A proposal as ProposeFeeUpdate filed it: its rates passed the check, and
\* it becomes executable one timelock after it was filed.
FiledProperly(proposal) ==
  /\ proposal \in FeeProposal
  /\ ValidFees(proposal.fees)
  /\ proposal.executableAt = proposal.proposedAt + TIMELOCK

GovInv ==
  /\ RatesSound
  /\ proposals \in Seq(FeeProposal)
  /\ \A i \in 1..Len(proposals) : FiledProperly(proposals[i])
  /\ ProposalsSettleOnce

\* No handler of the config alone writes the rates.
LEMMA HandlersKeepFees ==
  ASSUME NEW signer \in Keys, ConfigHandler(signer)
  PROVE  UNCHANGED feeVars
BY DEF ConfigHandler, PauseProtocol, ResumeProtocol, AddSupportedMint,
       RemoveSupportedMint, InitiateAuthorityTransfer, AcceptAuthorityTransfer

LEMMA RatesUntouched ==
  ASSUME RatesSound, UNCHANGED feeVars, now' \in Nat
  PROVE  RatesSound'
BY DEF RatesSound, feeVars

Executed == {i \in 1..Len(proposals) : proposals[i].executed}

LEMMA ExecutedFinite ==
  ASSUME proposals \in Seq(FeeProposal)
  PROVE  IsFiniteSet(Executed) /\ Cardinality(Executed) \in Nat
<1>1. Len(proposals) \in Nat
  OBVIOUS
<1>2. IsFiniteSet(1..Len(proposals))
  BY <1>1, FS_Interval
<1>3. Executed \in SUBSET (1..Len(proposals))
  BY DEF Executed
<1> QED BY <1>2, <1>3, FS_Subset, FS_CardinalityType

LEMMA InitGov == Init => GovInv
<1> SUFFICES ASSUME Init PROVE GovInv
  OBVIOUS
<1>1. RatesSound
  <2>1. PICK fees \in FeeSettings :
          ValidFees(fees) /\ feeBps = fees[1] /\ burnRatioBps = fees[2]
    BY DEF Init, ConfigInit
  <2>2. now \in Nat
    BY DEF Init
  <2> QED BY <2>1, <2>2, FeeSettingsAssumption, ConfigLimitsAssumption
          DEF ValidFees, RatesSound
<1>2. proposals = <<>> /\ Len(proposals) = 0 /\ proposals \in Seq(FeeProposal)
  BY DEF Init
<1>3. {i \in 1..Len(proposals) : proposals[i].executed} = {}
  BY <1>2
<1> QED BY <1>1, <1>2, <1>3, FS_EmptySet DEF Init, GovInv, ProposalsSettleOnce

LEMMA ProposeKeeps ==
  ASSUME GovInv, NEW signer \in Keys, NEW fees \in FeeSettings,
         ProposeFeeUpdate(signer, fees)
  PROVE  GovInv'
<1> DEFINE n == Len(proposals)
           p == [proposer |-> signer, fees |-> fees, proposedAt |-> now,
                 executableAt |-> now + TIMELOCK,
                 executed |-> FALSE, cancelled |-> FALSE]
<1>1. /\ proposals' = Append(proposals, p)
      /\ totalProposals' = totalProposals + 1
      /\ UNCHANGED <<configVars, totalExecuted, now>>
      /\ ValidFees(fees)
  BY DEF ProposeFeeUpdate
<1>2. /\ RatesSound /\ ProposalsSettleOnce /\ now \in Nat
      /\ proposals \in Seq(FeeProposal)
      /\ \A i \in 1..n : FiledProperly(proposals[i])
  BY DEF GovInv, RatesSound
<1>3. FiledProperly(p) /\ ~p.executed /\ ~p.cancelled
  BY <1>1, <1>2, GovernanceAssumption DEF FiledProperly, FeeProposal
<1> HIDE DEF p
<1>4. p \in FeeProposal
  BY <1>3 DEF FiledProperly
<1>5. /\ n \in Nat /\ Len(proposals') = n + 1
      /\ proposals' \in Seq(FeeProposal)
      /\ \A i \in 1..n : proposals'[i] = proposals[i]
      /\ proposals'[n + 1] = p
  BY <1>1, <1>2, <1>4
<1> HIDE DEF n
<1>6. ASSUME NEW i \in 1..Len(proposals')
      PROVE  /\ FiledProperly(proposals'[i])
             /\ ~(proposals'[i].executed /\ proposals'[i].cancelled)
  <2>1. i \in 1..n \/ i = n + 1
    BY <1>5
  <2> QED BY <1>2, <1>3, <1>5, <2>1 DEF ProposalsSettleOnce, n
<1>7. {i \in 1..Len(proposals') : proposals'[i].executed}
        = {i \in 1..n : proposals[i].executed}
  <2>1. 1..Len(proposals') = (1..n) \union {n + 1}
    BY <1>5
  <2> QED BY <1>3, <1>5, <2>1
<1>8. RatesSound'
  BY <1>1, <1>2, RatesUntouched DEF RatesSound, configVars
<1>9. ProposalsSettleOnce'
  BY <1>1, <1>2, <1>5, <1>6, <1>7 DEF ProposalsSettleOnce, n
<1>10. \A i \in 1..Len(proposals') : FiledProperly(proposals[i])'
  BY <1>6 DEF FiledProperly, ValidFees
<1> QED BY <1>5, <1>8, <1>9, <1>10 DEF GovInv

\* Settling an open proposal, one way or the other, touches its flags only.
LEMMA SettledProposals ==
  ASSUME GovInv, NEW i \in 1..Len(proposals), Open(proposals[i]),
         \/ proposals' = [proposals EXCEPT ![i].executed = TRUE]
         \/ proposals' = [proposals EXCEPT ![i].cancelled = TRUE]
  PROVE  /\ Len(proposals') = Len(proposals)
         /\ proposals' \in Seq(FeeProposal)
         /\ \A j \in 1..Len(proposals) :
              /\ j # i => proposals'[j] = proposals[j]
              /\ FiledProperly(proposals'[j])
              /\ ~(proposals'[j].executed /\ proposals'[j].cancelled)
<1>1. /\ proposals \in Seq(FeeProposal) /\ proposals[i] \in FeeProposal
      /\ \A j \in 1..Len(proposals) :
           /\ FiledProperly(proposals[j])
           /\ ~(proposals[j].executed /\ proposals[j].cancelled)
  BY DEF GovInv, ProposalsSettleOnce
<1> DEFINE p == [proposals[i] EXCEPT !.executed = TRUE]
           q == [proposals[i] EXCEPT !.cancelled = TRUE]
<1>2. /\ p \in FeeProposal /\ q \in FeeProposal
      /\ FiledProperly(p) /\ FiledProperly(q)
      /\ ~(p.executed /\ p.cancelled) /\ ~(q.executed /\ q.cancelled)
  BY <1>1 DEF FeeProposal, FiledProperly, Open
<1>3. \/ proposals' = [proposals EXCEPT ![i] = p]
      \/ proposals' = [proposals EXCEPT ![i] = q]
  OBVIOUS
<1> HIDE DEF p, q
<1>4. PICK x \in {p, q} : proposals' = [proposals EXCEPT ![i] = x]
  BY <1>3
<1>5. /\ Len(proposals') = Len(proposals)
      /\ proposals' \in Seq(FeeProposal)
      /\ proposals'[i] = x
      /\ \A j \in 1..Len(proposals) : j # i => proposals'[j] = proposals[j]
  BY <1>1, <1>2, <1>4
<1> QED BY <1>1, <1>2, <1>5

LEMMA ExecuteKeeps ==
  ASSUME GovInv, NEW signer \in Keys, NEW i \in 1..Len(proposals),
         ExecuteFeeUpdate(signer, i)
  PROVE  GovInv'
<1>1. /\ Open(proposals[i]) /\ InstallFees(proposals[i].fees)
      /\ proposals' = [proposals EXCEPT ![i].executed = TRUE]
      /\ totalExecuted' = totalExecuted + 1
      /\ UNCHANGED <<totalProposals, now>>
  BY DEF ExecuteFeeUpdate
<1>2. /\ proposals \in Seq(FeeProposal) /\ RatesSound /\ ProposalsSettleOnce
      /\ proposals[i].fees \in FeeSettings /\ ValidFees(proposals[i].fees)
  BY DEF GovInv, FiledProperly, FeeProposal
<1>3. RatesSound'
  BY <1>1, <1>2, FeeSettingsAssumption, ConfigLimitsAssumption
     DEF InstallFees, ValidFees, RatesSound
<1>4. /\ Len(proposals') = Len(proposals)
      /\ proposals' \in Seq(FeeProposal)
      /\ \A j \in 1..Len(proposals) :
           /\ j # i => proposals'[j] = proposals[j]
           /\ FiledProperly(proposals'[j])
           /\ ~(proposals'[j].executed /\ proposals'[j].cancelled)
  BY <1>1, SettledProposals
<1>5. proposals'[i].executed /\ i \notin Executed
  BY <1>1, <1>2 DEF Open, Executed
<1>6. {j \in 1..Len(proposals') : proposals'[j].executed} = Executed \union {i}
  BY <1>4, <1>5 DEF Executed
<1>7. Cardinality({j \in 1..Len(proposals') : proposals'[j].executed})
        = Cardinality(Executed) + 1
  BY <1>2, <1>5, <1>6, ExecutedFinite, FS_AddElement
<1>8. ProposalsSettleOnce'
  BY <1>1, <1>2, <1>4, <1>7 DEF ProposalsSettleOnce, Executed
<1>9. \A j \in 1..Len(proposals') : FiledProperly(proposals[j])'
  BY <1>4 DEF FiledProperly, ValidFees
<1> QED BY <1>3, <1>4, <1>8, <1>9 DEF GovInv

LEMMA CancelKeeps ==
  ASSUME GovInv, NEW signer \in Keys, NEW i \in 1..Len(proposals),
         CancelFeeProposal(signer, i)
  PROVE  GovInv'
<1>1. /\ Open(proposals[i])
      /\ proposals' = [proposals EXCEPT ![i].cancelled = TRUE]
      /\ UNCHANGED <<configVars, totalProposals, totalExecuted, now>>
  BY DEF CancelFeeProposal
<1>2. /\ proposals \in Seq(FeeProposal) /\ RatesSound /\ ProposalsSettleOnce
  BY DEF GovInv
<1>3. RatesSound'
  BY <1>1, <1>2, RatesUntouched DEF RatesSound, configVars
<1>4. /\ Len(proposals') = Len(proposals)
      /\ proposals' \in Seq(FeeProposal)
      /\ \A j \in 1..Len(proposals) :
           /\ j # i => proposals'[j] = proposals[j]
           /\ FiledProperly(proposals'[j])
           /\ ~(proposals'[j].executed /\ proposals'[j].cancelled)
  BY <1>1, SettledProposals
<1>5. proposals'[i].executed = proposals[i].executed
  BY <1>1, <1>2 DEF FeeProposal
<1>6. {j \in 1..Len(proposals') : proposals'[j].executed}
        = {j \in 1..Len(proposals) : proposals[j].executed}
  BY <1>4, <1>5
<1>7. ProposalsSettleOnce'
  BY <1>1, <1>2, <1>4, <1>6 DEF ProposalsSettleOnce
<1>8. \A j \in 1..Len(proposals') : FiledProperly(proposals[j])'
  BY <1>4 DEF FiledProperly, ValidFees
<1> QED BY <1>3, <1>4, <1>7, <1>8 DEF GovInv

LEMMA ProposalsUntouched ==
  ASSUME GovInv, RatesSound', UNCHANGED proposalVars
  PROVE  GovInv'
BY DEF GovInv, proposalVars, ProposalsSettleOnce, FiledProperly, ValidFees

LEMMA NextGov ==
  ASSUME GovInv, [Next]_vars
  PROVE  GovInv'
<1>1. ASSUME NEW signer \in Keys, NEW fees \in FeeSettings,
             ProposeFeeUpdate(signer, fees)
      PROVE  GovInv'
  BY <1>1, ProposeKeeps
<1>2. ASSUME NEW signer \in Keys, NEW i \in 1..Len(proposals),
             ExecuteFeeUpdate(signer, i) \/ CancelFeeProposal(signer, i)
      PROVE  GovInv'
  BY <1>2, ExecuteKeeps, CancelKeeps
<1>3. ASSUME UNCHANGED <<configVars, proposalVars>>, now' \in Nat
      PROVE  GovInv'
  <2>1. RatesSound'
    BY <1>3, RatesUntouched DEF GovInv, RatesSound, configVars
  <2> QED BY <1>3, <2>1, ProposalsUntouched
<1>4. now \in Nat
  BY DEF GovInv, RatesSound
<1>5. ASSUME NEW signer \in Keys, NEW tokens \in BurnAmounts,
             BurnFees(signer, tokens)
      PROVE  GovInv'
  BY <1>3, <1>4, <1>5 DEF BurnFees
<1>6. ASSUME NEW signer \in Keys, NEW list \in SignerLists,
             NEW required \in 0..MAX_SIGNERS,
             UpdateGovernanceSigners(signer, list, required)
      PROVE  GovInv'
  BY <1>3, <1>4, <1>6 DEF UpdateGovernanceSigners
<1>7. CASE ConfigStep
  <2>1. RatesSound'
    BY <1>4, <1>7, HandlersKeepFees, RatesUntouched DEF ConfigStep, GovInv, govVars
  <2> QED BY <1>7, <2>1, ProposalsUntouched DEF ConfigStep, govVars
<1>8. CASE Tick
  BY <1>3, <1>4, <1>8 DEF Tick, ClockTicks, govVars
<1>9. CASE UNCHANGED vars
  BY <1>3, <1>4, <1>9 DEF vars, govVars
<1> QED BY <1>1, <1>2, <1>5, <1>6, <1>7, <1>8, <1>9 DEF Next, GovernanceNext

\* The inductive invariant holds throughout.
THEOREM GovernanceInvariant == Spec => []GovInv
<1>1. Init => GovInv
  BY InitGov
<1>2. GovInv /\ [Next]_vars => GovInv'
  BY NextGov
<1> QED BY <1>1, <1>2, PTL DEF Spec

\* No proposal is both executed and cancelled, nor executed twice: the
\* counters always agree with the proposals' flags.
THEOREM SettledOnce == Spec => []ProposalsSettleOnce
<1>1. GovInv => ProposalsSettleOnce
  BY DEF GovInv
<1> QED BY <1>1, GovernanceInvariant, PTL

\* Whoever holds the authority, the rates change only to those of a proposal
\* that was open and public for the whole timelock.
THEOREM NoticeIsGiven == Spec => FeesChangeOnlyWithNotice
<1>1. ASSUME GovInv, [Next]_vars
      PROVE  [feeVars' # feeVars =>
                \E i \in 1..Len(proposals) :
                  /\ feeVars' = proposals[i].fees
                  /\ ~proposals[i].executed /\ ~proposals[i].cancelled
                  /\ now >= proposals[i].executableAt
                  /\ proposals'[i].executed]_vars
  <2> SUFFICES ASSUME feeVars' # feeVars
               PROVE  \E i \in 1..Len(proposals) :
                        /\ feeVars' = proposals[i].fees
                        /\ ~proposals[i].executed /\ ~proposals[i].cancelled
                        /\ now >= proposals[i].executableAt
                        /\ proposals'[i].executed
    OBVIOUS
  <2>1. PICK signer \in Keys, i \in 1..Len(proposals) :
          ExecuteFeeUpdate(signer, i)
    BY <1>1, HandlersKeepFees
       DEF Next, GovernanceNext, ProposeFeeUpdate, CancelFeeProposal, BurnFees,
           UpdateGovernanceSigners, ConfigStep, Tick, vars, configVars
  <2>2. /\ Open(proposals[i]) /\ InstallFees(proposals[i].fees)
        /\ now - proposals[i].proposedAt >= TIMELOCK
        /\ proposals' = [proposals EXCEPT ![i].executed = TRUE]
    BY <2>1 DEF ExecuteFeeUpdate, TimelockElapsed
  <2>3. /\ proposals \in Seq(FeeProposal) /\ proposals[i] \in FeeProposal
        /\ now \in Nat /\ TIMELOCK \in Nat
        /\ proposals[i].executableAt = proposals[i].proposedAt + TIMELOCK
    BY <1>1, GovernanceAssumption
       DEF GovInv, FiledProperly, RatesSound
  <2>4. feeVars' = proposals[i].fees
    <3>1. proposals[i].fees \in Nat \X Nat
      BY <2>3, FeeSettingsAssumption DEF FeeProposal
    <3> QED BY <2>2, <3>1 DEF InstallFees, feeVars
  <2>5. now >= proposals[i].executableAt
    <3>1. proposals[i].proposedAt \in Nat
      BY <2>3 DEF FeeProposal
    <3> QED BY <2>2, <2>3, <3>1
  <2>6. proposals'[i].executed
    BY <2>2, <2>3 DEF FeeProposal
  <2> QED BY <2>2, <2>4, <2>5, <2>6 DEF Open
<1> QED BY <1>1, GovernanceInvariant, PTL DEF Spec, FeesChangeOnlyWithNotice
=============================================================================
