------------------------- MODULE NoteCommandsProofs -------------------------
(***************************************************************************)
(* Theorems about the transaction client under the note commands, for      *)
(* every set of commands, every number of retries, every lifetime of a     *)
(* blockhash and any interleaving with the cluster: what a call reports as *)
(* done was done, and it was done twice only if answers were lost.         *)
(***************************************************************************)
EXTENDS NoteCommands, FiniteSetTheorems, TLAPS

-----------------------------------------------------------------------------
(* The inductive invariant *)

Labels == {"idle", "signed", "backoff", "sent", "confirming", "returned"}

TxTypes ==
  /\ height \in Nat
  /\ inflight \subseteq Transaction /\ IsFiniteSet(inflight)
  /\ DOMAIN ledger \subseteq Transaction /\ IsFiniteSet(DOMAIN ledger)
  /\ pc \in [Calls -> Labels]
  /\ blockhash \in [Calls -> Nat]
  /\ outcome \in [Calls -> {"none", "success", "error"}]
  /\ unanswered \in [Calls -> Nat]

\* The transactions of a call that the cluster has or had landed.
Reached(c) == {tx \in inflight \union DOMAIN ledger : tx.call = c}

\* A call that has its signature sends no more.
Answered(c) == pc[c] \in {"sent", "confirming", "returned"}

\* Every transaction of a call that reached the cluster was one whose answer
\* was lost, but for the one the call has the signature of.
SendsCounted ==
  \A c \in Calls :
    Cardinality(Reached(c)) <= unanswered[c] + (IF Answered(c) THEN 1 ELSE 0)

SuccessIsFinal == \A c \in Calls : outcome[c] = "success" => pc[c] = "returned"

TxInv == TxTypes /\ SendsCounted /\ SuccessIsFinal /\ SuccessMeansEffect

LEMMA ReachedFinite ==
  ASSUME TxTypes, NEW c \in Calls
  PROVE  /\ IsFiniteSet(Reached(c)) /\ Cardinality(Reached(c)) \in Nat
         /\ Effects(c) \subseteq Reached(c)
<1>1. IsFiniteSet(inflight \union DOMAIN ledger)
  BY FS_Union DEF TxTypes
<1>2. Reached(c) \in SUBSET (inflight \union DOMAIN ledger)
  BY DEF Reached
<1>3. IsFiniteSet(Reached(c)) /\ Cardinality(Reached(c)) \in Nat
  BY <1>1, <1>2, FS_Subset, FS_CardinalityType
<1>4. Effects(c) \subseteq Reached(c)
  BY DEF Effects, Reached
<1> QED BY <1>3, <1>4

LEMMA InitTx == TxInit => TxInv
<1> SUFFICES ASSUME TxInit PROVE TxInv
  OBVIOUS
<1>1. inflight = {} /\ DOMAIN ledger = {}
  BY DEF TxInit
<1>2. TxTypes
  BY <1>1, FS_EmptySet DEF TxInit, TxTypes, Labels
<1>3. SendsCounted
  <2> SUFFICES ASSUME NEW c \in Calls
               PROVE  Cardinality(Reached(c))
                        <= unanswered[c] + (IF Answered(c) THEN 1 ELSE 0)
    BY DEF SendsCounted
  <2>1. Reached(c) = {}
    BY <1>1 DEF Reached
  <2>2. unanswered[c] = 0 /\ ~Answered(c)
    BY DEF TxInit, Answered
  <2> QED BY <2>1, <2>2, FS_EmptySet
<1> QED BY <1>2, <1>3 DEF TxInit, TxInv, SuccessIsFinal, SuccessMeansEffect

\* The cluster learns of nothing new: no count goes up.
LEMMA NothingReached ==
  ASSUME TxInv, TxTypes', UNCHANGED unanswered,
         inflight' \union DOMAIN ledger' \subseteq inflight \union DOMAIN ledger,
         \A c \in Calls : Answered(c) => Answered(c)'
  PROVE  SendsCounted'
<1> SUFFICES ASSUME NEW c \in Calls
             PROVE  Cardinality(Reached(c)')
                      <= unanswered'[c] + (IF Answered(c)' THEN 1 ELSE 0)
  BY DEF SendsCounted
<1>1. Reached(c)' \in SUBSET Reached(c)
  BY DEF Reached
<1>2. /\ Cardinality(Reached(c)') <= Cardinality(Reached(c))
      /\ Cardinality(Reached(c)') \in Nat /\ Cardinality(Reached(c)) \in Nat
  BY <1>1, ReachedFinite, FS_Subset, FS_CardinalityType DEF TxInv
<1>3. /\ Cardinality(Reached(c)) <= unanswered[c] + (IF Answered(c) THEN 1 ELSE 0)
      /\ unanswered[c] \in Nat
  BY DEF TxInv, SendsCounted, TxTypes
<1> QED BY <1>2, <1>3

\* One call sends one transaction more, and counts it.
LEMMA OneReached ==
  ASSUME TxInv, NEW c \in Calls,
         inflight' = inflight \union {Tx(c)}, UNCHANGED ledger,
         unanswered' \in [Calls -> Nat],
         ~Answered(c),
         \/ unanswered'[c] = unanswered[c] /\ Answered(c)'
         \/ unanswered'[c] = unanswered[c] + 1,
         \A d \in Calls \ {c} :
           unanswered'[d] = unanswered[d] /\ Answered(d)' = Answered(d)
  PROVE  SendsCounted'
<1> SUFFICES ASSUME NEW d \in Calls
             PROVE  Cardinality(Reached(d)')
                      <= unanswered'[d] + (IF Answered(d)' THEN 1 ELSE 0)
  BY DEF SendsCounted
<1>1. /\ Cardinality(Reached(d)) <= unanswered[d] + (IF Answered(d) THEN 1 ELSE 0)
      /\ unanswered[d] \in Nat /\ unanswered'[d] \in Nat
      /\ IsFiniteSet(Reached(d)) /\ Cardinality(Reached(d)) \in Nat
  BY ReachedFinite DEF TxInv, SendsCounted, TxTypes
<1>2. CASE d = c
  <2>1. Reached(c)' = Reached(c) \union {Tx(c)}
    BY DEF Reached, Tx
  <2>2. IsFiniteSet(Reached(c)) /\ Cardinality(Reached(c)) \in Nat
    BY <1>1, <1>2
  <2>3. Cardinality(Reached(c) \union {Tx(c)})
          = IF Tx(c) \in Reached(c) THEN Cardinality(Reached(c))
            ELSE Cardinality(Reached(c)) + 1
    BY <2>2, FS_AddElement
  <2>4. /\ Cardinality(Reached(c)') <= Cardinality(Reached(c)) + 1
        /\ Cardinality(Reached(c)') \in Nat
    BY <2>1, <2>2, <2>3
  <2>5. /\ Cardinality(Reached(c)) <= unanswered[c] + (IF Answered(c) THEN 1 ELSE 0)
        /\ unanswered[c] \in Nat /\ unanswered'[c] \in Nat
    BY <1>1, <1>2
  <2> QED BY <1>2, <2>2, <2>4, <2>5
<1>3. CASE d # c
  <2>1. Reached(d)' = Reached(d)
    BY <1>3 DEF Reached, Tx
  <2> QED BY <1>1, <1>3, <2>1
<1> QED BY <1>2, <1>3

\* A call that returned stays with its answer while others go on.
LEMMA OthersKeepTheirAnswer ==
  ASSUME TxInv, NEW c \in Calls,
         \A tx \in DOMAIN ledger : tx \in DOMAIN ledger' /\ ledger'[tx] = ledger[tx],
         \A d \in Calls \ {c} :
           /\ outcome'[d] = outcome[d]
           /\ pc'[d] = pc[d]
           /\ blockhash'[d] = blockhash[d],
         outcome'[c] = "success" =>
           /\ pc'[c] = "returned"
           /\ Tx(c)' \in DOMAIN ledger' /\ ledger'[Tx(c)'] = "ok"
  PROVE  SuccessIsFinal' /\ SuccessMeansEffect'
<1> SUFFICES ASSUME NEW d \in Calls, outcome'[d] = "success"
             PROVE  pc'[d] = "returned" /\ Tx(d)' \in Effects(d)'
  BY DEF SuccessIsFinal, SuccessMeansEffect
<1>1. CASE d = c
  BY <1>1 DEF Effects, Tx
<1>2. CASE d # c
  <2>1. pc[d] = "returned" /\ Tx(d) \in Effects(d)
    BY <1>2 DEF TxInv, SuccessIsFinal, SuccessMeansEffect
  <2>2. Tx(d)' = Tx(d)
    BY <1>2 DEF Tx
  <2> QED BY <1>2, <2>1, <2>2 DEF Effects
<1> QED BY <1>1, <1>2

-----------------------------------------------------------------------------
(* A call *)

LEMMA BuildKeeps ==
  ASSUME TxInv, NEW c \in Calls, NEW retries \in RetryCounts, Build(c, retries)
  PROVE  TxInv'
<1>1. /\ UNCHANGED <<height, open, inflight, ledger, outcome, unanswered>>
      /\ pc[c] = "idle" /\ pc' = [pc EXCEPT ![c] = "signed"]
      /\ blockhash' = [blockhash EXCEPT ![c] = height]
  BY DEF Build, Goto, chainVars
<1>2. TxTypes
  BY DEF TxInv
<1>3. TxTypes'
  BY <1>1, <1>2 DEF TxTypes, Labels
<1>4. \A d \in Calls : Answered(d) => Answered(d)'
  BY <1>1, <1>2 DEF Answered, TxTypes
<1>5. SendsCounted'
  BY <1>1, <1>3, <1>4, NothingReached
<1>6. outcome'[c] # "success"
  BY <1>1 DEF TxInv, SuccessIsFinal
<1>7. SuccessIsFinal' /\ SuccessMeansEffect'
  BY <1>1, <1>2, <1>6, OthersKeepTheirAnswer DEF TxTypes
<1> QED BY <1>3, <1>5, <1>7 DEF TxInv

\* A call returns: with success only when its transaction landed well.
LEMMA ReturnKeeps ==
  ASSUME TxInv, NEW c \in Calls, NEW what \in {"success", "error"},
         Return(c, what), UNCHANGED <<chainVars, unanswered>>,
         what = "success" => Tx(c) \in DOMAIN ledger /\ ledger[Tx(c)] = "ok"
  PROVE  TxInv'
<1>1. /\ UNCHANGED <<height, open, inflight, ledger, unanswered>>
      /\ pc' = [pc EXCEPT ![c] = "returned"]
      /\ outcome' = [outcome EXCEPT ![c] = what]
      /\ blockhash' = IF what = "success" THEN blockhash
                      ELSE [blockhash EXCEPT ![c] = 0]
  BY DEF Return, Goto, chainVars
<1>2. TxTypes
  BY DEF TxInv
<1>3. TxTypes'
  BY <1>1, <1>2 DEF TxTypes, Labels
<1>4. \A d \in Calls : Answered(d) => Answered(d)'
  BY <1>1, <1>2 DEF Answered, TxTypes
<1>5. SendsCounted'
  BY <1>1, <1>3, <1>4, NothingReached
<1>6. /\ outcome'[c] = what /\ pc'[c] = "returned"
      /\ what = "success" => Tx(c)' = Tx(c)
      /\ \A d \in Calls \ {c} :
           outcome'[d] = outcome[d] /\ pc'[d] = pc[d] /\ blockhash'[d] = blockhash[d]
  BY <1>1, <1>2 DEF TxTypes, Tx
<1>7. SuccessIsFinal' /\ SuccessMeansEffect'
  BY <1>1, <1>6, OthersKeepTheirAnswer
<1> QED BY <1>3, <1>5, <1>7 DEF TxInv

\* Steps of a call that sends nothing and does not return.
LEMMA MovesOn ==
  ASSUME TxInv, NEW c \in Calls, ~Answered(c) \/ pc[c] = "sent",
         UNCHANGED <<chainVars, outcome, unanswered>>,
         \/ Goto(c, "confirming") /\ UNCHANGED blockhash
         \/ ~Answered(c) /\ Goto(c, "backoff") /\ UNCHANGED blockhash
         \/ /\ ~Answered(c) /\ Goto(c, "signed")
            /\ blockhash' = [blockhash EXCEPT ![c] = height]
  PROVE  TxInv'
<1>1. UNCHANGED <<height, open, inflight, ledger, outcome, unanswered>>
  BY DEF chainVars
<1>2. TxTypes
  BY DEF TxInv
<1>3. TxTypes' /\ \A d \in Calls : Answered(d) => Answered(d)'
  BY <1>1, <1>2 DEF Goto, TxTypes, Labels, Answered
<1>4. SendsCounted'
  BY <1>1, <1>3, NothingReached
<1>5. outcome'[c] # "success"
  BY <1>1 DEF TxInv, SuccessIsFinal, Answered
<1>6. \A d \in Calls \ {c} : pc'[d] = pc[d] /\ blockhash'[d] = blockhash[d]
  BY <1>2 DEF Goto, TxTypes
<1>7. SuccessIsFinal' /\ SuccessMeansEffect'
  BY <1>1, <1>5, <1>6, OthersKeepTheirAnswer
<1> QED BY <1>3, <1>4, <1>7 DEF TxInv

LEMMA SentKeeps ==
  ASSUME TxInv, NEW c \in Calls, Sent(c)
  PROVE  TxInv'
<1>1. /\ UNCHANGED <<height, ledger, blockhash, outcome, unanswered>>
      /\ inflight' = inflight \union {Tx(c)}
      /\ pc[c] = "signed" /\ pc' = [pc EXCEPT ![c] = "sent"]
  BY DEF Sent, Goto
<1>2. TxTypes /\ Tx(c) \in Transaction
  BY DEF TxInv, TxTypes, Tx, Transaction
<1>3. IsFiniteSet(inflight')
  BY <1>1, <1>2, FS_AddElement DEF TxTypes
<1>4. TxTypes'
  BY <1>1, <1>2, <1>3 DEF TxTypes, Labels
<1>5. /\ ~Answered(c) /\ Answered(c)'
      /\ \A d \in Calls \ {c} : Answered(d)' = Answered(d)
  BY <1>1, <1>2 DEF Answered, TxTypes
<1>6. SendsCounted'
  BY <1>1, <1>4, <1>5, OneReached DEF TxTypes
<1>7. outcome'[c] # "success"
  BY <1>1 DEF TxInv, SuccessIsFinal
<1>8. SuccessIsFinal' /\ SuccessMeansEffect'
  BY <1>1, <1>2, <1>7, OthersKeepTheirAnswer DEF TxTypes
<1> QED BY <1>4, <1>6, <1>8 DEF TxInv

\* A send that fails may have arrived all the same, and is counted then.
LEMMA SendFailsKeeps ==
  ASSUME TxInv, NEW c \in Calls, NEW arrived \in BOOLEAN, SendFails(c, arrived)
  PROVE  TxInv'
<1>1. /\ UNCHANGED <<height, open, ledger>> /\ pc[c] = "signed"
      /\ \/ Goto(c, "backoff") /\ UNCHANGED <<blockhash, outcome>>
         \/ Return(c, "error")
  BY DEF SendFails
<1>2. TxTypes /\ Tx(c) \in Transaction
  BY DEF TxInv, TxTypes, Tx, Transaction
<1>3. CASE ~arrived
  <2>1. UNCHANGED <<chainVars, unanswered>>
    BY <1>1, <1>3 DEF SendFails, chainVars
  <2>2. ~Answered(c)
    BY <1>1 DEF Answered
  <2> QED BY <1>1, <2>1, <2>2, MovesOn, ReturnKeeps
<1>4. CASE arrived
  <2>1. /\ inflight' = inflight \union {Tx(c)}
        /\ unanswered' = [unanswered EXCEPT ![c] = unanswered[c] + 1]
    BY <1>4 DEF SendFails
  <2>2. /\ pc' \in [Calls -> Labels]
        /\ blockhash' \in [Calls -> Nat]
        /\ outcome' \in [Calls -> {"none", "success", "error"}]
        /\ outcome'[c] # "success"
        /\ \A d \in Calls \ {c} :
             /\ pc'[d] = pc[d] /\ blockhash'[d] = blockhash[d]
             /\ outcome'[d] = outcome[d]
    <3>1. CASE Goto(c, "backoff") /\ UNCHANGED <<blockhash, outcome>>
      <4>1. outcome[c] # "success"
        BY <1>1 DEF TxInv, SuccessIsFinal
      <4> QED BY <1>2, <3>1, <4>1 DEF TxTypes, Labels, Goto
    <3>2. CASE Return(c, "error")
      BY <1>2, <3>2 DEF TxTypes, Labels, Goto, Return
    <3> QED BY <1>1, <3>1, <3>2
  <2>3. IsFiniteSet(inflight') /\ unanswered' \in [Calls -> Nat]
    BY <1>2, <2>1, FS_AddElement DEF TxTypes
  <2>4. TxTypes'
    BY <1>1, <1>2, <2>1, <2>2, <2>3 DEF TxTypes
  <2>5. /\ ~Answered(c)
        /\ unanswered'[c] = unanswered[c] + 1
        /\ \A d \in Calls \ {c} :
             unanswered'[d] = unanswered[d] /\ Answered(d)' = Answered(d)
    BY <1>1, <1>2, <2>1, <2>2 DEF Answered, TxTypes
  <2>6. SendsCounted'
    BY <1>1, <2>1, <2>3, <2>5, OneReached
  <2>7. SuccessIsFinal' /\ SuccessMeansEffect'
    BY <1>1, <2>2, OthersKeepTheirAnswer
  <2> QED BY <2>4, <2>6, <2>7 DEF TxInv
<1> QED BY <1>3, <1>4

LEMMA CallStepKeeps ==
  ASSUME TxInv, NEW c \in Calls, CallStep(c)
  PROVE  TxInv'
<1>1. CASE Sent(c)
  BY <1>1, SentKeeps
<1>2. CASE Refused(c)
  BY <1>2, ReturnKeeps DEF Refused
<1>3. ASSUME NEW arrived \in BOOLEAN, SendFails(c, arrived) PROVE TxInv'
  BY <1>3, SendFailsKeeps
<1>4. CASE SignAgain(c)
  <2>1. ~Answered(c)
    BY <1>4 DEF SignAgain, Answered
  <2> QED BY <1>4, <2>1, MovesOn, ReturnKeeps DEF SignAgain
<1>5. CASE AwaitConfirmation(c)
  BY <1>5, MovesOn, ReturnKeeps DEF AwaitConfirmation
<1>6. CASE Confirmed(c)
  <2>1. CASE ledger[Tx(c)] = "ok"
    BY <1>6, <2>1, ReturnKeeps DEF Confirmed
  <2>2. CASE ledger[Tx(c)] # "ok"
    BY <1>6, <2>2, ReturnKeeps DEF Confirmed
  <2> QED BY <2>1, <2>2
<1>7. CASE GiveUp(c)
  BY <1>7, ReturnKeeps DEF GiveUp
<1> QED BY <1>1, <1>2, <1>3, <1>4, <1>5, <1>6, <1>7 DEF CallStep

-----------------------------------------------------------------------------
(* The cluster *)

LEMMA ClusterKeeps ==
  ASSUME TxInv, ClusterStep
  PROVE  TxInv'
<1>1. /\ UNCHANGED <<pc, blockhash, outcome, unanswered>>
      /\ TxTypes
  BY DEF ClusterStep, Land, Drop, NextBlock, callVars, TxInv
<1>2. /\ height' \in Nat
      /\ inflight' \union DOMAIN ledger' \subseteq inflight \union DOMAIN ledger
      /\ inflight' \subseteq inflight
      /\ \A tx \in DOMAIN ledger :
           tx \in DOMAIN ledger' /\ ledger'[tx] = ledger[tx]
  <2>1. ASSUME NEW tx \in inflight, Land(tx)
        PROVE  /\ UNCHANGED height
               /\ inflight' = inflight \ {tx}
               /\ DOMAIN ledger' = DOMAIN ledger \union {tx}
               /\ \A t \in DOMAIN ledger : ledger'[t] = ledger[t]
    BY <2>1 DEF Land
  <2>2. CASE \E tx \in inflight : Land(tx)
    BY <1>1, <2>1, <2>2 DEF TxTypes
  <2>3. CASE \E tx \in inflight : Drop(tx)
    BY <1>1, <2>3 DEF Drop, TxTypes
  <2>4. CASE NextBlock
    BY <1>1, <2>4 DEF NextBlock, TxTypes
  <2> QED BY <2>2, <2>3, <2>4 DEF ClusterStep
<1>3. TxTypes'
  <2>1. IsFiniteSet(inflight \union DOMAIN ledger)
    BY <1>1, FS_Union DEF TxTypes
  <2>2. IsFiniteSet(inflight') /\ IsFiniteSet(DOMAIN ledger')
    BY <1>2, <2>1, FS_Subset
  <2> QED BY <1>1, <1>2, <2>2 DEF TxTypes
<1>4. SendsCounted'
  BY <1>1, <1>2, <1>3, NothingReached DEF Answered
<1>5. SuccessIsFinal' /\ SuccessMeansEffect'
  BY <1>1, <1>2 DEF TxInv, SuccessIsFinal, SuccessMeansEffect, Effects, Tx
<1> QED BY <1>3, <1>4, <1>5 DEF TxInv

-----------------------------------------------------------------------------
(* The commands *)

LEMMA NothingSent ==
  ASSUME TxInv, UNCHANGED txVars
  PROVE  TxInv'
<1>1. UNCHANGED <<height, inflight, ledger, pc, blockhash, outcome, unanswered>>
  BY DEF txVars, chainVars, callVars
<1>2. TxTypes' /\ SuccessIsFinal' /\ SuccessMeansEffect'
  BY <1>1 DEF TxInv, TxTypes, SuccessIsFinal, SuccessMeansEffect, Effects, Tx
<1>3. SendsCounted'
  BY <1>1 DEF TxInv, SendsCounted, Reached, Answered
<1> QED BY <1>2, <1>3 DEF TxInv

LEMMA NextTx ==
  ASSUME TxInv, [NoteNext]_vars
  PROVE  TxInv'
<1>1. ASSUME NEW c \in Calls, CommandStep(c)
      PROVE  TxInv'
  <2>1. CASE UNCHANGED txVars
    BY <2>1, NothingSent
  <2>2. ASSUME NEW retries \in RetryCounts, Build(c, retries) PROVE TxInv'
    BY <2>2, BuildKeeps
  <2>3. CASE CallStep(c)
    BY <2>3, CallStepKeeps
  <2> QED BY <1>1, <2>1, <2>2, <2>3
          DEF CommandStep, Deposit, SdkDeposit, SaveNote, Withdraw, SdkWithdraw,
              ReportWithdrawal, Step
<1>2. ASSUME NEW c \in Calls, Kill(c) PROVE TxInv'
  BY <1>2, ReturnKeeps DEF Kill
<1>3. CASE ClusterStep
  BY <1>3, ClusterKeeps
<1>4. CASE UNCHANGED vars
  BY <1>4, NothingSent DEF vars
<1> QED BY <1>1, <1>2, <1>3, <1>4 DEF NoteNext

\* The inductive invariant holds throughout.
THEOREM TxInvariant == NoteSpec => []TxInv
<1>1. NoteInit => TxInv
  BY InitTx DEF NoteInit
<1>2. TxInv /\ [NoteNext]_vars => TxInv'
  BY NextTx
<1> QED BY <1>1, <1>2, PTL DEF NoteSpec

\* A signature is returned only for a transaction that took effect, however
\* many were sent, dropped or still on their way.
THEOREM SuccessIsTrue == NoteSpec => []SuccessMeansEffect
<1>1. TxInv => SuccessMeansEffect
  BY DEF TxInv
<1> QED BY <1>1, TxInvariant, PTL

\* An instruction takes effect no more often than answers to it were lost,
\* and once.
THEOREM RepeatsAreLostAnswers == NoteSpec => []RepeatsNeedLostAnswers
<1>1. ASSUME TxInv PROVE RepeatsNeedLostAnswers
  <2> SUFFICES ASSUME NEW c \in Calls
               PROVE  Cardinality(Effects(c)) <= 1 + unanswered[c]
    BY DEF RepeatsNeedLostAnswers
  <2>1. /\ IsFiniteSet(Reached(c)) /\ Cardinality(Reached(c)) \in Nat
        /\ Effects(c) \subseteq Reached(c)
    BY <1>1, ReachedFinite DEF TxInv
  <2>2. /\ Cardinality(Effects(c)) <= Cardinality(Reached(c))
        /\ Cardinality(Effects(c)) \in Nat
    BY <2>1, FS_Subset, FS_CardinalityType
  <2>3. /\ unanswered[c] \in Nat
        /\ Cardinality(Reached(c))
             <= unanswered[c] + (IF Answered(c) THEN 1 ELSE 0)
    BY <1>1 DEF TxInv, TxTypes, SendsCounted
  <2> QED BY <2>1, <2>2, <2>3
<1> QED BY <1>1, TxInvariant, PTL
=============================================================================
