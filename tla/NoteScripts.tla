---------------------------- MODULE NoteScripts ----------------------------
(***************************************************************************)
(* The scripts that try the pool out on a live cluster (src/scripts/:      *)
(* test-zk-e2e, test-zk-fullstack, test-zk-overnight, test-zk-edge and     *)
(* test-relayer-e2e), beside the other depositors of module NoteClient.    *)
(*                                                                         *)
(* A script deposits, rebuilds the leaves, proves, withdraws and says what *)
(* it has seen.  It waits for its transactions with confirmTransaction and *)
(* does not look at the error that returns: what matters is that the node  *)
(* simulated the transaction before it passed it on, and what the script   *)
(* looks up afterwards.                                                    *)
(*                                                                         *)
(* Whether a call meets with success depends on more than the proof: the   *)
(* pool may be paused or frozen and its mint struck off the list, and be   *)
(* open again a moment later, and a transaction may run out of rent or     *)
(* compute.  So any simulation may refuse, and any transaction may land in *)
(* error, although the proof is good.                                      *)
(***************************************************************************)
EXTENDS NoteClient

CONSTANTS
  Scripts,              \* runs of scripts
  Notes                 \* the notes each may make, one after the other

\* Every script draws its own secrets for every note.
ASSUME ScriptsAssumption ==
  /\ Notes \in [Scripts -> Seq(Clients) \ {<<>>}]
  /\ \A s, t \in Scripts : \A i \in DOMAIN Notes[s], j \in DOMAIN Notes[t] :
       Notes[s][i] = Notes[t][j] => s = t /\ i = j

VARIABLES
  kind,                 \* the script that is run
  at,                   \* how far it is with its note
  round,                \* which of its notes that is
  leafIdx,              \* the counter of test-zk-edge
  inflight,             \* withdrawals sent, neither landed nor lost
  barred,               \* notes whose withdrawal landed in error although the
                        \* proof was good
  passed,               \* notes whose payment was reported
  leaked                \* notes whose replay was reported as accepted

scriptVars == <<kind, at, round, leafIdx, inflight, barred, passed, leaked>>
allVars == <<vars, scriptVars>>

\* Scripts that go on with another note, after an error too.
Looping == {"overnight", "edge"}

Kinds == {"e2e", "fullstack", "relayer"} \union Looping

Note(s) == Notes[s][round[s]]

\* Notes that scripts keep to themselves.
InHand ==
  UNION {IF at[s] = "off" THEN {}
         ELSE IF kind[s] \in Looping THEN {Notes[s][i] : i \in DOMAIN Notes[s]}
         ELSE {Notes[s][1]} : s \in Scripts}

ProofOf(s) == CHOOSE proof \in proofs : proof.client = Note(s)

\* What the handler of withdraw asks of a proof, and the node before it.
WouldPay(proof) == proof.client \notin spent /\ RootKnown(RootOf(proof.list))

Goto(s, label) == at' = [at EXCEPT ![s] = label]

\* On to the next note, or done.
NextNote(s) ==
  IF kind[s] \in Looping /\ round[s] < Len(Notes[s])
    THEN Goto(s, "next") /\ round' = [round EXCEPT ![s] = @ + 1]
    ELSE Goto(s, "over") /\ UNCHANGED round

ScriptInit ==
  /\ NoteInit
  /\ kind = [s \in Scripts |-> "none"]
  /\ at = [s \in Scripts |-> "off"]
  /\ round = [s \in Scripts |-> 1]
  /\ leafIdx = [s \in Scripts |-> 0]
  /\ inflight = {} /\ barred = {} /\ passed = {} /\ leaked = {}

-----------------------------------------------------------------------------

\* test-zk-edge reads the pool here and counts on its own from then on.
Begin(s, k) ==
  /\ at[s] = "off"
  /\ \A i \in DOMAIN Notes[s] : phase[Notes[s][i]] = "idle"
  /\ kind' = [kind EXCEPT ![s] = k]
  /\ Goto(s, "next")
  /\ leafIdx' = [leafIdx EXCEPT ![s] = IF k = "edge" THEN nextLeafIndex ELSE 0]
  /\ UNCHANGED <<vars, round, inflight, barred, passed, leaked>>

\* The pool is read for every deposit.
DepositOnce(s) ==
  /\ at[s] = "next"
  /\ ReadPool(Note(s))
  /\ Goto(s, "depositing")
  /\ UNCHANGED <<kind, round, leafIdx, inflight, barred, passed, leaked>>

\* deposit of test-zk-edge takes the index it is given.
DepositAtCounter(s) ==
  /\ at[s] = "next"
  /\ noteIndex' = [noteIndex EXCEPT ![Note(s)] = leafIdx[s]]
  /\ phase' = [phase EXCEPT ![Note(s)] = "sent"]
  /\ Goto(s, "depositing")
  /\ UNCHANGED <<treeVars, history, proofs, spent, kind, round, leafIdx, inflight, barred,
                 passed, leaked>>

\* The deposit was seen to land.
Deposited(s) ==
  /\ at[s] = "depositing" /\ phase[Note(s)] = "deposited"
  /\ Goto(s, "deposited")
  /\ leafIdx' = [leafIdx EXCEPT ![s] = IF kind[s] = "edge" THEN @ + 1 ELSE @]
  /\ UNCHANGED <<vars, kind, round, inflight, barred, passed, leaked>>

\* It lands in error, which confirmTransaction returns and nobody looks at: the
\* script goes on, and the counter of test-zk-edge with it.
DepositErrs(s) ==
  /\ at[s] = "depositing" /\ phase[Note(s)] = "sent"
  /\ Len(history) < MaxHistory
  /\ phase' = [phase EXCEPT ![Note(s)] = "idle"]
  /\ history' = Append(history, NoLeaf)
  /\ Goto(s, "deposited")
  /\ leafIdx' = [leafIdx EXCEPT ![s] = IF kind[s] = "edge" THEN @ + 1 ELSE @]
  /\ UNCHANGED <<treeVars, noteIndex, proofs, spent, kind, round, inflight, barred, passed,
                 leaked>>

\* fetchPoolLeaves and generateMembershipProof.
BuildProofFor(s) ==
  /\ at[s] = "deposited"
  /\ GenerateProof(Note(s))
  /\ Goto(s, "proved")
  /\ UNCHANGED <<kind, round, leafIdx, inflight, barred, passed, leaked>>

\* test-zk-e2e compares the root it proved with the pool's.
RootsMatch(s) == RootOf(ProofOf(s).list) = currentRoot

\* The node simulates the withdrawal.
SubmitWithdraw(s) ==
  /\ at[s] = "proved"
  /\ WouldPay(ProofOf(s))
  /\ inflight' = inflight \union {ProofOf(s)}
  /\ Goto(s, "withdrawing")
  /\ UNCHANGED <<vars, kind, round, leafIdx, barred, passed, leaked>>

\* test-relayer-e2e posts the proof; the relayer answers when it likes, and
\* sends the withdrawal when it likes.
PostToRelayer(s) ==
  /\ at[s] = "proved"
  /\ Goto(s, "withdrawing")
  /\ UNCHANGED <<vars, kind, round, leafIdx, inflight, barred, passed, leaked>>

RelayerAnswers(s) ==
  /\ at[s] = "withdrawing"
  /\ Goto(s, "answered")
  /\ UNCHANGED <<vars, kind, round, leafIdx, inflight, barred, passed, leaked>>

\* The withdrawal lands.  It may do so in error even when the proof is good.
Executes(proof) ==
  /\ Len(history) < MaxHistory
  /\ inflight' = inflight \ {proof}
  /\ \/ WouldPay(proof) /\ spent' = spent \union {proof.client} /\ UNCHANGED barred
     \/ WouldPay(proof) /\ barred' = barred \union {proof.client} /\ UNCHANGED spent
     \/ ~WouldPay(proof) /\ UNCHANGED <<spent, barred>>
  /\ history' = Append(history, NoLeaf)
  /\ at' = [s \in Scripts |->
              IF at[s] = "withdrawing" /\ kind[s] # "relayer" /\ Note(s) = proof.client
                THEN "answered" ELSE at[s]]
  /\ UNCHANGED <<treeVars, phase, noteIndex, proofs, kind, round, leafIdx, passed, leaked>>

GetsLost(proof) ==
  /\ inflight' = inflight \ {proof}
  /\ UNCHANGED <<vars, kind, at, round, leafIdx, barred, passed, leaked>>

\* A slip the checks must notice: the confirmation is taken for the payment.
MutCheckRecipient(s) ==
  /\ at[s] = "answered"
  /\ passed' = passed \union {Note(s)}
  /\ NextNote(s)
  /\ UNCHANGED <<vars, kind, leafIdx, inflight, barred, leaked>>

\* The recipient's balance, which was none before, decides.
CheckRecipient(s) ==
  /\ at[s] = "answered"
  /\ passed' = IF Note(s) \in spent THEN passed \union {Note(s)} ELSE passed
  /\ NextNote(s)
  /\ UNCHANGED <<vars, kind, leafIdx, inflight, barred, leaked>>

\* test-zk-overnight sends the same withdrawal again, and says LEAKED when no
\* call throws.  It counts the cycle as done whatever the recipient got.
ExpectReplayBlocked(s) ==
  /\ at[s] = "answered"
  /\ \/ /\ WouldPay(ProofOf(s))
        /\ inflight' = inflight \union {ProofOf(s)}
        /\ leaked' = leaked \union {Note(s)} \/ UNCHANGED leaked
     \/ UNCHANGED <<inflight, leaked>>
  /\ NextNote(s)
  /\ UNCHANGED <<vars, kind, leafIdx, barred, passed>>

\* The later cases of test-zk-edge do not look whether the recipient was paid.
\* (What they try beside, a spoilt proof or root and the note once more to
\* another recipient, is not a step.)
Recovered(s) ==
  /\ at[s] = "answered"
  /\ NextNote(s)
  /\ UNCHANGED <<vars, kind, leafIdx, inflight, barred, passed, leaked>>

\* Every step asks the cluster, which may refuse, fail or stay silent; what
\* was sent stays sent.
Throws(s) ==
  /\ at[s] \in {"depositing", "deposited", "proved", "withdrawing", "answered"}
  /\ NextNote(s)
  /\ UNCHANGED <<vars, kind, leafIdx, inflight, barred, passed, leaked>>

\* A relayer has the proofs that were posted, and those of other depositors.
Relayed(proof) ==
  \/ proof.client \notin InHand
  \/ \E s \in Scripts : kind[s] = "relayer" /\ Note(s) = proof.client
                        /\ at[s] \in {"withdrawing", "answered", "over"}

-----------------------------------------------------------------------------
(* What each script does with a note *)

Started(s) == Deposited(s) \/ DepositErrs(s) \/ BuildProofFor(s) \/ Throws(s)

E2eMain(s) ==
  \/ DepositOnce(s) \/ Started(s)
  \/ SubmitWithdraw(s) /\ RootsMatch(s)
  \/ CheckRecipient(s)

FullstackMain(s) ==
  DepositOnce(s) \/ Started(s) \/ SubmitWithdraw(s) \/ CheckRecipient(s)

RelayerMain(s) ==
  \/ DepositOnce(s) \/ Started(s)
  \/ PostToRelayer(s) \/ RelayerAnswers(s)
  \/ CheckRecipient(s)

OvernightMain(s) ==
  DepositOnce(s) \/ Started(s) \/ SubmitWithdraw(s) \/ ExpectReplayBlocked(s)

EdgeMain(s) ==
  \/ DepositAtCounter(s) \/ Started(s) \/ SubmitWithdraw(s)
  \/ round[s] = 1 /\ CheckRecipient(s)
  \/ round[s] > 1 /\ Recovered(s)

ScriptNext ==
  \/ \E s \in Scripts :
       \/ \E k \in Kinds : Begin(s, k)
       \/ kind[s] = "e2e" /\ E2eMain(s)
       \/ kind[s] = "fullstack" /\ FullstackMain(s)
       \/ kind[s] = "relayer" /\ RelayerMain(s)
       \/ kind[s] = "overnight" /\ OvernightMain(s)
       \/ kind[s] = "edge" /\ EdgeMain(s)
  \/ \E proof \in inflight : Executes(proof) \/ GetsLost(proof)
  \/ /\ \/ \E c \in Clients : DepositLands(c) \/ DepositExpires(c)
        \/ \E c \in Clients \ InHand : ReadPool(c) \/ GenerateProof(c)
        \/ \E proof \in proofs : Relayed(proof) /\ WithdrawLands(proof)
        \/ OtherTraffic
     /\ UNCHANGED scriptVars

ScriptSpec == ScriptInit /\ [][ScriptNext]_allVars

-----------------------------------------------------------------------------
(* Properties *)

\* What the scripts report.  A payment only of a note that was spent with its
\* leaf in the tree, although a withdrawal that passed its simulation may land
\* with an error nobody looks at.  A replay that was accepted only where there
\* was nothing to replay: the withdrawal had landed in error for a reason that
\* is lifted again (a pause, say), and the alarm is false.  It is never raised
\* for a note that was paid, nor after a root that left the pool's history,
\* since that one never returns.
ReportsAreTrue ==
  /\ \A c \in passed : c \in spent /\ LandedWhereMeant(c)
  /\ leaked \subseteq barred
=============================================================================
