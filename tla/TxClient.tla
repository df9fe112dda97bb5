------------------------------ MODULE TxClient ------------------------------
(***************************************************************************)
(* sendAndConfirmTransaction of src/sdk/src/utils/transaction.ts against a *)
(* cluster.                                                                *)
(*                                                                         *)
(* A call signs its instruction over a recent blockhash and sends it.  An  *)
(* error that may pass makes it sign the same instruction over a newer     *)
(* blockhash and send again: another transaction, while the first may have *)
(* arrived all the same and lands or expires in its own time.  The call    *)
(* then waits for the one whose signature it got, against a timer.         *)
(*                                                                         *)
(* A transaction is the call and the block height its blockhash is of; it  *)
(* is valid for VALIDITY blocks and lands at most once.                    *)
(***************************************************************************)
EXTENDS Naturals, FiniteSets

CONSTANTS
  Calls,                \* calls of the function, each with one instruction
  None,
  Needs,                \* the call whose effect a call's instruction builds on
  Consumes,             \* what it uses up (a nullifier, an address to create)
  VALIDITY,             \* blocks for which a blockhash is recent
  SkipPreflight,        \* options.skipPreflight of each call
  RetryCounts,          \* values maxRetries is given
  MaxHeight             \* bound on the block height

ASSUME TxClientAssumption ==
  /\ Needs \in [Calls -> Calls \union {None}]
  /\ SkipPreflight \in [Calls -> BOOLEAN]
  /\ VALIDITY \in Nat /\ RetryCounts \subseteq Nat /\ MaxHeight \in Nat

VARIABLES
  height,
  open,                 \* the program accepts instructions (it may be paused)
  inflight,             \* transactions that reached the cluster and may land
  ledger,               \* transactions that landed: "ok" or "error"
  pc,                   \* where each call is
  maxRetries,           \* retryConfig.maxRetries of each call
  attempt,
  blockhash,            \* transaction.recentBlockhash, as a height
  outcome,              \* what the call returned
  unanswered            \* sends that arrived and were taken for failed

chainVars  == <<height, open, inflight, ledger>>
callVars   == <<pc, maxRetries, attempt, blockhash, outcome, unanswered>>
txVars     == <<chainVars, callVars>>

Transaction == [call : Calls, hash : Nat]

Tx(c) == [call |-> c, hash |-> blockhash[c]]

Expired(tx) == height > tx.hash + VALIDITY

\* The transactions of a call that took effect.
Effects(c) == {tx \in DOMAIN ledger : tx.call = c /\ ledger[tx] = "ok"}

WouldSucceed(c) ==
  /\ open
  /\ Needs[c] # None => Effects(Needs[c]) # {}
  /\ Consumes[c] # None => \A d \in Calls : Consumes[d] = Consumes[c] => Effects(d) = {}

\* The node passes a transaction on if it is new and, unless the caller skips
\* the simulation, recent and sure to succeed at present.
Simulates(c) == SkipPreflight[c] \/ (~Expired(Tx(c)) /\ WouldSucceed(c))
Accepts(c)   == Tx(c) \notin DOMAIN ledger /\ Simulates(c)

TxInit ==
  /\ height = 0 /\ open = TRUE /\ inflight = {} /\ ledger = <<>>
  /\ pc = [c \in Calls |-> "idle"]
  /\ maxRetries = [c \in Calls |-> 0]
  /\ attempt = [c \in Calls |-> 0]
  /\ blockhash = [c \in Calls |-> 0]
  /\ outcome = [c \in Calls |-> "none"]
  /\ unanswered = [c \in Calls |-> 0]

-----------------------------------------------------------------------------
(* A call *)

Goto(c, label) == pc' = [pc EXCEPT ![c] = label]

\* What is local to the call is gone, but for the signature it returns, Tx(c)'s.
Return(c, what) ==
  /\ Goto(c, "returned")
  /\ outcome' = [outcome EXCEPT ![c] = what]
  /\ maxRetries' = [maxRetries EXCEPT ![c] = 0]
  /\ attempt' = [attempt EXCEPT ![c] = 0]
  /\ blockhash' = IF what = "success" THEN blockhash ELSE [blockhash EXCEPT ![c] = 0]

\* buildTransaction and the first signature.
Build(c, retries) ==
  /\ pc[c] = "idle"
  /\ Goto(c, "signed")
  /\ maxRetries' = [maxRetries EXCEPT ![c] = retries]
  /\ blockhash' = [blockhash EXCEPT ![c] = height]
  /\ UNCHANGED <<chainVars, attempt, outcome, unanswered>>

\* A slip the checks must notice: the loop is not left with the signature.
MutSent(c) ==
  /\ pc[c] = "signed" /\ Accepts(c)
  /\ inflight' = inflight \union {Tx(c)}
  /\ IF attempt[c] < maxRetries[c]
       THEN Goto(c, "backoff") /\ attempt' = [attempt EXCEPT ![c] = @ + 1]
       ELSE Goto(c, "sent") /\ UNCHANGED attempt
  /\ UNCHANGED <<height, open, ledger, maxRetries, blockhash, outcome, unanswered>>

Sent(c) ==
  /\ pc[c] = "signed" /\ Accepts(c)
  /\ inflight' = inflight \union {Tx(c)}
  /\ Goto(c, "sent")
  /\ UNCHANGED <<height, open, ledger, maxRetries, attempt, blockhash, outcome,
                 unanswered>>

\* isNonRetryableError: the simulation refuses the instruction, or the
\* blockhash is too old.
Refused(c) ==
  /\ pc[c] = "signed"
  /\ Tx(c) \notin DOMAIN ledger /\ ~Simulates(c)
  /\ Return(c, "error")
  /\ UNCHANGED <<chainVars, unanswered>>

\* A slip the checks must notice: attempts are not counted.
MutSendFails(c, arrived) ==
  /\ pc[c] = "signed"
  /\ arrived => Accepts(c)
  /\ inflight' = IF arrived THEN inflight \union {Tx(c)} ELSE inflight
  /\ unanswered' = IF arrived THEN [unanswered EXCEPT ![c] = @ + 1] ELSE unanswered
  /\ Goto(c, "backoff")
  /\ UNCHANGED <<height, open, ledger, maxRetries, attempt, blockhash, outcome>>

\* Any other error: no connection, a rate limit, an answer that got lost, a
\* transaction known already.
SendFails(c, arrived) ==
  /\ pc[c] = "signed"
  /\ arrived => Accepts(c)
  /\ inflight' = IF arrived THEN inflight \union {Tx(c)} ELSE inflight
  /\ unanswered' = IF arrived THEN [unanswered EXCEPT ![c] = @ + 1] ELSE unanswered
  /\ IF attempt[c] < maxRetries[c]
       THEN /\ Goto(c, "backoff")
            /\ attempt' = [attempt EXCEPT ![c] = @ + 1]
            /\ UNCHANGED <<maxRetries, blockhash, outcome>>
       ELSE Return(c, "error")
  /\ UNCHANGED <<height, open, ledger>>

\* After the backoff; getLatestBlockhash may fail, outside of any try.
SignAgain(c) ==
  /\ pc[c] = "backoff"
  /\ \/ /\ Goto(c, "signed")
        /\ blockhash' = [blockhash EXCEPT ![c] = height]
        /\ UNCHANGED <<maxRetries, attempt, outcome>>
     \/ Return(c, "error")
  /\ UNCHANGED <<chainVars, unanswered>>

\* getLatestBlockhash is asked once more, and may fail.
AwaitConfirmation(c) ==
  /\ pc[c] = "sent"
  /\ \/ Goto(c, "confirming") /\ UNCHANGED <<maxRetries, attempt, blockhash, outcome>>
     \/ Return(c, "error")
  /\ UNCHANGED <<chainVars, unanswered>>

\* A slip the checks must notice: result.value.err is not looked at.
MutConfirmed(c) ==
  /\ pc[c] = "confirming" /\ Tx(c) \in DOMAIN ledger
  /\ Return(c, "success")
  /\ UNCHANGED <<chainVars, unanswered>>

Confirmed(c) ==
  /\ pc[c] = "confirming" /\ Tx(c) \in DOMAIN ledger
  /\ Return(c, IF ledger[Tx(c)] = "ok" THEN "success" ELSE "error")
  /\ UNCHANGED <<chainVars, unanswered>>

\* ConfirmationTimeoutError at any time, or the connection's own error when the
\* height is past that of the newer blockhash.  Neither says anything of the transaction.
GiveUp(c) ==
  /\ pc[c] = "confirming"
  /\ Return(c, "error")
  /\ UNCHANGED <<chainVars, unanswered>>

-----------------------------------------------------------------------------
(* The cluster *)

Land(tx) ==
  /\ tx \in inflight /\ ~Expired(tx)
  /\ inflight' = inflight \ {tx}
  /\ ledger' = [t \in DOMAIN ledger \union {tx} |->
                  IF t \in DOMAIN ledger THEN ledger[t]
                  ELSE IF WouldSucceed(tx.call) THEN "ok" ELSE "error"]
  /\ UNCHANGED <<height, open, callVars>>

Drop(tx) ==
  /\ tx \in inflight
  /\ inflight' = inflight \ {tx}
  /\ UNCHANGED <<height, open, ledger, callVars>>

\* In the block the program's authority may pause or resume the program.
NextBlock ==
  /\ height < MaxHeight
  /\ height' = height + 1
  /\ open' \in BOOLEAN
  /\ UNCHANGED <<inflight, ledger, callVars>>

CallStep(c) ==
  \/ Sent(c) \/ Refused(c) \/ \E arrived \in BOOLEAN : SendFails(c, arrived)
  \/ SignAgain(c) \/ AwaitConfirmation(c) \/ Confirmed(c) \/ GiveUp(c)

ClusterStep ==
  \/ \E tx \in inflight : Land(tx) \/ Drop(tx)
  \/ NextBlock

-----------------------------------------------------------------------------
(* Properties *)

\* A call that returns a signature took effect, with the transaction of that
\* signature, however many it has sent.
SuccessMeansEffect ==
  \A c \in Calls : outcome[c] = "success" => Tx(c) \in Effects(c)

\* An instruction takes effect a second time only when an answer was lost: as
\* often as answers were lost and once more, at most.
RepeatsNeedLostAnswers ==
  \A c \in Calls : Cardinality(Effects(c)) <= 1 + unanswered[c]

=============================================================================
