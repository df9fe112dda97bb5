---------------------------- MODULE NoteCommands ----------------------------
(***************************************************************************)
(* The commands that turn tokens into a note and back (`kirite deposit`    *)
(* and `kirite withdraw`, src/cli/src/commands/; sdk-deposit.mjs and       *)
(* sdk-withdraw.mjs of src/scripts/), over the transaction client.  A      *)
(* deposit makes fresh secrets, sends the deposit and, when that has       *)
(* returned, writes the note to a file.  A withdrawal reads a file, asks   *)
(* whether the note is spent, and sends the withdrawal.  Either may be     *)
(* stopped at any point.                                                   *)
(***************************************************************************)
EXTENDS TxClient

CONSTANTS
  Deposits,             \* runs of a deposit command
  Withdrawals           \* runs of a withdrawal, of the note Needs[w]

ASSUME NoteCommandsAssumption ==
  /\ Calls = Deposits \union Withdrawals
  /\ \A d \in Deposits : Needs[d] = None /\ Consumes[d] = None
  /\ \A w \in Withdrawals : Needs[w] \in Deposits /\ Consumes[w] = Needs[w]

VARIABLES
  files,                \* notes on disk
  said                  \* how each command ended

vars == <<txVars, files, said>>

Spent(note) == \E w \in Withdrawals : Consumes[w] = note /\ Effects(w) # {}

Over(c) == said[c] # "nothing"

NoteInit ==
  /\ TxInit
  /\ files = {}
  /\ said = [c \in Calls |-> "nothing"]

Say(c, what) == said' = [said EXCEPT ![c] = what]

\* The pool is looked at before anything is sent.
Deposit(d) ==
  /\ pc[d] = "idle" /\ ~Over(d)
  /\ \/ open /\ (\E retries \in RetryCounts : Build(d, retries)) /\ UNCHANGED said
     \/ ~open /\ Say(d, "failed") /\ UNCHANGED txVars
  /\ UNCHANGED files

\* The note goes to disk after the deposit returned.
SaveNote(d) ==
  /\ pc[d] = "returned" /\ ~Over(d)
  /\ IF outcome[d] = "success"
       THEN files' = files \union {d} /\ Say(d, "done")
       ELSE UNCHANGED files /\ Say(d, "failed")
  /\ UNCHANGED txVars

\* isNoteSpent is asked before the proof is made.
Withdraw(w) ==
  /\ pc[w] = "idle" /\ ~Over(w)
  /\ Needs[w] \in files
  /\ \/ ~Spent(Needs[w]) /\ (\E retries \in RetryCounts : Build(w, retries)) /\ UNCHANGED said
     \/ Spent(Needs[w]) /\ Say(w, "failed") /\ UNCHANGED txVars
  /\ UNCHANGED files

\* sdk-deposit.mjs looks only whether the pool exists, readies the depositor's
\* wrapped SOL, which may fail, and hands the rest to a client that is not in
\* the repository: it is taken to send as sendAndConfirmTransaction does.
SdkDeposit(d) ==
  /\ pc[d] = "idle" /\ ~Over(d)
  /\ \/ (\E retries \in RetryCounts : Build(d, retries)) /\ UNCHANGED said
     \/ Say(d, "failed") /\ UNCHANGED txVars
  /\ UNCHANGED files

\* sdk-withdraw.mjs does not ask whether the note is spent.  It funds a fresh
\* relayer and makes the missing token accounts first, which may fail.
SdkWithdraw(w) ==
  /\ pc[w] = "idle" /\ ~Over(w)
  /\ Needs[w] \in files
  /\ \/ (\E retries \in RetryCounts : Build(w, retries)) /\ UNCHANGED said
     \/ Say(w, "failed") /\ UNCHANGED txVars
  /\ UNCHANGED files

ReportWithdrawal(w) ==
  /\ pc[w] = "returned" /\ ~Over(w)
  /\ Say(w, IF outcome[w] = "success" THEN "done" ELSE "failed")
  /\ UNCHANGED <<txVars, files>>

\* The process is killed; what it has sent stays sent.
Kill(c) ==
  /\ pc[c] # "idle" /\ ~Over(c)
  /\ Say(c, "failed")
  /\ Return(c, "error")
  /\ UNCHANGED <<chainVars, unanswered, files>>

Step(c) == ~Over(c) /\ CallStep(c) /\ UNCHANGED <<files, said>>

CommandStep(c) ==
  \/ c \in Deposits /\ (Deposit(c) \/ SdkDeposit(c) \/ SaveNote(c))
  \/ c \in Withdrawals /\ (Withdraw(c) \/ SdkWithdraw(c) \/ ReportWithdrawal(c))
  \/ Step(c)

NoteNext ==
  \/ \E c \in Calls : CommandStep(c) \/ Kill(c)
  \/ ClusterStep /\ UNCHANGED <<files, said>>

NoteSpec == NoteInit /\ [][NoteNext]_vars /\ \A c \in Calls : WF_vars(CommandStep(c))

\* Every command comes to its end, whatever the cluster does: the loop counts
\* its attempts, and a timer ends the wait.
CommandsEnd == \A c \in Calls : pc[c] # "idle" ~> Over(c)
=============================================================================
