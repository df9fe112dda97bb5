------------------------------ MODULE CliConfig ------------------------------
(***************************************************************************)
(* The settings file of the command line (src/cli/src/utils/config.ts) and *)
(* the processes that use it: `kirite config set` and `reset`              *)
(* (src/cli/src/commands/config.ts), and every other command, which reads  *)
(* the settings and then, to find the wallet, reads them again             *)
(* (src/cli/src/utils/wallet.ts).                                          *)
(*                                                                         *)
(* A save empties the file and then writes it: who reads in between, or    *)
(* after a process was killed there, finds text that does not parse and    *)
(* goes on with the defaults. JSON has no infinite number: one that was    *)
(* accepted is written as null, and null is what is read. A file changed   *)
(* by hand, of which nothing is checked, is not modelled.                  *)
(***************************************************************************)
EXTENDS Naturals, FiniteSets

CONSTANTS
  Processes,            \* runs of `kirite`, one command each
  Settings,             \* <<key, text>> pairs given to `config set`
  DefaultConfig,        \* DEFAULT_CONFIG
  Texts,                \* what parseInt makes of each text
  Absent, Torn,         \* a file that is not there, or that does not parse
  Infinite, Null        \* parseInt of very many digits, and what JSON makes of it

Keys == DOMAIN DefaultConfig
NumberKeys == {"maxRetries", "priorityFee", "confirmTimeout"}

ASSUME SettingsAssumption ==
  /\ \A s \in Settings : s[2] \in DOMAIN Texts
  /\ "walletPath" \in Keys /\ "commitment" \in Keys
  /\ "maxRetries" \in Keys /\ "skipPreflight" \in Keys

\* A missing file, and a text that does not parse, are told from settings.
ASSUME FileAssumption == DOMAIN Absent # Keys /\ DOMAIN Torn # Keys

ASSUME NumberAssumption == Infinite \notin Nat /\ Null \notin Nat /\ Infinite # Null

VARIABLES
  file,                 \* Absent, Torn, or the settings written
  pc,                   \* where each process is
  command,              \* <<key, text>> to be set, ResetCommand or UseCommand
  config,               \* what a process has loaded and changed
  walletPath,           \* what the second read gave
  wanted,               \* the settings the commands ought to have left
  undisturbed           \* no process was killed or overlapped another yet

vars == <<file, pc, command, config, walletPath, wanted, undisturbed>>

ResetCommand == <<"reset", "">>
UseCommand   == <<"use", "">>

\* JSON.stringify of an infinite number is null; all else is read as written.
Stringified(c) ==
  [key \in DOMAIN c |->
     IF key \in NumberKeys /\ c[key] = Infinite THEN Null ELSE c[key]]

\* JSON.parse of a torn file throws, and the error is swallowed. What does
\* parse takes the place of the defaults as it is.
LoadConfig == IF file \in {Absent, Torn} THEN DefaultConfig ELSE file

\* The key a command line names: wallet is another name for walletPath.
KeyOf(name) == IF name = "wallet" THEN "walletPath" ELSE name

\* parseInt reads the leading digits of a text, comparisons go by the whole.
StoredAs(key, text) ==
  CASE key \in NumberKeys -> Texts[text]
    [] key = "skipPreflight" -> text \in {"true", "1"}
    [] OTHER -> text

\* An infinite number is neither NaN nor too small.
Acceptable(key, value) ==
  CASE key \in {"maxRetries", "priorityFee"} -> value \in Nat \union {Infinite}
    [] key = "confirmTimeout" -> value \in (Nat \ {0}) \union {Infinite}
    [] key = "commitment" -> value \in {"processed", "confirmed", "finalized"}
    [] OTHER -> TRUE

ASSUME DefaultsAssumption ==
  /\ DefaultConfig = [key \in Keys |-> DefaultConfig[key]]
  /\ \A key \in Keys : Acceptable(key, DefaultConfig[key])
  /\ \A key \in Keys \intersect NumberKeys : DefaultConfig[key] # Infinite

Init ==
  /\ file = Absent
  /\ pc = [p \in Processes |-> "idle"]
  /\ command = [p \in Processes |-> UseCommand]
  /\ config = [p \in Processes |-> DefaultConfig]
  /\ walletPath = [p \in Processes |-> DefaultConfig["walletPath"]]
  /\ wanted = DefaultConfig
  /\ undisturbed = TRUE

Goto(p, label) == pc' = [pc EXCEPT ![p] = label]
Running(p) == pc[p] \notin {"idle", "ended"}

Start(p, c) ==
  /\ pc[p] = "idle"
  /\ Goto(p, "started")
  /\ command' = [command EXCEPT ![p] = c]
  /\ undisturbed' = (undisturbed /\ \A q \in Processes : ~Running(q))
  /\ UNCHANGED <<file, config, walletPath, wanted>>

\* `config reset` saves the defaults without a look at the file.
Reset(p) ==
  /\ pc[p] = "started" /\ command[p] = ResetCommand
  /\ Goto(p, "saving")
  /\ config' = [config EXCEPT ![p] = DefaultConfig]
  /\ UNCHANGED <<file, command, walletPath, wanted, undisturbed>>

\* Slip: the value is checked after the settings were saved.
MutSet(p) ==
  /\ pc[p] = "started" /\ command[p] \notin {UseCommand, ResetCommand}
  /\ LET key == KeyOf(command[p][1])
         value == StoredAs(key, command[p][2])
     IN  /\ config' = [config EXCEPT ![p] = [LoadConfig EXCEPT ![key] = value]]
         /\ Goto(p, "saving")
  /\ UNCHANGED <<file, command, walletPath, wanted, undisturbed>>

\* setConfigValue reads all settings, changes one and, unless it throws, saves
\* all of them.
Set(p) ==
  /\ pc[p] = "started" /\ command[p] \notin {UseCommand, ResetCommand}
  /\ LET key == KeyOf(command[p][1])
         value == StoredAs(key, command[p][2])
     IN  IF key \in Keys /\ Acceptable(key, value)
           THEN /\ config' = [config EXCEPT ![p] = [LoadConfig EXCEPT ![key] = value]]
                /\ Goto(p, "saving")
           ELSE UNCHANGED config /\ Goto(p, "ended")
  /\ UNCHANGED <<file, command, walletPath, wanted, undisturbed>>

\* writeFileSync opens the file, which empties it ...
Truncate(p) ==
  /\ pc[p] = "saving"
  /\ file' = Torn
  /\ Goto(p, "writing")
  /\ UNCHANGED <<command, config, walletPath, wanted, undisturbed>>

\* Slip: only the value that was set is written.
MutWrite(p) ==
  /\ pc[p] = "writing"
  /\ file' = IF command[p] = ResetCommand THEN config[p]
             ELSE [DefaultConfig EXCEPT ![KeyOf(command[p][1])] = config[p][KeyOf(command[p][1])]]
  /\ Goto(p, "ended")
  /\ wanted' = IF command[p] = ResetCommand THEN DefaultConfig
               ELSE [wanted EXCEPT ![KeyOf(command[p][1])] = config[p][KeyOf(command[p][1])]]
  /\ UNCHANGED <<command, config, walletPath, undisturbed>>

\* ... and then writes from its start: over the text of another process that
\* emptied it too, of which a longer one shows behind the new.
Write(p) ==
  /\ pc[p] = "writing"
  /\ file' \in {Stringified(config[p])} \union (IF file = Torn THEN {} ELSE {Torn})
  /\ Goto(p, "ended")
  /\ wanted' = IF command[p] = ResetCommand THEN DefaultConfig
               ELSE [wanted EXCEPT ![KeyOf(command[p][1])] = config[p][KeyOf(command[p][1])]]
  /\ UNCHANGED <<command, config, walletPath, undisturbed>>

\* Any other command loads the settings ...
Load(p) ==
  /\ pc[p] = "started" /\ command[p] = UseCommand
  /\ config' = [config EXCEPT ![p] = LoadConfig]
  /\ Goto(p, "loaded")
  /\ UNCHANGED <<file, command, walletPath, wanted, undisturbed>>

\* ... and loadWallet, unless --wallet was given, loads them once more.
LoadWallet(p) ==
  /\ pc[p] = "loaded"
  /\ walletPath' = [walletPath EXCEPT ![p] = LoadConfig["walletPath"]]
  /\ Goto(p, "ended")
  /\ UNCHANGED <<file, command, config, wanted, undisturbed>>

Kill(p) ==
  /\ Running(p)
  /\ Goto(p, "ended")
  /\ undisturbed' = FALSE
  /\ UNCHANGED <<file, command, config, walletPath, wanted>>

Next ==
  \E p \in Processes :
    \/ \E c \in Settings \union {UseCommand, ResetCommand} : Start(p, c)
    \/ Reset(p) \/ Set(p) \/ Truncate(p) \/ Write(p) \/ Load(p) \/ LoadWallet(p) \/ Kill(p)

Spec == Init /\ [][Next]_vars

-----------------------------------------------------------------------------
(* Properties *)

\* Some command was given an infinite number for the key.
Overflowed(key) ==
  \E p \in Processes :
    /\ command[p] \notin {UseCommand, ResetCommand}
    /\ KeyOf(command[p][1]) = key
    /\ StoredAs(key, command[p][2]) = Infinite

\* A key has a value that was accepted for it, or the null of a lost number.
Sound(key, value) ==
  \/ Acceptable(key, value)
  \/ key \in NumberKeys /\ value = Null /\ Overflowed(key)

\* Whatever commands overlapped and whichever were killed, the settings a
\* command works with are complete, and each is one that was accepted: neither
\* a torn file nor a refused text reaches it. The one exception is a number
\* some command set to an infinite value: it may come back as null.
LoadedConfigIsValid ==
  \A c \in {LoadConfig} \union {config[p] : p \in Processes} :
    DOMAIN c = Keys /\ \A key \in Keys : Sound(key, c[key])

\* As long as commands ran one after the other to their ends, the settings are
\* those of the last set of each key since the last reset, with null for an
\* infinite number; a command that runs then uses them, the wallet of the same
\* settings included.
SettingsKept ==
  undisturbed =>
    /\ (\A p \in Processes : pc[p] # "writing") => LoadConfig = Stringified(wanted)
    /\ \A p \in Processes :
         (command[p] = UseCommand /\ pc[p] = "ended" /\ \A q \in Processes : ~Running(q)) =>
           walletPath[p] = config[p]["walletPath"]
=============================================================================
