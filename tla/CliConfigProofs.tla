--------------------------- MODULE CliConfigProofs ---------------------------
(***************************************************************************)
(* Theorems about the settings file, for every set of processes, every     *)
(* set of settings and every table of keys: whatever was killed or         *)
(* overlapped, what a process reads was accepted, or is the null of a      *)
(* number too large for the file; and it is what was set as long as        *)
(* nothing was killed or overlapped.                                       *)
(***************************************************************************)
EXTENDS CliConfig, TLAPS

-----------------------------------------------------------------------------
(* The inductive invariant *)

Labels == {"idle", "started", "saving", "writing", "loaded", "ended"}

FileTypes ==
  /\ pc \in [Processes -> Labels]
  /\ DOMAIN command = Processes /\ DOMAIN config = Processes
  /\ DOMAIN walletPath = Processes
  /\ DOMAIN wanted = Keys
  /\ undisturbed \in BOOLEAN
  /\ \A p \in Processes : pc[p] = "idle" => command[p] = UseCommand

\* The keys some command was given an infinite number for.
Lost == {key \in Keys : Overflowed(key)}

\* A value a process may hold for a key, when numbers were lost for these keys.
Fits(key, value, lost) ==
  /\ Acceptable(key, value) \/ (key \in NumberKeys \intersect lost /\ value = Null)
  /\ key \in NumberKeys /\ value = Infinite => key \in lost

ValidConfig(c, lost) == DOMAIN c = Keys /\ \A key \in Keys : Fits(key, c[key], lost)

\* Whoever wrote the file wrote settings that were accepted.
OnlyValidSettings ==
  /\ file \in {Absent, Torn} \/ ValidConfig(file, Lost)
  /\ \A p \in Processes : ValidConfig(config[p], Lost)

\* What the settings ought to be once a process has saved.
Intended(p) ==
  IF command[p] = ResetCommand THEN DefaultConfig
  ELSE [wanted EXCEPT ![KeyOf(command[p][1])] = config[p][KeyOf(command[p][1])]]

OneAtATime == \A p, q \in Processes : Running(p) /\ Running(q) => p = q

\* Where a process is, the file, and what the process holds.
StepsInOrder(p) ==
  /\ pc[p] \in {"saving", "writing"} =>
       command[p] # UseCommand /\ Stringified(config[p]) = Stringified(Intended(p))
  /\ pc[p] = "writing" => file = Torn
  /\ pc[p] = "loaded" => config[p] = LoadConfig
  /\ pc[p] = "ended" /\ command[p] = UseCommand =>
       walletPath[p] = config[p]["walletPath"]

Undisturbed ==
  /\ OneAtATime
  /\ (\A p \in Processes : pc[p] # "writing") => LoadConfig = Stringified(wanted)
  /\ \A p \in Processes : StepsInOrder(p)

FileInv == FileTypes /\ OnlyValidSettings /\ (undisturbed => Undisturbed)

-----------------------------------------------------------------------------
(* What the helpers return *)

LEMMA DefaultsFit ==
  ASSUME NEW lost
  PROVE  ValidConfig(DefaultConfig, lost) /\ Stringified(DefaultConfig) = DefaultConfig
<1>1. ValidConfig(DefaultConfig, lost)
  BY DefaultsAssumption DEF ValidConfig, Fits, Keys
<1>2. Stringified(DefaultConfig) = DefaultConfig
  BY DefaultsAssumption DEF Stringified, Keys
<1> QED BY <1>1, <1>2

LEMMA LoadsValid ==
  ASSUME OnlyValidSettings
  PROVE  ValidConfig(LoadConfig, Lost)
BY DefaultsFit DEF OnlyValidSettings, LoadConfig

\* The more numbers were lost, the more values fit.
LEMMA ValidGrows ==
  ASSUME NEW c, NEW lost, NEW more, lost \subseteq more, ValidConfig(c, lost)
  PROVE  ValidConfig(c, more)
BY DEF ValidConfig, Fits

\* Valid settings stay so when one of them is replaced by a value that fits.
LEMMA SetValid ==
  ASSUME NEW c, NEW lost, ValidConfig(c, lost), NEW key \in Keys, NEW value,
         Fits(key, value, lost)
  PROVE  ValidConfig([c EXCEPT ![key] = value], lost)
<1> DEFINE d == [c EXCEPT ![key] = value]
<1>1. DOMAIN c = Keys /\ \A k \in Keys : Fits(k, c[k], lost)
  BY DEF ValidConfig
<1>2. DOMAIN d = Keys /\ d[key] = value /\ \A k \in Keys \ {key} : d[k] = c[k]
  BY <1>1
<1> HIDE DEF d
<1>3. \A k \in Keys : Fits(k, d[k], lost)
  <2> SUFFICES ASSUME NEW k \in Keys PROVE Fits(k, d[k], lost)
    OBVIOUS
  <2>1. CASE k = key
    BY <1>2, <2>1
  <2>2. CASE k # key
    BY <1>1, <1>2, <2>2
  <2> QED BY <2>1, <2>2
<1>4. ValidConfig(d, lost)
  BY <1>2, <1>3 DEF ValidConfig
<1> QED BY <1>4 DEF d

\* What is written of valid settings is valid, and it parses.
LEMMA StringifiedValid ==
  ASSUME NEW c, NEW lost, ValidConfig(c, lost)
  PROVE  ValidConfig(Stringified(c), lost) /\ Stringified(c) \notin {Absent, Torn}
<1>1. DOMAIN Stringified(c) = Keys
  BY DEF ValidConfig, Stringified
<1>2. ASSUME NEW key \in Keys PROVE Fits(key, Stringified(c)[key], lost)
  <2>1. Fits(key, c[key], lost)
    BY DEF ValidConfig
  <2>2. CASE key \in NumberKeys /\ c[key] = Infinite
    <3>1. Stringified(c)[key] = Null
      BY <2>2 DEF Stringified, ValidConfig
    <3> QED BY <2>1, <2>2, <3>1, NumberAssumption DEF Fits
  <2>3. CASE ~(key \in NumberKeys /\ c[key] = Infinite)
    <3>1. Stringified(c)[key] = c[key]
      BY <2>3 DEF Stringified, ValidConfig
    <3> QED BY <2>1, <3>1
  <2> QED BY <2>2, <2>3
<1> QED BY <1>1, <1>2, FileAssumption DEF ValidConfig

\* To write, read and change is to change and write.
LEMMA StringifiedOnce ==
  ASSUME NEW c, NEW key, NEW value
  PROVE  Stringified([Stringified(c) EXCEPT ![key] = value])
           = Stringified([c EXCEPT ![key] = value])
<1> DEFINE a == [Stringified(c) EXCEPT ![key] = value]
           b == [c EXCEPT ![key] = value]
<1>1. DOMAIN Stringified(c) = DOMAIN c
  BY DEF Stringified
<1>2. DOMAIN a = DOMAIN c /\ DOMAIN b = DOMAIN c
  BY <1>1
<1>3. ASSUME NEW k \in DOMAIN c PROVE Stringified(a)[k] = Stringified(b)[k]
  <2>1. CASE k = key
    <3>1. a[k] = value /\ b[k] = value
      BY <1>1, <2>1
    <3> HIDE DEF a, b
    <3> QED BY <1>2, <3>1 DEF Stringified
  <2>2. CASE k # key
    <3>1. a[k] = Stringified(c)[k] /\ b[k] = c[k]
      BY <1>1, <2>2
    <3> HIDE DEF a, b
    <3>2. a[k] = IF k \in NumberKeys /\ c[k] = Infinite THEN Null ELSE c[k]
      BY <3>1 DEF Stringified
    <3> QED BY <1>2, <3>1, <3>2, NumberAssumption DEF Stringified
  <2> QED BY <2>1, <2>2
<1> HIDE DEF a, b
<1>4. Stringified(a) = Stringified(b)
  <2>1. /\ Stringified(a) = [k \in DOMAIN c |-> Stringified(a)[k]]
        /\ Stringified(b) = [k \in DOMAIN c |-> Stringified(b)[k]]
    BY <1>2 DEF Stringified
  <2> QED BY <1>3, <2>1
<1> QED BY <1>4 DEF a, b

-----------------------------------------------------------------------------
(* A process *)

LEMMA InitFile == Init => FileInv
<1> SUFFICES ASSUME Init PROVE FileInv
  OBVIOUS
<1>1. FileTypes
  BY DEF Init, FileTypes, Labels, Keys
<1>2. OnlyValidSettings
  BY DefaultsFit DEF Init, OnlyValidSettings
<1>3. Undisturbed
  BY DefaultsFit DEF Init, Undisturbed, OneAtATime, Running, StepsInOrder, LoadConfig
<1> QED BY <1>1, <1>2, <1>3 DEF FileInv

\* A step of one process leaves the others where they are; alone, it may move
\* on, and to "ended" it may move even from "idle".
LEMMA OneMoves ==
  ASSUME FileTypes, NEW p \in Processes, NEW label \in Labels, Goto(p, label)
  PROVE  /\ pc'[p] = label
         /\ \A q \in Processes \ {p} : pc'[q] = pc[q]
         /\ pc' \in [Processes -> Labels]
BY DEF FileTypes, Goto

LEMMA StillAlone ==
  ASSUME FileTypes, NEW p \in Processes, NEW label \in Labels, Goto(p, label),
         OneAtATime, Running(p)
  PROVE  OneAtATime' /\ \A q \in Processes \ {p} : ~Running(q) /\ ~Running(q)'
<1>1. /\ pc'[p] = label
      /\ \A q \in Processes \ {p} : pc'[q] = pc[q]
  BY OneMoves
<1>2. \A q \in Processes \ {p} : ~Running(q) /\ ~Running(q)'
  BY <1>1 DEF OneAtATime, Running
<1> QED BY <1>2 DEF OneAtATime

LEMMA StartKeeps ==
  ASSUME FileInv, NEW p \in Processes, NEW c, Start(p, c)
  PROVE  FileInv'
<1>1. /\ pc[p] = "idle" /\ Goto(p, "started")
      /\ command' = [command EXCEPT ![p] = c]
      /\ undisturbed' = (undisturbed /\ \A q \in Processes : ~Running(q))
      /\ UNCHANGED <<file, config, walletPath, wanted>>
  BY DEF Start
<1>2. /\ pc'[p] = "started" /\ \A q \in Processes \ {p} : pc'[q] = pc[q]
      /\ pc' \in [Processes -> Labels]
  BY <1>1, OneMoves DEF FileInv, Labels
<1>3. undisturbed' \in BOOLEAN
  BY <1>1 
<1>4. FileTypes'
  BY <1>1, <1>2, <1>3 DEF FileInv, FileTypes
<1>5. OnlyValidSettings'
  <2>1. Lost \subseteq Lost'
    <3> SUFFICES ASSUME NEW key \in Keys, Overflowed(key) PROVE Overflowed(key)'
      BY DEF Lost, Keys
    <3>1. PICK q \in Processes : /\ command[q] \notin {UseCommand, ResetCommand}
                                 /\ KeyOf(command[q][1]) = key
                                 /\ StoredAs(key, command[q][2]) = Infinite
      BY DEF Overflowed
    <3>2. q # p
      BY <1>1, <3>1 DEF FileInv, FileTypes
    <3>3. command'[q] = command[q]
      BY <1>1, <3>2 DEF FileInv, FileTypes
    <3> QED BY <3>1, <3>3 DEF Overflowed, UseCommand, ResetCommand
  <2>2. ASSUME NEW q \in Processes PROVE ValidConfig(config[q], Lost')
    BY <2>1, ValidGrows DEF FileInv, OnlyValidSettings
  <2>3. file \in {Absent, Torn} \/ ValidConfig(file, Lost')
    BY <2>1, ValidGrows DEF FileInv, OnlyValidSettings
  <2> QED BY <1>1, <2>2, <2>3 DEF OnlyValidSettings
<1>6. ASSUME undisturbed' PROVE Undisturbed'
  <2>1. Undisturbed /\ \A q \in Processes : ~Running(q)
    BY <1>1, <1>6 DEF FileInv
  <2>2. OneAtATime'
    BY <1>2, <2>1 DEF OneAtATime, Running
  <2>3. LoadConfig' = Stringified(wanted')
    BY <1>1, <2>1 DEF Undisturbed, LoadConfig, Running
  <2>4. ASSUME NEW q \in Processes PROVE StepsInOrder(q)'
    <3>1. CASE q = p
      BY <1>2, <3>1 DEF StepsInOrder
    <3>2. CASE q # p
      <4>1. pc'[q] = pc[q] /\ command'[q] = command[q] /\ StepsInOrder(q)
        BY <1>1, <1>2, <2>1, <3>2 DEF FileInv, FileTypes, Undisturbed
      <4> QED BY <1>1, <4>1 DEF StepsInOrder, Intended, LoadConfig
    <3> QED BY <3>1, <3>2
  <2> QED BY <2>2, <2>3, <2>4 DEF Undisturbed
<1> QED BY <1>4, <1>5, <1>6 DEF FileInv

\* A process moves on and leaves the file alone: what it holds must fit the
\* place it moves to.
LEMMA MovesOn ==
  ASSUME FileInv, NEW p \in Processes, NEW label \in Labels,
         Goto(p, label), Running(p), pc[p] # "writing", label \notin {"idle", "writing"},
         UNCHANGED <<file, command, wanted, undisturbed>>,
         DOMAIN config' = Processes, DOMAIN walletPath' = Processes,
         \A q \in Processes \ {p} :
           config'[q] = config[q] /\ walletPath'[q] = walletPath[q],
         ValidConfig(config'[p], Lost),
         undisturbed /\ LoadConfig = Stringified(wanted) => StepsInOrder(p)'
  PROVE  FileInv'
<1>1. /\ pc'[p] = label /\ \A q \in Processes \ {p} : pc'[q] = pc[q]
      /\ pc' \in [Processes -> Labels]
  BY OneMoves DEF FileInv
<1>2. FileTypes'
  BY <1>1 DEF FileInv, FileTypes
<1>3. OnlyValidSettings'
  <2>1. \A q \in Processes : ValidConfig(config'[q], Lost)
    BY DEF FileInv, OnlyValidSettings
  <2>2. Lost' = Lost
    BY DEF Lost, Overflowed
  <2> QED BY <2>1, <2>2 DEF FileInv, OnlyValidSettings
<1>4. ASSUME undisturbed' PROVE Undisturbed'
  <2>1. Undisturbed
    BY <1>4 DEF FileInv
  <2>2. OneAtATime' /\ \A q \in Processes \ {p} : ~Running(q)
    BY <2>1, StillAlone DEF FileInv, Undisturbed
  <2>3. LoadConfig = Stringified(wanted)
    BY <2>1, <2>2 DEF Undisturbed, Running
  <2>4. LoadConfig' = Stringified(wanted')
    BY <2>3 DEF LoadConfig
  <2>5. ASSUME NEW q \in Processes PROVE StepsInOrder(q)'
    <3>1. CASE q = p
      BY <1>4, <2>3, <3>1
    <3>2. CASE q # p
      <4>1. /\ pc'[q] = pc[q] /\ command'[q] = command[q] /\ StepsInOrder(q)
            /\ config'[q] = config[q] /\ walletPath'[q] = walletPath[q]
        BY <1>1, <2>1, <3>2 DEF Undisturbed
      <4> QED BY <4>1 DEF StepsInOrder, Intended, LoadConfig
    <3> QED BY <3>1, <3>2
  <2> QED BY <2>2, <2>4, <2>5 DEF Undisturbed
<1> QED BY <1>2, <1>3, <1>4 DEF FileInv

LEMMA ResetKeeps ==
  ASSUME FileInv, NEW p \in Processes, Reset(p)
  PROVE  FileInv'
<1>1. /\ pc[p] = "started" /\ command[p] = ResetCommand /\ Goto(p, "saving")
      /\ config' = [config EXCEPT ![p] = DefaultConfig]
      /\ UNCHANGED <<file, command, walletPath, wanted, undisturbed>>
  BY DEF Reset
<1>2. /\ config'[p] = DefaultConfig /\ DOMAIN config' = Processes
      /\ \A q \in Processes \ {p} : config'[q] = config[q]
  BY <1>1 DEF FileInv, FileTypes
<1>3. StepsInOrder(p)'
  <2>1. pc'[p] = "saving"
    BY <1>1, OneMoves DEF FileInv, Labels
  <2>2. ResetCommand # UseCommand
    BY DEF ResetCommand, UseCommand
  <2>3. command'[p] = ResetCommand /\ config'[p] = Intended(p)'
    BY <1>1, <1>2 DEF Intended, ResetCommand
  <2>4. command'[p] # UseCommand'
    BY <2>2, <2>3 DEF UseCommand, ResetCommand
  <2> QED BY <2>1, <2>3, <2>4 DEF StepsInOrder
<1> QED BY <1>1, <1>2, <1>3, MovesOn, DefaultsFit
        DEF FileInv, FileTypes, Running, Labels

LEMMA SetKeeps ==
  ASSUME FileInv, NEW p \in Processes, Set(p)
  PROVE  FileInv'
<1> DEFINE key == KeyOf(command[p][1])
           value == StoredAs(key, command[p][2])
<1>1. /\ pc[p] = "started" /\ command[p] \notin {UseCommand, ResetCommand}
      /\ UNCHANGED <<file, command, walletPath, wanted, undisturbed>>
  BY DEF Set
<1>2. ValidConfig(LoadConfig, Lost) /\ ValidConfig(config[p], Lost)
  BY LoadsValid DEF FileInv, OnlyValidSettings
<1>3. CASE key \in Keys /\ Acceptable(key, value)
  <2> DEFINE new == [LoadConfig EXCEPT ![key] = value]
  <2>1. Goto(p, "saving") /\ config' = [config EXCEPT ![p] = new]
    BY <1>3 DEF Set
  <2>2. ValidConfig(new, Lost)
    <3>1. value = Infinite => key \in Lost
      BY <1>1, <1>3 DEF Lost, Overflowed
    <3>2. Fits(key, value, Lost)
      BY <1>3, <3>1 DEF Fits
    <3> HIDE DEF key, value
    <3> QED BY <1>2, <1>3, <3>2, SetValid
  <2>5. new[key] = value
    BY <1>2, <1>3 DEF ValidConfig
  <2> HIDE DEF new
  <2>3. /\ config'[p] = new /\ DOMAIN config' = Processes
        /\ \A q \in Processes \ {p} : config'[q] = config[q]
    BY <2>1 DEF FileInv, FileTypes
  <2>4. ASSUME LoadConfig = Stringified(wanted) PROVE StepsInOrder(p)'
    <3>1. pc'[p] = "saving"
      BY <2>1, OneMoves DEF FileInv, Labels
    <3>2. Stringified(config'[p]) = Stringified([wanted EXCEPT ![key] = config'[p][key]])
      <4>1. config'[p] = [Stringified(wanted) EXCEPT ![key] = value] /\ config'[p][key] = value
        BY <2>3, <2>4, <2>5 DEF new
      <4> HIDE DEF key, value
      <4>2. Stringified([Stringified(wanted) EXCEPT ![key] = value])
              = Stringified([wanted EXCEPT ![key] = value])
        BY StringifiedOnce, Zenon
      <4> QED BY ONLY <4>1, <4>2
    <3>3. Stringified(config'[p]) = Stringified(Intended(p)')
      BY <1>1, <3>2 DEF Intended, KeyOf, ResetCommand
    <3> QED BY <1>1, <3>1, <3>3 DEF StepsInOrder
  <2> QED BY <1>1, <2>1, <2>2, <2>3, <2>4, MovesOn
          DEF FileInv, FileTypes, Running, Labels
<1>4. CASE ~(key \in Keys /\ Acceptable(key, value))
  <2>1. UNCHANGED config /\ Goto(p, "ended")
    BY <1>4 DEF Set
  <2>2. StepsInOrder(p)'
    <3>1. pc'[p] = "ended"
      BY <2>1, OneMoves DEF FileInv, Labels
    <3> QED BY <1>1, <3>1 DEF StepsInOrder
  <2> QED BY <1>1, <1>2, <2>1, <2>2, MovesOn
          DEF FileInv, FileTypes, Running, Labels
<1> QED BY <1>3, <1>4

LEMMA LoadKeeps ==
  ASSUME FileInv, NEW p \in Processes, Load(p)
  PROVE  FileInv'
<1>1. /\ pc[p] = "started" /\ command[p] = UseCommand /\ Goto(p, "loaded")
      /\ config' = [config EXCEPT ![p] = LoadConfig]
      /\ UNCHANGED <<file, command, walletPath, wanted, undisturbed>>
  BY DEF Load
<1>2. /\ config'[p] = LoadConfig /\ DOMAIN config' = Processes
      /\ \A q \in Processes \ {p} : config'[q] = config[q]
  BY <1>1 DEF FileInv, FileTypes
<1>3. StepsInOrder(p)'
  <2>1. pc'[p] = "loaded"
    BY <1>1, OneMoves DEF FileInv, Labels
  <2> QED BY <1>1, <1>2, <2>1 DEF StepsInOrder, LoadConfig
<1>4. ValidConfig(LoadConfig, Lost)
  BY LoadsValid DEF FileInv
<1> QED BY <1>1, <1>2, <1>3, <1>4, MovesOn
        DEF FileInv, FileTypes, Running, Labels

LEMMA LoadWalletKeeps ==
  ASSUME FileInv, NEW p \in Processes, LoadWallet(p)
  PROVE  FileInv'
<1>1. /\ pc[p] = "loaded" /\ Goto(p, "ended")
      /\ walletPath' = [walletPath EXCEPT ![p] = LoadConfig["walletPath"]]
      /\ UNCHANGED <<file, command, config, wanted, undisturbed>>
  BY DEF LoadWallet
<1>2. /\ walletPath'[p] = LoadConfig["walletPath"] /\ DOMAIN walletPath' = Processes
      /\ \A q \in Processes \ {p} : walletPath'[q] = walletPath[q]
  BY <1>1 DEF FileInv, FileTypes
<1>3. ASSUME undisturbed PROVE StepsInOrder(p)'
  <2>1. pc'[p] = "ended"
    BY <1>1, OneMoves DEF FileInv, Labels
  <2>2. config[p] = LoadConfig
    BY <1>1, <1>3 DEF FileInv, Undisturbed, StepsInOrder
  <2> QED BY <1>1, <1>2, <2>1, <2>2 DEF StepsInOrder
<1>4. ValidConfig(config'[p], Lost)
  BY <1>1 DEF FileInv, OnlyValidSettings
<1> QED BY <1>1, <1>2, <1>3, <1>4, MovesOn
        DEF FileInv, FileTypes, Running, Labels

LEMMA TruncateKeeps ==
  ASSUME FileInv, NEW p \in Processes, Truncate(p)
  PROVE  FileInv'
<1>1. /\ pc[p] = "saving" /\ Goto(p, "writing") /\ file' = Torn
      /\ UNCHANGED <<command, config, walletPath, wanted, undisturbed>>
  BY DEF Truncate
<1>2. /\ pc'[p] = "writing" /\ \A q \in Processes \ {p} : pc'[q] = pc[q]
      /\ pc' \in [Processes -> Labels]
  BY <1>1, OneMoves DEF FileInv, Labels
<1>3. FileTypes'
  BY <1>1, <1>2 DEF FileInv, FileTypes
<1>4. OnlyValidSettings'
  BY <1>1 DEF FileInv, OnlyValidSettings, Lost, Overflowed
<1>5. ASSUME undisturbed' PROVE Undisturbed'
  <2>1. Undisturbed
    BY <1>1, <1>5 DEF FileInv
  <2>2. OneAtATime' /\ \A q \in Processes \ {p} : ~Running(q)
    BY <1>1, <2>1, StillAlone DEF FileInv, Undisturbed, Running, Labels
  <2>3. ASSUME NEW q \in Processes PROVE StepsInOrder(q)'
    <3>1. CASE q = p
      <4>1. /\ command'[p] # UseCommand'
            /\ Stringified(config'[p]) = Stringified(Intended(p)')
        BY <1>1, <2>1 DEF Undisturbed, StepsInOrder, Intended, UseCommand
      <4> QED BY <1>1, <1>2, <3>1, <4>1 DEF StepsInOrder
    <3>2. CASE q # p
      <4>1. pc'[q] = pc[q] /\ StepsInOrder(q) /\ ~Running(q)
        BY <1>2, <2>1, <2>2, <3>2 DEF Undisturbed
      <4> QED BY <1>1, <4>1 DEF StepsInOrder, Running
    <3> QED BY <3>1, <3>2
  <2> QED BY <1>2, <2>2, <2>3 DEF Undisturbed
<1> QED BY <1>3, <1>4, <1>5 DEF FileInv

LEMMA WriteKeeps ==
  ASSUME FileInv, NEW p \in Processes, Write(p)
  PROVE  FileInv'
<1> DEFINE key == KeyOf(command[p][1])
<1>1. /\ pc[p] = "writing" /\ Goto(p, "ended")
      /\ file' = Stringified(config[p]) \/ (file # Torn /\ file' = Torn)
      /\ UNCHANGED <<command, config, walletPath, undisturbed>>
  BY DEF Write
<1>2. wanted' = IF command[p] = ResetCommand THEN DefaultConfig
                ELSE [wanted EXCEPT ![key] = config[p][key]]
  BY DEF Write
<1>3. /\ pc'[p] = "ended" /\ \A q \in Processes \ {p} : pc'[q] = pc[q]
      /\ pc' \in [Processes -> Labels]
  BY <1>1, OneMoves DEF FileInv, Labels
<1>4. FileTypes'
  <2>1. DOMAIN wanted' = Keys
    <3> HIDE DEF key
    <3> QED BY <1>2 DEF FileInv, FileTypes, Keys
  <2> QED BY <1>1, <1>3, <2>1 DEF FileInv, FileTypes
<1>5. ValidConfig(Stringified(config[p]), Lost) /\ Stringified(config[p]) \notin {Absent, Torn}
  BY StringifiedValid DEF FileInv, OnlyValidSettings
<1>7. OnlyValidSettings'
  <2>1. Lost' = Lost
    BY <1>1 DEF Lost, Overflowed
  <2> QED BY <1>1, <1>5, <2>1 DEF FileInv, OnlyValidSettings
<1>8. ASSUME undisturbed' PROVE Undisturbed'
  <2>1. Undisturbed
    BY <1>1, <1>8 DEF FileInv
  <2>2. OneAtATime' /\ \A q \in Processes \ {p} : ~Running(q)
    BY <1>1, <2>1, StillAlone DEF FileInv, Undisturbed, Running, Labels
  <2>3. /\ file = Torn /\ command[p] # UseCommand
        /\ Stringified(config[p]) = Stringified(Intended(p))
    BY <1>1, <2>1 DEF Undisturbed, StepsInOrder
  <2>4. file' = Stringified(config[p]) /\ wanted' = Intended(p)
    BY <1>1, <1>2, <2>3 DEF Intended
  <2>5. LoadConfig' = Stringified(wanted')
    BY <1>5, <2>3, <2>4 DEF LoadConfig
  <2>6. ASSUME NEW q \in Processes PROVE StepsInOrder(q)'
    <3>1. CASE q = p
      <4>1. command'[p] # UseCommand'
        BY <1>1, <2>3 DEF UseCommand
      <4> QED BY <1>3, <3>1, <4>1 DEF StepsInOrder
    <3>2. CASE q # p
      <4>1. pc'[q] = pc[q] /\ StepsInOrder(q) /\ ~Running(q)
        BY <1>3, <2>1, <2>2, <3>2 DEF Undisturbed
      <4> QED BY <1>1, <4>1 DEF StepsInOrder, Running
    <3> QED BY <3>1, <3>2
  <2> QED BY <2>2, <2>5, <2>6 DEF Undisturbed
<1> QED BY <1>4, <1>7, <1>8 DEF FileInv

LEMMA KillKeeps ==
  ASSUME FileInv, NEW p \in Processes, Kill(p)
  PROVE  FileInv'
<1>1. /\ Goto(p, "ended") /\ undisturbed' = FALSE
      /\ UNCHANGED <<file, command, config, walletPath, wanted>>
  BY DEF Kill
<1>2. pc' \in [Processes -> Labels]
  BY <1>1, OneMoves DEF FileInv, Labels
<1>3. \A q \in Processes : pc'[q] = "idle" => pc[q] = "idle"
  BY <1>1, OneMoves DEF FileInv, Labels
<1> QED BY <1>1, <1>2, <1>3 DEF FileInv, FileTypes, OnlyValidSettings, Lost, Overflowed

LEMMA NextFile ==
  ASSUME FileInv, [Next]_vars
  PROVE  FileInv'
<1>1. ASSUME NEW p \in Processes,
             \/ \E c \in Settings \union {UseCommand, ResetCommand} : Start(p, c)
             \/ Reset(p) \/ Set(p) \/ Truncate(p) \/ Write(p)
             \/ Load(p) \/ LoadWallet(p) \/ Kill(p)
      PROVE  FileInv'
  BY <1>1, StartKeeps, ResetKeeps, SetKeeps, TruncateKeeps, WriteKeeps,
     LoadKeeps, LoadWalletKeeps, KillKeeps
<1>2. CASE UNCHANGED vars
  BY <1>2 DEF vars, FileInv, FileTypes, OnlyValidSettings, Undisturbed, OneAtATime,
              Running, StepsInOrder, Intended, LoadConfig, Lost, Overflowed
<1> QED BY <1>1, <1>2 DEF Next

-----------------------------------------------------------------------------
(* Theorems *)

\* The settings file, the processes and what they hold fit together.
THEOREM FileInvariant == Spec => []FileInv
<1> QED BY InitFile, NextFile, PTL DEF Spec

\* Whatever was killed, whatever ran at the same time and whatever was asked
\* for, a command works with settings that are complete and were accepted, but
\* for the null of a number that some command set to an infinite value.
THEOREM SettingsAreValid == Spec => []LoadedConfigIsValid
<1>1. FileInv => LoadedConfigIsValid
  <2>1. ASSUME NEW c, ValidConfig(c, Lost)
        PROVE  DOMAIN c = Keys /\ \A key \in Keys : Sound(key, c[key])
    BY <2>1 DEF ValidConfig, Fits, Sound, Lost
  <2> QED BY <2>1, LoadsValid DEF FileInv, LoadedConfigIsValid, OnlyValidSettings
<1> QED BY <1>1, FileInvariant, PTL

\* Commands that run one after the other leave the settings they were given,
\* and the next one takes them and the wallet from one and the same state.
THEOREM SettingsAreKept == Spec => []SettingsKept
<1>1. FileInv => SettingsKept
  BY DEF FileInv, Undisturbed, StepsInOrder, SettingsKept
<1> QED BY <1>1, FileInvariant, PTL
=============================================================================
