---------------------------- MODULE StealthProofs ----------------------------
(***************************************************************************)
(* Theorems about the stealth registries and the scans of their            *)
(* recipients, for every set of owners and ephemeral keys, every hash the  *)
(* view tags come from, colliding ones included, and any number of scans.  *)
(***************************************************************************)
EXTENDS StealthClient, TLAPS

-----------------------------------------------------------------------------
(* The registries *)

RegistryTypes ==
  \A o \in DOMAIN registry :
    registry[o] \in [isActive : BOOLEAN, addressCount : Nat]

\* What one step may not do to a registry or a resolved address.
Final ==
  /\ \A o \in DOMAIN registry : ~registry[o].isActive =>
       ~registry'[o].isActive /\ registry'[o].addressCount = registry[o].addressCount
  /\ \A a \in DOMAIN stealth : stealth[a] => stealth'[a]

LEMMA RegistryStep ==
  ASSUME RegistryTypes, [RegistryNext]_registryVars
  PROVE  RegistryTypes' /\ Final
<1>1. ASSUME NEW o \in Owners, Register(o)
      PROVE  RegistryTypes' /\ Final
  <2>1. /\ o \notin DOMAIN registry /\ stealth' = stealth
        /\ registry' = With(registry, o, [isActive |-> TRUE, addressCount |-> 0])
    BY <1>1 DEF Register, Registered
  <2>2. /\ DOMAIN registry' = DOMAIN registry \union {o}
        /\ registry'[o] = [isActive |-> TRUE, addressCount |-> 0]
        /\ \A p \in DOMAIN registry : registry'[p] = registry[p]
    BY <2>1 DEF With
  <2>3. [isActive |-> TRUE, addressCount |-> 0]
          \in [isActive : BOOLEAN, addressCount : Nat]
    OBVIOUS
  <2>4. RegistryTypes'
    BY <2>2, <2>3 DEF RegistryTypes
  <2> QED BY <2>1, <2>2, <2>4 DEF Final
<1>2. ASSUME NEW o \in Owners, Deactivate(o)
      PROVE  RegistryTypes' /\ Final
  <2>1. /\ o \in DOMAIN registry /\ stealth' = stealth
        /\ registry' = [registry EXCEPT ![o].isActive = FALSE]
    BY <1>2 DEF Deactivate, Registered
  <2>2. /\ DOMAIN registry' = DOMAIN registry
        /\ registry'[o] = [registry[o] EXCEPT !.isActive = FALSE]
        /\ \A p \in DOMAIN registry \ {o} : registry'[p] = registry[p]
    BY <2>1
  <2>3. RegistryTypes'
    BY <2>1, <2>2 DEF RegistryTypes
  <2> QED BY <2>1, <2>2, <2>3 DEF RegistryTypes, Final
<1>3. ASSUME NEW o \in Owners, NEW e \in ResolveKeys, Resolve(o, e)
      PROVE  RegistryTypes' /\ Final
  <2>1. /\ o \in DOMAIN registry /\ registry[o].isActive
        /\ <<o, e>> \notin DOMAIN stealth
        /\ stealth' = With(stealth, <<o, e>>, FALSE)
        /\ registry' = [registry EXCEPT ![o].addressCount = @ + 1]
    BY <1>3 DEF Resolve, Registered, Resolved
  <2>2. /\ DOMAIN registry' = DOMAIN registry
        /\ registry'[o] = [registry[o] EXCEPT !.addressCount = registry[o].addressCount + 1]
        /\ \A p \in DOMAIN registry \ {o} : registry'[p] = registry[p]
    BY <2>1
  <2>3. \A a \in DOMAIN stealth : stealth'[a] = stealth[a]
    BY <2>1 DEF With
  <2>4. RegistryTypes'
    BY <2>1, <2>2, <2>3 DEF RegistryTypes
  <2> QED BY <2>1, <2>2, <2>3, <2>4 DEF RegistryTypes, Final
<1>4. ASSUME NEW o \in Owners, NEW e \in ResolveKeys, Claim(o, e)
      PROVE  RegistryTypes' /\ Final
  BY <1>4 DEF Claim, Resolved, RegistryTypes, Final
<1>5. CASE UNCHANGED <<registry, stealth>>
  BY <1>5 DEF RegistryTypes, Final
<1> QED BY <1>1, <1>2, <1>3, <1>4, <1>5 DEF RegistryNext, Pause, Resume, registryVars

-----------------------------------------------------------------------------
(* The scans *)

Scan ==
  [running : BOOLEAN, logs : BOOLEAN, from : Nat, to : Nat,
   fetched : SUBSET announcements, todo : SUBSET announcements,
   payments : SUBSET announcements]

\* What `stealth send` prints for o and e.
Printed(o, e) ==
  [recipient |-> o, ephemeral |-> e, tag |-> ViewTag(e, ViewKey(o)),
   address |-> AddressOf(o, e)]

\* What is announced is a printed address; an account of each pair is made once.
AnnouncedProperly ==
  /\ \A g \in generated : \E o \in Owners, e \in Ephemerals : g = Printed(o, e)
  /\ \A a \in announcements : \E g \in generated : a.address = g.address
  /\ \A a, b \in announcements :
       a.ephemeral = b.ephemeral /\ a.address = b.address => a = b

Wanted(o, announced) ==
  {a \in announced : InRange(a, scan[o].from, scan[o].to) /\ WellAnnounced(o, a)}

\* What was found so far is what the announcements looked at so far hold.
FoundSoFar(o) ==
  /\ scan[o].todo \subseteq scan[o].fetched
  /\ \A a \in scan[o].todo : InRange(a, scan[o].from, scan[o].to)
  /\ ~scan[o].running => scan[o].todo = {}
  /\ scan[o].payments = Wanted(o, scan[o].fetched \ scan[o].todo)

ScanInv ==
  /\ scan \in [Owners -> Scan]
  /\ AnnouncedProperly
  /\ \A o \in Owners : FoundSoFar(o)

LEMMA AddressNames ==
  ASSUME NEW o, NEW p, NEW e, NEW f, AddressOf(o, e) = AddressOf(p, f)
  PROVE  o = p /\ e = f
  BY DEF AddressOf, OneTimeAddress, SharedSecret, SpendKey, ViewKey

\* The recipient recognises an announcement just when it is what was printed
\* for a payment to the recipient, whatever the tags and keys announced beside
\* an address: nobody else's keys give it, and no other ephemeral key.
LEMMA RecognisedIsOwn ==
  ASSUME AnnouncedProperly, NEW o \in Owners, NEW a \in announcements
  PROVE  Recognised(o, a) <=> WellAnnounced(o, a)
<1>1. PICK g \in generated : a.address = g.address
  BY DEF AnnouncedProperly
<1>2. PICK p \in Owners, e \in Ephemerals : g = Printed(p, e)
  BY DEF AnnouncedProperly
<1>3. /\ g.recipient = p /\ g.ephemeral = e /\ g.tag = ViewTag(e, ViewKey(p))
      /\ g.address = AddressOf(p, e)
  BY <1>2 DEF Printed
<1>4. ASSUME Recognised(o, a) PROVE WellAnnounced(o, a)
  <2>1. AddressOf(o, a.ephemeral) = AddressOf(p, e) /\ ViewTag(a.ephemeral, ViewKey(o)) = a.tag
    BY <1>1, <1>3, <1>4 DEF Recognised, CheckViewTag
  <2>2. o = p /\ a.ephemeral = e
    BY <2>1, AddressNames
  <2> QED BY <1>1, <1>3, <2>1, <2>2 DEF WellAnnounced
<1>5. ASSUME WellAnnounced(o, a) PROVE Recognised(o, a)
  <2>1. PICK h \in generated :
          /\ h.recipient = o
          /\ a.ephemeral = h.ephemeral /\ a.address = h.address /\ a.tag = h.tag
    BY <1>5 DEF WellAnnounced
  <2>2. PICK q \in Owners, f \in Ephemerals : h = Printed(q, f)
    BY DEF AnnouncedProperly
  <2>3. /\ h.recipient = q /\ h.ephemeral = f /\ h.tag = ViewTag(f, ViewKey(q))
        /\ h.address = AddressOf(q, f)
    BY <2>2 DEF Printed
  <2> QED BY <2>1, <2>3 DEF Recognised, CheckViewTag
<1> QED BY <1>4, <1>5

\* No address is recognised twice.
LEMMA RecognisedOnce ==
  ASSUME AnnouncedProperly, NEW o \in Owners, NEW a \in announcements, NEW b \in announcements,
         Recognised(o, a), Recognised(o, b), a.address = b.address
  PROVE  a = b
<1>1. AddressOf(o, a.ephemeral) = AddressOf(o, b.ephemeral)
  BY DEF Recognised
<1>2. a.ephemeral = b.ephemeral
  BY <1>1, AddressNames
<1> QED BY <1>2 DEF AnnouncedProperly

LEMMA SameWanted ==
  ASSUME UNCHANGED generated, NEW o, scan'[o].from = scan[o].from, scan'[o].to = scan[o].to
  PROVE  \A fetched : Wanted(o, fetched)' = Wanted(o, fetched)
<1>1. \A a : WellAnnounced(o, a)' <=> WellAnnounced(o, a)
  BY DEF WellAnnounced
<1>2. \A a : InRange(a, scan[o].from, scan[o].to)' <=> InRange(a, scan[o].from, scan[o].to)
  BY DEF InRange
<1>3. ASSUME NEW fetched PROVE Wanted(o, fetched)' = Wanted(o, fetched)
  <2> DEFINE P(a) == InRange(a, scan[o].from, scan[o].to) /\ WellAnnounced(o, a)
  <2>1. \A a : P(a)' <=> P(a)
    BY <1>1, <1>2
  <2>2. Wanted(o, fetched) = {a \in fetched : P(a)}
    BY DEF Wanted
  <2>3. Wanted(o, fetched)' = {a \in fetched : P(a)'}
    BY DEF Wanted
  <2> HIDE DEF P
  <2> QED BY <2>1, <2>2, <2>3
<1> QED BY <1>3

LEMMA InitScan == Init => RegistryTypes /\ ScanInv
<1> SUFFICES ASSUME Init PROVE RegistryTypes /\ ScanInv
  OBVIOUS
<1>1. RegistryTypes
  BY DEF Init, RegistryInit, RegistryTypes
<1>2. scan \in [Owners -> Scan]
  BY DEF Init, ClientInit, Scan
<1>3. AnnouncedProperly
  BY DEF Init, ClientInit, AnnouncedProperly
<1>4. \A o \in Owners : FoundSoFar(o)
  BY DEF Init, ClientInit, FoundSoFar, Wanted
<1> QED BY <1>1, <1>2, <1>3, <1>4 DEF ScanInv

\* Senders go on while scans run: announcements only become more.
LEMMA SendersKeep ==
  ASSUME ScanInv, AnnouncedProperly', UNCHANGED scan,
         announcements \subseteq announcements', generated \subseteq generated',
         \A o \in Owners, a \in announcements : WellAnnounced(o, a)' <=> WellAnnounced(o, a)
  PROVE  ScanInv'
<1>1. scan' \in [Owners -> Scan']
  BY DEF ScanInv, Scan
<1>2. ASSUME NEW o \in Owners PROVE FoundSoFar(o)'
  <2>1. FoundSoFar(o) /\ scan[o] \in Scan /\ scan'[o] = scan[o]
    BY DEF ScanInv
  <2>2. scan[o].fetched \ scan[o].todo \subseteq announcements
    BY <2>1 DEF Scan
  <2>3. Wanted(o, scan[o].fetched \ scan[o].todo)' = Wanted(o, scan[o].fetched \ scan[o].todo)
    BY <2>1, <2>2 DEF Wanted, InRange
  <2> QED BY <2>1, <2>3 DEF FoundSoFar, InRange
<1> QED BY <1>1, <1>2 DEF ScanInv

\* One recipient's scan takes a step of its own.
LEMMA ScanKeeps ==
  ASSUME ScanInv, UNCHANGED <<announcements, generated>>, NEW o \in Owners,
         NEW s \in Scan, scan' = [scan EXCEPT ![o] = s], FoundSoFar(o)'
  PROVE  ScanInv'
<1>1. scan' \in [Owners -> Scan] /\ Scan' = Scan
  BY DEF ScanInv, Scan
<1>2. AnnouncedProperly'
  BY DEF ScanInv, AnnouncedProperly
<1>3. \A p \in Owners \ {o} : scan'[p] = scan[p]
  BY DEF ScanInv
<1>4. \A p \in Owners \ {o} : FoundSoFar(p)'
  BY <1>3 DEF ScanInv, FoundSoFar, Wanted, WellAnnounced
<1> QED BY <1>1, <1>2, <1>4 DEF ScanInv

LEMMA StartKeeps ==
  ASSUME ScanInv, NEW o \in Owners, NEW logs \in BOOLEAN,
         NEW from \in Nat, NEW to \in Nat,
         NEW fetched \in SUBSET announcements,
         Start(o, logs, from, to, fetched, {a \in fetched : InRange(a, from, to)})
  PROVE  ScanInv'
<1> DEFINE todo == {a \in fetched : InRange(a, from, to)}
           s == [running |-> TRUE, logs |-> logs, from |-> from, to |-> to,
                 fetched |-> fetched, todo |-> todo, payments |-> {}]
<1>1. /\ scan' = [scan EXCEPT ![o] = s]
      /\ UNCHANGED <<announcements, generated>>
  BY DEF Start
<1>2. s \in Scan
  BY DEF Scan
<1>3. scan'[o] = s
  BY <1>1 DEF ScanInv
<1>4. FoundSoFar(o)'
  <2>1. /\ scan'[o].running /\ scan'[o].from = from /\ scan'[o].to = to
        /\ scan'[o].fetched = fetched /\ scan'[o].todo = todo
        /\ scan'[o].payments = {}
    BY <1>3
  <2>2. Wanted(o, fetched \ todo)' = {}
    BY <2>1 DEF Wanted
  <2> QED BY <2>1, <2>2 DEF FoundSoFar
<1> QED BY <1>1, <1>2, <1>4, ScanKeeps

LEMMA ScanNextKeeps ==
  ASSUME ScanInv, NEW o \in Owners, NEW a \in scan[o].todo, ScanNext(o, a)
  PROVE  ScanInv'
<1> DEFINE found == IF Recognised(o, a) THEN scan[o].payments \union {a}
                    ELSE scan[o].payments
           s == [scan[o] EXCEPT !.todo = scan[o].todo \ {a}, !.payments = found]
<1>1. scan[o] \in Scan /\ a \in announcements
  BY DEF ScanInv, Scan
<1>2. /\ scan' = [scan EXCEPT ![o] = s]
      /\ UNCHANGED <<announcements, generated>>
  BY DEF ScanNext, ScanInv
<1>3. Recognised(o, a) <=> WellAnnounced(o, a)
  BY <1>1, RecognisedIsOwn DEF ScanInv
<1>4. found \in SUBSET announcements
  BY <1>1 DEF Scan
<1>5. s \in Scan
  <2> HIDE DEF found
  <2> QED BY <1>1, <1>4 DEF Scan
<1>6. FoundSoFar(o)'
  <2>1. FoundSoFar(o)
    BY DEF ScanInv
  <2>2. /\ scan'[o].running = scan[o].running
        /\ scan'[o].from = scan[o].from /\ scan'[o].to = scan[o].to
        /\ scan'[o].fetched = scan[o].fetched
        /\ scan'[o].todo = scan[o].todo \ {a}
        /\ scan'[o].payments = found
    <3> HIDE DEF found
    <3> QED BY <1>1, <1>2 DEF ScanInv, Scan
  <2>3. \A fetched : Wanted(o, fetched)' = Wanted(o, fetched)
    BY <1>2, <2>2, SameWanted
  <2>4. scan[o].fetched \ (scan[o].todo \ {a})
          = (scan[o].fetched \ scan[o].todo) \union {a}
    BY <2>1 DEF FoundSoFar
  <2>5. Wanted(o, (scan[o].fetched \ scan[o].todo) \union {a})
          = Wanted(o, scan[o].fetched \ scan[o].todo)
              \union (IF WellAnnounced(o, a) THEN {a} ELSE {})
    BY <2>1 DEF Wanted, FoundSoFar
  <2>6. found = Wanted(o, scan[o].fetched \ (scan[o].todo \ {a}))
    BY <1>3, <2>1, <2>4, <2>5 DEF FoundSoFar
  <2> HIDE DEF found
  <2> QED BY <2>1, <2>2, <2>3, <2>6 DEF FoundSoFar
<1> QED BY <1>2, <1>5, <1>6, ScanKeeps

LEMMA SkipKeeps ==
  ASSUME ScanInv, NEW o \in Owners, NEW a \in scan[o].todo, SkipUnavailable(o, a)
  PROVE  ScanInv'
<1> DEFINE s == [scan[o] EXCEPT !.todo = scan[o].todo \ {a},
                                !.fetched = scan[o].fetched \ {a}]
<1>1. scan[o] \in Scan /\ FoundSoFar(o)
  BY DEF ScanInv
<1>2. /\ scan' = [scan EXCEPT ![o] = s]
      /\ UNCHANGED <<announcements, generated>>
  BY DEF SkipUnavailable, ScanInv
<1>3. s \in Scan
  BY <1>1 DEF Scan
<1>4. FoundSoFar(o)'
  <2>1. /\ scan'[o].running = scan[o].running
        /\ scan'[o].from = scan[o].from /\ scan'[o].to = scan[o].to
        /\ scan'[o].fetched = scan[o].fetched \ {a}
        /\ scan'[o].todo = scan[o].todo \ {a}
        /\ scan'[o].payments = scan[o].payments
    BY <1>1, <1>2 DEF ScanInv, Scan
  <2>2. \A fetched : Wanted(o, fetched)' = Wanted(o, fetched)
    BY <1>2, <2>1, SameWanted
  <2>3. (scan[o].fetched \ {a}) \ (scan[o].todo \ {a}) = scan[o].fetched \ scan[o].todo
    OBVIOUS
  <2> QED BY <1>1, <2>1, <2>2, <2>3 DEF FoundSoFar
<1> QED BY <1>2, <1>3, <1>4, ScanKeeps

LEMMA ScanThrowsKeeps ==
  ASSUME ScanInv, NEW o \in Owners, ScanThrows(o)
  PROVE  ScanInv'
<1> DEFINE s == [scan[o] EXCEPT !.running = FALSE, !.fetched = {},
                                !.todo = {}, !.payments = {}]
<1>1. scan[o] \in Scan
  BY DEF ScanInv
<1>2. /\ scan' = [scan EXCEPT ![o] = s]
      /\ UNCHANGED <<announcements, generated>>
  BY DEF ScanThrows, ScanInv
<1>3. s \in Scan
  BY <1>1 DEF Scan
<1>4. FoundSoFar(o)'
  <2>1. /\ ~scan'[o].running /\ scan'[o].fetched = {}
        /\ scan'[o].todo = {} /\ scan'[o].payments = {}
    BY <1>1, <1>2 DEF ScanInv, Scan
  <2>2. Wanted(o, {})' = {}
    BY DEF Wanted
  <2> QED BY <2>1, <2>2 DEF FoundSoFar
<1> QED BY <1>2, <1>3, <1>4, ScanKeeps

LEMMA EndScanKeeps ==
  ASSUME ScanInv, NEW o \in Owners, EndScan(o)
  PROVE  ScanInv'
<1> DEFINE s == [scan[o] EXCEPT !.running = FALSE]
<1>1. scan[o] \in Scan /\ FoundSoFar(o)
  BY DEF ScanInv
<1>2. /\ scan[o].todo = {} /\ scan' = [scan EXCEPT ![o] = s]
      /\ UNCHANGED <<announcements, generated>>
  BY DEF EndScan, ScanInv
<1>3. s \in Scan
  BY <1>1 DEF Scan
<1>4. FoundSoFar(o)'
  <2>1. /\ ~scan'[o].running
        /\ scan'[o].from = scan[o].from /\ scan'[o].to = scan[o].to
        /\ scan'[o].fetched = scan[o].fetched
        /\ scan'[o].todo = scan[o].todo
        /\ scan'[o].payments = scan[o].payments
    BY <1>1, <1>2 DEF ScanInv, Scan
  <2>2. \A fetched : Wanted(o, fetched)' = Wanted(o, fetched)
    BY <1>2, <2>1, SameWanted
  <2> QED BY <1>1, <1>2, <2>1, <2>2 DEF FoundSoFar
<1> QED BY <1>2, <1>3, <1>4, ScanKeeps

\* What is printed later is for an ephemeral key of its own, so that no
\* announcement made before becomes another's.
LEMMA GenerateKeeps ==
  ASSUME ScanInv, NEW o \in Owners, NEW e \in Ephemerals, Generate(o, e)
  PROVE  ScanInv'
<1>1. /\ generated' = generated \union {Printed(o, e)}
      /\ \A g \in generated : g.ephemeral # e
      /\ UNCHANGED <<announcements, scan>>
  BY DEF Generate, Printed, AddressOf
<1>2. AnnouncedProperly'
  <2>1. AnnouncedProperly
    BY DEF ScanInv
  <2> QED BY <1>1, <2>1 DEF AnnouncedProperly
<1>3. ASSUME NEW p \in Owners, NEW a \in announcements, WellAnnounced(p, a)'
      PROVE  WellAnnounced(p, a)
  <2>1. PICK g \in generated' :
          /\ g.recipient = p
          /\ a.ephemeral = g.ephemeral /\ a.address = g.address /\ a.tag = g.tag
    BY <1>3 DEF WellAnnounced
  <2>2. PICK h \in generated : a.address = h.address
    BY DEF ScanInv, AnnouncedProperly
  <2>3. PICK q \in Owners, f \in Ephemerals : h = Printed(q, f)
    BY DEF ScanInv, AnnouncedProperly
  <2>4. CASE g = Printed(o, e)
    <3>1. AddressOf(q, f) = AddressOf(o, e) /\ h.ephemeral = f
      BY <2>1, <2>2, <2>3, <2>4 DEF Printed
    <3>2. f = e
      BY <3>1, AddressNames
    <3> QED BY <1>1, <3>1, <3>2
  <2>5. CASE g \in generated
    BY <2>1, <2>5 DEF WellAnnounced
  <2> QED BY <1>1, <2>1, <2>4, <2>5
<1>4. ASSUME NEW p \in Owners, NEW a \in announcements, WellAnnounced(p, a)
      PROVE  WellAnnounced(p, a)'
  BY <1>1, <1>4 DEF WellAnnounced
<1> QED BY <1>1, <1>2, <1>3, <1>4, SendersKeep

LEMMA AnnounceKeeps ==
  ASSUME ScanInv, NEW e \in Ephemerals, NEW g \in generated, NEW tag \in ViewTags,
         Announce(e, g.address, tag)
  PROVE  ScanInv'
<1> DEFINE new == [ephemeral |-> e, address |-> g.address, tag |-> tag, slot |-> slot]
<1>1. /\ announcements' = announcements \union {new}
      /\ \A a \in announcements : a.ephemeral # e \/ a.address # g.address
      /\ UNCHANGED <<generated, scan>>
  BY DEF Announce
<1>2. new.address = g.address /\ new.ephemeral = e
  OBVIOUS
<1>3. AnnouncedProperly'
  <2>1. AnnouncedProperly
    BY DEF ScanInv
  <2> HIDE DEF new
  <2> QED BY <1>1, <1>2, <2>1 DEF AnnouncedProperly
<1>4. \A o \in Owners, a \in announcements : WellAnnounced(o, a)' <=> WellAnnounced(o, a)
  BY <1>1 DEF WellAnnounced
<1> QED BY <1>1, <1>3, <1>4, SendersKeep

LEMMA NextScan ==
  ASSUME ScanInv, [Next]_vars
  PROVE  ScanInv'
<1>1. ASSUME NEW o \in Owners, NEW range \in Ranges,
             StartScan(o, range[1], range[2])
      PROVE  ScanInv'
  <2>1. range[1] \in Nat /\ range[2] \in Nat
    BY StealthAssumption
  <2> QED BY <1>1, <2>1, StartKeeps DEF StartScan
<1>2. ASSUME NEW o \in Owners, StartLogScan(o) PROVE ScanInv'
  <2>1. PICK recent \in SUBSET announcements : Start(o, TRUE, 0, 0, recent, recent)
    BY <1>2 DEF StartLogScan
  <2>2. recent = {a \in recent : InRange(a, 0, 0)}
    BY DEF InRange
  <2>3. Start(o, TRUE, 0, 0, recent, {a \in recent : InRange(a, 0, 0)})
    BY <2>1, <2>2
  <2> QED BY <2>3, StartKeeps
<1>3. ASSUME NEW o \in Owners, NEW a \in scan[o].todo,
             ScanNext(o, a) \/ SkipUnavailable(o, a)
      PROVE  ScanInv'
  BY <1>3, ScanNextKeeps, SkipKeeps
<1>4. ASSUME NEW o \in Owners, ScanThrows(o) \/ EndScan(o) PROVE ScanInv'
  BY <1>4, ScanThrowsKeeps, EndScanKeeps
<1>5. ASSUME NEW o \in Owners, NEW e \in Ephemerals, Generate(o, e) PROVE ScanInv'
  BY <1>5, GenerateKeeps
<1>6. ASSUME NEW e \in Ephemerals, NEW g \in generated, NEW tag \in ViewTags,
             Announce(e, g.address, tag)
      PROVE  ScanInv'
  BY <1>6, AnnounceKeeps
<1>7. CASE UNCHANGED <<scan, announcements, generated>>
  <2>1. AnnouncedProperly'
    BY <1>7 DEF ScanInv, AnnouncedProperly
  <2>2. \A o \in Owners, a \in announcements : WellAnnounced(o, a)' <=> WellAnnounced(o, a)
    BY <1>7 DEF WellAnnounced
  <2> QED BY <1>7, <2>1, <2>2, SendersKeep
<1>8. CASE ClientNext
  <2>1. CASE NextSlot
    BY <1>7, <2>1 DEF NextSlot
  <2> QED BY <1>1, <1>2, <1>3, <1>4, <1>5, <1>6, <1>8, <2>1 DEF ClientNext
<1> QED BY <1>7, <1>8 DEF Next, clientVars, vars

\* The program's part of a step of the whole.
LEMMA StepOfRegistry == [Next]_vars => [RegistryNext]_registryVars
<1>1. ClientNext => UNCHANGED registryVars
  BY DEF ClientNext, Generate, Announce, StartScan, StartLogScan,
         Start, ScanNext, SkipUnavailable, ScanThrows, EndScan, NextSlot
<1> QED BY <1>1 DEF Next, vars

-----------------------------------------------------------------------------
(* Theorems *)

\* Announcements are of printed addresses, each with an ephemeral key once, and
\* a scan has reported exactly the recipient's own among those it has looked at.
THEOREM ScanInvariant == Spec => []ScanInv
<1>1. Init => ScanInv
  BY InitScan
<1> QED BY <1>1, NextScan, PTL DEF Spec

\* No payment within what a scan fetched is missed, and none of another
\* recipient is reported, nor one twice, although view tags may collide and
\* keys and tags be announced that belong to another payment.
THEOREM ScansAreExact == Spec => []ScanFindsOwnPayments
<1>1. ScanInv => ScanFindsOwnPayments
  <2> SUFFICES ASSUME ScanInv, NEW o \in Owners, Finished(o)
               PROVE  /\ scan[o].payments = Wanted(o, scan[o].fetched)
                      /\ \A a, b \in scan[o].payments : a.address = b.address => a = b
    BY DEF ScanFindsOwnPayments, Wanted
  <2>1. scan[o].todo = {} /\ FoundSoFar(o)
    BY DEF ScanInv, FoundSoFar, Finished
  <2>2. scan[o].fetched \ scan[o].todo = scan[o].fetched
    BY <2>1
  <2>3. scan[o].payments = Wanted(o, scan[o].fetched)
    BY <2>1, <2>2 DEF FoundSoFar
  <2>4. ASSUME NEW a \in scan[o].payments PROVE a \in announcements /\ Recognised(o, a)
    <3>1. a \in announcements /\ WellAnnounced(o, a)
      BY <2>3, <2>4 DEF Wanted, ScanInv, Scan
    <3> QED BY <3>1, RecognisedIsOwn DEF ScanInv
  <2>5. \A a, b \in scan[o].payments : a.address = b.address => a = b
    BY <2>4, RecognisedOnce DEF ScanInv
  <2> QED BY <2>3, <2>5
<1> QED BY <1>1, ScanInvariant, PTL

\* A registry that was deactivated is never active again, gets no address any
\* more, and no claim is undone.
THEOREM DeactivatedForGood == Spec => DeactivationIsFinal
<1>1. Init => RegistryTypes
  BY InitScan
<1>2. RegistryTypes /\ [Next]_vars => RegistryTypes' /\ [Final]_registryVars
  BY RegistryStep, StepOfRegistry
<1>3. Spec => [][Final]_registryVars
  BY <1>1, <1>2, PTL DEF Spec
<1> QED BY <1>3 DEF DeactivationIsFinal, Final
=============================================================================
