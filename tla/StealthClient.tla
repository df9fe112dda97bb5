---------------------------- MODULE StealthClient ----------------------------
(***************************************************************************)
(* Payments to one-time addresses with the SDK (src/sdk/src/stealth/) and  *)
(* the `kirite stealth` commands (src/cli/src/commands/stealth.ts), beside *)
(* the registries of module StealthRegistry.                               *)
(*                                                                         *)
(* A sender looks the recipient up, draws an ephemeral key, derives an     *)
(* address, pays to it and publishes an announcement, in commands of their *)
(* own.  The recipient scans all announcements: it skips those whose view  *)
(* tag is not the one its viewing key gives, derives the address of the    *)
(* others and reports those that match.  A second scan reads the newest    *)
(* transactions' logs instead and skips those it cannot get.               *)
(*                                                                         *)
(* Announcements are accounts of the program the SDK functions are given   *)
(* (programId); Announces says whether that program takes the instruction. *)
(* The program of this repository does not.                                *)
(***************************************************************************)
EXTENDS StealthRegistry

CONSTANTS
  Ephemerals,           \* ephemeral key pairs senders draw
  ViewTagOf,            \* first byte of the hash of a shared secret
  Announces,
  Shown,                \* recipients who hand senders their meta-address, which
                        \* `stealth generate` prints without any registry
  LABEL_ROOM,           \* bytes of a registry account parseRegistryEntry can skip
  LOG_LIMIT,            \* limit of scanStealthPaymentsFromLogs
  Ranges,               \* <<fromSlot, toSlot>> asked for, 0 if left open
  MaxSlot,              \* bound on the slots
  MaxAnnouncements,     \* bound on the announcements
  MaxScans              \* bound on the scans started

ViewTags == {ViewTagOf[s] : s \in DOMAIN ViewTagOf}

ASSUME StealthAssumption ==
  /\ \A o \in Owners, e \in Ephemerals :
       {<<e, <<"view", o>>>>, <<e, <<"spend", o>>>>} \subseteq DOMAIN ViewTagOf
  /\ Announces \in BOOLEAN /\ Shown \subseteq Owners
  /\ Ranges \subseteq Nat \X Nat
  /\ LABEL_ROOM \in Nat /\ LOG_LIMIT \in Nat
  /\ MaxSlot \in Nat /\ MaxAnnouncements \in Nat /\ MaxScans \in Nat

VARIABLES
  slot,
  generated,            \* what `stealth send` printed for senders
  announcements,
  scan,                 \* the scan each recipient runs, or has run last
  scans                 \* how many were started

clientVars == <<slot, generated, announcements, scan, scans>>
vars == <<registryVars, clientVars>>

\* generateStealthMetaAddress: both keys follow from the wallet alone.
SpendKey(o) == <<"spend", o>>
ViewKey(o) == <<"view", o>>

\* X25519 of one's secret and the other's public key, either way round.
SharedSecret(e, key) == <<e, key>>

\* The seed of a one-time key pair: the spending public key and the hash of
\* the shared secret.  The spending secret gives that same public key.
OneTimeAddress(e, spendKey, viewKey) == <<spendKey, SharedSecret(e, viewKey)>>

ViewTag(e, viewKey) == ViewTagOf[SharedSecret(e, viewKey)]

\* The address of the key pair the recipient derives from both secret keys.
AddressOf(o, e) == OneTimeAddress(e, SpendKey(o), ViewKey(o))

ClientInit ==
  /\ slot = 1
  /\ generated = {}
  /\ announcements = {}
  /\ scan = [o \in Owners |-> [running |-> FALSE, logs |-> FALSE, from |-> 0, to |-> 0,
                               fetched |-> {}, todo |-> {}, payments |-> {}]]
  /\ scans = 0

-----------------------------------------------------------------------------
(* The sender *)

\* parseRegistryEntry takes the low half of address_count for the length of a
\* label and reads a date behind it: past the end of the account it throws,
\* and fetchRegistryEntry says that nobody is registered.  It does not look at
\* is_active.
Readable(o) == Registered(o) /\ registry[o].addressCount <= LABEL_ROOM

\* `stealth send`, for the meta-address itself or the keys looked up; the keys
\* are the same.  It prints what is to be announced.
Generate(o, e) ==
  /\ o \in Shown \/ Readable(o)
  /\ \A g \in generated : g.ephemeral # e
  /\ generated' = generated \union
       {[recipient |-> o, ephemeral |-> e, tag |-> ViewTag(e, ViewKey(o)),
         address |-> OneTimeAddress(e, SpendKey(o), ViewKey(o))]}
  /\ UNCHANGED <<registryVars, slot, announcements, scan, scans>>

\* The three values are arguments of the command, any of which may be mistyped
\* or taken from another payment (an address nobody derived is left out: it is
\* nobody's).  The account of one ephemeral key and address is made once.
Announce(ephemeral, address, tag) ==
  /\ Announces /\ Cardinality(announcements) < MaxAnnouncements
  /\ address \in {g.address : g \in generated}
  /\ \A a \in announcements : a.ephemeral # ephemeral \/ a.address # address
  /\ announcements' = announcements \union
       {[ephemeral |-> ephemeral, address |-> address, tag |-> tag, slot |-> slot]}
  /\ UNCHANGED <<registryVars, slot, generated, scan, scans>>

-----------------------------------------------------------------------------
(* The recipient *)

InRange(a, from, to) == (from # 0 => a.slot >= from) /\ (to # 0 => a.slot <= to)

Start(o, logs, from, to, fetched, todo) ==
  /\ scans < MaxScans /\ scans' = scans + 1
  /\ ~scan[o].running
  /\ scan' = [scan EXCEPT ![o] = [running |-> TRUE, logs |-> logs, from |-> from, to |-> to,
                                  fetched |-> fetched, todo |-> todo, payments |-> {}]]
  /\ UNCHANGED <<registryVars, slot, generated, announcements>>

StartScan(o, from, to) ==
  Start(o, FALSE, from, to, announcements, {a \in announcements : InRange(a, from, to)})

\* The signatures of the newest announcements, LOG_LIMIT of them.
StartLogScan(o) ==
  \E recent \in SUBSET announcements :
    /\ Cardinality(recent) <= LOG_LIMIT
    /\ recent = announcements \/ Cardinality(recent) = LOG_LIMIT
    /\ \A a \in recent, b \in announcements \ recent : a.slot >= b.slot
    /\ Start(o, TRUE, 0, 0, recent, recent)

\* Slip: the spending key is passed for the viewing key.
MutCheckViewTag(o, a) == ViewTag(a.ephemeral, SpendKey(o)) = a.tag

CheckViewTag(o, a) == ViewTag(a.ephemeral, ViewKey(o)) = a.tag

Recognised(o, a) ==
  /\ CheckViewTag(o, a)
  /\ AddressOf(o, a.ephemeral) = a.address

\* One announcement after the other, by slot or newest first; the balance
\* shown beside it is asked for in between.
ScanNext(o, a) ==
  /\ a \in scan[o].todo
  /\ \A b \in scan[o].todo : IF scan[o].logs THEN b.slot <= a.slot ELSE b.slot >= a.slot
  /\ scan' = [scan EXCEPT ![o].todo = @ \ {a},
                          ![o].payments =
       IF Recognised(o, a) THEN @ \union {a} ELSE @]
  /\ UNCHANGED <<registryVars, slot, generated, announcements, scans>>

\* A request fails: the log scan goes on with the next transaction.
SkipUnavailable(o, a) ==
  /\ a \in scan[o].todo /\ scan[o].logs
  /\ scan' = [scan EXCEPT ![o].todo = @ \ {a}, ![o].fetched = @ \ {a}]
  /\ UNCHANGED <<registryVars, slot, generated, announcements, scans>>

\* The other scan has no result at all then.
ScanThrows(o) ==
  /\ scan[o].running /\ ~scan[o].logs
  /\ scan' = [scan EXCEPT ![o] = [@ EXCEPT !.running = FALSE, !.fetched = {},
                                           !.todo = {}, !.payments = {}]]
  /\ UNCHANGED <<registryVars, slot, generated, announcements, scans>>

EndScan(o) ==
  /\ scan[o].running /\ scan[o].todo = {}
  /\ scan' = [scan EXCEPT ![o].running = FALSE]
  /\ UNCHANGED <<registryVars, slot, generated, announcements, scans>>

NextSlot ==
  /\ slot < MaxSlot /\ slot' = slot + 1
  /\ UNCHANGED <<registryVars, generated, announcements, scan, scans>>

ClientNext ==
  \/ \E o \in Owners, e \in Ephemerals : Generate(o, e)
  \/ \E e \in Ephemerals, g \in generated, tag \in ViewTags : Announce(e, g.address, tag)
  \/ \E o \in Owners :
       \/ \E range \in Ranges : StartScan(o, range[1], range[2])
       \/ StartLogScan(o)
       \/ \E a \in scan[o].todo : ScanNext(o, a) \/ SkipUnavailable(o, a)
       \/ ScanThrows(o) \/ EndScan(o)
  \/ NextSlot

Init == RegistryInit /\ ClientInit

Next == ClientNext \/ (RegistryNext /\ UNCHANGED clientVars)

Spec == Init /\ [][Next]_vars

-----------------------------------------------------------------------------
(* Properties *)

Finished(o) == ~scan[o].running

\* The announcement says what was printed for the payment.
WellAnnounced(o, a) ==
  \E g \in generated :
    /\ g.recipient = o
    /\ a.ephemeral = g.ephemeral /\ a.address = g.address /\ a.tag = g.tag

\* A scan of either kind that ends reports each payment to the recipient that
\* was announced as it was printed, in what it fetched and the slots asked for,
\* and nothing else, although tags of others collide with its own and any of
\* the three values may be mistyped; whatever is announced while it runs.  No
\* address is reported twice: the balances beside them add up.
ScanFindsOwnPayments ==
  \A o \in Owners : Finished(o) =>
    /\ scan[o].payments =
         {a \in scan[o].fetched : InRange(a, scan[o].from, scan[o].to) /\ WellAnnounced(o, a)}
    /\ \A a, b \in scan[o].payments : a.address = b.address => a = b
=============================================================================
