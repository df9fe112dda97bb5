-------------------------- MODULE StealthRegistry --------------------------
(***************************************************************************)
(* The stealth registries of the privacy program                           *)
(* (src/programs/kirite/src/instructions/create_stealth.rs): an owner      *)
(* registers a spend and a view key once and may deactivate the registry,  *)
(* a sender resolves a one-time address under it, and the address is       *)
(* claimed.  Accounts live at addresses derived from the owner, and from   *)
(* the registry and the ephemeral key, so that neither is made twice.      *)
(***************************************************************************)
EXTENDS Naturals, FiniteSets

CONSTANTS
  Owners,               \* wallets that register
  ResolveKeys           \* ephemeral keys senders resolve addresses with

VARIABLES
  isPaused,             \* protocol_config.is_paused
  registry,             \* StealthRegistry of each owner that registered
  stealth               \* StealthAddress of each <<owner, ephemeral key>>: claimed?

registryVars == <<isPaused, registry, stealth>>

Registered(o) == o \in DOMAIN registry
Resolved(o, e) == <<o, e>> \in DOMAIN stealth

\* What f is once x is mapped to y.
With(f, x, y) == [z \in DOMAIN f \union {x} |-> IF z = x THEN y ELSE f[z]]

RegistryInit == isPaused = FALSE /\ registry = <<>> /\ stealth = <<>>

\* A slip the checks must notice: `init_if_needed` makes the account again.
MutRegister(o) ==
  /\ ~isPaused
  /\ registry' = With(registry, o, [isActive |-> TRUE, addressCount |-> 0])
  /\ UNCHANGED <<isPaused, stealth>>

\* The two keys are distinct; SpendKey and ViewKey of module StealthClient are.
Register(o) ==
  /\ ~isPaused
  /\ ~Registered(o)
  /\ registry' = With(registry, o, [isActive |-> TRUE, addressCount |-> 0])
  /\ UNCHANGED <<isPaused, stealth>>

\* The owner signs; a paused protocol does not keep it from this.
Deactivate(o) ==
  /\ Registered(o)
  /\ registry' = [registry EXCEPT ![o].isActive = FALSE]
  /\ UNCHANGED <<isPaused, stealth>>

Resolve(o, e) ==
  /\ ~isPaused
  /\ Registered(o) /\ registry[o].isActive
  /\ ~Resolved(o, e)
  /\ stealth' = With(stealth, <<o, e>>, FALSE)
  /\ registry' = [registry EXCEPT ![o].addressCount = @ + 1]
  /\ UNCHANGED isPaused

\* Slip: the registry must still be active.
MutClaim(o, e) ==
  /\ Resolved(o, e) /\ ~stealth[<<o, e>>]
  /\ registry[o].isActive
  /\ stealth' = [stealth EXCEPT ![<<o, e>>] = TRUE]
  /\ UNCHANGED <<isPaused, registry>>

\* Neither the state of the registry nor a paused protocol matters here.
Claim(o, e) ==
  /\ Resolved(o, e) /\ ~stealth[<<o, e>>]
  /\ stealth' = [stealth EXCEPT ![<<o, e>>] = TRUE]
  /\ UNCHANGED <<isPaused, registry>>

Pause  == isPaused' = TRUE /\ UNCHANGED <<registry, stealth>>
Resume == isPaused' = FALSE /\ UNCHANGED <<registry, stealth>>

RegistryNext ==
  \/ \E o \in Owners : Register(o) \/ Deactivate(o)
  \/ \E o \in Owners, e \in ResolveKeys : Resolve(o, e) \/ Claim(o, e)
  \/ Pause \/ Resume

-----------------------------------------------------------------------------
(* Properties *)

\* An address that was resolved can be claimed until it is, whatever became of
\* its registry and of the protocol since.  (A claim marks the account and writes
\* a line to the log; it moves nothing.)
ClaimsNeverBlocked ==
  \A a \in DOMAIN stealth : ~stealth[a] => ENABLED Claim(a[1], a[2])

\* A deactivated registry stays so and gets no new address, neither by being
\* registered again nor by a resolution under way; and a claim is never undone.
DeactivationIsFinal ==
  [][/\ \A o \in DOMAIN registry : ~registry[o].isActive =>
          ~registry'[o].isActive /\ registry'[o].addressCount = registry[o].addressCount
     /\ \A a \in DOMAIN stealth : stealth[a] => stealth'[a]]_registryVars
=============================================================================
