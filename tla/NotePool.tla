------------------------------ MODULE NotePool ------------------------------
(***************************************************************************)
(* What a shield pool promises: a pot of notes of equal worth.  A deposit  *)
(* puts one note in, a withdrawal takes one live note out, and no note     *)
(* leaves twice.  Nothing is said of roots, proofs, fees or switches.      *)
(***************************************************************************)
EXTENDS Integers

CONSTANT DENOMINATION

VARIABLES
  minted,   \* notes ever deposited, numbered 1..minted
  live,     \* the notes still in the pool
  pot       \* tokens the pool holds

Init == minted = 0 /\ live = {} /\ pot = 0

Mint ==
  /\ minted' = minted + 1
  /\ live' = live \union {minted + 1}
  /\ pot' = pot + DENOMINATION

Redeem(note) ==
  /\ note \in live
  /\ live' = live \ {note}
  /\ pot' = pot - DENOMINATION
  /\ UNCHANGED minted

Next == Mint \/ \E note \in live : Redeem(note)

Spec == Init /\ [][Next]_<<minted, live, pot>>
=============================================================================
