---------------------------- MODULE MCNoteClient ----------------------------
(***************************************************************************)
(* Three depositors on a tree of four leaves, one root of history beside   *)
(* the newest, a fetch of three transactions and a history of five: the    *)
(* window forgets deposits, the history forgets roots, and proofs are made *)
(* from lists with holes.  One script, of any kind, may be run with the    *)
(* notes of two of the depositors.                                         *)
(***************************************************************************)
EXTENDS NoteScripts

CONSTANTS c1, c2, c3

MCClients == {c1, c2, c3}
MCNotes == [s \in Scripts |-> <<c1, c2>>]
=============================================================================
