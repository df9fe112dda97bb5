--------------------------- MODULE MCNoteCommands ---------------------------
(* A deposit, and two attempts to withdraw its note.                        *)
EXTENDS NoteCommands

MCDeposits == {"d1"}
MCWithdrawals == {"w1", "w2"}
MCCalls == MCDeposits \union MCWithdrawals
MCNeeds == [c \in MCCalls |-> IF c \in MCWithdrawals THEN "d1" ELSE None]
MCConsumes == MCNeeds
MCSkipPreflight == [c \in MCCalls |-> c = "w2"]
=============================================================================
