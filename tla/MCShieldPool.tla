---------------------------- MODULE MCShieldPool ----------------------------
(***************************************************************************)
(* Two commitments, either of which may be deposited twice, in a tree of   *)
(* four leaves: one more than the root history, so that roots are evicted. *)
(* A denomination of 5 with 50% fees and a 50% burn rounds both divisions; *)
(* another takes the whole denomination, and the last asks for more than   *)
(* 100% and must be refused.  The relay's instance keeps the first and the *)
(* last; there the vault is one of the accounts a relayer may name.        *)
(***************************************************************************)
EXTENDS PoolClient, TLC

MCFeeSettings == {<<5000, 5000>>, <<10000, 0>>, <<10001, 0>>}

\* Commitments are told apart by nothing but equality. (Not for the relay's
\* instance, where a liveness property is checked.)
CommitmentSymmetry == Permutations(Commitments)

MCRelayFeeSettings == {<<5000, 5000>>, <<10001, 0>>}
=============================================================================
