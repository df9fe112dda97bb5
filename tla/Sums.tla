-------------------------------- MODULE Sums --------------------------------
(***************************************************************************)
(* Finite sums of per-account quantities.                                  *)
(*                                                                         *)
(* Accounts are numbered 1..n.  The sum is the last value of a function    *)
(* recursive on a prefix of the accounts, and not a fold of the community  *)
(* modules, because facts about a recursive function on 0..n can be proved *)
(* (module StakingProofs), while the folds take an operator as a parameter.    *)
(***************************************************************************)
EXTENDS Integers

PrefixSum(f, n) ==
  LET p[i \in 0..n] == IF i = 0 THEN 0 ELSE p[i - 1] + f[i]
  IN  p

Sum(f, n) == PrefixSum(f, n)[n]
=============================================================================
