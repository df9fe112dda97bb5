----------------------------- MODULE MCStaking -----------------------------
(***************************************************************************)
(* Two stakers, two locks of one and two days at x1.5 and x2.5, the first  *)
(* two multipliers of LOCK_OPTIONS, on a clock that ticks in days.  SCALE  *)
(* is small so that both divisions lose a remainder; the amounts make      *)
(* WeightOf truncate.                                                      *)
(***************************************************************************)
EXTENDS StakingClient, TLC

MCMultiplier == 1 :> 150 @@ 2 :> 250
=============================================================================
