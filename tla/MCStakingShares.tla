-------------------------- MODULE MCStakingShares --------------------------
(***************************************************************************)
(* Fees of 100 lamports against roundings of at most a few: with SCALE     *)
(* above every weight, drift of one fee would show.                        *)
(***************************************************************************)
EXTENDS StakingShares, TLC

MCMultiplier == 1 :> 150 @@ 2 :> 250
=============================================================================
