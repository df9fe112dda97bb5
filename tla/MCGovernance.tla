---------------------------- MODULE MCGovernance ----------------------------
(***************************************************************************)
(* Two keys that may hand the authority to and fro, two proposals that may *)
(* overlap, and a clock that runs past the timelock of both.  The rates    *)
(* tried are asymmetric, and one pair is above the limit.                  *)
(***************************************************************************)
EXTENDS Governance

CONSTANTS k1, k2

MCFeeSettings == {<<30, 5000>>, <<100, 0>>, <<10001, 0>>}

MCSignerLists == {<<>>, <<k2, NoKey>>}
=============================================================================
