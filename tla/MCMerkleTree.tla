---------------------------- MODULE MCMerkleTree ----------------------------
(***************************************************************************)
(* Three levels, every sequence of up to eight leaves from two values:     *)
(* each pattern of left and right turns occurs, and equal leaves too.      *)
(***************************************************************************)
EXTENDS MerkleTree
=============================================================================
