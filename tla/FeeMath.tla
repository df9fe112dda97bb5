------------------------------ MODULE FeeMath ------------------------------
(***************************************************************************)
(* Fee arithmetic of the privacy program                                   *)
(* (src/programs/kirite/src/utils/math.rs).  Rates are in basis points.    *)
(* The u128 intermediates cannot overflow for u64 amounts, so the results  *)
(* are exact integers; a result that does not fit fails the instruction.   *)
(***************************************************************************)
EXTENDS Integers

BPS_DENOMINATOR == 10000

MIN_FEE_LAMPORTS == 1

\* calculate_fee: rounded up, and never zero on a positive amount and rate.
CalculateFee(amount, bps) ==
  IF bps = 0 \/ amount = 0 THEN 0
  ELSE LET fee == (amount * bps + BPS_DENOMINATOR - 1) \div BPS_DENOMINATOR
       IN  IF fee < MIN_FEE_LAMPORTS THEN MIN_FEE_LAMPORTS ELSE fee

\* calculate_net_amount: what is left for the recipient.
NetAmount(amount, bps) == amount - CalculateFee(amount, bps)

\* split_fee: the burned part, rounded down; the treasury gets the rest.
BurnShare(fee, ratio) == (fee * ratio) \div BPS_DENOMINATOR

\* A slip the checks must notice: the share computed by itself, rounded down too.
MutTreasuryShare(fee, ratio) ==
  (fee * (BPS_DENOMINATOR - ratio)) \div BPS_DENOMINATOR

TreasuryShare(fee, ratio) == fee - BurnShare(fee, ratio)
=============================================================================
