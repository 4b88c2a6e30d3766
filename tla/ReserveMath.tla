----------------------------- MODULE ReserveMath -----------------------------
(***************************************************************************)
(* The arithmetic of src/src/contracts/ODReserve.ts: fees, the value of    *)
(* the OD liability, equity, the reserve ratio and the ORC issue price.    *)
(* All amounts are u256; division truncates; SafeMath reverts when a       *)
(* product or a sum does not fit, which the actions of ODReserve state as  *)
(* a Fits(...) guard next to each of these operators.                      *)
(*                                                                         *)
(* Prices are "OD per WBTC, scaled by RATIO_SCALE", so a WBTC amount w is  *)
(* worth w * price \div RATIO_SCALE in OD.                                 *)
(***************************************************************************)
EXTENDS Integers

CONSTANTS
  RATIO_SCALE,   \* 1e8 in the contract
  MIN_RATIO,     \* 400% of RATIO_SCALE
  MAX_RATIO,     \* 800% of RATIO_SCALE
  FEE_SCALE,     \* 1e8
  FEE,           \* DEFAULT_FEE; the contract has no setter for it
  U256_MAX       \* 2^256 - 1; also the "infinite" ratio

ASSUME ReserveMathAssumption ==
  /\ RATIO_SCALE \in Nat \ {0}
  /\ MIN_RATIO \in Nat /\ RATIO_SCALE <= MIN_RATIO
  /\ MAX_RATIO \in Nat /\ MIN_RATIO <= MAX_RATIO
  /\ FEE_SCALE \in Nat \ {0}
  /\ FEE \in 0..FEE_SCALE
  /\ U256_MAX \in Nat /\ MAX_RATIO < U256_MAX

U256 == 0..U256_MAX

\* SafeMath.mul and SafeMath.add revert unless the result is a u256.
Fits(n) == n <= U256_MAX

\* What is paid out of a gross amount once the fee stays in the reserve.
Net(amount) == amount - (amount * FEE) \div FEE_SCALE

\* mintOD: OD for a WBTC deposit, before the fee.
OdForWbtc(wbtc, price) == (wbtc * price) \div RATIO_SCALE

\* burnOD: WBTC for OD, before the fee.
WbtcForOd(od, price) == (od * RATIO_SCALE) \div price

\* WBTC that the outstanding OD is worth at `price`, rounded down.
LiabilityInWbtc(od, price) == (od * RATIO_SCALE) \div price

(* Mutant of EquityInWbtc: the OD liability is left out. *)
EquityIgnoringOd(reserve, od, price) == reserve

\* _computeEquityInWbtc: what ORC holders own, never negative.
EquityInWbtc(reserve, od, price) ==
  IF price = 0 THEN reserve
  ELSE IF LiabilityInWbtc(od, price) > reserve THEN 0
  ELSE reserve - LiabilityInWbtc(od, price)

\* _computeReserveRatio with the incoming WBTC already added to `reserve`.
ReserveRatio(reserve, od, price, out) ==
  IF od = 0 THEN U256_MAX
  ELSE IF out > reserve THEN 0
  ELSE ((reserve - out) * price) \div od

\* The product that _computeReserveRatio forms fits in a u256.
RatioFits(reserve, od, price, out) ==
  od = 0 \/ out > reserve \/ Fits((reserve - out) * price)

\* _computeOrcOut: ORC for a deposit that `equity` already includes.
OrcForDeposit(wbtcIn, orc, equity, seed) ==
  IF orc = 0
  THEN IF seed = 0 THEN wbtcIn ELSE (wbtcIn * seed) \div RATIO_SCALE
  ELSE (wbtcIn * orc) \div equity
=============================================================================
