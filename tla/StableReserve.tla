---------------------------- MODULE StableReserve ----------------------------
(***************************************************************************)
(* What the reserve promises, without saying how prices are found or who   *)
(* holds what: a life cycle SEEDING -> PREMINT -> LIVE over one amount of  *)
(* collateral and two supplies.  Some price, chosen anew for every step,   *)
(* stands for the oracle; amounts are constrained by inequalities only, so *)
(* fees and rounding may go any way that favours the reserve.              *)
(* ODReserve is shown to implement this specification.                     *)
(***************************************************************************)
EXTENDS ReserveMath

\* The values a TWAP can take in a step that uses it.
Price == U256 \ {0}

VARIABLES stage, seed, collateral, odCoins, orcCoins

svars == <<stage, seed, collateral, odCoins, orcCoins>>

Init ==
  /\ stage = 0
  /\ seed = 0
  /\ collateral = 0
  /\ odCoins = 0
  /\ orcCoins = 0

-----------------------------------------------------------------------------
\* The collateral is worth at least MIN_RATIO of the OD at this price.
Covers(wbtc, od, price) == wbtc * price >= MIN_RATIO * od

\* Equity per ORC does not fall for those who already hold some.
NotDiluted(before, after) ==
  orcCoins > 0 => before * orcCoins' <= after * orcCoins

EquityAt(wbtc, od, price) == EquityInWbtc(wbtc, od, price)

\* WBTC sent to the reserve buys nothing.
Donate ==
  /\ collateral' > collateral
  /\ UNCHANGED <<stage, seed, odCoins, orcCoins>>

\* Only ORC can be bought before there is a price, and nothing be sold.
Seed ==
  /\ stage = 0
  /\ collateral' > collateral
  /\ orcCoins' > orcCoins
  /\ NotDiluted(collateral, collateral')
  /\ UNCHANGED <<stage, seed, odCoins>>

SetSeedPrice ==
  /\ stage = 0 /\ stage' = 1
  /\ seed' \in Nat \ {0}
  /\ UNCHANGED <<collateral, odCoins, orcCoins>>

\* The one issue of OD that nobody pays for, covered at the seed price.
Premint ==
  /\ stage = 1
  /\ odCoins = 0 /\ odCoins' > 0
  /\ Covers(collateral, odCoins', seed)
  /\ UNCHANGED <<stage, seed, collateral, orcCoins>>

GoLive ==
  /\ stage = 1 /\ stage' = 2
  /\ UNCHANGED <<seed, collateral, odCoins, orcCoins>>

\* OD bought at no better than the price; the floor holds afterwards.
BuyOd(price) ==
  /\ collateral' > collateral /\ odCoins' > odCoins
  /\ (odCoins' - odCoins) * RATIO_SCALE <= (collateral' - collateral) * price
  /\ Covers(collateral', odCoins', price)
  /\ UNCHANGED orcCoins

\* OD redeemed at no better than the price, whatever the ratio.
RedeemOd(price) ==
  /\ collateral' < collateral /\ odCoins' < odCoins
  /\ (collateral - collateral') * price <= (odCoins - odCoins') * RATIO_SCALE
  /\ UNCHANGED orcCoins

BuyOrc(price) ==
  /\ collateral' > collateral /\ orcCoins' > orcCoins
  /\ NotDiluted(EquityAt(collateral, odCoins, price),
                EquityAt(collateral', odCoins, price))
  /\ UNCHANGED odCoins

SellOrc(price) ==
  /\ collateral' < collateral /\ orcCoins' < orcCoins
  /\ NotDiluted(EquityAt(collateral, odCoins, price),
                EquityAt(collateral', odCoins, price))
  /\ Covers(collateral', odCoins, price)
  /\ UNCHANGED odCoins

Operate(price) ==
  /\ stage = 2
  /\ BuyOd(price) \/ RedeemOd(price) \/ BuyOrc(price) \/ SellOrc(price)
  /\ UNCHANGED <<stage, seed>>

Next ==
  \/ Donate \/ Seed \/ SetSeedPrice \/ Premint \/ GoLive
  \/ \E price \in Price : Operate(price)

Spec == Init /\ [][Next]_svars
=============================================================================
