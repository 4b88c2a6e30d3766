---------------------------- MODULE MCODReserve ----------------------------
(***************************************************************************)
(* Instance of ODReserve for TLC: every account starts with the same WBTC, *)
(* and p0 is the pool that lists WBTC as its token0.                       *)
(***************************************************************************)
EXTENDS ODReserve

CONSTANTS alice, bob, p0, Held

MCWbtcHeld == [a \in Accounts |-> Held]
MCWbtcIsToken0Of == [p \in Pools |-> p = p0]
=============================================================================
