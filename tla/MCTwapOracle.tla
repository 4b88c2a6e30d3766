---------------------------- MODULE MCTwapOracle ----------------------------
(***************************************************************************)
(* Instance of TwapOracle for TLC: two pools that list WBTC on different   *)
(* sides, a window of two blocks and two prices.                           *)
(***************************************************************************)
EXTENDS TwapOracle

CONSTANTS p0, p1

MCPools == {p0, p1}
MCWbtcIsToken0Of == [p \in MCPools |-> p = p0]
=============================================================================
