---------------------------- MODULE MCBootstrap ----------------------------
(***************************************************************************)
(* The script's run for TLC: RATIO_SCALE = 1, no fee, one deployer and the *)
(* pool's account.                                                         *)
(***************************************************************************)
EXTENDS BootstrapScript

CONSTANTS deployer, pool, pair

MCWbtcHeld == [a \in Accounts |-> IF a = deployer THEN 6 ELSE 0]
MCWbtcIsToken0Of == [p \in Pools |-> TRUE]
=============================================================================
