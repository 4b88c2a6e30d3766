------------------------------ MODULE MCCabal ------------------------------
(***************************************************************************)
(* Instance of Cabal for TLC: a seed price of two tokens, SCALE base units *)
(* each, is typed, and an amount of half a token or of one.                *)
(***************************************************************************)
EXTENDS Cabal

CONSTANTS deployer, w1, w2, pair

MCWbtcHeld == [a \in Accounts |-> 0]
MCWbtcIsToken0Of == [p \in Pools |-> TRUE]
MCTyped == [s \in AmountSteps \cup {4} |-> IF s = 4 THEN {4} ELSE {1, 2}]

(* Pages and wallets only differ by name. *)
MCSymmetry == Permutations(Pages) \cup Permutations(Wallets)
=============================================================================
