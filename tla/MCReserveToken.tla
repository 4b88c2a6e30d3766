--------------------------- MODULE MCReserveToken ---------------------------
(***************************************************************************)
(* ReserveToken on its own, called by every address in any order, with the *)
(* history of the addresses that ever changed the supply.                  *)
(***************************************************************************)
EXTENDS ReserveToken, FiniteSets

VARIABLE issuers

historyVars == <<tokenVars, issuers>>

MCInit == Init /\ issuers = {}

MCNext ==
  /\ Next
  /\ issuers' = IF supply' # supply
                THEN issuers \cup {reserveAddress} ELSE issuers

MCSpec == MCInit /\ [][MCNext]_historyVars

-----------------------------------------------------------------------------
(* However ownership moves and whoever calls setReserve, one address at    *)
(* most ever mints or burns (OD.ts: setReserve can only be called once).   *)
OneIssuerEver == Cardinality(issuers) <= 1
=============================================================================
