------------------------- MODULE ReserveToken_proofs -------------------------
(***************************************************************************)
(* Proof about one token on its own (MCReserveToken: ReserveToken and the  *)
(* history of the addresses that changed its supply), for every set of     *)
(* addresses, every amount and every maximal supply.                       *)
(***************************************************************************)
EXTENDS MCReserveToken, FiniteSetTheorems, TLAPS

\* Before setReserve nobody can have minted, and afterwards one address has.
IssuerInv ==
  /\ reserveSet \in BOOLEAN
  /\ ~reserveSet => reserveAddress = NoAddress /\ issuers = {}
  /\ reserveSet => reserveAddress \in Addresses /\ issuers \subseteq {reserveAddress}

LEMMA InitIssuerInv == MCInit => IssuerInv
  BY DEF MCInit, Init, IssuerInv

\* The calls that the owner makes leave the supply and its history alone.
LEMMA OwnerKeepsIssuers ==
  ASSUME IssuerInv, NEW caller \in Addresses, NEW other \in Addresses,
         SetReserve(caller, other) \/ TransferOwnership(caller, other), MCNext
  PROVE  IssuerInv'
<1>1. issuers' = issuers
  BY DEF MCNext, SetReserve, TransferOwnership
<1>2. CASE SetReserve(caller, other)
  BY <1>1, <1>2 DEF IssuerInv, SetReserve, CanSetReserve
<1>3. CASE TransferOwnership(caller, other)
  BY <1>1, <1>3 DEF IssuerInv, TransferOwnership
<1> QED
  BY <1>2, <1>3

\* The calls that move tokens are the reserve's when they change the supply.
LEMMA CallsKeepIssuers ==
  ASSUME IssuerInv, NEW caller \in Addresses, NEW other \in Addresses,
         NEW n \in Amounts,
         \/ Mint(caller, other, n) \/ Burn(caller, other, n)
         \/ Transfer(caller, other, n),
         MCNext
  PROVE  IssuerInv'
<1>1. reserveAddress' = reserveAddress /\ reserveSet' = reserveSet
  BY DEF Mint, Burn, Transfer, adminVars
<1>2. issuers' \in {issuers, issuers \cup {reserveAddress}}
  BY DEF MCNext
<1>3. CASE Mint(caller, other, n) \/ Burn(caller, other, n)
  <2>1. reserveAddress \in Addresses
    BY <1>3 DEF Mint, CanMint, Burn
  <2>2. reserveSet
    BY <2>1, TokenAssumption DEF IssuerInv
  <2> QED
    BY <1>1, <1>2, <2>1, <2>2 DEF IssuerInv
<1>4. CASE Transfer(caller, other, n)
  <2>1. issuers' = issuers
    BY <1>4 DEF MCNext, Transfer
  <2> QED
    BY <1>1, <2>1 DEF IssuerInv
<1> QED
  BY <1>3, <1>4

LEMMA StepIssuerInv == IssuerInv /\ [MCNext]_historyVars => IssuerInv'
<1> SUFFICES ASSUME IssuerInv, [MCNext]_historyVars PROVE IssuerInv'
  OBVIOUS
<1>1. CASE UNCHANGED historyVars
  BY <1>1 DEF IssuerInv, historyVars, tokenVars
<1>2. CASE MCNext
  <2>1. PICK caller \in Addresses, other \in Addresses :
          \/ SetReserve(caller, other)
          \/ TransferOwnership(caller, other)
          \/ \E n \in Amounts :
               \/ Mint(caller, other, n)
               \/ Burn(caller, other, n)
               \/ Transfer(caller, other, n)
    BY <1>2 DEF MCNext, Next
  <2> QED
    BY <1>2, <2>1, OwnerKeepsIssuers, CallsKeepIssuers
<1> QED
  BY <1>1, <1>2

\* At most one address satisfies the invariant's description.
LEMMA IssuersAreOne == IssuerInv => OneIssuerEver
<1> SUFFICES ASSUME IssuerInv PROVE Cardinality(issuers) <= 1
  BY DEF OneIssuerEver
<1>1. issuers \in SUBSET {reserveAddress}
  BY DEF IssuerInv
<1>2. IsFiniteSet({reserveAddress}) /\ Cardinality({reserveAddress}) = 1
  BY FS_Singleton
<1> QED
  BY <1>1, <1>2, FS_Subset

(* However often the token's owner changes and whoever calls setReserve,   *)
(* every mint and burn of OD.ts (or ORC.ts) there will ever be comes from  *)
(* one and the same address.                                               *)
THEOREM SupplyHasOneIssuer == MCSpec => []OneIssuerEver
  BY InitIssuerInv, StepIssuerInv, IssuersAreOne, PTL DEF MCSpec
=============================================================================
