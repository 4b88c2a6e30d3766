---------------------------- MODULE ReserveToken ----------------------------
(***************************************************************************)
(* OD.ts and ORC.ts: the same OP-20 token twice.  Supply changes only by   *)
(* mint and burn, which only the reserve address may call; the owner sets  *)
(* that address once; ownership can be handed on any number of times.      *)
(* The balances are those of the OP20 base class (external).               *)
(***************************************************************************)
EXTENDS Integers

CONSTANTS
  Addresses,     \* every address that can call or hold tokens
  NoAddress,     \* the zero address a StoredAddress starts with
  Deployer,      \* Blockchain.tx.sender of onDeployment
  MaxSupply,     \* maxSupply of OP20InitParameters: u256.Max
  Amounts        \* amounts tried by mint, burn and transfer

ASSUME TokenAssumption ==
  /\ Deployer \in Addresses
  /\ NoAddress \notin Addresses
  /\ MaxSupply \in Nat
  /\ Amounts \subseteq Nat

VARIABLES owner, reserveAddress, reserveSet, balance, supply

tokenVars == <<owner, reserveAddress, reserveSet, balance, supply>>
adminVars == <<owner, reserveAddress, reserveSet>>

Init ==
  /\ owner = Deployer
  /\ reserveAddress = NoAddress
  /\ reserveSet = FALSE
  /\ balance = [a \in Addresses |-> 0]
  /\ supply = 0

-----------------------------------------------------------------------------
(* Mutant of CanSetReserve: the "already set" check is dropped. *)
CanSetReserveAgain(caller) == caller = owner

CanSetReserve(caller) == caller = owner /\ ~reserveSet

SetReserve(caller, reserve) ==
  /\ CanSetReserve(caller)
  /\ reserveAddress' = reserve
  /\ reserveSet' = TRUE
  /\ UNCHANGED <<owner, balance, supply>>

TransferOwnership(caller, newOwner) ==
  /\ caller = owner
  /\ owner' = newOwner
  /\ UNCHANGED <<reserveAddress, reserveSet, balance, supply>>

CanMint(caller, amount) ==
  caller = reserveAddress /\ supply + amount <= MaxSupply

Mint(caller, to, amount) ==
  /\ CanMint(caller, amount)
  /\ balance' = [balance EXCEPT ![to] = @ + amount]
  /\ supply' = supply + amount
  /\ UNCHANGED adminVars

(* Mutant of Burn: the supply is not reduced. *)
BurnKeepsSupply(caller, from, amount) ==
  /\ caller = reserveAddress
  /\ amount <= balance[from] /\ amount <= supply
  /\ balance' = [balance EXCEPT ![from] = @ - amount]
  /\ UNCHANGED <<supply, adminVars>>

Burn(caller, from, amount) ==
  /\ caller = reserveAddress
  /\ amount <= balance[from] /\ amount <= supply
  /\ balance' = [balance EXCEPT ![from] = @ - amount]
  /\ supply' = supply - amount
  /\ UNCHANGED adminVars

\* OP20.transfer, inherited (external).
CanTransfer(from, to, amount) == from # to /\ amount <= balance[from]

Transfer(from, to, amount) ==
  /\ CanTransfer(from, to, amount)
  /\ balance' = [balance EXCEPT ![from] = @ - amount, ![to] = @ + amount]
  /\ UNCHANGED <<supply, adminVars>>

Next ==
  \E caller, other \in Addresses :
    \/ SetReserve(caller, other)
    \/ TransferOwnership(caller, other)
    \/ \E n \in Amounts :
         \/ Mint(caller, other, n)
         \/ Burn(caller, other, n)
         \/ Transfer(caller, other, n)

Spec == Init /\ [][Next]_tokenVars
=============================================================================
