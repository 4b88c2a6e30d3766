----------------------------- MODULE Submission -----------------------------
(***************************************************************************)
(* How the operators' tools reach the contracts: simulate the call, stop   *)
(* on a revert, broadcast the transaction and do not wait for the block    *)
(* (scripts/bootstrap.ts, server/src/lib/executor.ts, cabal's              *)
(* useContractCall.ts).  The transactions of one sender are included in    *)
(* the order it sent them, each spending the change of the one before;     *)
(* those of two senders in any order (external: the chain).                *)
(* A simulation sees the included transactions only, so that a transaction *)
(* that simulated well may still revert, and then changes nothing.  The    *)
(* time between simulation and broadcast is part of the time a transaction *)
(* waits: both are one step here.                                          *)
(***************************************************************************)
EXTENDS ODReserve, Sequences

CONSTANTS
  PoolAccount,     \* the account that stands for what the pool holds
  ThePool,         \* the address createPool gives the WBTC/OD pair
  LiquidityWbtc, LiquidityOd, \* amounts of addLiquidity
  MaxPending       \* bound of the model on one sender's waiting transactions

ASSUME SubmissionAssumption ==
  /\ PoolAccount \in Accounts
  /\ ThePool \in Pools
  /\ {LiquidityWbtc, LiquidityOd} \subseteq Nat \ {0}
  /\ MaxPending \in Nat \ {0}

VARIABLES
  mempool,         \* sender -> transactions broadcast, not yet included
  reserveAllowed,  \* account -> WBTC that ODReserve may pull from it
  routerAllowed,   \* account -> tokens that the MotoSwap router may pull
  poolCreated      \* factory.createPool has been executed

allowanceVars == <<reserveAllowed, routerAllowed>>
marketVars == <<allowanceVars, poolCreated>>
submissionVars == <<vars, marketVars, mempool>>

Tx(method, on, arg) == [method |-> method, on |-> on, arg |-> arg]

SubmissionInit ==
  /\ Init
  /\ mempool = [a \in Accounts |-> <<>>]
  /\ reserveAllowed = [a \in Accounts |-> 0]
  /\ routerAllowed = [a \in Accounts |-> {}]
  /\ poolCreated = FALSE

-----------------------------------------------------------------------------
(* What one transaction does on the chain. *)

LinkToken(from, token) ==
  /\ IF token = "OD" THEN OD!SetReserve(from, Reserve) /\ UNCHANGED orcVars
                     ELSE ORC!SetReserve(from, Reserve) /\ UNCHANGED odVars
  /\ UNCHANGED <<twapVars, owner, premintDone, wbtc, marketVars>>

HandOverToken(from, token, new) ==
  /\ IF token = "OD" THEN OD!TransferOwnership(from, new) /\ UNCHANGED orcVars
                     ELSE ORC!TransferOwnership(from, new) /\ UNCHANGED odVars
  /\ UNCHANGED <<twapVars, owner, premintDone, wbtc, marketVars>>

HandOver(from, contract, new) ==
  \/ contract = "Reserve" /\ TransferOwnership(from, new) /\ UNCHANGED marketVars
  \/ contract # "Reserve" /\ HandOverToken(from, contract, new)

\* OP-20 increaseAllowance stops at the largest u256 (external).
Raised(amount, by) == IF Fits(amount + by) THEN amount + by ELSE U256_MAX

ApproveReserve(from, amount) ==
  /\ reserveAllowed' = [reserveAllowed EXCEPT ![from] = Raised(@, amount)]
  /\ UNCHANGED <<vars, routerAllowed, poolCreated>>

ApproveRouter(from, token) ==
  /\ routerAllowed' = [routerAllowed EXCEPT ![from] = @ \cup {token}]
  /\ UNCHANGED <<vars, reserveAllowed, poolCreated>>

CanSeed(from, amount) ==
  amount <= reserveAllowed[from] /\ MintORCAccepted(from, amount)

Seed(from, amount) ==
  /\ CanSeed(from, amount)
  /\ MintORC(from, amount)
  /\ reserveAllowed' = [reserveAllowed EXCEPT ![from] = @ - amount]
  /\ UNCHANGED <<routerAllowed, poolCreated>>

\* factory.createPool (external): once per pair.
CreatePool ==
  /\ ~poolCreated
  /\ poolCreated' = TRUE
  /\ UNCHANGED <<vars, allowanceVars>>

\* router.addLiquidity (external) into the new pool fixes its first price.
CanAddLiquidity(from) ==
  /\ poolCreated /\ spot[ThePool] = 0
  /\ routerAllowed[from] = {"OD", "WBTC"}
  /\ OD!CanTransfer(from, PoolAccount, LiquidityOd)
  /\ CanPay(from, PoolAccount, LiquidityWbtc)

AddLiquidity(from) ==
  /\ CanAddLiquidity(from)
  /\ OD!Transfer(from, PoolAccount, LiquidityOd)
  /\ WbtcTransfer(from, PoolAccount, LiquidityWbtc)
  /\ Trade(ThePool, (LiquidityOd * RATIO_SCALE) \div LiquidityWbtc)
  /\ routerAllowed' = [routerAllowed EXCEPT ![from] = {}]
  /\ UNCHANGED <<oracleVars, owner, premintDone, orcVars,
                 reserveAllowed, poolCreated>>

\* The contract asks the pool for its tokens, so there has to be one.
RegisterPool(from, pool) ==
  /\ poolCreated
  /\ OwnerInitPool(from, pool)
  /\ UNCHANGED marketVars

Call(from, tx) ==
  \/ tx.method = "setReserve" /\ LinkToken(from, tx.on)
  \/ tx.method = "transferOwnership" /\ HandOver(from, tx.on, tx.arg)
  \/ tx.method = "increaseAllowance" /\ tx.on = "WBTC" /\ ApproveReserve(from, tx.arg)
  \/ tx.method = "approveRouter" /\ ApproveRouter(from, tx.on)
  \/ tx.method = "mintORC" /\ Seed(from, tx.arg)
  \/ tx.method = "advancePhase" /\ OwnerAdvancePhase(from, tx.arg) /\ UNCHANGED marketVars
  \/ tx.method = "premintOD" /\ PremintOD(from, tx.arg) /\ UNCHANGED marketVars
  \/ tx.method = "createPool" /\ CreatePool
  \/ tx.method = "addLiquidity" /\ AddLiquidity(from)
  \/ tx.method = "initPool" /\ RegisterPool(from, tx.arg)
  \/ tx.method = "updateTwapSnapshot" /\ RefreshSnapshot /\ UNCHANGED marketVars

Owner(contract) ==
  CASE contract = "Reserve" -> owner [] contract = "OD" -> odOwner [] OTHER -> orcOwner

\* `result.revert` of the simulation is empty: the methods' guards.
Simulates(from, tx) ==
  \/ tx.method = "setReserve"
       /\ (IF tx.on = "OD" THEN OD!CanSetReserve(from) ELSE ORC!CanSetReserve(from))
  \/ tx.method = "transferOwnership" /\ from = Owner(tx.on)
  \/ tx.method = "increaseAllowance" /\ tx.on = "WBTC"
  \/ tx.method = "approveRouter"
  \/ tx.method = "mintORC" /\ CanSeed(from, tx.arg)
  \/ tx.method = "advancePhase" /\ from = owner /\ CanAdvance(tx.arg)
  \/ tx.method = "premintOD" /\ PremintODAccepted(from, tx.arg)
  \/ tx.method = "createPool" /\ ~poolCreated
  \/ tx.method = "addLiquidity" /\ CanAddLiquidity(from)
  \/ tx.method = "initPool" /\ poolCreated /\ from = owner
  \/ tx.method = "updateTwapSnapshot" /\ PoolSet

\* simulation.sendTransaction.
Broadcast(from, tx) ==
  /\ Len(mempool[from]) < MaxPending
  /\ mempool' = [mempool EXCEPT ![from] = Append(@, tx)]

-----------------------------------------------------------------------------
(* The chain (external). *)

Executed(from) == Call(from, Head(mempool[from]))

Reverted(from) ==
  /\ ~Simulates(from, Head(mempool[from]))
  /\ UNCHANGED <<vars, marketVars>>

Include(from) ==
  /\ mempool[from] # <<>>
  /\ mempool' = [mempool EXCEPT ![from] = Tail(@)]
  /\ Executed(from) \/ Reverted(from)

\* Heights are told apart only once a pool is registered.
NextBlock ==
  /\ PoolSet
  /\ MineBlock
  /\ UNCHANGED <<oracleVars, owner, premintDone, moneyVars, marketVars, mempool>>

\* A view method that computes the TWAP, sent as a transaction by anybody.
\* (In PREMINT mintOD, burnOD, mintORC and burnORC revert before they do.)
ReadPrice == View /\ UNCHANGED <<marketVars, mempool>>
=============================================================================
