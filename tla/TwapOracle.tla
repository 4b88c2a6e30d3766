----------------------------- MODULE TwapOracle -----------------------------
(***************************************************************************)
(* The phase machine and the TWAP oracle of ODReserve.ts, next to the      *)
(* MotoSwap pools it reads (external, Uniswap V2 style) and the block      *)
(* height.  Who may call what, and the money, are added by ODReserve.      *)
(*                                                                         *)
(* A pool's accumulators move only when somebody trades on it: the price   *)
(* in force since its last trade is then added once per elapsed block.     *)
(* _computeTwap is one operator for its value (Twap) and one action for    *)
(* its effect (ComputeTwap); a view method that is sent as a transaction   *)
(* keeps that effect.                                                      *)
(***************************************************************************)
EXTENDS ReserveMath

CONSTANTS
  Pools,          \* addresses the owner may pass to initPool
  NoAddress,      \* the zero address
  WbtcIsToken0Of, \* pool -> whether token0() is the WBTC address
  SpotPrices,     \* prices a trade can leave in a pool
  SeedPrices,     \* arguments tried for advancePhase
  TWAP_WINDOW,    \* TWAP_WINDOW_DEFAULT, in blocks
  FirstBlock,     \* height at deployment
  MaxBlock        \* bound of the model on the height

SEEDING == 0
PREMINT == 1
LIVE == 2

ASSUME OracleAssumption ==
  /\ NoAddress \notin Pools
  /\ WbtcIsToken0Of \in [Pools -> BOOLEAN]
  /\ SpotPrices \subseteq Nat \ {0}
  /\ SeedPrices \subseteq Nat
  /\ TWAP_WINDOW \in Nat \ {0}
  /\ FirstBlock \in Nat \ {0}
  /\ MaxBlock \in Nat

VARIABLES
  block,              \* Blockchain.block.number
  spot,               \* pool -> WBTC price in force, 0 before liquidity
  cumulative,         \* pool -> price0/price1CumulativeLast
  lastTrade,          \* pool -> block in which the accumulators moved
  phase, seedPrice,
  poolAddr, wbtcIsToken0,
  twapSnapshot, twapSnapshotBlock, currentTwap

poolVars == <<spot, cumulative, lastTrade>>
bindingVars == <<poolAddr, wbtcIsToken0>>
snapshotVars == <<twapSnapshot, twapSnapshotBlock>>
oracleVars == <<phase, seedPrice, bindingVars, snapshotVars, currentTwap>>
chainVars == <<block, poolVars>>
twapVars == <<chainVars, oracleVars>>

OracleInit ==
  /\ block = FirstBlock
  /\ spot = [p \in Pools |-> 0]
  /\ cumulative = [p \in Pools |-> [side \in {0, 1} |-> 0]]
  /\ lastTrade = [p \in Pools |-> FirstBlock]
  /\ phase = SEEDING
  /\ seedPrice = 0
  /\ poolAddr = NoAddress
  /\ wbtcIsToken0 = FALSE
  /\ twapSnapshot = 0
  /\ twapSnapshotBlock = 0
  /\ currentTwap = 0

-----------------------------------------------------------------------------
(* Reading the pool. *)

\* Accumulator of a pool that _readPoolCumulative selects.
SideRead(isToken0) == IF isToken0 THEN 0 ELSE 1

Cumulative(pool, isToken0) == cumulative[pool][SideRead(isToken0)]

PoolSet == poolAddr # NoAddress

ReadPoolCumulative == Cumulative(poolAddr, wbtcIsToken0)

\* No snapshot was ever taken although there is a pool.
SnapshotMissing == PoolSet /\ twapSnapshotBlock = 0

Elapsed == block - twapSnapshotBlock

(* Mutant of WindowFilled: the window is one block too long. *)
WindowOverfilled == PoolSet /\ ~SnapshotMissing /\ Elapsed > TWAP_WINDOW

\* _computeTwap gets to its refresh.
WindowFilled == PoolSet /\ ~SnapshotMissing /\ Elapsed >= TWAP_WINDOW

\* The SafeMath.sub calls of _computeTwap do not revert.
OracleReadable ==
  (PoolSet /\ ~SnapshotMissing /\ Elapsed # 0) =>
     Elapsed > 0 /\ ReadPoolCumulative >= twapSnapshot

\* The value _computeTwap returns in this state.
Twap ==
  IF ~PoolSet \/ SnapshotMissing THEN 0
  ELSE IF Elapsed = 0 THEN currentTwap
  ELSE (ReadPoolCumulative - twapSnapshot) \div Elapsed

-----------------------------------------------------------------------------
(* The contract's steps. *)

TakeSnapshot ==
  /\ PoolSet
  /\ twapSnapshot' = ReadPoolCumulative
  /\ twapSnapshotBlock' = block

(* Mutant of ComputeTwap: the refreshed window's average is not stored. *)
ComputeTwapNotStored ==
  /\ OracleReadable
  /\ IF WindowFilled \/ SnapshotMissing
     THEN TakeSnapshot ELSE UNCHANGED snapshotVars
  /\ phase' = IF WindowFilled /\ phase = PREMINT THEN LIVE ELSE phase
  /\ UNCHANGED <<seedPrice, bindingVars, currentTwap>>

(* Mutant of ComputeTwap: LIVE is entered from SEEDING as well. *)
ComputeTwapSkipsPremint ==
  /\ OracleReadable
  /\ IF WindowFilled \/ SnapshotMissing
     THEN TakeSnapshot ELSE UNCHANGED snapshotVars
  /\ currentTwap' = IF WindowFilled THEN Twap ELSE currentTwap
  /\ phase' = IF WindowFilled THEN LIVE ELSE phase
  /\ UNCHANGED <<seedPrice, bindingVars>>

\* What _computeTwap leaves behind.
ComputeTwap ==
  /\ OracleReadable
  /\ IF WindowFilled \/ SnapshotMissing
     THEN TakeSnapshot ELSE UNCHANGED snapshotVars
  /\ currentTwap' = IF WindowFilled THEN Twap ELSE currentTwap
  /\ phase' = IF WindowFilled /\ phase = PREMINT THEN LIVE ELSE phase
  /\ UNCHANGED <<seedPrice, bindingVars>>

(* Mutant of InitPool: the snapshot of the previous pool is kept. *)
InitPoolKeepsSnapshot(pool) ==
  /\ poolAddr' = pool
  /\ wbtcIsToken0' = WbtcIsToken0Of[pool]
  /\ twapSnapshotBlock' = block
  /\ UNCHANGED <<twapSnapshot, phase, seedPrice, currentTwap>>

(* Mutant of InitPool: token0() is asked after the snapshot. *)
InitPoolSnapshotFirst(pool) ==
  /\ poolAddr' = pool
  /\ wbtcIsToken0' = WbtcIsToken0Of[pool]
  /\ twapSnapshot' = Cumulative(pool, wbtcIsToken0)
  /\ twapSnapshotBlock' = block
  /\ UNCHANGED <<phase, seedPrice, currentTwap>>

InitPool(pool) ==
  /\ poolAddr' = pool
  /\ wbtcIsToken0' = WbtcIsToken0Of[pool]
  /\ twapSnapshot' = Cumulative(pool, WbtcIsToken0Of[pool])
  /\ twapSnapshotBlock' = block
  /\ UNCHANGED <<phase, seedPrice, currentTwap>>

UpdateTwapSnapshot ==
  /\ TakeSnapshot
  /\ UNCHANGED <<phase, seedPrice, bindingVars, currentTwap>>

(* Mutant of AdvancePhase: the phase is not looked at. *)
AdvancePhaseAnytime(price) ==
  /\ price # 0
  /\ seedPrice' = price
  /\ phase' = phase + 1
  /\ UNCHANGED <<bindingVars, snapshotVars, currentTwap>>

CanAdvance(price) == phase = SEEDING /\ price # 0

AdvancePhase(price) ==
  /\ CanAdvance(price)
  /\ seedPrice' = price
  /\ phase' = PREMINT
  /\ UNCHANGED <<bindingVars, snapshotVars, currentTwap>>

-----------------------------------------------------------------------------
(* The environment. *)

\* Price that accumulator `side` of a pool adds per block.
AccumulatedPrice(pool, side, price) ==
  IF price = 0 THEN 0
  ELSE IF (side = 0) = WbtcIsToken0Of[pool] THEN price
  ELSE (RATIO_SCALE * RATIO_SCALE) \div price

Trade(pool, price) ==
  /\ cumulative' = [cumulative EXCEPT ![pool] = [side \in {0, 1} |->
       @[side] + AccumulatedPrice(pool, side, spot[pool])
                   * (block - lastTrade[pool])]]
  /\ lastTrade' = [lastTrade EXCEPT ![pool] = block]
  /\ spot' = [spot EXCEPT ![pool] = price]
  /\ UNCHANGED block

MineBlock ==
  /\ block < MaxBlock
  /\ block' = block + 1
  /\ UNCHANGED poolVars

Environment ==
  \/ MineBlock
  \/ \E pool \in Pools, price \in SpotPrices : Trade(pool, price)

\* advancePhase, initPool and the calls that reach the pool.
OracleStep ==
  \/ ComputeTwap
  \/ UpdateTwapSnapshot
  \/ \E pool \in Pools : InitPool(pool)
  \/ \E price \in SeedPrices : AdvancePhase(price)

OracleNext ==
  \/ Environment /\ UNCHANGED oracleVars
  \/ OracleStep /\ UNCHANGED chainVars

OracleSpec == OracleInit /\ [][OracleNext]_twapVars

\* A chain that keeps producing blocks, and somebody who keeps calling.
OracleFairSpec ==
  /\ OracleSpec
  /\ WF_twapVars(MineBlock /\ UNCHANGED oracleVars)
  /\ WF_twapVars(ComputeTwap /\ UNCHANGED chainVars)

-----------------------------------------------------------------------------
OracleTypeOK ==
  /\ block \in Nat
  /\ spot \in [Pools -> Nat]
  /\ cumulative \in [Pools -> [{0, 1} -> Nat]]
  /\ lastTrade \in [Pools -> Nat]
  /\ phase \in {SEEDING, PREMINT, LIVE}
  /\ seedPrice \in Nat
  /\ poolAddr \in Pools \cup {NoAddress}
  /\ wbtcIsToken0 \in BOOLEAN
  /\ twapSnapshot \in Nat
  /\ twapSnapshotBlock \in Nat
  /\ currentTwap \in Nat

(* The two subtractions of _computeTwap never underflow, in whatever order *)
(* pools are bound, traded on and snapshotted: otherwise every price-      *)
(* dependent call, redemption included, would revert until the next        *)
(* initPool.                                                               *)
OracleNeverReverts == OracleReadable

(* Reading the price twice in one transaction, as mintORC does (once for   *)
(* the ratio check, once in _computeOrcOut), gives the same price: the     *)
(* first reading may refresh the window and change the phase.              *)
ReadTwiceSame ==
  [][ComputeTwap /\ UNCHANGED chainVars => Twap' = Twap]_twapVars

(* The reserve is never LIVE without a seed price, a pool, and a whole     *)
(* window of blocks since deployment.                                      *)
LiveAfterWindow ==
  phase = LIVE =>
    seedPrice # 0 /\ PoolSet /\ block >= FirstBlock + TWAP_WINDOW

(* Once a pool is bound in PREMINT the reserve goes LIVE, unless somebody  *)
(* restarts the window first (updateTwapSnapshot, or initPool again).      *)
LiveUnlessRestarted ==
  \A b \in FirstBlock..(MaxBlock - TWAP_WINDOW) :
    (phase = PREMINT /\ PoolSet /\ twapSnapshotBlock = b)
      ~> (phase = LIVE \/ twapSnapshotBlock # b)
=============================================================================
