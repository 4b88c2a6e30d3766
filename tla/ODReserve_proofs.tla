-------------------------- MODULE ODReserve_proofs --------------------------
(***************************************************************************)
(* Proofs about ODReserve and the oracle in it, in three parts:            *)
(*   - the arithmetic of ReserveMath, cited afterwards instead of          *)
(*     reasoning about \div: what truncating divisions lose, and to whom;  *)
(*   - TwapOracle, for every set of pools, every price, window and height: *)
(*     its subtractions never underflow, LIVE needs a whole window, reading*)
(*     the TWAP twice in a transaction gives the same value and, with the  *)
(*     history of MCTwapHistory, the TWAP is the average it is documented  *)
(*     to be;                                                              *)
(*   - ODReserve with the contracts it calls, for every finite set of      *)
(*     accounts, every amount, price, window and u256 bound.               *)
(***************************************************************************)
EXTENDS ODReserve, MCTwapHistory, FiniteSetTheorems, WellFoundedInduction, TLAPS

-----------------------------------------------------------------------------
(* Arithmetic. *)

\* A truncated quotient, as bounds on the product.
LEMMA DivBounds ==
  ASSUME NEW a \in Nat, NEW b \in Nat \ {0}
  PROVE  /\ a \div b \in Nat
         /\ b * (a \div b) <= a
         /\ a < b * (a \div b) + b
  BY SMT

\* A product of naturals is a natural.
LEMMA MulNat ==
  ASSUME NEW a \in Nat, NEW b \in Nat
  PROVE  a * b \in Nat
  BY SMT

\* Multiplication by a natural is monotonic.
LEMMA MulMono ==
  ASSUME NEW a \in Nat, NEW b \in Nat, NEW c \in Nat, a <= b
  PROVE  /\ a * c <= b * c
         /\ c * a <= c * b
  BY SMT

\* A positive factor cancels from an inequality.
LEMMA MulCancel ==
  ASSUME NEW a \in Int, NEW b \in Int, NEW c \in Nat \ {0}, c * a <= c * b
  PROVE  a <= b
  BY SMT

\* A quotient that reaches a floor: so does the dividend.
LEMMA DivGe ==
  ASSUME NEW a \in Nat, NEW b \in Nat \ {0}, NEW c \in Nat, c <= a \div b
  PROVE  c * b <= a
<1>1. b * (a \div b) <= a /\ a \div b \in Nat
  BY DivBounds
<1>2. b * c <= b * (a \div b)
  BY <1>1, MulMono
<1> QED
  BY <1>1, <1>2, SMT

\* A quotient is the largest number whose product fits.
LEMMA DivMax ==
  ASSUME NEW a \in Nat, NEW b \in Nat \ {0}, NEW c \in Nat, b * c <= a
  PROVE  c <= a \div b
<1>1. a < b * (a \div b) + b /\ a \div b \in Nat
  BY DivBounds
<1>2. b * c < b * ((a \div b) + 1)
  BY <1>1, SMT
<1> QED
  BY <1>1, <1>2, SMT

\* A factor of a product that fits in a u256 fits too.
LEMMA FactorFits ==
  ASSUME NEW a \in Nat \ {0}, NEW b \in Nat, Fits(a * b)
  PROVE  b <= U256_MAX
<1>1. b <= a * b /\ a * b \in Nat
  BY SMT
<1> QED
  BY <1>1, ReserveMathAssumption DEF Fits

\* The fee never exceeds the amount it is taken from.
LEMMA NetBounds ==
  ASSUME NEW a \in Nat
  PROVE  Net(a) \in Nat /\ Net(a) <= a
<1>1. FEE \in Nat /\ FEE <= FEE_SCALE /\ FEE_SCALE \in Nat \ {0}
  BY ReserveMathAssumption
<1>2. a * FEE \in Nat /\ a * FEE <= a * FEE_SCALE
  BY <1>1, MulNat, MulMono
<1> DEFINE fee == (a * FEE) \div FEE_SCALE
<1>3. fee \in Nat /\ FEE_SCALE * fee <= a * FEE
  BY <1>1, <1>2, DivBounds
<1>4. FEE_SCALE * fee <= FEE_SCALE * a
  BY <1>1, <1>2, <1>3, SMT
<1>5. fee <= a
  BY <1>1, <1>3, <1>4, MulCancel
<1> QED
  BY <1>3, <1>5 DEF Net

\* mintOD issues at most what the deposit is worth.
LEMMA OdForWbtcBounds ==
  ASSUME NEW paid \in Nat, NEW price \in Nat
  PROVE  /\ OdForWbtc(paid, price) \in Nat
         /\ OdForWbtc(paid, price) * RATIO_SCALE <= paid * price
<1>1. RATIO_SCALE \in Nat \ {0} /\ paid * price \in Nat
  BY ReserveMathAssumption, MulNat
<1> QED
  BY <1>1, DivBounds DEF OdForWbtc

\* burnOD pays at most what the OD is worth.
LEMMA WbtcForOdBounds ==
  ASSUME NEW od \in Nat, NEW price \in Nat \ {0}
  PROVE  /\ WbtcForOd(od, price) \in Nat
         /\ WbtcForOd(od, price) * price <= od * RATIO_SCALE
<1>1. od * RATIO_SCALE \in Nat
  BY ReserveMathAssumption, MulNat
<1> QED
  BY <1>1, DivBounds DEF WbtcForOd

\* The value of the OD liability is a natural number.
LEMMA LiabilityNat ==
  ASSUME NEW od \in Nat, NEW price \in Nat \ {0}
  PROVE  LiabilityInWbtc(od, price) \in Nat
<1>1. od * RATIO_SCALE \in Nat
  BY ReserveMathAssumption, MulNat
<1> QED
  BY <1>1, DivBounds DEF LiabilityInWbtc

\* Equity lies between zero and the reserve.
LEMMA EquityBounds ==
  ASSUME NEW reserve \in Nat, NEW od \in Nat, NEW price \in Nat
  PROVE  /\ EquityInWbtc(reserve, od, price) \in Nat
         /\ EquityInWbtc(reserve, od, price) <= reserve
<1>1. CASE price = 0
  BY <1>1 DEF EquityInWbtc
<1>2. CASE price # 0
  <2>1. LiabilityInWbtc(od, price) \in Nat
    BY <1>2, LiabilityNat
  <2> QED
    BY <1>2, <2>1 DEF EquityInWbtc
<1> QED
  BY <1>1, <1>2

\* Equity follows the reserve: it grows by what is added, once positive.
LEMMA EquityOfDeposit ==
  ASSUME NEW reserve \in Nat, NEW od \in Nat, NEW price \in Nat, NEW n \in Nat
  PROVE  /\ EquityInWbtc(reserve, od, price) <= EquityInWbtc(reserve + n, od, price)
         /\ EquityInWbtc(reserve, od, price) # 0
              => EquityInWbtc(reserve + n, od, price)
                   = EquityInWbtc(reserve, od, price) + n
<1>1. CASE price = 0
  BY <1>1 DEF EquityInWbtc
<1>2. CASE price # 0
  <2>1. LiabilityInWbtc(od, price) \in Nat
    BY <1>2, LiabilityNat
  <2> QED
    BY <1>2, <2>1 DEF EquityInWbtc
<1> QED
  BY <1>1, <1>2

\* A payout not above the equity comes out of it and nothing else.
LEMMA EquityOfWithdrawal ==
  ASSUME NEW reserve \in Nat, NEW od \in Nat, NEW price \in Nat,
         NEW n \in Nat, n <= EquityInWbtc(reserve, od, price)
  PROVE  EquityInWbtc(reserve - n, od, price)
           = EquityInWbtc(reserve, od, price) - n
<1>1. CASE price = 0
  BY <1>1 DEF EquityInWbtc
<1>2. CASE price # 0
  <2>1. LiabilityInWbtc(od, price) \in Nat
    BY <1>2, LiabilityNat
  <2> QED
    BY <1>2, <2>1 DEF EquityInWbtc
<1> QED
  BY <1>1, <1>2

\* OD sold at no better than the price adds no more liability than WBTC.
LEMMA EquityOfOdMint ==
  ASSUME NEW reserve \in Nat, NEW od \in Nat, NEW price \in Nat \ {0},
         NEW n \in Nat, NEW out \in Nat, out * RATIO_SCALE <= n * price
  PROVE  EquityInWbtc(reserve, od, price)
           <= EquityInWbtc(reserve + n, od + out, price)
<1> DEFINE old == LiabilityInWbtc(od, price)
           new == LiabilityInWbtc(od + out, price)
<1>1. /\ RATIO_SCALE \in Nat /\ od * RATIO_SCALE \in Nat
      /\ (od + out) * RATIO_SCALE \in Nat /\ out * RATIO_SCALE \in Nat
      /\ n * price \in Nat
  BY ReserveMathAssumption, MulNat, od + out \in Nat
<1>2. /\ old \in Nat /\ new \in Nat
      /\ od * RATIO_SCALE < price * old + price
      /\ price * new <= (od + out) * RATIO_SCALE
  BY <1>1, DivBounds DEF LiabilityInWbtc
<1>3. (od + out) * RATIO_SCALE = od * RATIO_SCALE + out * RATIO_SCALE
  BY <1>1, SMT
<1> HIDE DEF old, new
<1>4. price * new < price * (old + n + 1)
  BY <1>1, <1>2, <1>3, SMT
<1>5. new <= old + n
  BY <1>2, <1>4, SMT
<1> QED
  BY <1>2, <1>5 DEF EquityInWbtc, old, new

\* OD redeemed at no better than the price relieves at least what is paid.
LEMMA EquityOfOdBurn ==
  ASSUME NEW reserve \in Nat, NEW od \in Nat, NEW price \in Nat \ {0},
         NEW n \in Nat, NEW out \in Nat, n <= od, out <= reserve,
         out * price <= n * RATIO_SCALE
  PROVE  EquityInWbtc(reserve, od, price)
           <= EquityInWbtc(reserve - out, od - n, price)
<1> DEFINE old == LiabilityInWbtc(od, price)
           new == LiabilityInWbtc(od - n, price)
<1>1. /\ od - n \in Nat /\ RATIO_SCALE \in Nat
      /\ od * RATIO_SCALE \in Nat
      /\ (od - n) * RATIO_SCALE \in Nat /\ n * RATIO_SCALE \in Nat
      /\ out * price \in Nat
  BY ReserveMathAssumption, MulNat, od - n \in Nat
<1>2. /\ old \in Nat /\ new \in Nat
      /\ od * RATIO_SCALE < price * old + price
      /\ price * new <= (od - n) * RATIO_SCALE
  BY <1>1, DivBounds DEF LiabilityInWbtc
<1>3. (od - n) * RATIO_SCALE = od * RATIO_SCALE - n * RATIO_SCALE
  BY <1>1, SMT
<1> HIDE DEF old, new
<1>4. price * (new + out) < price * (old + 1)
  BY <1>1, <1>2, <1>3, SMT
<1>5. new + out <= old
  BY <1>2, <1>4, SMT
<1> QED
  BY <1>1, <1>2, <1>5 DEF EquityInWbtc, old, new

\* A depositor who gets at most a proportional share dilutes nobody.
LEMMA ShareBought ==
  ASSUME NEW e \in Nat, NEW e2 \in Nat, NEW orc \in Nat, NEW n \in Nat,
         NEW out \in Nat, e # 0 => e2 = e + n, e2 * out <= n * orc
  PROVE  e * (orc + out) <= e2 * orc
<1>1. CASE e = 0
  <2>1. e * (orc + out) = 0 /\ e2 * orc \in Nat
    BY <1>1, MulNat, SMT
  <2> QED
    BY <2>1
<1>2. CASE e # 0
  <2>1. e * out <= e2 * out
    BY <1>2, MulMono
  <2>2. e * (orc + out) = e * orc + e * out /\ (e + n) * orc = e * orc + n * orc
    BY SMT
  <2>3. /\ e * orc \in Nat /\ e * out \in Nat
        /\ e2 * out \in Nat /\ n * orc \in Nat
    BY MulNat
  <2> QED
    BY <1>2, <2>1, <2>2, <2>3
<1> QED
  BY <1>1, <1>2

\* Nor does a holder who is paid at most a proportional share.
LEMMA ShareSold ==
  ASSUME NEW e \in Nat, NEW orc \in Nat \ {0}, NEW n \in Nat, NEW out \in Nat,
         n <= orc, out * orc <= n * e
  PROVE  /\ out <= e
         /\ e * (orc - n) <= (e - out) * orc
<1>1. /\ out * orc \in Nat /\ n * e \in Nat /\ e * orc \in Nat
      /\ n * e <= orc * e
  BY MulNat, MulMono
<1>2. orc * out <= orc * e
  BY <1>1, SMT
<1>3. out <= e
  BY <1>2, MulCancel
<1>4. e * (orc - n) = e * orc - n * e /\ (e - out) * orc = e * orc - out * orc
  BY SMT
<1> QED
  BY <1>1, <1>3, <1>4

-----------------------------------------------------------------------------
USE DEF SEEDING, PREMINT, LIVE

(* The inductive invariant. *)

\* No pool has traded in the future.
ChainInv ==
  /\ block >= FirstBlock
  /\ \A p \in Pools : lastTrade[p] <= block

\* A bound pool has a snapshot that is neither ahead of time nor of the pool.
SnapshotInv ==
  PoolSet => /\ twapSnapshotBlock \in FirstBlock..block
             /\ twapSnapshot <= ReadPoolCumulative

PhaseInv ==
  /\ phase # SEEDING => seedPrice # 0
  /\ LiveAfterWindow

OracleInv == OracleTypeOK /\ ChainInv /\ SnapshotInv /\ PhaseInv

-----------------------------------------------------------------------------
\* What an accumulator adds in a block is a natural number.
LEMMA AccumulatedNat ==
  ASSUME NEW pool \in Pools, NEW side \in {0, 1}, NEW price \in Nat
  PROVE  AccumulatedPrice(pool, side, price) \in Nat
<1>1. RATIO_SCALE * RATIO_SCALE \in Nat
  BY ReserveMathAssumption, SMT
<1>2. CASE price = 0
  BY <1>2 DEF AccumulatedPrice
<1>3. CASE price # 0
  BY <1>1, <1>3, DivBounds DEF AccumulatedPrice
<1> QED
  BY <1>2, <1>3

\* Under the invariant the TWAP is a natural number in every state.
LEMMA TwapNat ==
  ASSUME OracleInv
  PROVE  Twap \in Nat
<1>1. CASE ~PoolSet \/ SnapshotMissing \/ Elapsed = 0
  BY <1>1 DEF Twap, OracleInv, OracleTypeOK
<1>2. CASE PoolSet /\ ~SnapshotMissing /\ Elapsed # 0
  <2>1. Elapsed \in Nat /\ Elapsed # 0
    BY <1>2, OracleAssumption
       DEF Elapsed, OracleInv, SnapshotInv, OracleTypeOK
  <2>2. ReadPoolCumulative \in Nat
    BY <1>2, OracleAssumption
       DEF ReadPoolCumulative, Cumulative, SideRead, PoolSet, OracleInv, OracleTypeOK
  <2>3. ReadPoolCumulative - twapSnapshot \in Nat
    BY <1>2, <2>2 DEF OracleInv, SnapshotInv, OracleTypeOK
  <2> QED
    BY <1>2, <2>1, <2>3, DivBounds DEF Twap
<1> QED
  BY <1>1, <1>2

-----------------------------------------------------------------------------
\* Deployment establishes the inductive invariant of the oracle.
LEMMA InitOracleInv == OracleInit => OracleInv
<1> SUFFICES ASSUME OracleInit PROVE OracleInv
  OBVIOUS
<1> USE OracleAssumption DEF OracleInit
<1>1. OracleTypeOK
  BY DEF OracleTypeOK
<1>2. ChainInv
  BY DEF ChainInv
<1>3. SnapshotInv /\ PhaseInv
  BY DEF SnapshotInv, PhaseInv, LiveAfterWindow, PoolSet
<1> QED
  BY <1>1, <1>2, <1>3 DEF OracleInv

\* Accumulators only grow: a trade adds the price times the blocks elapsed.
LEMMA TradeGrows ==
  ASSUME OracleInv, NEW pool \in Pools, NEW price \in SpotPrices,
         Trade(pool, price)
  PROVE  /\ cumulative' \in [Pools -> [{0, 1} -> Nat]]
         /\ \A p \in Pools, side \in {0, 1} :
              cumulative[p][side] <= cumulative'[p][side]
<1> DEFINE added(side) ==
      AccumulatedPrice(pool, side, spot[pool]) * (block - lastTrade[pool])
<1>1. ASSUME NEW side \in {0, 1} PROVE added(side) \in Nat
  <2>1. block - lastTrade[pool] \in Nat
    BY DEF OracleInv, OracleTypeOK, ChainInv
  <2>2. AccumulatedPrice(pool, side, spot[pool]) \in Nat
    BY AccumulatedNat DEF OracleInv, OracleTypeOK
  <2> QED
    BY <2>1, <2>2, MulNat
<1>2. cumulative' = [cumulative EXCEPT ![pool] =
                       [side \in {0, 1} |-> @[side] + added(side)]]
  BY DEF Trade
<1>3. cumulative \in [Pools -> [{0, 1} -> Nat]]
  BY DEF OracleInv, OracleTypeOK
<1> HIDE DEF added
<1> QED
  BY <1>1, <1>2, <1>3

\* A chain step keeps the invariant.
LEMMA EnvironmentInv ==
  ASSUME OracleInv, Environment, UNCHANGED oracleVars
  PROVE  OracleInv'
<1> USE DEF oracleVars, bindingVars, snapshotVars
<1>1. CASE MineBlock
  <2>1. block' = block + 1 /\ UNCHANGED <<spot, cumulative, lastTrade>>
    BY <1>1 DEF MineBlock, poolVars
  <2>2. OracleTypeOK'
    BY <2>1 DEF OracleInv, OracleTypeOK
  <2>3. ChainInv'
    BY <2>1, OracleAssumption DEF OracleInv, OracleTypeOK, ChainInv
  <2>4. SnapshotInv'
    BY <2>1, OracleAssumption
       DEF OracleInv, OracleTypeOK, SnapshotInv, PoolSet, ReadPoolCumulative,
           Cumulative
  <2>5. PhaseInv'
    BY <2>1, OracleAssumption
       DEF OracleInv, OracleTypeOK, PhaseInv, LiveAfterWindow, PoolSet
  <2> QED
    BY <2>2, <2>3, <2>4, <2>5 DEF OracleInv
<1>2. ASSUME NEW pool \in Pools, NEW price \in SpotPrices, Trade(pool, price)
      PROVE  OracleInv'
  <2>1. /\ cumulative' \in [Pools -> [{0, 1} -> Nat]]
        /\ \A p \in Pools, side \in {0, 1} :
             cumulative[p][side] <= cumulative'[p][side]
    BY <1>2, TradeGrows
  <2>2. /\ lastTrade' = [lastTrade EXCEPT ![pool] = block]
        /\ spot' = [spot EXCEPT ![pool] = price]
        /\ UNCHANGED block
    BY <1>2 DEF Trade
  <2>3. OracleTypeOK'
    BY <2>1, <2>2, OracleAssumption DEF OracleInv, OracleTypeOK
  <2>4. ChainInv'
    BY <2>2 DEF OracleInv, OracleTypeOK, ChainInv
  <2>5. SnapshotInv'
    <3> SUFFICES ASSUME PoolSet
                 PROVE  /\ twapSnapshotBlock' \in FirstBlock..block'
                        /\ twapSnapshot' <= ReadPoolCumulative'
      BY DEF SnapshotInv, PoolSet
    <3>1. poolAddr \in Pools /\ SideRead(wbtcIsToken0) \in {0, 1}
      BY DEF PoolSet, SideRead, OracleInv, OracleTypeOK
    <3>2. /\ ReadPoolCumulative \in Nat
          /\ ReadPoolCumulative' \in Nat
          /\ ReadPoolCumulative <= ReadPoolCumulative'
      BY <3>1, <2>1 DEF ReadPoolCumulative, Cumulative, OracleInv, OracleTypeOK
    <3> QED
      BY <3>2, <2>2 DEF OracleInv, OracleTypeOK, SnapshotInv
  <2>6. PhaseInv'
    BY <2>2 DEF OracleInv, PhaseInv, LiveAfterWindow, PoolSet
  <2> QED
    BY <2>3, <2>4, <2>5, <2>6 DEF OracleInv
<1> QED
  BY <1>1, <1>2 DEF Environment

-----------------------------------------------------------------------------
\* Nothing but the snapshot, the stored TWAP and the phase can have moved.
LEMMA ComputeTwapInv ==
  ASSUME OracleInv, ComputeTwap, UNCHANGED chainVars
  PROVE  OracleInv'
<1>1. /\ UNCHANGED <<block, spot, cumulative, lastTrade, seedPrice, poolAddr, wbtcIsToken0>>
      /\ phase' = IF WindowFilled /\ phase = PREMINT THEN LIVE ELSE phase
      /\ currentTwap' = IF WindowFilled THEN Twap ELSE currentTwap
      /\ \/ UNCHANGED <<twapSnapshot, twapSnapshotBlock>>
         \/ PoolSet /\ twapSnapshot' = ReadPoolCumulative /\ twapSnapshotBlock' = block
  BY DEF ComputeTwap, TakeSnapshot, chainVars, poolVars, bindingVars, snapshotVars
<1>2. PoolSet => ReadPoolCumulative \in Nat /\ ReadPoolCumulative' = ReadPoolCumulative
  BY <1>1 DEF PoolSet, ReadPoolCumulative, Cumulative, SideRead, OracleInv, OracleTypeOK
<1>3. OracleTypeOK'
  <2>1. Twap \in Nat
    BY TwapNat
  <2> QED
    BY <1>1, <1>2, <2>1 DEF OracleInv, OracleTypeOK
<1>4. ChainInv'
  BY <1>1 DEF OracleInv, ChainInv
<1>5. SnapshotInv'
  BY <1>1, <1>2, OracleAssumption
     DEF OracleInv, OracleTypeOK, ChainInv, SnapshotInv, PoolSet
<1>6. PhaseInv'
  <2>1. WindowFilled => PoolSet /\ block >= FirstBlock + TWAP_WINDOW
    BY OracleAssumption
       DEF WindowFilled, Elapsed, OracleInv, OracleTypeOK, SnapshotInv
  <2> QED
    BY <1>1, <2>1 DEF OracleInv, OracleTypeOK, PhaseInv, LiveAfterWindow, PoolSet
<1> QED
  BY <1>3, <1>4, <1>5, <1>6 DEF OracleInv

\* Taking a snapshot keeps the inductive invariant.
LEMMA SnapshotStepInv ==
  ASSUME OracleInv, UpdateTwapSnapshot, UNCHANGED chainVars
  PROVE  OracleInv'
<1>1. /\ UNCHANGED <<block, spot, cumulative, lastTrade, phase, seedPrice,
                     poolAddr, wbtcIsToken0, currentTwap>>
      /\ PoolSet
      /\ twapSnapshot' = ReadPoolCumulative
      /\ twapSnapshotBlock' = block
  BY DEF UpdateTwapSnapshot, TakeSnapshot, chainVars, poolVars, bindingVars
<1>2. ReadPoolCumulative \in Nat /\ ReadPoolCumulative' = ReadPoolCumulative
  BY <1>1 DEF PoolSet, ReadPoolCumulative, Cumulative, SideRead, OracleInv, OracleTypeOK
<1> QED
  BY <1>1, <1>2, OracleAssumption
     DEF OracleInv, OracleTypeOK, ChainInv, SnapshotInv, PhaseInv,
         LiveAfterWindow, PoolSet

\* Binding a pool, at any time, keeps the inductive invariant.
LEMMA InitPoolInv ==
  ASSUME OracleInv, NEW pool \in Pools, InitPool(pool), UNCHANGED chainVars
  PROVE  OracleInv'
<1>1. /\ UNCHANGED <<block, spot, cumulative, lastTrade, phase, seedPrice, currentTwap>>
      /\ poolAddr' = pool /\ wbtcIsToken0' = WbtcIsToken0Of[pool]
      /\ twapSnapshot' = Cumulative(pool, WbtcIsToken0Of[pool])
      /\ twapSnapshotBlock' = block
  BY DEF InitPool, chainVars, poolVars
<1>2. /\ twapSnapshot' \in Nat
      /\ ReadPoolCumulative' = twapSnapshot'
  BY <1>1 DEF ReadPoolCumulative, Cumulative, SideRead, OracleInv, OracleTypeOK
<1> QED
  BY <1>1, <1>2, OracleAssumption
     DEF OracleInv, OracleTypeOK, ChainInv, SnapshotInv, PhaseInv,
         LiveAfterWindow, PoolSet

\* advancePhase keeps the inductive invariant.
LEMMA AdvancePhaseInv ==
  ASSUME OracleInv, NEW price \in SeedPrices, AdvancePhase(price), UNCHANGED chainVars
  PROVE  OracleInv'
<1>1. /\ UNCHANGED <<block, spot, cumulative, lastTrade, poolAddr, wbtcIsToken0,
                     twapSnapshot, twapSnapshotBlock, currentTwap>>
      /\ price # 0 /\ seedPrice' = price /\ phase' = PREMINT
  BY DEF AdvancePhase, CanAdvance, chainVars, poolVars, bindingVars, snapshotVars
<1> QED
  BY <1>1, OracleAssumption
     DEF OracleInv, OracleTypeOK, ChainInv, SnapshotInv, PhaseInv,
         LiveAfterWindow, PoolSet, ReadPoolCumulative, Cumulative, SideRead

\* Every step of the oracle keeps the inductive invariant.
LEMMA OracleStepInv == OracleInv /\ [OracleNext]_twapVars => OracleInv'
<1> SUFFICES ASSUME OracleInv, [OracleNext]_twapVars PROVE OracleInv'
  OBVIOUS
<1>1. CASE Environment /\ UNCHANGED oracleVars
  BY <1>1, EnvironmentInv
<1>2. CASE ComputeTwap /\ UNCHANGED chainVars
  BY <1>2, ComputeTwapInv
<1>3. CASE UpdateTwapSnapshot /\ UNCHANGED chainVars
  BY <1>3, SnapshotStepInv
<1>4. ASSUME NEW pool \in Pools, InitPool(pool), UNCHANGED chainVars
      PROVE  OracleInv'
  BY <1>4, InitPoolInv
<1>5. ASSUME NEW price \in SeedPrices, AdvancePhase(price), UNCHANGED chainVars
      PROVE  OracleInv'
  BY <1>5, AdvancePhaseInv
<1>6. CASE UNCHANGED twapVars
  BY <1>6 DEF twapVars, chainVars, poolVars, oracleVars, bindingVars,
       snapshotVars, OracleInv, OracleTypeOK, ChainInv, SnapshotInv, PhaseInv,
       LiveAfterWindow, PoolSet, ReadPoolCumulative, Cumulative, SideRead
<1> QED
  BY <1>1, <1>2, <1>3, <1>4, <1>5, <1>6 DEF OracleNext, OracleStep

-----------------------------------------------------------------------------
(* The invariant holds in every behaviour of the oracle: the snapshot of   *)
(* _takeSnapshot is never ahead of the accumulators _computeTwap subtracts *)
(* it from, and the phase is never ahead of the window.                    *)
THEOREM OracleInvariant == OracleSpec => []OracleInv
<1>1. OracleInit => OracleInv
  BY InitOracleInv
<1>2. OracleInv /\ [OracleNext]_twapVars => OracleInv'
  BY OracleStepInv
<1> QED
  BY <1>1, <1>2, PTL DEF OracleSpec

\* The storage of the contract always holds values of its types.
THEOREM OracleTypesCorrect == OracleSpec => []OracleTypeOK
<1>1. OracleInv => OracleTypeOK
  BY DEF OracleInv
<1> QED
  BY <1>1, OracleInvariant, PTL

\* The invariant excludes an underflow in _computeTwap.
LEMMA InvReadable == OracleInv => OracleNeverReverts
<1> SUFFICES ASSUME OracleInv, PoolSet
             PROVE  Elapsed \in Nat /\ ReadPoolCumulative >= twapSnapshot
  BY DEF OracleNeverReverts, OracleReadable
<1>1. ReadPoolCumulative \in Nat
  BY DEF PoolSet, ReadPoolCumulative, Cumulative, SideRead, OracleInv, OracleTypeOK
<1> QED
  BY <1>1, OracleAssumption
     DEF Elapsed, OracleInv, OracleTypeOK, SnapshotInv

(* _computeTwap never reverts on a subtraction, in whatever order pools    *)
(* are bound, traded on and snapshotted: no price-dependent call is ever   *)
(* blocked by the oracle's arithmetic.                                     *)
THEOREM OracleNeverFails == OracleSpec => []OracleNeverReverts
  BY OracleInvariant, InvReadable, PTL

(* The reserve is LIVE only with a seed price and a pool, and a whole      *)
(* window of blocks after deployment.                                      *)
THEOREM LiveTakesAWindow == OracleSpec => []LiveAfterWindow
<1>1. OracleInv => LiveAfterWindow
  BY DEF OracleInv, PhaseInv
<1> QED
  BY <1>1, OracleInvariant, PTL

\* _computeTwap, repeated in its own block, returns the same price.
LEMMA ComputeTwapKeepsTwap ==
  ASSUME OracleInv, ComputeTwap, UNCHANGED chainVars
  PROVE  Twap' = Twap
<1>1. UNCHANGED <<block, cumulative, poolAddr, wbtcIsToken0>>
  BY DEF ComputeTwap, chainVars, poolVars, bindingVars
<1>2. ReadPoolCumulative' = ReadPoolCumulative /\ PoolSet' = PoolSet
  BY <1>1 DEF ReadPoolCumulative, Cumulative, PoolSet
<1>3. PoolSet => ~SnapshotMissing
  BY OracleAssumption DEF SnapshotMissing, OracleInv, OracleTypeOK, SnapshotInv
<1>4. CASE WindowFilled
  <2>1. /\ twapSnapshotBlock' = block /\ currentTwap' = Twap
        /\ PoolSet /\ block \in Nat
    BY <1>4 DEF ComputeTwap, TakeSnapshot, WindowFilled, OracleInv, OracleTypeOK
  <2>2. PoolSet' /\ ~SnapshotMissing' /\ Elapsed' = 0
    BY <1>1, <1>2, <2>1, OracleAssumption
       DEF SnapshotMissing, Elapsed, OracleInv, OracleTypeOK, ChainInv
  <2> QED
    BY <2>1, <2>2 DEF Twap
<1>5. CASE ~WindowFilled
  <2>1. UNCHANGED <<twapSnapshot, twapSnapshotBlock, currentTwap>>
    BY <1>3, <1>5 DEF ComputeTwap, snapshotVars, SnapshotMissing
  <2> QED
    BY <1>1, <1>2, <2>1 DEF Twap, SnapshotMissing, Elapsed
<1> QED
  BY <1>4, <1>5

(* mintORC reads the TWAP once for the ratio and once for the amount: the  *)
(* second reading is the first, whatever the first one refreshed.          *)
THEOREM ReadingTwiceAgrees == OracleSpec => ReadTwiceSame
<1>1. OracleInv => [ComputeTwap /\ UNCHANGED chainVars => Twap' = Twap]_twapVars
  BY ComputeTwapKeepsTwap
<1> QED
  BY <1>1, OracleInvariant, PTL DEF ReadTwiceSame
-----------------------------------------------------------------------------
(* The price the oracle computes is the average it is documented to be, for *)
(* every order of trades, snapshots and bindings.                           *)

\* What the bound pool's accumulator has grown since the snapshot, and what
\* the price since its last trade would still add to it.
Grown == ReadPoolCumulative - twapSnapshot
Pending == spot[poolAddr] * (block - lastTrade[poolAddr])

(* The contract reads the side that WBTC is listed on, and what that side  *)
(* has accumulated, with what is pending, is the sum of the prices.  (A    *)
(* snapshot that is not synced starts from an accumulator that some price  *)
(* is still pending on; its average is off by that.)                       *)
AverageInv ==
  /\ synced \in BOOLEAN
  /\ PoolSet => wbtcIsToken0 = WbtcIsToken0Of[poolAddr]
  /\ synced => PoolSet /\ total = Grown + Pending

HistoryInv == OracleInv /\ AverageInv

\* The side WBTC is listed on accumulates the price in force.
LEMMA SideAccumulatesPrice ==
  ASSUME NEW pool \in Pools, NEW price \in Nat
  PROVE  AccumulatedPrice(pool, SideRead(WbtcIsToken0Of[pool]), price) = price
  BY OracleAssumption DEF AccumulatedPrice, SideRead

\* What the state's pieces are when a pool is bound.
LEMMA BoundPool ==
  ASSUME OracleInv, PoolSet
  PROVE  /\ poolAddr \in Pools
         /\ spot[poolAddr] \in Nat /\ lastTrade[poolAddr] \in Nat /\ block \in Nat
         /\ lastTrade[poolAddr] <= block
         /\ ReadPoolCumulative \in Nat /\ twapSnapshot \in Nat
         /\ Pending \in Nat
<1>1. /\ poolAddr \in Pools
      /\ spot[poolAddr] \in Nat /\ lastTrade[poolAddr] \in Nat /\ block \in Nat
      /\ lastTrade[poolAddr] <= block /\ twapSnapshot \in Nat
  BY DEF PoolSet, OracleInv, OracleTypeOK, ChainInv
<1>2. ReadPoolCumulative \in Nat
  BY <1>1 DEF ReadPoolCumulative, Cumulative, SideRead, OracleInv, OracleTypeOK
<1>3. Pending \in Nat
  BY <1>1, MulNat DEF Pending
<1> QED
  BY <1>1, <1>2, <1>3

-----------------------------------------------------------------------------
(* The steps. *)

\* A block adds the price in force to the sum, and to what is pending.
LEMMA BlockKeepsAverage ==
  ASSUME HistoryInv, MineBlock, UNCHANGED oracleVars, Observe
  PROVE  AverageInv'
<1>1. /\ UNCHANGED <<spot, cumulative, lastTrade, poolAddr, wbtcIsToken0,
                     twapSnapshot, twapSnapshotBlock>>
      /\ block' = block + 1
  BY DEF MineBlock, poolVars, oracleVars, bindingVars, snapshotVars
<1>2. block \in Nat
  BY DEF HistoryInv, OracleInv, OracleTypeOK
<1>3. synced' = synced /\ total' = total + PriceNow
  BY <1>1, <1>2 DEF Observe, snapshot, snapshotVars
<1>4. ASSUME synced PROVE PoolSet' /\ total' = Grown' + Pending'
  <2>1. PoolSet /\ PoolSet' /\ total = Grown + Pending /\ PriceNow = spot[poolAddr]
    BY <1>1, <1>4 DEF HistoryInv, AverageInv, PoolSet, PriceNow
  <2>2. Grown' = Grown
    BY <1>1 DEF Grown, ReadPoolCumulative, Cumulative
  <2>3. PICK s \in Nat, l \in Nat : s = spot[poolAddr] /\ l = lastTrade[poolAddr]
    BY <2>1, BoundPool DEF HistoryInv
  <2>4. Pending = s * (block - l) /\ Pending' = s * ((block + 1) - l)
    BY <1>1, <1>2, <2>3 DEF Pending
  <2>5. s * ((block + 1) - l) = s * (block - l) + s /\ s * (block - l) \in Int
    BY <1>2, <2>3, SMT
  <2>6. Grown \in Int
    BY <2>1, BoundPool DEF Grown, HistoryInv
  <2> QED
    BY <1>3, <2>1, <2>2, <2>3, <2>4, <2>5, <2>6
<1> QED
  BY <1>1, <1>3, <1>4 DEF HistoryInv, AverageInv, PoolSet

\* A trade on the bound pool accumulates what was pending; others matter not.
LEMMA TradeKeepsAverage ==
  ASSUME HistoryInv, NEW pool \in Pools, NEW price \in SpotPrices,
         Trade(pool, price), UNCHANGED oracleVars, Observe
  PROVE  AverageInv'
<1>1. /\ UNCHANGED <<block, poolAddr, wbtcIsToken0, twapSnapshot, twapSnapshotBlock>>
      /\ lastTrade' = [lastTrade EXCEPT ![pool] = block]
      /\ spot' = [spot EXCEPT ![pool] = price]
  BY DEF Trade, oracleVars, bindingVars, snapshotVars
<1>2. synced' = synced /\ total' = total
  BY <1>1 DEF Observe, snapshot, snapshotVars
<1>3. ASSUME synced PROVE PoolSet' /\ total' = Grown' + Pending'
  <2>1. /\ PoolSet /\ PoolSet' /\ total = Grown + Pending
        /\ wbtcIsToken0 = WbtcIsToken0Of[poolAddr]
    BY <1>1, <1>3 DEF HistoryInv, AverageInv, PoolSet
  <2>2. /\ poolAddr \in Pools
        /\ cumulative \in [Pools -> [{0, 1} -> Nat]]
        /\ lastTrade \in [Pools -> Nat] /\ spot \in [Pools -> Nat] /\ block \in Nat
    BY <2>1 DEF PoolSet, HistoryInv, OracleInv, OracleTypeOK
  <2>3. CASE pool # poolAddr
    <3>1. /\ cumulative'[poolAddr] = cumulative[poolAddr]
          /\ lastTrade'[poolAddr] = lastTrade[poolAddr]
          /\ spot'[poolAddr] = spot[poolAddr]
      BY <1>1, <2>2, <2>3 DEF Trade
    <3>2. Grown' = Grown /\ Pending' = Pending
      BY <1>1, <3>1 DEF Grown, Pending, ReadPoolCumulative, Cumulative
    <3> QED
      BY <1>2, <2>1, <3>2
  <2>4. CASE pool = poolAddr
    <3> DEFINE side == SideRead(wbtcIsToken0)
    <3>1. side \in {0, 1}
      BY DEF SideRead
    <3>2. AccumulatedPrice(pool, side, spot[pool]) = spot[pool]
      BY <2>1, <2>2, <2>4, SideAccumulatesPrice
    <3>3. cumulative'[pool] = [z \in {0, 1} |->
             cumulative[pool][z] + AccumulatedPrice(pool, z, spot[pool])
                                     * (block - lastTrade[pool])]
      BY <2>2 DEF Trade
    <3>4. cumulative'[pool][side]
            = cumulative[pool][side] + spot[pool] * (block - lastTrade[pool])
      BY <3>1, <3>2, <3>3
    <3>5. /\ ReadPoolCumulative' = cumulative'[pool][side]
          /\ ReadPoolCumulative = cumulative[pool][side]
      BY <1>1, <2>4 DEF ReadPoolCumulative, Cumulative
    <3>6. Pending = spot[pool] * (block - lastTrade[pool])
      BY <2>4 DEF Pending
    <3>7. Pending' = 0
      <4>1. Pending' = price * (block - block)
        BY <1>1, <2>2, <2>4 DEF Pending
      <4>2. price \in Nat
        BY OracleAssumption
      <4> QED
        BY <2>2, <4>1, <4>2
    <3>8. ReadPoolCumulative \in Nat /\ twapSnapshot \in Nat /\ Pending \in Nat
      BY <2>1, BoundPool DEF HistoryInv
    <3> HIDE DEF side
    <3>9. Grown' = ReadPoolCumulative + Pending - twapSnapshot
      BY <1>1, <3>4, <3>5, <3>6, <3>8 DEF Grown
    <3> QED
      BY <1>2, <2>1, <3>7, <3>8, <3>9 DEF Grown
  <2> QED
    BY <2>3, <2>4
<1> QED
  BY <1>1, <1>2, <1>3 DEF HistoryInv, AverageInv, PoolSet

\* A step that leaves the chain and the snapshot alone leaves the average.
LEMMA QuietKeepsAverage ==
  ASSUME HistoryInv, UNCHANGED chainVars,
         UNCHANGED <<poolAddr, wbtcIsToken0, twapSnapshot, twapSnapshotBlock>>,
         Observe
  PROVE  AverageInv'
<1>1. UNCHANGED <<block, spot, cumulative, lastTrade>>
  BY DEF chainVars, poolVars
<1>2. synced' = synced /\ total' = total
  BY <1>1 DEF Observe, snapshot, snapshotVars
<1>3. Grown' = Grown /\ Pending' = Pending /\ PoolSet' = PoolSet
  BY <1>1 DEF Grown, Pending, PoolSet, ReadPoolCumulative, Cumulative
<1> QED
  BY <1>2, <1>3 DEF HistoryInv, AverageInv

\* A new snapshot starts a new sum; it is synced if nothing is pending.
LEMMA SnapshotKeepsAverage ==
  ASSUME HistoryInv, UNCHANGED chainVars, PoolSet', poolAddr' \in Pools,
         wbtcIsToken0' = WbtcIsToken0Of[poolAddr'],
         twapSnapshot' = Cumulative(poolAddr', wbtcIsToken0'),
         twapSnapshotBlock' = block,
         Observe
  PROVE  AverageInv'
<1>1. UNCHANGED <<block, spot, cumulative, lastTrade>>
  BY DEF chainVars, poolVars
<1>2. CASE snapshot' = snapshot
  <2>1. UNCHANGED <<poolAddr, twapSnapshot, twapSnapshotBlock>>
    BY <1>2 DEF snapshot, snapshotVars
  <2>2. PoolSet
    BY <2>1 DEF PoolSet
  <2>3. wbtcIsToken0' = wbtcIsToken0
    BY <2>1, <2>2 DEF HistoryInv, AverageInv
  <2> QED
    BY <2>1, <2>3, QuietKeepsAverage
<1>3. CASE snapshot' # snapshot
  <2>1. total' = 0 /\ synced' = (lastTrade[poolAddr'] = block)
    BY <1>3 DEF Observe
  <2>2. Grown' = 0
    <3>1. ReadPoolCumulative' = twapSnapshot'
      BY <1>1 DEF ReadPoolCumulative, Cumulative
    <3>2. twapSnapshot' \in Nat
      BY DEF Cumulative, SideRead, HistoryInv, OracleInv, OracleTypeOK
    <3> QED
      BY <3>1, <3>2 DEF Grown
  <2>3. ASSUME lastTrade[poolAddr'] = block PROVE Pending' = 0
    <3>1. Pending' = spot[poolAddr'] * (block - block)
      BY <1>1, <2>3 DEF Pending
    <3>2. spot[poolAddr'] \in Nat /\ block \in Nat
      BY DEF HistoryInv, OracleInv, OracleTypeOK
    <3> QED
      BY <3>1, <3>2
  <2>4. synced' \in BOOLEAN /\ (synced' => lastTrade[poolAddr'] = block)
    BY <2>1, Zenon
  <2> HIDE DEF Grown, Pending
  <2> QED
    BY <2>1, <2>2, <2>3, <2>4 DEF AverageInv
<1> QED
  BY <1>2, <1>3

\* Whatever the contract does, with the blocks and trades around it.
LEMMA StepHistoryInv == HistoryInv /\ [HistoryNext]_historyVars => HistoryInv'
<1> SUFFICES ASSUME HistoryInv, [HistoryNext]_historyVars PROVE HistoryInv'
  OBVIOUS
<1>1. OracleInv'
  BY OracleStepInv DEF HistoryInv, HistoryNext, historyVars
<1>2. CASE UNCHANGED historyVars
  <2>1. /\ UNCHANGED <<block, spot, cumulative, lastTrade, poolAddr, wbtcIsToken0,
                       twapSnapshot, twapSnapshotBlock>>
        /\ UNCHANGED <<total, synced>>
    BY <1>2 DEF historyVars, twapVars, chainVars, poolVars, oracleVars,
         bindingVars, snapshotVars
  <2> QED
    BY <1>1, <2>1 DEF HistoryInv, AverageInv, Grown, Pending, PoolSet,
         ReadPoolCumulative, Cumulative
<1>3. ASSUME Environment, UNCHANGED oracleVars, Observe
      PROVE  AverageInv'
  BY <1>3, BlockKeepsAverage, TradeKeepsAverage DEF Environment
<1>4. ASSUME ComputeTwap \/ UpdateTwapSnapshot, UNCHANGED chainVars, Observe
      PROVE  AverageInv'
  <2>1. /\ UNCHANGED <<poolAddr, wbtcIsToken0>>
        /\ \/ UNCHANGED <<twapSnapshot, twapSnapshotBlock>>
           \/ PoolSet /\ twapSnapshot' = ReadPoolCumulative /\ twapSnapshotBlock' = block
    BY <1>4 DEF ComputeTwap, UpdateTwapSnapshot, TakeSnapshot, bindingVars, snapshotVars
  <2>2. CASE UNCHANGED <<twapSnapshot, twapSnapshotBlock>>
    BY <1>4, <2>1, <2>2, QuietKeepsAverage
  <2>3. CASE PoolSet /\ twapSnapshot' = ReadPoolCumulative /\ twapSnapshotBlock' = block
    <3>1. PoolSet' /\ poolAddr' \in Pools
      BY <2>1, <2>3, BoundPool DEF HistoryInv, PoolSet
    <3>2. /\ wbtcIsToken0' = WbtcIsToken0Of[poolAddr']
          /\ twapSnapshot' = Cumulative(poolAddr', wbtcIsToken0')
      BY <2>1, <2>3 DEF HistoryInv, AverageInv, ReadPoolCumulative
    <3> QED
      BY <1>4, <2>3, <3>1, <3>2, SnapshotKeepsAverage
  <2> QED
    BY <2>1, <2>2, <2>3
<1>5. ASSUME NEW pool \in Pools, InitPool(pool), UNCHANGED chainVars, Observe
      PROVE  AverageInv'
  <2>1. /\ poolAddr' = pool /\ wbtcIsToken0' = WbtcIsToken0Of[pool]
        /\ twapSnapshot' = Cumulative(pool, WbtcIsToken0Of[pool])
        /\ twapSnapshotBlock' = block
    BY <1>5 DEF InitPool
  <2>2. PoolSet' /\ poolAddr' \in Pools
    BY <2>1, OracleAssumption DEF PoolSet
  <2>3. /\ wbtcIsToken0' = WbtcIsToken0Of[poolAddr']
        /\ twapSnapshot' = Cumulative(poolAddr', wbtcIsToken0')
    BY <2>1
  <2> QED
    BY <1>5, <2>1, <2>2, <2>3, SnapshotKeepsAverage
<1>6. ASSUME NEW price \in SeedPrices, AdvancePhase(price), UNCHANGED chainVars,
             Observe
      PROVE  AverageInv'
  BY <1>6, QuietKeepsAverage DEF AdvancePhase, bindingVars, snapshotVars
<1> QED
  BY <1>1, <1>2, <1>3, <1>4, <1>5, <1>6 DEF HistoryInv, HistoryNext, OracleNext, OracleStep

\* Deployment establishes the invariant of the history.
LEMMA InitHistoryInv == HistoryInit => HistoryInv
<1> SUFFICES ASSUME HistoryInit PROVE HistoryInv
  OBVIOUS
<1>1. OracleInv
  BY InitOracleInv DEF HistoryInit
<1>2. AverageInv
  BY DEF HistoryInit, OracleInit, AverageInv, PoolSet
<1> QED
  BY <1>1, <1>2 DEF HistoryInv

\* With nothing pending, the quotient of _computeTwap is the mean.
LEMMA SyncedMean == HistoryInv => TwapIsRollingAverage
<1> SUFFICES ASSUME HistoryInv, synced, Elapsed > 0, lastTrade[poolAddr] = block
             PROVE  Twap = total \div Elapsed
  BY DEF TwapIsRollingAverage
<1>1. PoolSet /\ total = Grown + Pending
  BY DEF HistoryInv, AverageInv
<1>2. Pending = 0
  <2>1. Pending = spot[poolAddr] * (block - block)
    BY DEF Pending
  <2> QED
    BY <1>1, <2>1, BoundPool DEF HistoryInv
<1>3. total = Grown
  BY <1>1, <1>2, BoundPool DEF HistoryInv, Grown
<1>4. ~SnapshotMissing
  BY <1>1, OracleAssumption
     DEF SnapshotMissing, HistoryInv, OracleInv, OracleTypeOK, SnapshotInv
<1>5. Elapsed # 0
  BY <1>1, OracleAssumption
     DEF Elapsed, HistoryInv, OracleInv, OracleTypeOK, SnapshotInv
<1> QED
  BY <1>1, <1>3, <1>4, <1>5 DEF Twap, Grown

(* docs/protocol/twap.md's "rolling average": when the bound pool has been *)
(* traded on in this block, and had been in the block of the snapshot, the *)
(* TWAP is the mean of the prices at the end of the blocks between, on     *)
(* whichever side WBTC is listed and however pools are bound and rebound.  *)
THEOREM TwapIsTheMean == HistorySpec => []TwapIsRollingAverage
<1>1. HistorySpec => []HistoryInv
  BY InitHistoryInv, StepHistoryInv, PTL DEF HistorySpec
<1> QED
  BY <1>1, SyncedMean, PTL

-----------------------------------------------------------------------------
(* The oracle inside the reserve. *)

\* The oracle in a new reserve is a new oracle.
LEMMA InitImpliesOracleInit == Init => OracleInit
  BY DEF Init

\* Every step of the whole is a step of the oracle alone, or none.
LEMMA StepImpliesOracleStep == [Next]_vars => [OracleNext]_twapVars
<1> SUFFICES ASSUME [Next]_vars PROVE [OracleNext]_twapVars
  OBVIOUS
<1> USE DEF OracleNext, OracleStep, twapVars
<1>1. CASE EnvironmentStep
  BY <1>1 DEF EnvironmentStep
<1>2. CASE AnyoneStep
  BY <1>2 DEF AnyoneStep, GetTwap, GetReserveRatio, GetEquity, View,
       RefreshSnapshot
<1>3. ASSUME NEW sender \in Accounts, OwnerStep(sender)
      PROVE  [OracleNext]_twapVars
  BY <1>3 DEF OwnerStep, TransferOwnership, OwnerAdvancePhase, OwnerInitPool,
       PremintOD
<1>4. ASSUME NEW sender \in Accounts, UserStep(sender)
      PROVE  [OracleNext]_twapVars
  <2>1. PICK n \in Amounts :
          \/ MintORC(sender, n) \/ BurnORC(sender, n)
          \/ MintOD(sender, n) \/ BurnOD(sender, n)
          \/ \E to \in Recipients : TransferTokens(sender, to, n)
    BY <1>4 DEF UserStep
  <2>2. CASE MintORC(sender, n)
    BY <2>2 DEF MintORC
  <2>3. CASE BurnORC(sender, n)
    BY <2>3 DEF BurnORC
  <2>4. CASE MintOD(sender, n)
    BY <2>4 DEF MintOD
  <2>5. CASE BurnOD(sender, n)
    BY <2>5 DEF BurnOD
  <2>6. CASE \E to \in Recipients : TransferTokens(sender, to, n)
    BY <2>6 DEF TransferTokens
  <2> QED
    BY <2>1, <2>2, <2>3, <2>4, <2>5, <2>6
<1>5. ASSUME NEW sender \in Accounts, TokenOwnerStep(sender)
      PROVE  [OracleNext]_twapVars
  BY <1>5 DEF TokenOwnerStep, SetReserve, TransferTokenOwnership
<1>6. CASE UNCHANGED vars
  BY <1>6 DEF vars
<1> QED
  BY <1>1, <1>2, <1>3, <1>4, <1>5, <1>6 DEF Next

(* The contract and its environment implement the oracle on its own, so    *)
(* what is proved of the oracle holds of the contract.                     *)
THEOREM ReserveRefinesOracle == Spec => RefinesOracle
<1>1. Init => OracleInit
  BY InitImpliesOracleInit
<1>2. [Next]_vars => [OracleNext]_twapVars
  BY StepImpliesOracleStep
<1> QED
  BY <1>1, <1>2, PTL DEF Spec, RefinesOracle, OracleSpec

-----------------------------------------------------------------------------
(* The inductive invariant. *)

\* OD exists before LIVE only by the one premint, which is covered.
PremintInv ==
  /\ phase = SEEDING => ~premintDone
  /\ (phase # LIVE /\ ~premintDone) => odSupply = 0
  /\ PremintCovered

ReserveInv == TypeOK /\ OracleInv /\ PremintInv

\* What the later proofs use of the invariant: balances and supplies are naturals.
LEMMA ReserveTypes ==
  ASSUME TypeOK
  PROVE  /\ ReserveWbtc \in Nat
         /\ odSupply \in Nat /\ orcSupply \in Nat
         /\ seedPrice \in Nat
         /\ phase \in {0, 1, 2}
  BY ReserveMathAssumption
     DEF TypeOK, TokenTypeOK, ReserveWbtc, Addresses, U256, OracleTypeOK

\* The price _computeTwap returns is a natural number.
LEMMA TwapIsNat == ReserveInv => Twap \in Nat
  BY TwapNat DEF ReserveInv

-----------------------------------------------------------------------------
(* What a step does to the reserve, the two supplies and the phase, with   *)
(* the inequalities that the guards and the rounding of its method leave.  *)

\* mintORC issues at most the depositor's share of the equity.
BuysOrc(n, out) ==
  /\ n > 0 /\ out > 0
  /\ phase \in {SEEDING, LIVE}
  /\ phase = LIVE => Twap \in Nat \ {0} /\ Twap <= U256_MAX
  /\ UNCHANGED <<phase, seedPrice, premintDone, odSupply>>
  /\ ReserveWbtc' = ReserveWbtc + n
  /\ orcSupply' = orcSupply + out
  /\ orcSupply # 0 => DepositEquity(n) * out <= n * orcSupply

\* burnORC pays at most the burnt share of the equity, above the floor.
SellsOrc(n, out) ==
  /\ n > 0 /\ out > 0
  /\ phase = LIVE /\ Twap \in Nat \ {0}
  /\ UNCHANGED <<phase, seedPrice, premintDone, odSupply>>
  /\ n <= orcSupply /\ orcSupply' = orcSupply - n
  /\ out <= ReserveWbtc /\ ReserveWbtc' = ReserveWbtc - out
  /\ out * orcSupply <= n * Equity(ReserveWbtc)
  /\ (ReserveWbtc - out) * Twap >= MIN_RATIO * odSupply
  /\ odSupply # 0 => Twap <= U256_MAX

\* mintOD sells OD at no better than the TWAP, and keeps the floor.
BuysOd(n, out) ==
  /\ n > 0 /\ out > 0
  /\ phase = LIVE /\ Twap \in Nat \ {0} /\ Twap <= U256_MAX
  /\ UNCHANGED <<phase, seedPrice, premintDone, orcSupply>>
  /\ ReserveWbtc' = ReserveWbtc + n
  /\ odSupply' = odSupply + out
  /\ out * RATIO_SCALE <= n * Twap
  /\ (ReserveWbtc + n) * Twap >= MIN_RATIO * (odSupply + out)

\* burnOD pays no more than the OD is worth, whatever the ratio.
SellsOd(n, out) ==
  /\ n > 0 /\ out > 0
  /\ phase = LIVE /\ Twap \in Nat \ {0} /\ Twap <= U256_MAX
  /\ UNCHANGED <<phase, seedPrice, premintDone, orcSupply>>
  /\ n <= odSupply /\ odSupply' = odSupply - n
  /\ out <= ReserveWbtc /\ ReserveWbtc' = ReserveWbtc - out
  /\ out * Twap <= n * RATIO_SCALE

\* premintOD issues, once, what the seed price covers.
Premints(out) ==
  /\ out > 0
  /\ phase = PREMINT
  /\ ~premintDone /\ premintDone'
  /\ UNCHANGED <<phase, seedPrice, ReserveWbtc, orcSupply>>
  /\ odSupply' = odSupply + out
  /\ ReserveWbtc * seedPrice >= MIN_RATIO * out

\* A holder sends WBTC to the reserve.
Donates(n) ==
  /\ n > 0
  /\ UNCHANGED <<phase, seedPrice, premintDone, odSupply, orcSupply>>
  /\ ReserveWbtc' = ReserveWbtc + n

\* advancePhase.
LeavesSeeding ==
  /\ phase = SEEDING /\ phase' = PREMINT
  /\ seedPrice' \in Nat \ {0}
  /\ UNCHANGED <<ReserveWbtc, odSupply, orcSupply, premintDone>>

\* Everything else; a reading of the TWAP may enter LIVE.
MovesNoMoney ==
  /\ UNCHANGED <<ReserveWbtc, odSupply, orcSupply, seedPrice, premintDone>>
  /\ phase' = phase \/ (phase = PREMINT /\ phase' = LIVE)

\* The equity _computeOrcOut divides by is a natural number.
LEMMA DepositEquityNat ==
  ASSUME ReserveInv, NEW n \in Nat
  PROVE  DepositEquity(n) \in Nat
<1>1. ReserveWbtc + n \in Nat /\ odSupply \in Nat /\ Twap \in Nat
  BY ReserveTypes, TwapIsNat DEF ReserveInv
<1> QED
  BY <1>1, EquityBounds DEF DepositEquity, Equity

\* mintORC issues at most the depositor's share of the equity.
LEMMA OrcOutBounds ==
  ASSUME ReserveInv, NEW n \in Nat, OrcPriced(n)
  PROVE  /\ OrcOut(n) \in Nat
         /\ orcSupply # 0 => DepositEquity(n) * OrcOut(n) <= n * orcSupply
<1>1. /\ orcSupply \in Nat /\ seedPrice \in Nat /\ DepositEquity(n) \in Nat
      /\ n * orcSupply \in Nat /\ n * seedPrice \in Nat
      /\ RATIO_SCALE \in Nat \ {0}
  BY ReserveTypes, DepositEquityNat, MulNat, ReserveMathAssumption DEF ReserveInv
<1>2. CASE orcSupply = 0
  BY <1>1, <1>2, DivBounds DEF OrcOut, OrcForDeposit
<1>3. CASE orcSupply # 0
  <2>1. DepositEquity(n) # 0
    BY <1>3 DEF OrcPriced
  <2> QED
    BY <1>1, <1>3, <2>1, DivBounds DEF OrcOut, OrcForDeposit
<1> QED
  BY <1>2, <1>3

\* No call of the oracle leaves the LIVE phase.
LEMMA PhaseStaysLive ==
  ASSUME phase = LIVE, ComputeTwap
  PROVE  phase' = LIVE /\ UNCHANGED seedPrice
  BY DEF ComputeTwap

\* mintORC buys ORC, as the effect operator above defines it.
LEMMA MintORCEffect ==
  ASSUME ReserveInv, NEW sender \in Accounts, NEW n \in Amounts,
         MintORC(sender, n)
  PROVE  \E paid, out \in Nat : BuysOrc(paid, out)
<1>1. n \in Nat /\ n > 0 /\ phase \in {SEEDING, LIVE}
  BY ReserveAssumption DEF MintORC, MintORCAccepted
<1>2. UNCHANGED <<phase, seedPrice, premintDone, odSupply>>
  BY PhaseStaysLive DEF MintORC, oracleVars, odVars
<1>3. ReserveWbtc' = ReserveWbtc + n
  BY <1>1, ReserveAssumption
     DEF MintORC, WbtcTransfer, ReserveWbtc, Addresses, ReserveInv, TypeOK
<1>4. /\ OrcOut(n) \in Nat
      /\ orcSupply # 0 => DepositEquity(n) * OrcOut(n) <= n * orcSupply
  BY <1>1, OrcOutBounds DEF MintORC, MintORCAccepted
<1>5. Net(OrcOut(n)) \in Nat /\ Net(OrcOut(n)) <= OrcOut(n)
  BY <1>4, NetBounds
<1>6. /\ Net(OrcOut(n)) > 0
      /\ orcSupply' = orcSupply + Net(OrcOut(n))
  BY DEF MintORC, MintORCAccepted, ORC!Mint, ORC!CanMint
<1>7. orcSupply # 0 => DepositEquity(n) * Net(OrcOut(n)) <= n * orcSupply
  <2>1. DepositEquity(n) \in Nat /\ orcSupply \in Nat /\ n * orcSupply \in Nat
    BY <1>1, DepositEquityNat, ReserveTypes, MulNat DEF ReserveInv
  <2>2. /\ DepositEquity(n) * Net(OrcOut(n)) <= DepositEquity(n) * OrcOut(n)
        /\ DepositEquity(n) * Net(OrcOut(n)) \in Nat
        /\ DepositEquity(n) * OrcOut(n) \in Nat
    BY <1>4, <1>5, <2>1, MulMono, MulNat
  <2> QED
    BY <1>4, <2>1, <2>2, SMT
<1>8. phase = LIVE => Twap \in Nat \ {0} /\ Twap <= U256_MAX
  <2> SUFFICES ASSUME phase = LIVE
               PROVE  Twap \in Nat \ {0} /\ Twap <= U256_MAX
    OBVIOUS
  <2>1. DepositAllowed(n) /\ Twap \in Nat \ {0}
    BY TwapIsNat DEF MintORC, MintORCAccepted, DepositAllowed
  <2>2. odSupply # 0
    BY <2>1, ReserveMathAssumption DEF DepositAllowed, ReserveRatio
  <2>3. ReserveWbtc + n \in Nat \ {0} /\ ReserveWbtc + n - 0 = ReserveWbtc + n
    BY <1>1, ReserveTypes DEF ReserveInv
  <2>4. Fits((ReserveWbtc + n) * Twap)
    BY <2>1, <2>2, <2>3 DEF DepositAllowed, RatioFits
  <2> QED
    BY <2>1, <2>3, <2>4, FactorFits
<1> QED
  BY <1>1, <1>2, <1>3, <1>5, <1>6, <1>7, <1>8
     DEF BuysOrc

\* burnORC sells ORC and leaves the floor intact.
LEMMA BurnORCEffect ==
  ASSUME ReserveInv, NEW sender \in Accounts, NEW n \in Amounts,
         BurnORC(sender, n)
  PROVE  \E paid, out \in Nat : SellsOrc(paid, out)
<1> DEFINE out == Net(WbtcForOrc(n))
<1>1. n \in Nat /\ n > 0 /\ phase = LIVE /\ Twap \in Nat \ {0}
  BY ReserveAssumption, TwapIsNat DEF BurnORC
<1>2. UNCHANGED <<phase, seedPrice, premintDone, odSupply>>
  BY <1>1, PhaseStaysLive DEF BurnORC, odVars
<1>3. n <= orcSupply /\ orcSupply' = orcSupply - n
  BY DEF BurnORC, ORC!Burn
<1>4. /\ ReserveWbtc \in Nat /\ odSupply \in Nat /\ orcSupply \in Nat \ {0}
      /\ Equity(ReserveWbtc) \in Nat
  BY <1>1, ReserveTypes, EquityBounds DEF ReserveInv, BurnORC, Equity
<1>5. /\ WbtcForOrc(n) \in Nat
      /\ orcSupply * WbtcForOrc(n) <= n * Equity(ReserveWbtc)
  BY <1>1, <1>4, MulNat, DivBounds DEF WbtcForOrc
<1>6. out \in Nat /\ out > 0 /\ out <= WbtcForOrc(n)
  BY <1>5, NetBounds DEF BurnORC
<1>7. out <= ReserveWbtc /\ ReserveWbtc' = ReserveWbtc - out
  BY <1>4, <1>6, ReserveAssumption
     DEF BurnORC, WbtcTransfer, CanPay, ReserveWbtc, Addresses, ReserveInv, TypeOK
<1>8. out * orcSupply <= n * Equity(ReserveWbtc)
  <2>1. out * orcSupply <= WbtcForOrc(n) * orcSupply
    BY <1>4, <1>5, <1>6, MulMono
  <2> HIDE DEF out
  <2> QED
    BY <1>1, <1>4, <1>5, <1>6, <2>1, SMT
<1>9. (ReserveWbtc - out) * Twap >= MIN_RATIO * odSupply
  <2>1. ReserveRatio(ReserveWbtc, odSupply, Twap, out) >= MIN_RATIO
    BY DEF BurnORC, WithdrawalKeepsRatio
  <2>2. MIN_RATIO \in Nat \ {0} /\ ReserveWbtc - out \in Nat
    BY <1>4, <1>6, <1>7, ReserveMathAssumption
  <2>3. (ReserveWbtc - out) * Twap \in Nat
    BY <1>1, <2>2, MulNat
  <2> HIDE DEF out
  <2>4. CASE odSupply = 0
    BY <2>2, <2>3, <2>4, SMT
  <2>5. CASE odSupply # 0
    <3>1. ((ReserveWbtc - out) * Twap) \div odSupply >= MIN_RATIO
      BY <1>4, <1>6, <1>7, <2>1, <2>5 DEF ReserveRatio
    <3> QED
      BY <1>4, <2>2, <2>3, <2>5, <3>1, DivGe
  <2> QED
    BY <2>4, <2>5
<1>10. odSupply # 0 => Twap <= U256_MAX
  <2> SUFFICES ASSUME odSupply # 0 PROVE Twap <= U256_MAX
    OBVIOUS
  <2> HIDE DEF out
  <2>1. ReserveWbtc - out \in Nat \ {0}
    <3>1. MIN_RATIO * odSupply > 0
      BY <1>4, ReserveMathAssumption, SMT
    <3>2. ReserveWbtc - out # 0
      BY <1>1, <1>9, <3>1, <1>4, ReserveMathAssumption, SMT
    <3> QED
      BY <1>4, <1>6, <1>7, <3>2
  <2>2. Fits((ReserveWbtc - out) * Twap)
    BY <1>4, <1>6, <1>7 DEF BurnORC, WithdrawalKeepsRatio, RatioFits, out
  <2> QED
    BY <1>1, <2>1, <2>2, FactorFits
<1> QED
  BY <1>1, <1>2, <1>3, <1>6, <1>7, <1>8, <1>9, <1>10
     DEF SellsOrc

\* mintOD buys OD at no better than the TWAP and keeps the floor.
LEMMA MintODEffect ==
  ASSUME ReserveInv, NEW sender \in Accounts, NEW n \in Amounts,
         MintOD(sender, n)
  PROVE  \E paid, out \in Nat : BuysOd(paid, out)
<1> DEFINE out == OdOut(n)
<1>1. n \in Nat /\ n > 0 /\ phase = LIVE /\ Twap \in Nat \ {0}
  BY ReserveAssumption, TwapIsNat DEF MintOD
<1>2. UNCHANGED <<phase, seedPrice, premintDone, orcSupply>>
  BY <1>1, PhaseStaysLive DEF MintOD, orcVars
<1>3. ReserveWbtc' = ReserveWbtc + n
  BY <1>1, ReserveAssumption
     DEF MintOD, WbtcTransfer, ReserveWbtc, Addresses, ReserveInv, TypeOK
<1>4. /\ OdForWbtc(n, Twap) \in Nat
      /\ OdForWbtc(n, Twap) * RATIO_SCALE <= n * Twap
  BY <1>1, OdForWbtcBounds
<1>5. out \in Nat /\ out <= OdForWbtc(n, Twap) /\ out > 0
  BY <1>4, NetBounds DEF OdOut, MintOD
<1>6. odSupply' = odSupply + out
  BY DEF MintOD, OD!Mint
<1>7. ReserveWbtc \in Nat /\ odSupply \in Nat
  BY ReserveTypes DEF ReserveInv
<1>8. out * RATIO_SCALE <= n * Twap
  <2>1. RATIO_SCALE \in Nat
    BY ReserveMathAssumption
  <2>2. out * RATIO_SCALE <= OdForWbtc(n, Twap) * RATIO_SCALE
    BY <1>4, <1>5, <2>1, MulMono
  <2> HIDE DEF out
  <2> QED
    BY <1>1, <1>4, <1>5, <2>1, <2>2, MulNat, SMT
<1>9. (ReserveWbtc + n) * Twap >= MIN_RATIO * (odSupply + out)
  <2>1. ((ReserveWbtc + n) * Twap) \div (odSupply + out) >= MIN_RATIO
    BY DEF MintOD, MintKeepsRatio
  <2> HIDE DEF out
  <2>2. /\ MIN_RATIO \in Nat /\ (ReserveWbtc + n) * Twap \in Nat
        /\ odSupply + out \in Nat \ {0}
    BY <1>1, <1>5, <1>7, ReserveMathAssumption, MulNat, ReserveWbtc + n \in Nat
  <2> QED
    BY <2>1, <2>2, DivGe
<1>10. Twap <= U256_MAX
  BY <1>1, FactorFits DEF MintOD
<1> QED
  BY <1>1, <1>2, <1>3, <1>5, <1>6, <1>8, <1>9, <1>10
     DEF BuysOd

\* burnOD redeems OD at no better than the TWAP.
LEMMA BurnODEffect ==
  ASSUME ReserveInv, NEW sender \in Accounts, NEW n \in Amounts,
         BurnOD(sender, n)
  PROVE  \E paid, out \in Nat : SellsOd(paid, out)
<1> DEFINE out == WbtcOut(n)
<1>1. n \in Nat /\ n > 0 /\ phase = LIVE /\ Twap \in Nat \ {0}
  BY ReserveAssumption, TwapIsNat DEF BurnOD, BurnODAccepted
<1>2. UNCHANGED <<phase, seedPrice, premintDone, orcSupply>>
  BY <1>1, PhaseStaysLive DEF BurnOD, orcVars
<1>3. n <= odSupply /\ odSupply' = odSupply - n
  BY DEF BurnOD, OD!Burn
<1>4. /\ WbtcForOd(n, Twap) \in Nat
      /\ WbtcForOd(n, Twap) * Twap <= n * RATIO_SCALE
  BY <1>1, WbtcForOdBounds
<1>5. out \in Nat /\ out <= WbtcForOd(n, Twap) /\ out > 0
  BY <1>4, NetBounds DEF WbtcOut, BurnOD, BurnODAccepted
<1>6. out <= ReserveWbtc /\ ReserveWbtc' = ReserveWbtc - out
  BY <1>5, ReserveAssumption
     DEF BurnOD, WbtcTransfer, CanPay, ReserveWbtc, Addresses, ReserveInv, TypeOK
<1>7. out * Twap <= n * RATIO_SCALE
  <2>1. out * Twap <= WbtcForOd(n, Twap) * Twap
    BY <1>1, <1>4, <1>5, MulMono
  <2>2. RATIO_SCALE \in Nat
    BY ReserveMathAssumption
  <2> HIDE DEF out
  <2> QED
    BY <1>1, <1>4, <1>5, <2>1, <2>2, MulNat, SMT
<1>8. Twap <= U256_MAX
  <2>1. Fits(n * RATIO_SCALE) /\ out * Twap <= n * RATIO_SCALE
    BY <1>7 DEF BurnOD, BurnODAccepted
  <2>2. out * Twap \in Nat /\ n * RATIO_SCALE \in Nat /\ U256_MAX \in Nat
    BY <1>1, <1>5, MulNat, ReserveMathAssumption
  <2> HIDE DEF out
  <2>3. Fits(out * Twap)
    BY <2>1, <2>2 DEF Fits
  <2> QED
    BY <1>1, <1>5, <2>3, FactorFits
<1> QED
  BY <1>1, <1>2, <1>3, <1>5, <1>6, <1>7, <1>8
     DEF SellsOd

\* premintOD issues OD once, covered at the seed price.
LEMMA PremintODEffect ==
  ASSUME ReserveInv, NEW sender \in Accounts, NEW n \in Amounts,
         PremintOD(sender, n)
  PROVE  \E out \in Nat : Premints(out)
<1>1. n \in Nat /\ n > 0 /\ phase = PREMINT /\ ~premintDone /\ premintDone'
  BY ReserveAssumption DEF PremintOD, PremintODAccepted
<1>2. /\ UNCHANGED <<phase, seedPrice, ReserveWbtc, orcSupply>>
      /\ odSupply' = odSupply + n
  BY DEF PremintOD, OD!Mint, twapVars, oracleVars, orcVars, ReserveWbtc
<1>3. ReserveWbtc * seedPrice >= MIN_RATIO * n
  <2>1. /\ ReserveWbtc * seedPrice \in Nat /\ MIN_RATIO \in Nat
        /\ (ReserveWbtc * seedPrice) \div n >= MIN_RATIO
    BY ReserveTypes, MulNat, ReserveMathAssumption
       DEF ReserveInv, PremintOD, PremintODAccepted, PremintRatio
  <2> QED
    BY <1>1, <2>1, DivGe
<1> QED
  BY <1>1, <1>2, <1>3 DEF Premints

\* A token transfer changes no supply and at most donates WBTC.
LEMMA TransferTokensEffect ==
  ASSUME ReserveInv, NEW sender \in Accounts, NEW to \in Recipients,
         NEW n \in Amounts, TransferTokens(sender, to, n)
  PROVE  MovesNoMoney \/ \E given \in Nat : Donates(given)
<1>1. n \in Nat /\ n > 0 /\ to \in Addresses
  BY ReserveAssumption DEF TransferTokens
<1>2. UNCHANGED <<phase, seedPrice, premintDone>>
  BY DEF TransferTokens, twapVars, oracleVars
<1>3. CASE OD!Transfer(sender, to, n) /\ UNCHANGED <<wbtc, orcVars>>
  BY <1>2, <1>3 DEF OD!Transfer, orcVars, ReserveWbtc, MovesNoMoney
<1>4. CASE ORC!Transfer(sender, to, n) /\ UNCHANGED <<wbtc, odVars>>
  BY <1>2, <1>4 DEF ORC!Transfer, odVars, ReserveWbtc, MovesNoMoney
<1>5. CASE WbtcTransfer(sender, to, n) /\ UNCHANGED <<odVars, orcVars>>
  <2>1. UNCHANGED <<odSupply, orcSupply>>
    BY <1>5 DEF odVars, orcVars
  <2>2. CASE to = Reserve
    <3>1. ReserveWbtc' = ReserveWbtc + n
      BY <1>1, <1>5, <2>2, ReserveAssumption
         DEF WbtcTransfer, ReserveWbtc, Addresses, ReserveInv, TypeOK
    <3> QED
      BY <1>1, <1>2, <2>1, <3>1 DEF Donates
  <2>3. CASE to # Reserve
    <3>1. ReserveWbtc' = ReserveWbtc
      BY <1>1, <1>5, <2>3, ReserveAssumption
         DEF WbtcTransfer, ReserveWbtc, Addresses, ReserveInv, TypeOK
    <3> QED
      BY <1>2, <2>1, <3>1 DEF MovesNoMoney
  <2> QED
    BY <2>2, <2>3
<1> QED
  BY <1>3, <1>4, <1>5 DEF TransferTokens

\* The oracle moves, the money does not.
LEMMA OracleOnlyEffect ==
  ASSUME ComputeTwap \/ UpdateTwapSnapshot \/ \E pool \in Pools : InitPool(pool),
         UNCHANGED <<premintDone, moneyVars>>
  PROVE  MovesNoMoney
<1>1. UNCHANGED <<ReserveWbtc, odSupply, orcSupply, premintDone>>
  BY DEF moneyVars, odVars, orcVars, ReserveWbtc
<1> QED
  BY <1>1 DEF MovesNoMoney, ComputeTwap, UpdateTwapSnapshot, InitPool

\* The account that sends the transaction and the tokens' wiring only.
LEMMA TokenOwnerEffect ==
  ASSUME NEW sender \in Accounts, TokenOwnerStep(sender)
  PROVE  MovesNoMoney
<1>1. UNCHANGED <<phase, seedPrice, premintDone, ReserveWbtc>>
  BY DEF TokenOwnerStep, SetReserve, TransferTokenOwnership, twapVars,
         oracleVars, ReserveWbtc
<1>2. UNCHANGED <<odSupply, orcSupply>>
  BY DEF TokenOwnerStep, SetReserve, TransferTokenOwnership, odVars, orcVars,
         OD!SetReserve, ORC!SetReserve, OD!TransferOwnership,
         ORC!TransferOwnership
<1> QED
  BY <1>1, <1>2 DEF MovesNoMoney

\* The owner's methods have one of the effects above.
LEMMA OwnerEffect ==
  ASSUME ReserveInv, NEW sender \in Accounts, OwnerStep(sender)
  PROVE  MovesNoMoney \/ LeavesSeeding \/ \E out \in Nat : Premints(out)
<1>1. ASSUME NEW new \in NewOwners, TransferOwnership(sender, new)
      PROVE  MovesNoMoney
  BY <1>1 DEF TransferOwnership, twapVars, oracleVars, moneyVars, odVars, orcVars,
       ReserveWbtc, MovesNoMoney
<1>2. ASSUME NEW price \in SeedPrices, OwnerAdvancePhase(sender, price)
      PROVE  LeavesSeeding
  BY <1>2, OracleAssumption
     DEF OwnerAdvancePhase, AdvancePhase, CanAdvance, moneyVars, odVars, orcVars, ReserveWbtc,
         LeavesSeeding
<1>3. ASSUME NEW pool \in Pools, OwnerInitPool(sender, pool)
      PROVE  MovesNoMoney
  BY <1>3, OracleOnlyEffect DEF OwnerInitPool
<1> QED
  BY <1>1, <1>2, <1>3, PremintODEffect DEF OwnerStep

\* The holders' methods have one of the effects above.
LEMMA UserEffect ==
  ASSUME ReserveInv, NEW sender \in Accounts, UserStep(sender)
  PROVE  \/ MovesNoMoney
         \/ \E n, out \in Nat : \/ BuysOrc(n, out) \/ SellsOrc(n, out)
                               \/ BuysOd(n, out) \/ SellsOd(n, out)
         \/ \E n \in Nat : Donates(n)
<1>1. PICK n \in Amounts :
        \/ MintORC(sender, n) \/ BurnORC(sender, n)
        \/ MintOD(sender, n) \/ BurnOD(sender, n)
        \/ \E to \in Recipients : TransferTokens(sender, to, n)
  BY DEF UserStep
<1> QED
  BY <1>1, MintORCEffect, BurnORCEffect, MintODEffect, BurnODEffect,
     TransferTokensEffect

\* Every step of the contract and its environment, in those terms.
LEMMA StepEffect ==
  ASSUME ReserveInv, [Next]_vars
  PROVE  \/ MovesNoMoney
         \/ LeavesSeeding
         \/ \E out \in Nat : Premints(out)
         \/ \E n \in Nat : Donates(n)
         \/ \E n, out \in Nat : \/ BuysOrc(n, out) \/ SellsOrc(n, out)
                               \/ BuysOd(n, out) \/ SellsOd(n, out)
<1>1. CASE EnvironmentStep
  BY <1>1 DEF EnvironmentStep, oracleVars, moneyVars, odVars, orcVars, ReserveWbtc,
       MovesNoMoney
<1>2. CASE AnyoneStep
  BY <1>2, OracleOnlyEffect
     DEF AnyoneStep, GetTwap, GetReserveRatio, GetEquity, View, RefreshSnapshot
<1>3. CASE UNCHANGED vars
  BY <1>3 DEF vars, twapVars, oracleVars, moneyVars, odVars, orcVars, ReserveWbtc,
       MovesNoMoney
<1> QED
  BY <1>1, <1>2, <1>3, OwnerEffect, UserEffect, TokenOwnerEffect DEF Next

-----------------------------------------------------------------------------
(* Types. *)

\* A call on the OD token keeps its types.
LEMMA ODStepTypes ==
  ASSUME TypeOK, NEW a \in Addresses, NEW b \in Addresses, NEW n \in Nat,
         NEW new \in Accounts \cup {NoAddress},
         \/ OD!Mint(Reserve, a, n) \/ OD!Burn(Reserve, a, n)
         \/ OD!Transfer(a, b, n) \/ OD!SetReserve(a, Reserve)
         \/ OD!TransferOwnership(a, new) \/ UNCHANGED odVars
  PROVE  /\ odOwner' \in Accounts \cup {NoAddress}
         /\ TokenTypeOK(odReserve, odReserveSet, odBalance, odSupply)'
<1> USE ReserveAssumption, ReserveMathAssumption DEF TypeOK, TokenTypeOK, U256
<1>1. CASE OD!Mint(Reserve, a, n)
  BY <1>1 DEF OD!Mint, OD!CanMint, OD!adminVars
<1>2. CASE OD!Burn(Reserve, a, n)
  BY <1>2 DEF OD!Burn, OD!adminVars
<1>3. CASE OD!Transfer(a, b, n)
  BY <1>3 DEF OD!Transfer, OD!CanTransfer, OD!adminVars
<1>4. CASE OD!SetReserve(a, Reserve)
  BY <1>4 DEF OD!SetReserve
<1>5. CASE OD!TransferOwnership(a, new)
  BY <1>5 DEF OD!TransferOwnership
<1>6. CASE UNCHANGED odVars
  BY <1>6 DEF odVars
<1> QED
  BY <1>1, <1>2, <1>3, <1>4, <1>5, <1>6

\* A call on the ORC token keeps its types.
LEMMA ORCStepTypes ==
  ASSUME TypeOK, NEW a \in Addresses, NEW b \in Addresses, NEW n \in Nat,
         NEW new \in Accounts \cup {NoAddress},
         \/ ORC!Mint(Reserve, a, n) \/ ORC!Burn(Reserve, a, n)
         \/ ORC!Transfer(a, b, n) \/ ORC!SetReserve(a, Reserve)
         \/ ORC!TransferOwnership(a, new) \/ UNCHANGED orcVars
  PROVE  /\ orcOwner' \in Accounts \cup {NoAddress}
         /\ TokenTypeOK(orcReserve, orcReserveSet, orcBalance, orcSupply)'
<1> USE ReserveAssumption, ReserveMathAssumption DEF TypeOK, TokenTypeOK, U256
<1>1. CASE ORC!Mint(Reserve, a, n)
  BY <1>1 DEF ORC!Mint, ORC!CanMint, ORC!adminVars
<1>2. CASE ORC!Burn(Reserve, a, n)
  BY <1>2 DEF ORC!Burn, ORC!adminVars
<1>3. CASE ORC!Transfer(a, b, n)
  BY <1>3 DEF ORC!Transfer, ORC!CanTransfer, ORC!adminVars
<1>4. CASE ORC!SetReserve(a, Reserve)
  BY <1>4 DEF ORC!SetReserve
<1>5. CASE ORC!TransferOwnership(a, new)
  BY <1>5 DEF ORC!TransferOwnership
<1>6. CASE UNCHANGED orcVars
  BY <1>6 DEF orcVars
<1> QED
  BY <1>1, <1>2, <1>3, <1>4, <1>5, <1>6

\* A WBTC transfer keeps balances natural.
LEMMA WbtcStepTypes ==
  ASSUME TypeOK, NEW a \in Addresses, NEW b \in Addresses, NEW n \in Nat,
         WbtcTransfer(a, b, n) \/ UNCHANGED wbtc
  PROVE  wbtc' \in [Addresses -> Nat]
  BY DEF TypeOK, WbtcTransfer, CanPay

\* A method whose calls on the three tokens keep their types keeps TypeOK.
LEMMA TypesFromParts ==
  ASSUME OracleTypeOK',
         owner' \in Accounts \cup {NoAddress},
         premintDone' \in BOOLEAN,
         wbtc' \in [Addresses -> Nat],
         odOwner' \in Accounts \cup {NoAddress},
         orcOwner' \in Accounts \cup {NoAddress},
         TokenTypeOK(odReserve, odReserveSet, odBalance, odSupply)',
         TokenTypeOK(orcReserve, orcReserveSet, orcBalance, orcSupply)'
  PROVE  TypeOK'
  BY DEF TypeOK

\* The holders' methods keep the types.
LEMMA UserStepTypes ==
  ASSUME ReserveInv, OracleInv', NEW sender \in Accounts, UserStep(sender)
  PROVE  TypeOK'
<1> USE ReserveAssumption
<1>1. OracleTypeOK' /\ TypeOK
  BY DEF OracleInv, ReserveInv
<1>2. PICK n \in Amounts :
        \/ MintORC(sender, n) \/ BurnORC(sender, n)
        \/ MintOD(sender, n) \/ BurnOD(sender, n)
        \/ \E to \in Recipients : TransferTokens(sender, to, n)
  BY DEF UserStep
<1>3. /\ n \in Nat /\ sender \in Addresses /\ Reserve \in Addresses
      /\ Recipients \subseteq Addresses
      /\ Deployer \in Accounts \cup {NoAddress}
  BY DEF Addresses
<1>4. owner' = owner /\ premintDone' = premintDone
  BY <1>2 DEF MintORC, BurnORC, MintOD, BurnOD, TransferTokens
<1>5. CASE MintORC(sender, n)
  <2>1. Net(OrcOut(n)) \in Nat
    BY <1>3, <1>5, OrcOutBounds, NetBounds DEF MintORC, MintORCAccepted
  <2>2. /\ WbtcTransfer(sender, Reserve, n)
        /\ ORC!Mint(Reserve, sender, Net(OrcOut(n)))
        /\ UNCHANGED odVars
    BY <1>5 DEF MintORC
  <2> QED
    BY <1>1, <1>3, <1>4, <2>1, <2>2, WbtcStepTypes, ODStepTypes, ORCStepTypes,
       TypesFromParts DEF TypeOK
<1>6. CASE BurnORC(sender, n)
  <2>1. Net(WbtcForOrc(n)) \in Nat
    <3>1. /\ Equity(ReserveWbtc) \in Nat /\ orcSupply \in Nat \ {0}
      BY <1>1, <1>6, ReserveTypes, TwapIsNat, EquityBounds DEF Equity, BurnORC
    <3> QED
      BY <1>3, <3>1, MulNat, DivBounds, NetBounds DEF WbtcForOrc
  <2>2. /\ WbtcTransfer(Reserve, sender, Net(WbtcForOrc(n)))
        /\ ORC!Burn(Reserve, sender, n)
        /\ UNCHANGED odVars
    BY <1>6 DEF BurnORC
  <2> QED
    BY <1>1, <1>3, <1>4, <2>1, <2>2, WbtcStepTypes, ODStepTypes, ORCStepTypes,
       TypesFromParts DEF TypeOK
<1>7. CASE MintOD(sender, n)
  <2>1. OdOut(n) \in Nat
    BY <1>3, TwapIsNat, OdForWbtcBounds, NetBounds DEF OdOut
  <2>2. /\ WbtcTransfer(sender, Reserve, n)
        /\ OD!Mint(Reserve, sender, OdOut(n))
        /\ UNCHANGED orcVars
    BY <1>7 DEF MintOD
  <2> QED
    BY <1>1, <1>3, <1>4, <2>1, <2>2, WbtcStepTypes, ODStepTypes, ORCStepTypes,
       TypesFromParts DEF TypeOK
<1>8. CASE BurnOD(sender, n)
  <2>1. WbtcOut(n) \in Nat
    BY <1>3, <1>8, TwapIsNat, WbtcForOdBounds, NetBounds
       DEF WbtcOut, BurnOD, BurnODAccepted
  <2>2. /\ WbtcTransfer(Reserve, sender, WbtcOut(n))
        /\ OD!Burn(Reserve, sender, n)
        /\ UNCHANGED orcVars
    BY <1>8 DEF BurnOD
  <2> QED
    BY <1>1, <1>3, <1>4, <2>1, <2>2, WbtcStepTypes, ODStepTypes, ORCStepTypes,
       TypesFromParts DEF TypeOK
<1>9. ASSUME NEW to \in Recipients, TransferTokens(sender, to, n)
      PROVE  TypeOK'
  <2>1. \/ OD!Transfer(sender, to, n) /\ UNCHANGED <<wbtc, orcVars>>
        \/ ORC!Transfer(sender, to, n) /\ UNCHANGED <<wbtc, odVars>>
        \/ WbtcTransfer(sender, to, n) /\ UNCHANGED <<odVars, orcVars>>
    BY <1>9 DEF TransferTokens
  <2> QED
    BY <1>1, <1>3, <1>4, <2>1, WbtcStepTypes, ODStepTypes, ORCStepTypes,
       TypesFromParts DEF TypeOK
<1> QED
  BY <1>2, <1>5, <1>6, <1>7, <1>8, <1>9

\* The owners' methods, on the three contracts, keep the types.
LEMMA OwnerStepTypes ==
  ASSUME ReserveInv, OracleInv', NEW sender \in Accounts,
         OwnerStep(sender) \/ TokenOwnerStep(sender)
  PROVE  TypeOK'
<1> USE ReserveAssumption
<1>1. OracleTypeOK' /\ TypeOK
  BY DEF OracleInv, ReserveInv
<1>2. sender \in Addresses /\ 0 \in Nat /\ sender \in Accounts \cup {NoAddress}
  BY DEF Addresses
<1>3. ASSUME NEW new \in NewOwners,
             \/ TransferOwnership(sender, new)
             \/ TransferTokenOwnership(sender, new)
             \/ SetReserve(sender)
      PROVE  TypeOK'
  <2>1. new \in Accounts \cup {NoAddress}
    OBVIOUS
  <2>2. /\ owner' \in {owner, new} /\ premintDone' = premintDone /\ wbtc' = wbtc
        /\ \/ OD!SetReserve(sender, Reserve) \/ OD!TransferOwnership(sender, new)
           \/ UNCHANGED odVars
        /\ \/ ORC!SetReserve(sender, Reserve) \/ ORC!TransferOwnership(sender, new)
           \/ UNCHANGED orcVars
    BY <1>3 DEF TransferOwnership, TransferTokenOwnership, SetReserve, moneyVars
  <2> QED
    BY <1>1, <1>2, <2>1, <2>2, WbtcStepTypes, ODStepTypes, ORCStepTypes,
       TypesFromParts DEF TypeOK
<1>4. CASE SetReserve(sender)
  <2>1. /\ owner' = owner /\ premintDone' = premintDone /\ wbtc' = wbtc
        /\ OD!SetReserve(sender, Reserve) \/ UNCHANGED odVars
        /\ ORC!SetReserve(sender, Reserve) \/ UNCHANGED orcVars
    BY <1>4 DEF SetReserve
  <2> QED
    BY <1>1, <1>2, <2>1, WbtcStepTypes, ODStepTypes, ORCStepTypes,
       TypesFromParts DEF TypeOK
<1>5. ASSUME \/ \E price \in SeedPrices : OwnerAdvancePhase(sender, price)
             \/ \E pool \in Pools : OwnerInitPool(sender, pool)
      PROVE  TypeOK'
  <2>1. UNCHANGED <<owner, premintDone, wbtc, odVars, orcVars>>
    BY <1>5 DEF OwnerAdvancePhase, OwnerInitPool, moneyVars
  <2> QED
    BY <1>1, <1>2, <2>1, WbtcStepTypes, ODStepTypes, ORCStepTypes,
       TypesFromParts DEF TypeOK
<1>6. ASSUME NEW od \in Amounts, PremintOD(sender, od)
      PROVE  TypeOK'
  <2>1. /\ owner' = owner /\ premintDone' = TRUE /\ wbtc' = wbtc
        /\ OD!Mint(Reserve, sender, od) /\ UNCHANGED orcVars /\ od \in Nat
    BY <1>6 DEF PremintOD, PremintODAccepted
  <2> QED
    BY <1>1, <1>2, <2>1, WbtcStepTypes, ODStepTypes, ORCStepTypes,
       TypesFromParts DEF TypeOK
<1> QED
  BY <1>3, <1>4, <1>5, <1>6 DEF OwnerStep, TokenOwnerStep

\* Every step of ODReserve keeps the types.
LEMMA StepTypes ==
  ASSUME ReserveInv, OracleInv', [Next]_vars
  PROVE  TypeOK'
<1>1. CASE \/ EnvironmentStep \/ AnyoneStep \/ UNCHANGED vars
  <2>1. UNCHANGED <<owner, premintDone, wbtc, odVars, orcVars>>
    BY <1>1 DEF EnvironmentStep, AnyoneStep, GetTwap, GetReserveRatio, GetEquity,
         View, RefreshSnapshot, vars, moneyVars
  <2>2. OracleTypeOK' /\ TypeOK
    BY DEF OracleInv, ReserveInv
  <2> QED
    BY <2>1, <2>2 DEF TypeOK, TokenTypeOK, odVars, orcVars
<1> QED
  BY <1>1, UserStepTypes, OwnerStepTypes DEF Next

-----------------------------------------------------------------------------
(* The invariant and its theorems. *)

\* No step uncovers the OD outstanding before LIVE.
LEMMA StepPremint ==
  ASSUME ReserveInv, TypeOK', [Next]_vars
  PROVE  PremintInv'
<1>1. /\ ReserveWbtc \in Nat /\ odSupply \in Nat /\ seedPrice \in Nat
      /\ ReserveWbtc' \in Nat /\ odSupply' \in Nat
      /\ MIN_RATIO \in Nat
  BY ReserveTypes, ReserveMathAssumption
     DEF ReserveInv, TypeOK, TokenTypeOK, ReserveWbtc, Addresses, U256
<1>2. PremintInv
  BY DEF ReserveInv
<1>3. CASE MovesNoMoney
  BY <1>2, <1>3 DEF MovesNoMoney, PremintInv, PremintCovered
<1>4. CASE LeavesSeeding
  <2>1. odSupply' = 0 /\ seedPrice' \in Nat
    BY <1>2, <1>4 DEF LeavesSeeding, PremintInv
  <2>2. ReserveWbtc' * seedPrice' >= MIN_RATIO * odSupply'
    <3>1. ReserveWbtc' * seedPrice' \in Nat
      BY <1>1, <2>1, MulNat
    <3>2. MIN_RATIO * odSupply' = 0
      BY <1>1, <2>1, SMT
    <3> QED
      BY <3>1, <3>2
  <2> QED
    BY <1>2, <1>4, <2>2 DEF LeavesSeeding, PremintInv, PremintCovered
<1>5. ASSUME NEW out \in Nat, Premints(out)
      PROVE  PremintInv'
  BY <1>1, <1>2, <1>5 DEF Premints, PremintInv, PremintCovered
<1>6. ASSUME NEW n \in Nat, NEW out \in Nat, Donates(n) \/ BuysOrc(n, out)
      PROVE  PremintInv'
  <2>1. /\ UNCHANGED <<phase, seedPrice, premintDone, odSupply>>
        /\ ReserveWbtc <= ReserveWbtc'
    BY <1>1, <1>6 DEF Donates, BuysOrc
  <2>2. ReserveWbtc * seedPrice <= ReserveWbtc' * seedPrice
    BY <1>1, <2>1, MulMono
  <2>3. (phase # LIVE /\ PremintCovered)
          => ReserveWbtc' * seedPrice >= MIN_RATIO * odSupply
    <3>1. /\ ReserveWbtc * seedPrice \in Nat /\ ReserveWbtc' * seedPrice \in Nat
          /\ MIN_RATIO * odSupply \in Nat
      BY <1>1, MulNat
    <3> QED
      BY <2>2, <3>1 DEF PremintCovered
  <2> QED
    BY <1>2, <2>1, <2>3 DEF PremintInv, PremintCovered
<1>7. ASSUME NEW n \in Nat, NEW out \in Nat,
             SellsOrc(n, out) \/ BuysOd(n, out) \/ SellsOd(n, out)
      PROVE  PremintInv'
  BY <1>7 DEF SellsOrc, BuysOd, SellsOd, PremintInv, PremintCovered
<1> QED
  <2>1. 0 \in Nat
    OBVIOUS
  <2> QED
    BY <2>1, <1>3, <1>4, <1>5, <1>6, <1>7, StepEffect

\* Deployment establishes the inductive invariant.
LEMMA InitReserveInv == Init => ReserveInv
<1> SUFFICES ASSUME Init PROVE ReserveInv
  OBVIOUS
<1>1. OracleInv
  BY InitOracleInv DEF Init
<1>2. TypeOK
  <2>1. wbtc \in [Addresses -> Nat]
    BY ReserveAssumption DEF Init, Addresses
  <2>2. /\ odOwner = Deployer /\ orcOwner = Deployer /\ owner = Deployer
        /\ premintDone = FALSE /\ Deployer \in Accounts \cup {NoAddress}
    BY ReserveAssumption DEF Init, OD!Init, ORC!Init
  <2>3. TokenTypeOK(odReserve, odReserveSet, odBalance, odSupply)
    <3>1. /\ odReserve = NoAddress /\ odReserveSet = FALSE
          /\ odBalance = [a \in Addresses |-> 0] /\ odSupply = 0
      BY DEF Init, OD!Init
    <3>2. odBalance \in [Addresses -> Nat]
      BY <3>1
    <3>3. odSupply \in U256
      BY <3>1, ReserveMathAssumption DEF U256
    <3> QED
      BY <3>1, <3>2, <3>3 DEF TokenTypeOK
  <2>4. TokenTypeOK(orcReserve, orcReserveSet, orcBalance, orcSupply)
    <3>1. /\ orcReserve = NoAddress /\ orcReserveSet = FALSE
          /\ orcBalance = [a \in Addresses |-> 0] /\ orcSupply = 0
      BY DEF Init, ORC!Init
    <3>2. orcBalance \in [Addresses -> Nat]
      BY <3>1
    <3>3. orcSupply \in U256
      BY <3>1, ReserveMathAssumption DEF U256
    <3> QED
      BY <3>1, <3>2, <3>3 DEF TokenTypeOK
  <2> QED
    BY <1>1, <2>1, <2>2, <2>3, <2>4 DEF TypeOK, OracleInv
<1>3. PremintInv
  <2>1. /\ odSupply = 0 /\ ~premintDone /\ MIN_RATIO \in Nat
        /\ ReserveWbtc = 0 /\ seedPrice = 0
    BY ReserveMathAssumption
       DEF Init, OracleInit, OD!Init, ReserveWbtc, Addresses
  <2> QED
    BY <2>1, SMT DEF PremintInv, PremintCovered
<1> QED
  BY <1>1, <1>2, <1>3 DEF ReserveInv

\* Every step keeps the inductive invariant.
LEMMA StepReserveInv == ReserveInv /\ [Next]_vars => ReserveInv'
<1> SUFFICES ASSUME ReserveInv, [Next]_vars PROVE ReserveInv'
  OBVIOUS
<1>1. OracleInv'
  BY OracleStepInv, StepImpliesOracleStep DEF ReserveInv
<1>2. TypeOK'
  BY <1>1, StepTypes
<1>3. PremintInv'
  BY <1>2, StepPremint
<1> QED
  BY <1>1, <1>2, <1>3 DEF ReserveInv

(* The invariant of the contract in its environment: the types, the        *)
(* oracle's invariant, and the cover of the preminted OD.                  *)
THEOREM ReserveInvariant == Spec => []ReserveInv
  BY InitReserveInv, StepReserveInv, PTL DEF Spec

(* Every storage slot and every balance always holds a value of its type:  *)
(* no subtraction of the methods goes below zero, no supply above u256.    *)
THEOREM ReserveTypesCorrect == Spec => []TypeOK
<1>1. ReserveInv => TypeOK
  BY DEF ReserveInv
<1> QED
  BY <1>1, ReserveInvariant, PTL

(* The OD issued by premintOD stay covered at the seed price until the     *)
(* reserve is LIVE, in whatever order the calls of that phase come.        *)
THEOREM PremintStaysCovered == Spec => []PremintCovered
<1>1. ReserveInv => PremintCovered
  BY DEF ReserveInv, PremintInv
<1> QED
  BY <1>1, ReserveInvariant, PTL

-----------------------------------------------------------------------------
(* Sums over finite functions, which is what SumOf computes.               *)

\* Induction, with a set in the place of a predicate.
LEMMA LeastNat ==
  ASSUME NEW T, T \subseteq Nat, T # {}
  PROVE  \E n \in T : \A m \in T : ~(m < n)
<1>1. PICK R : R = OpToRel(<, Nat)
  OBVIOUS
<1>2. IsWellFoundedOn(R, Nat)
  BY <1>1, NatLessThanWellFounded
<1>3. \E n \in T : \A m \in T : ~(<<m, n>> \in R)
  BY <1>2, WFMin
<1>4. \A m, n \in Nat : m < n => <<m, n>> \in R
  BY <1>1 DEF OpToRel
<1> QED
  BY <1>3, <1>4

\* What holds of {} and, from its smaller parts, of each part of D, holds of all.
LEMMA SubsetInduction ==
  ASSUME NEW D, IsFiniteSet(D), NEW G, {} \in G,
         \A s \in SUBSET D : s # {} /\ (\A x \in s : s \ {x} \in G) => s \in G
  PROVE  \A s \in SUBSET D : s \in G
<1> SUFFICES ASSUME NEW t \in SUBSET D, t \notin G PROVE FALSE
  OBVIOUS
<1>1. PICK T : T = {Cardinality(s) : s \in (SUBSET D) \ G}
  OBVIOUS
<1>2. \A s \in SUBSET D : IsFiniteSet(s) /\ Cardinality(s) \in Nat
  BY FS_Subset, FS_CardinalityType
<1>3. T \subseteq Nat /\ T # {}
  BY <1>1, <1>2
<1>4. PICK n \in T : \A m \in T : ~(m < n)
  BY <1>3, LeastNat
<1>5. PICK s \in (SUBSET D) \ G : n = Cardinality(s)
  BY <1>1, <1>4
<1>6. ASSUME NEW x \in s PROVE s \ {x} \in G
  <2>1. IsFiniteSet(s) /\ Cardinality(s) \in Nat
    BY <1>2
  <2>2. Cardinality(s \ {x}) = Cardinality(s) - 1
    BY <2>1, FS_RemoveElement
  <2>3. Cardinality(s \ {x}) < n
    BY <1>5, <2>1, <2>2
  <2>4. Cardinality(s \ {x}) \notin T
    BY <1>4, <2>3
  <2> QED
    BY <1>1, <2>4
<1> QED
  BY <1>5, <1>6

\* The sums over the subsets of a function's domain that SumOf goes through.
Chosen(s) == CHOOSE x \in s : TRUE
Added(f, g, s) == IF s = {} THEN 0 ELSE f[Chosen(s)] + g[s \ {Chosen(s)}]
PartSums(f) == CHOOSE g : g = [s \in SUBSET DOMAIN f |-> Added(f, g, s)]
Part(f, s) == PartSums(f)[s]

\* The fold is the sum over the whole domain.
LEMMA SumIsPart ==
  ASSUME NEW f
  PROVE  SumOf(f) = Part(f, DOMAIN f)
  BY DEF SumOf, FoldFunction, FoldFunctionOnSet, MapThenFoldSet, Part, PartSums, Added, Chosen

\* The element that CHOOSE takes is one of the set.
LEMMA ChosenIn ==
  ASSUME NEW s, s # {}
  PROVE  Chosen(s) \in s
  BY DEF Chosen

\* There is such a function: it is there for the subsets of every size.
LEMMA PartSumsIs ==
  ASSUME NEW f, IsFiniteSet(DOMAIN f)
  PROVE  PartSums(f) = [s \in SUBSET DOMAIN f |-> Added(f, PartSums(f), s)]
<1>1. PICK D : D = DOMAIN f
  OBVIOUS
<1> DEFINE Small(k) == {s \in SUBSET D : Cardinality(s) <= k}
           Solves(g, k) == \A s \in Small(k) : g[s] = Added(f, g, s)
<1>2. \A s \in SUBSET D : IsFiniteSet(s) /\ Cardinality(s) \in Nat
  BY <1>1, FS_Subset, FS_CardinalityType
<1>3. \A s \in SUBSET D : Cardinality(s) = 0 <=> s = {}
  BY <1>2, FS_EmptySet
<1>4. PICK T : T = {k \in Nat : ~ \E g : Solves(g, k)}
  OBVIOUS
<1>5. T = {}
  <2> SUFFICES ASSUME T # {} PROVE FALSE
    OBVIOUS
  <2>1. PICK n \in T : \A m \in T : ~(m < n)
    BY <1>4, LeastNat
  <2>2. n # 0
    <3>1. Small(0) = {{}}
      BY <1>2, <1>3
    <3>2. Solves([s \in {{}} |-> 0], 0)
      BY <3>1 DEF Added
    <3> QED
      BY <1>4, <3>2
  <2>3. n \in Nat /\ n - 1 \in Nat /\ n - 1 < n
    BY <1>4, <2>2
  <2>4. PICK g : Solves(g, n - 1)
    BY <1>4, <2>1, <2>3
  <2>5. PICK h : h = [s \in Small(n) |-> Added(f, g, s)]
    OBVIOUS
  <2>6. ASSUME NEW s \in Small(n - 1) PROVE h[s] = g[s]
    <3>1. s \in Small(n)
      BY <1>2, <2>3
    <3>2. g[s] = Added(f, g, s)
      BY <2>4
    <3> QED
      BY <2>5, <3>1, <3>2
  <2>7. ASSUME NEW s \in Small(n) PROVE h[s] = Added(f, h, s)
    <3>1. h[s] = Added(f, g, s)
      BY <2>5
    <3>2. CASE s = {}
      BY <3>1, <3>2 DEF Added
    <3>3. CASE s # {}
      <4>1. PICK x \in s : x = Chosen(s)
        BY <3>3, ChosenIn
      <4>2. IsFiniteSet(s) /\ Cardinality(s) \in Nat /\ Cardinality(s) <= n
        BY <1>2
      <4>3. Cardinality(s \ {x}) = Cardinality(s) - 1
        BY <4>2, FS_RemoveElement
      <4>4. s \ {x} \in Small(n - 1)
        BY <2>3, <4>2, <4>3
      <4>5. h[s \ {x}] = g[s \ {x}]
        BY <2>6, <4>4
      <4> QED
        BY <3>1, <3>3, <4>1, <4>5 DEF Added
    <3> QED
      BY <3>2, <3>3
  <2>8. Solves(h, n)
    BY <2>7
  <2> QED
    BY <1>4, <2>1, <2>3, <2>8
<1>6. PICK n \in Nat : n = Cardinality(D)
  BY <1>1, FS_CardinalityType
<1>7. \A s \in SUBSET D : s \in Small(n)
  BY <1>1, <1>6, FS_Subset
<1>8. PICK g : Solves(g, n)
  BY <1>4, <1>5
<1>9. PICK h : h = [s \in SUBSET D |-> g[s]]
  OBVIOUS
<1>10. ASSUME NEW s \in SUBSET D PROVE h[s] = Added(f, h, s)
  <2>1. h[s] = Added(f, g, s)
    BY <1>7, <1>8, <1>9
  <2>2. s # {} => s \ {Chosen(s)} \in SUBSET D
    OBVIOUS
  <2> QED
    BY <1>9, <2>1, <2>2 DEF Added
<1>11. h = [s \in SUBSET DOMAIN f |-> Added(f, h, s)]
  BY <1>1, <1>9, <1>10
<1> QED
  BY <1>11 DEF PartSums

\* A partial sum takes one element and adds up the rest.
LEMMA PartIs ==
  ASSUME NEW f, IsFiniteSet(DOMAIN f), NEW s \in SUBSET DOMAIN f
  PROVE  Part(f, s) = IF s = {} THEN 0 ELSE f[Chosen(s)] + Part(f, s \ {Chosen(s)})
<1>1. PICK p : p = PartSums(f)
  OBVIOUS
<1>2. p = [t \in SUBSET DOMAIN f |-> Added(f, p, t)]
  BY <1>1, PartSumsIs
<1>3. p[s] = Added(f, p, s)
  BY <1>2
<1> QED
  BY <1>1, <1>3 DEF Part, Added

\* A partial sum of naturals is a natural.
LEMMA PartNat ==
  ASSUME NEW f, IsFiniteSet(DOMAIN f), \A x \in DOMAIN f : f[x] \in Nat,
         NEW s \in SUBSET DOMAIN f
  PROVE  Part(f, s) \in Nat
<1>1. PICK G : G = {t \in SUBSET DOMAIN f : Part(f, t) \in Nat}
  OBVIOUS
<1>2. {} \in G
  BY <1>1, PartIs
<1>3. ASSUME NEW t \in SUBSET DOMAIN f, t # {}, \A x \in t : t \ {x} \in G
      PROVE  t \in G
  <2>1. PICK x \in t : x = Chosen(t)
    BY <1>3, ChosenIn
  <2>2. Part(f, t) = f[x] + Part(f, t \ {x})
    BY <1>3, <2>1, PartIs
  <2>3. Part(f, t \ {x}) \in Nat
    BY <1>1, <1>3
  <2> QED
    BY <1>1, <2>2, <2>3
<1>4. \A t \in SUBSET DOMAIN f : t \in G
  BY <1>2, <1>3, SubsetInduction
<1> QED
  BY <1>1, <1>4

\* Equal values have equal sums.
LEMMA PartAgrees ==
  ASSUME NEW f, NEW g, IsFiniteSet(DOMAIN f), IsFiniteSet(DOMAIN g),
         NEW S, S \subseteq DOMAIN f, S \subseteq DOMAIN g,
         \A x \in S : f[x] = g[x]
  PROVE  Part(f, S) = Part(g, S)
<1>1. PICK G : G = {t \in SUBSET S : Part(f, t) = Part(g, t)}
  OBVIOUS
<1>2. {} \in G
  BY <1>1, PartIs
<1>3. ASSUME NEW t \in SUBSET S, t # {}, \A x \in t : t \ {x} \in G
      PROVE  t \in G
  <2>1. PICK x \in t : x = Chosen(t)
    BY <1>3, ChosenIn
  <2>2. Part(f, t) = f[x] + Part(f, t \ {x})
    BY <1>3, <2>1, PartIs
  <2>3. Part(g, t) = g[x] + Part(g, t \ {x})
    BY <1>3, <2>1, PartIs
  <2>4. Part(f, t \ {x}) = Part(g, t \ {x}) /\ f[x] = g[x]
    BY <1>1, <1>3
  <2> QED
    BY <1>1, <2>2, <2>3, <2>4
<1>4. IsFiniteSet(S)
  BY FS_Subset
<1>5. \A t \in SUBSET S : t \in G
  BY <1>2, <1>3, <1>4, SubsetInduction
<1> QED
  BY <1>1, <1>5

\* Two elements can be taken in either order.
LEMMA TakenInAnyOrder ==
  ASSUME NEW p \in Nat, NEW q \in Nat, NEW r \in Nat
  PROVE  q + (p + r) = p + (q + r)
  OBVIOUS

\* The order in which the elements are taken does not matter.
LEMMA PartWithout ==
  ASSUME NEW f, IsFiniteSet(DOMAIN f), \A x \in DOMAIN f : f[x] \in Nat,
         NEW S \in SUBSET DOMAIN f, NEW a \in S
  PROVE  Part(f, S) = f[a] + Part(f, S \ {a})
<1>1. PICK G : G = {t \in SUBSET DOMAIN f : \A x \in t : Part(f, t) = f[x] + Part(f, t \ {x})}
  OBVIOUS
<1>2. {} \in G
  BY <1>1
<1>3. ASSUME NEW t \in SUBSET DOMAIN f, t # {}, \A x \in t : t \ {x} \in G
      PROVE  t \in G
  <2> SUFFICES ASSUME NEW x \in t PROVE Part(f, t) = f[x] + Part(f, t \ {x})
    BY <1>1
  <2>1. PICK y \in t : y = Chosen(t)
    BY <1>3, ChosenIn
  <2>2. Part(f, t) = f[y] + Part(f, t \ {y})
    BY <1>3, <2>1, PartIs
  <2>3. CASE x = y
    BY <2>2, <2>3
  <2>4. CASE x # y
    <3>1. t \ {y} \in G /\ t \ {x} \in G /\ x \in t \ {y} /\ y \in t \ {x}
      BY <1>3, <2>4
    <3>2. Part(f, t \ {y}) = f[x] + Part(f, (t \ {y}) \ {x})
      BY <1>1, <3>1
    <3>3. Part(f, t \ {x}) = f[y] + Part(f, (t \ {x}) \ {y})
      BY <1>1, <3>1
    <3>4. (t \ {y}) \ {x} = (t \ {x}) \ {y}
      OBVIOUS
    <3>5. PICK r \in Nat : r = Part(f, (t \ {y}) \ {x})
      BY PartNat
    <3>6. PICK p \in Nat, q \in Nat : p = f[x] /\ q = f[y]
      OBVIOUS
    <3>7. Part(f, t \ {x}) = q + r /\ Part(f, t \ {y}) = p + r
      BY <3>2, <3>3, <3>4, <3>5, <3>6
    <3>8. q + (p + r) = p + (q + r)
      BY TakenInAnyOrder
    <3> QED
      BY <2>2, <3>6, <3>7, <3>8
  <2> QED
    BY <2>3, <2>4
<1>4. \A t \in SUBSET DOMAIN f : t \in G
  BY <1>2, <1>3, SubsetInduction
<1> QED
  BY <1>1, <1>4

\* Two functions that differ at one place.
LEMMA SumUpdated ==
  ASSUME NEW f, IsFiniteSet(DOMAIN f), \A x \in DOMAIN f : f[x] \in Nat,
         NEW g, DOMAIN g = DOMAIN f, NEW a \in DOMAIN f, g[a] \in Nat,
         \A x \in DOMAIN f : x # a => g[x] = f[x]
  PROVE  /\ SumOf(f) \in Nat /\ SumOf(g) \in Nat
         /\ SumOf(g) + f[a] = SumOf(f) + g[a]
<1>1. PICK S : S = DOMAIN f \ {a}
  OBVIOUS
<1>2. \A x \in DOMAIN g : g[x] \in Nat
  OBVIOUS
<1>3. S \subseteq DOMAIN f /\ \A x \in S : f[x] = g[x]
  BY <1>1
<1>4. SumOf(f) = f[a] + Part(f, S)
  BY <1>1, SumIsPart, PartWithout
<1>5. SumOf(g) = g[a] + Part(g, S)
  <2>1. SumOf(g) = Part(g, DOMAIN f)
    BY SumIsPart
  <2> QED
    BY <1>1, <1>2, <2>1, PartWithout
<1>6. Part(f, S) = Part(g, S)
  BY <1>3, PartAgrees
<1>7. PICK r \in Nat : r = Part(f, S)
  BY <1>3, PartNat
<1>8. PICK p \in Nat, v \in Nat : p = f[a] /\ v = g[a]
  OBVIOUS
<1>9. SumOf(f) = p + r /\ SumOf(g) = v + r
  BY <1>4, <1>5, <1>6, <1>7, <1>8
<1>10. (v + r) + p = (p + r) + v /\ v + r \in Nat /\ p + r \in Nat
  OBVIOUS
<1> QED
  BY <1>8, <1>9, <1>10

\* The arithmetic of a transfer: what one entry loses the other gains.
LEMMA MovedAmount ==
  ASSUME NEW p \in Nat, NEW q \in Nat, NEW r \in Nat, NEW n \in Nat, p = r + n,
         NEW x \in Nat, NEW y \in Nat, NEW z \in Nat,
         y + p = x + r, z + q = y + (q + n)
  PROVE  z = x
  OBVIOUS

\* An amount moved from one account to another.
LEMMA SumMoved ==
  ASSUME NEW D, IsFiniteSet(D), NEW f \in [D -> Nat],
         NEW a \in D, NEW b \in D, a # b, NEW n \in Nat, n <= f[a],
         NEW g, DOMAIN g = D, g[a] = f[a] - n, g[b] = f[b] + n,
         \A x \in D : x # a /\ x # b => g[x] = f[x]
  PROVE  SumOf(g) = SumOf(f)
<1>1. PICK p \in Nat, q \in Nat : p = f[a] /\ q = f[b]
  OBVIOUS
<1>2. PICK r \in Nat : p = r + n /\ r = p - n
  <2>1. p - n \in Nat /\ p = (p - n) + n
    BY <1>1
  <2> QED
    BY <2>1
<1>3. PICK h : h = [f EXCEPT ![a] = r]
  OBVIOUS
<1>4. /\ DOMAIN h = DOMAIN f /\ h[a] = r /\ h[b] = q
      /\ \A x \in DOMAIN f : x # a => h[x] = f[x]
  BY <1>1, <1>3
<1>5. DOMAIN f = D /\ a \in DOMAIN f /\ \A x \in DOMAIN f : f[x] \in Nat
  OBVIOUS
<1>6. IsFiniteSet(DOMAIN h) /\ \A x \in DOMAIN h : h[x] \in Nat
  BY <1>4, <1>5
<1>7. /\ DOMAIN g = DOMAIN h /\ g[b] = q + n /\ b \in DOMAIN h /\ g[b] \in Nat
      /\ \A x \in DOMAIN h : x # b => g[x] = h[x]
  BY <1>1, <1>2, <1>4, <1>5
<1>8. SumOf(f) \in Nat /\ SumOf(h) \in Nat /\ SumOf(h) + f[a] = SumOf(f) + h[a]
  BY <1>4, <1>5, SumUpdated
<1>9. SumOf(g) \in Nat /\ SumOf(g) + h[b] = SumOf(h) + g[b]
  BY <1>6, <1>7, SumUpdated
<1>10. PICK x \in Nat, y \in Nat, z \in Nat : x = SumOf(f) /\ y = SumOf(h) /\ z = SumOf(g)
  BY <1>8, <1>9
<1>11. y + p = x + r /\ z + q = y + (q + n)
  BY <1>1, <1>4, <1>7, <1>8, <1>9, <1>10
<1>12. z = x
  BY <1>2, <1>11, MovedAmount
<1> QED
  BY <1>10, <1>12

\* Nobody holds anything: nothing in all.
LEMMA SumOfZeros ==
  ASSUME NEW D, IsFiniteSet(D), NEW f, f = [x \in D |-> 0]
  PROVE  SumOf(f) = 0
<1>1. DOMAIN f = D /\ \A x \in D : f[x] = 0
  OBVIOUS
<1>2. PICK G : G = {t \in SUBSET D : Part(f, t) = 0}
  OBVIOUS
<1>3. {} \in G
  BY <1>1, <1>2, PartIs
<1>4. ASSUME NEW t \in SUBSET D, t # {}, \A x \in t : t \ {x} \in G
      PROVE  t \in G
  <2>1. PICK x \in t : x = Chosen(t)
    BY <1>4, ChosenIn
  <2>2. Part(f, t) = f[x] + Part(f, t \ {x})
    BY <1>1, <1>4, <2>1, PartIs
  <2>3. Part(f, t \ {x}) = 0 /\ f[x] = 0
    BY <1>1, <1>2, <1>4
  <2> QED
    BY <1>2, <2>2, <2>3
<1>5. \A t \in SUBSET D : t \in G
  BY <1>3, <1>4, SubsetInduction
<1> QED
  BY <1>1, <1>2, <1>5, SumIsPart

\* An account that holds nothing adds nothing.
LEMMA SumWithEmpty ==
  ASSUME NEW f, IsFiniteSet(DOMAIN f), \A x \in DOMAIN f : f[x] \in Nat,
         NEW r, r \notin DOMAIN f, NEW g, DOMAIN g = DOMAIN f \cup {r}, g[r] = 0,
         \A x \in DOMAIN f : g[x] = f[x]
  PROVE  SumOf(g) = SumOf(f)
<1>1. IsFiniteSet(DOMAIN g) /\ \A x \in DOMAIN g : g[x] \in Nat
  BY FS_AddElement
<1>2. (DOMAIN g) \ {r} = DOMAIN f /\ r \in DOMAIN g
  OBVIOUS
<1>3. Part(g, DOMAIN g) = g[r] + Part(g, DOMAIN f)
  BY <1>1, <1>2, PartWithout
<1>4. Part(g, DOMAIN f) = Part(f, DOMAIN f)
  BY <1>1, <1>2, PartAgrees
<1>5. Part(f, DOMAIN f) \in Nat
  BY PartNat
<1> QED
  BY <1>3, <1>4, <1>5, SumIsPart

\* An amount added to one account.
LEMMA SumCredited ==
  ASSUME NEW f, IsFiniteSet(DOMAIN f), \A x \in DOMAIN f : f[x] \in Nat,
         NEW a \in DOMAIN f, NEW n \in Nat, NEW g, g = [f EXCEPT ![a] = @ + n]
  PROVE  SumOf(f) \in Nat /\ SumOf(g) = SumOf(f) + n
<1>1. PICK p \in Nat : p = f[a]
  OBVIOUS
<1>2. /\ DOMAIN g = DOMAIN f /\ g[a] = p + n /\ p + n \in Nat
      /\ \A x \in DOMAIN f : x # a => g[x] = f[x]
  BY <1>1
<1>3. /\ SumOf(f) \in Nat /\ SumOf(g) \in Nat
      /\ SumOf(g) + f[a] = SumOf(f) + g[a]
  BY <1>2, SumUpdated
<1>4. PICK y \in Nat, z \in Nat : y = SumOf(f) /\ z = SumOf(g)
  BY <1>3
<1>5. z + p = y + (p + n)
  BY <1>1, <1>2, <1>3, <1>4
<1>6. z = y + n
  BY <1>5
<1> QED
  BY <1>4, <1>6

\* An amount taken from one account.
LEMMA SumDebited ==
  ASSUME NEW f, IsFiniteSet(DOMAIN f), \A x \in DOMAIN f : f[x] \in Nat,
         NEW a \in DOMAIN f, NEW n \in Nat, n <= f[a],
         NEW g, g = [f EXCEPT ![a] = @ - n]
  PROVE  SumOf(f) \in Nat /\ SumOf(g) = SumOf(f) - n
<1>1. PICK p \in Nat : p = f[a]
  OBVIOUS
<1>2. /\ DOMAIN g = DOMAIN f /\ g[a] = p - n /\ p - n \in Nat
      /\ \A x \in DOMAIN f : x # a => g[x] = f[x]
  BY <1>1
<1>3. /\ SumOf(f) \in Nat /\ SumOf(g) \in Nat
      /\ SumOf(g) + f[a] = SumOf(f) + g[a]
  BY <1>2, SumUpdated
<1>4. PICK y \in Nat, z \in Nat : y = SumOf(f) /\ z = SumOf(g)
  BY <1>3
<1>5. z + p = y + (p - n)
  BY <1>1, <1>2, <1>3, <1>4
<1>6. z = y - n
  BY <1>5
<1> QED
  BY <1>4, <1>6

\* No account holds more than all of them.
LEMMA SumBound ==
  ASSUME NEW f, IsFiniteSet(DOMAIN f), \A x \in DOMAIN f : f[x] \in Nat,
         NEW a \in DOMAIN f
  PROVE  SumOf(f) \in Nat /\ f[a] <= SumOf(f)
<1>1. SumOf(f) = f[a] + Part(f, DOMAIN f \ {a})
  BY SumIsPart, PartWithout
<1>2. Part(f, DOMAIN f \ {a}) \in Nat
  BY PartNat
<1> QED
  BY <1>1, <1>2

-----------------------------------------------------------------------------
(* The two ledgers. *)

\* A token whose setReserve is still to come has nothing outstanding.
OdLedger ==
  /\ odReserve # Reserve => odSupply = 0
  /\ SumOf(odBalance) = odSupply

OrcLedger ==
  /\ orcReserve # Reserve => orcSupply = 0
  /\ SumOf(orcBalance) = orcSupply

WbtcLedger == SumOf(wbtc) = SumOf(WbtcHeld)

\* The calls on the OD token, by whichever method or account.
OdCall ==
  \/ UNCHANGED odVars
  \/ \E a, b \in Addresses, n \in Nat :
       \/ OD!Mint(Reserve, a, n) \/ OD!Burn(Reserve, a, n)
       \/ OD!Transfer(a, b, n) \/ OD!SetReserve(a, Reserve)
       \/ \E new \in NewOwners : OD!TransferOwnership(a, new)

OrcCall ==
  \/ UNCHANGED orcVars
  \/ \E a, b \in Addresses, n \in Nat :
       \/ ORC!Mint(Reserve, a, n) \/ ORC!Burn(Reserve, a, n)
       \/ ORC!Transfer(a, b, n) \/ ORC!SetReserve(a, Reserve)
       \/ \E new \in NewOwners : ORC!TransferOwnership(a, new)

\* The holders' methods make one call at most on each token.
LEMMA UserCalls ==
  ASSUME ReserveInv, NEW sender \in Accounts, UserStep(sender)
  PROVE  OdCall /\ OrcCall
<1>1. TypeOK
  BY DEF ReserveInv
<1>2. PICK n \in Amounts :
        \/ MintORC(sender, n) \/ BurnORC(sender, n)
        \/ MintOD(sender, n) \/ BurnOD(sender, n)
        \/ \E to \in Recipients : TransferTokens(sender, to, n)
  BY DEF UserStep
<1>3. /\ n \in Nat /\ sender \in Addresses /\ Reserve \in Addresses
      /\ Recipients \subseteq Addresses
  BY ReserveAssumption DEF Addresses
<1>4. CASE MintORC(sender, n)
  <2>1. Net(OrcOut(n)) \in Nat
    BY <1>1, <1>3, <1>4, OrcOutBounds, NetBounds DEF MintORC, MintORCAccepted
  <2>2. ORC!Mint(Reserve, sender, Net(OrcOut(n))) /\ UNCHANGED odVars
    BY <1>4 DEF MintORC
  <2> QED
    BY <1>3, <2>1, <2>2 DEF OdCall, OrcCall
<1>5. CASE BurnORC(sender, n)
  <2>1. ORC!Burn(Reserve, sender, n) /\ UNCHANGED odVars
    BY <1>5 DEF BurnORC
  <2> QED
    BY <1>3, <2>1 DEF OdCall, OrcCall
<1>6. CASE MintOD(sender, n)
  <2>1. OdOut(n) \in Nat
    BY <1>3, TwapIsNat, OdForWbtcBounds, NetBounds DEF OdOut
  <2>2. OD!Mint(Reserve, sender, OdOut(n)) /\ UNCHANGED orcVars
    BY <1>6 DEF MintOD
  <2> QED
    BY <1>3, <2>1, <2>2 DEF OdCall, OrcCall
<1>7. CASE BurnOD(sender, n)
  <2>1. OD!Burn(Reserve, sender, n) /\ UNCHANGED orcVars
    BY <1>7 DEF BurnOD
  <2> QED
    BY <1>3, <2>1 DEF OdCall, OrcCall
<1>8. ASSUME NEW to \in Recipients, TransferTokens(sender, to, n)
      PROVE  OdCall /\ OrcCall
  <2>1. \/ OD!Transfer(sender, to, n) /\ UNCHANGED orcVars
        \/ ORC!Transfer(sender, to, n) /\ UNCHANGED odVars
        \/ UNCHANGED <<odVars, orcVars>>
    BY <1>8 DEF TransferTokens
  <2> QED
    BY <1>3, <2>1 DEF OdCall, OrcCall
<1> QED
  BY <1>2, <1>4, <1>5, <1>6, <1>7, <1>8

\* The owners call premintOD, or setReserve and transferOwnership of a token.
LEMMA OwnerCalls ==
  ASSUME NEW sender \in Accounts, OwnerStep(sender) \/ TokenOwnerStep(sender)
  PROVE  OdCall /\ OrcCall
<1>1. sender \in Addresses /\ Reserve \in Addresses /\ 0 \in Nat
  BY DEF Addresses
<1>2. ASSUME NEW od \in Amounts, PremintOD(sender, od)
      PROVE  OdCall /\ OrcCall
  <2>1. PICK a \in Addresses : a = owner
    BY <1>1, <1>2 DEF PremintOD, PremintODAccepted
  <2>2. OD!Mint(Reserve, a, od) /\ UNCHANGED orcVars /\ od \in Nat
    BY <1>2, <2>1, ReserveAssumption DEF PremintOD
  <2> QED
    BY <1>1, <2>1, <2>2 DEF OdCall, OrcCall
<1>3. ASSUME NEW new \in NewOwners, TransferTokenOwnership(sender, new)
      PROVE  OdCall /\ OrcCall
  <2>1. \/ OD!TransferOwnership(sender, new) /\ UNCHANGED orcVars
        \/ ORC!TransferOwnership(sender, new) /\ UNCHANGED odVars
    BY <1>3 DEF TransferTokenOwnership
  <2> QED
    BY <1>1, <2>1 DEF OdCall, OrcCall
<1>4. CASE SetReserve(sender)
  <2>1. \/ OD!SetReserve(sender, Reserve) /\ UNCHANGED orcVars
        \/ ORC!SetReserve(sender, Reserve) /\ UNCHANGED odVars
    BY <1>4 DEF SetReserve
  <2> QED
    BY <1>1, <2>1 DEF OdCall, OrcCall
<1>5. ASSUME \/ \E new \in NewOwners : TransferOwnership(sender, new)
             \/ \E price \in SeedPrices : OwnerAdvancePhase(sender, price)
             \/ \E pool \in Pools : OwnerInitPool(sender, pool)
      PROVE  OdCall /\ OrcCall
  <2>1. UNCHANGED <<odVars, orcVars>>
    BY <1>5 DEF TransferOwnership, OwnerAdvancePhase, OwnerInitPool, moneyVars
  <2> QED
    BY <2>1 DEF OdCall, OrcCall
<1> QED
  BY <1>2, <1>3, <1>4, <1>5 DEF OwnerStep, TokenOwnerStep

\* Every step of the whole is one call at most on each token.
LEMMA StepCalls ==
  ASSUME ReserveInv, [Next]_vars
  PROVE  OdCall /\ OrcCall
<1>1. CASE EnvironmentStep \/ AnyoneStep \/ UNCHANGED vars
  <2>1. UNCHANGED <<odVars, orcVars>>
    BY <1>1 DEF EnvironmentStep, AnyoneStep, GetTwap, GetReserveRatio, GetEquity,
         View, RefreshSnapshot, vars, moneyVars
  <2> QED
    BY <2>1 DEF OdCall, OrcCall
<1> QED
  BY <1>1, UserCalls, OwnerCalls DEF Next

\* The reserve is one more address than the accounts.
LEMMA AddressesFinite == IsFiniteSet(Addresses)
  BY ReserveAssumption, FS_AddElement DEF Addresses

Moved(f, a, b, n) == [f EXCEPT ![a] = @ - n, ![b] = @ + n]

\* A transfer between two addresses leaves the sum.
LEMMA TransferKeepsSum ==
  ASSUME NEW f \in [Addresses -> Nat], NEW a \in Addresses, NEW b \in Addresses,
         NEW n \in Nat, a # b, n <= f[a]
  PROVE  SumOf(Moved(f, a, b, n)) = SumOf(f)
<1> PICK g : g = Moved(f, a, b, n)
  OBVIOUS
<1>1. /\ f \in [Addresses -> Nat] /\ a \in Addresses /\ b \in Addresses
      /\ n \in Nat /\ a # b /\ n <= f[a]
  OBVIOUS
<1>2. /\ DOMAIN g = Addresses /\ g[a] = f[a] - n /\ g[b] = f[b] + n
      /\ \A x \in Addresses : x # a /\ x # b => g[x] = f[x]
  BY DEF Moved
<1>3. IsFiniteSet(Addresses)
  BY AddressesFinite
<1>4. SumOf(g) = SumOf(f)
  BY ONLY <1>1, <1>2, <1>3, SumMoved
<1> QED
  BY <1>4

\* A call on the OD token leaves its supply owned in full.
LEMMA OdCallKeepsLedger ==
  ASSUME TypeOK, OdLedger, OdCall
  PROVE  OdLedger'
<1>1. /\ odBalance \in [Addresses -> Nat] /\ IsFiniteSet(DOMAIN odBalance)
      /\ SumOf(odBalance) = odSupply
  BY AddressesFinite DEF TypeOK, TokenTypeOK, OdLedger
<1>2. PICK f \in [Addresses -> Nat] :
        f = odBalance /\ IsFiniteSet(DOMAIN f) /\ SumOf(f) = odSupply
  BY <1>1
<1>3. CASE UNCHANGED odVars
  BY <1>3 DEF OdLedger, odVars
<1>4. ASSUME NEW a \in Addresses, NEW n \in Nat, OD!Mint(Reserve, a, n)
      PROVE  OdLedger'
  <2>1. /\ odBalance' = [f EXCEPT ![a] = @ + n] /\ odSupply' = odSupply + n
        /\ odReserve = Reserve /\ odReserve' = odReserve
    BY <1>2, <1>4 DEF OD!Mint, OD!CanMint, OD!adminVars
  <2>2. PICK g : g = [f EXCEPT ![a] = @ + n]
    OBVIOUS
  <2>3. SumOf(g) = SumOf(f) + n
    BY <1>2, <2>2, SumCredited
  <2> QED
    BY <1>2, <2>1, <2>2, <2>3, Zenon DEF OdLedger
<1>5. ASSUME NEW a \in Addresses, NEW n \in Nat, OD!Burn(Reserve, a, n)
      PROVE  OdLedger'
  <2>1. /\ odBalance' = [f EXCEPT ![a] = @ - n] /\ odSupply' = odSupply - n
        /\ odReserve = Reserve /\ odReserve' = odReserve /\ n <= f[a]
    BY <1>2, <1>5 DEF OD!Burn, OD!adminVars
  <2>2. PICK g : g = [f EXCEPT ![a] = @ - n]
    OBVIOUS
  <2>3. SumOf(g) = SumOf(f) - n
    BY <1>2, <2>1, <2>2, SumDebited
  <2> QED
    BY <1>2, <2>1, <2>2, <2>3, Zenon DEF OdLedger
<1>6. ASSUME NEW a \in Addresses, NEW b \in Addresses, NEW n \in Nat,
             OD!Transfer(a, b, n)
      PROVE  OdLedger'
  <2>1. /\ odBalance' = Moved(f, a, b, n)
        /\ odSupply' = odSupply
        /\ odReserve' = odReserve /\ a # b /\ n <= f[a]
    BY <1>2, <1>6 DEF OD!Transfer, OD!CanTransfer, OD!adminVars, Moved
  <2>2. SumOf(Moved(f, a, b, n)) = SumOf(f)
    BY <2>1, TransferKeepsSum
  <2> QED
    BY <1>2, <2>1, <2>2, Zenon DEF OdLedger
<1>7. ASSUME NEW a \in Addresses,
             \/ OD!SetReserve(a, Reserve)
             \/ \E new \in NewOwners : OD!TransferOwnership(a, new)
      PROVE  OdLedger'
  <2>1. /\ odBalance' = odBalance /\ odSupply' = odSupply
        /\ odReserve' \in {odReserve, Reserve}
    BY <1>7 DEF OD!SetReserve, OD!TransferOwnership
  <2> QED
    BY <2>1 DEF OdLedger
<1> QED
  BY <1>3, <1>4, <1>5, <1>6, <1>7 DEF OdCall

\* The same of the ORC token.
LEMMA OrcCallKeepsLedger ==
  ASSUME TypeOK, OrcLedger, OrcCall
  PROVE  OrcLedger'
<1>1. /\ orcBalance \in [Addresses -> Nat] /\ IsFiniteSet(DOMAIN orcBalance)
      /\ SumOf(orcBalance) = orcSupply
  BY AddressesFinite DEF TypeOK, TokenTypeOK, OrcLedger
<1>2. PICK f \in [Addresses -> Nat] :
        f = orcBalance /\ IsFiniteSet(DOMAIN f) /\ SumOf(f) = orcSupply
  BY <1>1
<1>3. CASE UNCHANGED orcVars
  BY <1>3 DEF OrcLedger, orcVars
<1>4. ASSUME NEW a \in Addresses, NEW n \in Nat, ORC!Mint(Reserve, a, n)
      PROVE  OrcLedger'
  <2>1. /\ orcBalance' = [f EXCEPT ![a] = @ + n] /\ orcSupply' = orcSupply + n
        /\ orcReserve = Reserve /\ orcReserve' = orcReserve
    BY <1>2, <1>4 DEF ORC!Mint, ORC!CanMint, ORC!adminVars
  <2>2. PICK g : g = [f EXCEPT ![a] = @ + n]
    OBVIOUS
  <2>3. SumOf(g) = SumOf(f) + n
    BY <1>2, <2>2, SumCredited
  <2> QED
    BY <1>2, <2>1, <2>2, <2>3, Zenon DEF OrcLedger
<1>5. ASSUME NEW a \in Addresses, NEW n \in Nat, ORC!Burn(Reserve, a, n)
      PROVE  OrcLedger'
  <2>1. /\ orcBalance' = [f EXCEPT ![a] = @ - n] /\ orcSupply' = orcSupply - n
        /\ orcReserve = Reserve /\ orcReserve' = orcReserve /\ n <= f[a]
    BY <1>2, <1>5 DEF ORC!Burn, ORC!adminVars
  <2>2. PICK g : g = [f EXCEPT ![a] = @ - n]
    OBVIOUS
  <2>3. SumOf(g) = SumOf(f) - n
    BY <1>2, <2>1, <2>2, SumDebited
  <2> QED
    BY <1>2, <2>1, <2>2, <2>3, Zenon DEF OrcLedger
<1>6. ASSUME NEW a \in Addresses, NEW b \in Addresses, NEW n \in Nat,
             ORC!Transfer(a, b, n)
      PROVE  OrcLedger'
  <2>1. /\ orcBalance' = Moved(f, a, b, n)
        /\ orcSupply' = orcSupply
        /\ orcReserve' = orcReserve /\ a # b /\ n <= f[a]
    BY <1>2, <1>6 DEF ORC!Transfer, ORC!CanTransfer, ORC!adminVars, Moved
  <2>2. SumOf(Moved(f, a, b, n)) = SumOf(f)
    BY <2>1, TransferKeepsSum
  <2> QED
    BY <1>2, <2>1, <2>2, Zenon DEF OrcLedger
<1>7. ASSUME NEW a \in Addresses,
             \/ ORC!SetReserve(a, Reserve)
             \/ \E new \in NewOwners : ORC!TransferOwnership(a, new)
      PROVE  OrcLedger'
  <2>1. /\ orcBalance' = orcBalance /\ orcSupply' = orcSupply
        /\ orcReserve' \in {orcReserve, Reserve}
    BY <1>7 DEF ORC!SetReserve, ORC!TransferOwnership
  <2> QED
    BY <2>1 DEF OrcLedger
<1> QED
  BY <1>3, <1>4, <1>5, <1>6, <1>7 DEF OrcCall

\* Every step moves WBTC between two accounts at most.
LEMMA StepMovesWbtc ==
  ASSUME ReserveInv, [Next]_vars
  PROVE  \/ UNCHANGED wbtc
         \/ \E a, b \in Addresses, n \in Nat : WbtcTransfer(a, b, n)
<1>1. Reserve \in Addresses /\ Accounts \subseteq Addresses
  BY DEF Addresses
<1>2. CASE EnvironmentStep \/ AnyoneStep \/ UNCHANGED vars
  BY <1>2 DEF EnvironmentStep, AnyoneStep, GetTwap, GetReserveRatio, GetEquity,
       View, RefreshSnapshot, vars, moneyVars
<1>3. ASSUME NEW sender \in Accounts, OwnerStep(sender) \/ TokenOwnerStep(sender)
      PROVE  UNCHANGED wbtc
  BY <1>3 DEF OwnerStep, TokenOwnerStep, TransferOwnership, OwnerAdvancePhase,
       OwnerInitPool, PremintOD, SetReserve, TransferTokenOwnership, moneyVars
<1>4. ASSUME NEW sender \in Accounts, UserStep(sender)
      PROVE  \/ UNCHANGED wbtc
             \/ \E a, b \in Addresses, n \in Nat : WbtcTransfer(a, b, n)
  <2>1. PICK n \in Amounts :
          \/ MintORC(sender, n) \/ BurnORC(sender, n)
          \/ MintOD(sender, n) \/ BurnOD(sender, n)
          \/ \E to \in Recipients : TransferTokens(sender, to, n)
    BY <1>4 DEF UserStep
  <2>2. n \in Nat /\ sender \in Addresses /\ Recipients \subseteq Addresses
    BY <1>1, ReserveAssumption
  <2>3. CASE MintORC(sender, n) \/ MintOD(sender, n)
    <3>1. WbtcTransfer(sender, Reserve, n)
      BY <2>3 DEF MintORC, MintOD
    <3> QED
      BY <1>1, <2>2, <3>1
  <2>4. CASE BurnORC(sender, n)
    <3>1. PICK out : WbtcTransfer(Reserve, sender, out) /\ out = Net(WbtcForOrc(n))
      BY <2>4 DEF BurnORC
    <3>2. out \in Nat
      <4>1. /\ ReserveWbtc \in Nat /\ odSupply \in Nat /\ Twap \in Nat
            /\ orcSupply \in Nat /\ orcSupply # 0
        BY <2>4, ReserveTypes, TwapIsNat DEF ReserveInv, BurnORC
      <4>2. Equity(ReserveWbtc) \in Nat
        BY <4>1, EquityBounds DEF Equity
      <4>3. WbtcForOrc(n) \in Nat
        BY <2>2, <4>1, <4>2, MulNat, DivBounds DEF WbtcForOrc
      <4> QED
        BY <3>1, <4>3, NetBounds
    <3> QED
      BY <1>1, <2>2, <3>1, <3>2
  <2>5. CASE BurnOD(sender, n)
    <3>1. PICK out : WbtcTransfer(Reserve, sender, out) /\ out = WbtcOut(n)
      BY <2>5 DEF BurnOD
    <3>2. out \in Nat
      <4>1. Twap \in Nat \ {0}
        BY <2>5, TwapIsNat DEF BurnOD, BurnODAccepted
      <4> QED
        BY <2>2, <3>1, <4>1, WbtcForOdBounds, NetBounds DEF WbtcOut
    <3> QED
      BY <1>1, <2>2, <3>1, <3>2
  <2>6. ASSUME NEW to \in Recipients, TransferTokens(sender, to, n)
        PROVE  UNCHANGED wbtc \/ WbtcTransfer(sender, to, n)
    BY <2>6 DEF TransferTokens
  <2> QED
    BY <2>1, <2>2, <2>3, <2>4, <2>5, <2>6
<1> QED
  BY <1>2, <1>3, <1>4 DEF Next

\* So does a transfer of WBTC, which nobody mints.
LEMMA TransferKeepsWbtc ==
  ASSUME TypeOK, WbtcLedger, NEW a \in Addresses, NEW b \in Addresses,
         NEW n \in Nat, WbtcTransfer(a, b, n)
  PROVE  WbtcLedger'
<1>1. PICK f \in [Addresses -> Nat] : f = wbtc
  BY DEF TypeOK
<1>2. a # b /\ n <= f[a] /\ wbtc' = Moved(f, a, b, n)
  BY <1>1 DEF WbtcTransfer, CanPay, Moved
<1>3. SumOf(Moved(f, a, b, n)) = SumOf(f)
  BY <1>2, TransferKeepsSum
<1> QED
  BY <1>1, <1>2, <1>3, Zenon DEF WbtcLedger

\* Nothing is minted, and nothing held, when the tokens are deployed.
LEMMA InitLedgers == Init => OdLedger /\ OrcLedger /\ WbtcLedger
<1> SUFFICES ASSUME Init PROVE OdLedger /\ OrcLedger /\ WbtcLedger
  OBVIOUS
<1>1. /\ odSupply = 0 /\ odBalance = [a \in Addresses |-> 0]
      /\ orcSupply = 0 /\ orcBalance = [a \in Addresses |-> 0]
  BY DEF Init, OD!Init, ORC!Init
<1>2. OdLedger /\ OrcLedger
  BY <1>1, AddressesFinite, SumOfZeros DEF OdLedger, OrcLedger
<1>3. /\ DOMAIN WbtcHeld = Accounts /\ IsFiniteSet(Accounts)
      /\ \A a \in Accounts : WbtcHeld[a] \in Nat
      /\ Reserve \notin Accounts
  BY ReserveAssumption
<1>4. /\ DOMAIN wbtc = Accounts \cup {Reserve} /\ wbtc[Reserve] = 0
      /\ \A a \in Accounts : wbtc[a] = WbtcHeld[a]
  BY <1>3 DEF Init, Addresses
<1>5. WbtcLedger
  BY <1>3, <1>4, SumWithEmpty DEF WbtcLedger
<1> QED
  BY <1>2, <1>5

\* The three ledgers, with what the tokens' setReserve has to do with them.
LEMMA LedgersKept == Spec => [](OdLedger /\ OrcLedger /\ WbtcLedger)
<1>1. ASSUME ReserveInv, OdLedger /\ OrcLedger /\ WbtcLedger, [Next]_vars
      PROVE  (OdLedger /\ OrcLedger /\ WbtcLedger)'
  <2>1. TypeOK
    BY <1>1 DEF ReserveInv
  <2>2. OdLedger' /\ OrcLedger'
    BY <1>1, <2>1, StepCalls, OdCallKeepsLedger, OrcCallKeepsLedger
  <2>3. WbtcLedger'
    <3>1. CASE UNCHANGED wbtc
      BY <1>1, <3>1 DEF WbtcLedger
    <3> QED
      BY <1>1, <2>1, <3>1, StepMovesWbtc, TransferKeepsWbtc
  <2> QED
    BY <2>2, <2>3
<1> QED
  BY <1>1, InitLedgers, ReserveInvariant, PTL DEF Spec

(* The supplies that the pricing reads are the sum of what the holders     *)
(* own, through every mint, burn and transfer of any account, and the WBTC *)
(* of all accounts together is what it was before the deployment.          *)
THEOREM SuppliesAreOwned == Spec => []BalancesAddUp
<1>1. OdLedger /\ OrcLedger /\ WbtcLedger => BalancesAddUp
  BY DEF BalancesAddUp, OdLedger, OrcLedger, WbtcLedger
<1> QED
  BY <1>1, LedgersKept, PTL

-----------------------------------------------------------------------------
(* Redemption. *)

\* With the collateral worth the supply, what burnOD pays is in the reserve.
LEMMA PayoutIsThere ==
  ASSUME NEW w \in Nat, NEW s \in Nat, NEW p \in Nat \ {0}, NEW od \in Nat,
         od <= s, w * p >= RATIO_SCALE * s
  PROVE  Net(WbtcForOd(od, p)) <= w
<1>1. RATIO_SCALE \in Nat \ {0}
  BY ReserveMathAssumption
<1> DEFINE out == Net(WbtcForOd(od, p))
<1>2. out \in Nat /\ out * p <= od * RATIO_SCALE
  <2>1. /\ WbtcForOd(od, p) \in Nat
        /\ WbtcForOd(od, p) * p <= od * RATIO_SCALE
    BY <1>1, WbtcForOdBounds
  <2>2. out \in Nat /\ out <= WbtcForOd(od, p)
    BY <2>1, NetBounds
  <2> HIDE DEF out
  <2>3. out * p <= WbtcForOd(od, p) * p
    BY <2>1, <2>2, MulMono
  <2>4. /\ out * p \in Nat /\ WbtcForOd(od, p) * p \in Nat
        /\ od * RATIO_SCALE \in Nat
    BY <1>1, <2>1, <2>2, MulNat
  <2> QED
    BY <2>1, <2>2, <2>3, <2>4, SMT
<1> HIDE DEF out
<1>3. od * RATIO_SCALE <= s * RATIO_SCALE
  BY <1>1, MulMono
<1>4. s * RATIO_SCALE = RATIO_SCALE * s
  BY <1>1, SMT
<1>5. out * p <= w * p
  BY <1>1, <1>2, <1>3, <1>4, MulNat
<1>6. out <= w
  BY <1>2, <1>5, MulCancel
<1> QED
  BY <1>6 DEF out

\* The conditions of burnOD hold of every amount that a holder has.
LEMMA CoveredBurnAccepted ==
  ASSUME ReserveInv, OdLedger, NEW a \in Accounts, NEW od \in 1..odBalance[a],
         phase = LIVE, Twap > 0, ReserveWbtc * Twap >= RATIO_SCALE * odSupply,
         WbtcOut(od) > 0, NoOverflowBurning(od)
  PROVE  BurnODAccepted(a, od)
<1>1. /\ ReserveWbtc \in Nat /\ odSupply \in Nat /\ Twap \in Nat \ {0}
  BY ReserveTypes, TwapIsNat DEF ReserveInv
<1>2. a \in Addresses /\ odBalance \in [Addresses -> Nat]
  BY DEF Addresses, ReserveInv, TypeOK, TokenTypeOK
<1>3. od \in Nat /\ od > 0 /\ od <= odBalance[a]
  BY <1>2
<1>4. odBalance[a] <= odSupply
  BY <1>2, AddressesFinite, SumBound DEF OdLedger
<1>5. od <= odSupply /\ odSupply # 0
  BY <1>1, <1>2, <1>3, <1>4
<1>6. odReserve = Reserve
  BY <1>5 DEF OdLedger
<1>7. OracleReadable
  BY InvReadable DEF ReserveInv, OracleNeverReverts
<1>8. WbtcOut(od) <= ReserveWbtc
  BY <1>1, <1>3, <1>5, PayoutIsThere DEF WbtcOut
<1>9. Twap # 0
  BY <1>1
<1> QED
  BY <1>3, <1>5, <1>6, <1>7, <1>8, <1>9 DEF BurnODAccepted, NoOverflowBurning

(* "burnOD is never blocked", in the form that holds: whenever the reserve *)
(* is LIVE, has a TWAP and holds collateral worth its OD, burnOD accepts   *)
(* any amount from any holder that has it, if it is not dust.              *)
THEOREM RedemptionIsCovered == Spec => []CoveredRedemption
<1>1. ReserveInv /\ OdLedger => CoveredRedemption
  BY CoveredBurnAccepted DEF CoveredRedemption
<1> QED
  BY <1>1, ReserveInvariant, LedgersKept, PTL

-----------------------------------------------------------------------------
(* The 400% floor. *)

\* Redeeming OD at par or worse raises a ratio that is above 100%.
LEMMA RedemptionKeepsFloor ==
  ASSUME NEW w \in Nat, NEW od \in Nat, NEW p \in Nat, NEW n \in Nat,
         NEW out \in Nat, n <= od, out <= w,
         w * p >= MIN_RATIO * od, out * p <= n * RATIO_SCALE
  PROVE  (w - out) * p >= MIN_RATIO * (od - n)
<1>1. /\ MIN_RATIO \in Nat /\ RATIO_SCALE \in Nat /\ RATIO_SCALE <= MIN_RATIO
      /\ w * p \in Nat /\ out * p \in Nat /\ MIN_RATIO * od \in Nat
      /\ n * RATIO_SCALE \in Nat /\ n * MIN_RATIO \in Nat
  BY ReserveMathAssumption, MulNat
<1>2. n * RATIO_SCALE <= n * MIN_RATIO
  BY <1>1, MulMono
<1>3. /\ (w - out) * p = w * p - out * p
      /\ MIN_RATIO * (od - n) = MIN_RATIO * od - n * MIN_RATIO
  BY <1>1, SMT
<1> QED
  BY <1>1, <1>2, <1>3, SMT

\* A step from a covered LIVE reserve leaves it covered at that TWAP.
LEMMA StepKeepsFloor ==
  ASSUME ReserveInv, [Next]_vars, phase = LIVE, Twap > 0,
         ReserveWbtc * Twap >= MIN_RATIO * odSupply
  PROVE  ReserveWbtc' * Twap >= MIN_RATIO * odSupply'
<1>1. /\ ReserveWbtc \in Nat /\ odSupply \in Nat
      /\ Twap \in Nat /\ MIN_RATIO \in Nat
  BY ReserveTypes, TwapIsNat, ReserveMathAssumption DEF ReserveInv
<1>2. CASE MovesNoMoney \/ LeavesSeeding \/ \E out \in Nat : Premints(out)
  BY <1>2 DEF MovesNoMoney, LeavesSeeding, Premints
<1>3. ASSUME NEW n \in Nat, NEW out \in Nat, Donates(n) \/ BuysOrc(n, out)
      PROVE  ReserveWbtc' * Twap >= MIN_RATIO * odSupply'
  <2>1. ReserveWbtc' = ReserveWbtc + n /\ odSupply' = odSupply
    BY <1>3 DEF Donates, BuysOrc
  <2>2. ReserveWbtc * Twap <= (ReserveWbtc + n) * Twap
    BY <1>1, MulMono, ReserveWbtc + n \in Nat, ReserveWbtc <= ReserveWbtc + n
  <2> HIDE DEF Twap, ReserveWbtc
  <2> QED
    BY <1>1, <2>1, <2>2, MulNat, ReserveWbtc + n \in Nat, SMT
<1>4. ASSUME NEW n \in Nat, NEW out \in Nat, SellsOrc(n, out) \/ BuysOd(n, out)
      PROVE  ReserveWbtc' * Twap >= MIN_RATIO * odSupply'
  BY <1>4 DEF SellsOrc, BuysOd
<1>5. ASSUME NEW n \in Nat, NEW out \in Nat, SellsOd(n, out)
      PROVE  ReserveWbtc' * Twap >= MIN_RATIO * odSupply'
  BY <1>1, <1>5, RedemptionKeepsFloor DEF SellsOd
<1> QED
  <2>1. \/ MovesNoMoney \/ LeavesSeeding \/ \E out \in Nat : Premints(out)
        \/ \E n \in Nat : Donates(n)
        \/ \E n, out \in Nat : \/ BuysOrc(n, out) \/ SellsOrc(n, out)
                              \/ BuysOd(n, out) \/ SellsOd(n, out)
    BY StepEffect
  <2>2. 0 \in Nat
    OBVIOUS
  <2> QED
    BY <2>1, <2>2, <1>2, <1>3, <1>4, <1>5, Zenon

(* No call takes a reserve that is above the 400% floor below it, at the   *)
(* TWAP it is executed at: fees and truncation are always on its side.     *)
THEOREM FloorIsKept == Spec => FloorKept
<1>1. ReserveInv /\ [Next]_vars
        => [ (phase = LIVE /\ Twap > 0 /\ ReserveWbtc * Twap >= MIN_RATIO * odSupply)
               => ReserveWbtc' * Twap >= MIN_RATIO * odSupply' ]_vars
  BY StepKeepsFloor, Zenon
<1> QED
  BY <1>1, ReserveInvariant, PTL DEF Spec, FloorKept

-----------------------------------------------------------------------------
(* The equity behind one ORC. *)

\* A deposit buys at most its share of the equity it is added to.
LEMMA BuyingOrcDilutesNobody ==
  ASSUME ReserveInv, NEW n \in Nat, NEW out \in Nat, BuysOrc(n, out), orcSupply # 0
  PROVE  EquityInForce(ReserveWbtc, odSupply) * orcSupply'
           <= EquityInForce(ReserveWbtc', odSupply) * orcSupply
<1> DEFINE e == EquityInForce(ReserveWbtc, odSupply)
           e2 == EquityInForce(ReserveWbtc + n, odSupply)
<1>1. /\ ReserveWbtc \in Nat /\ odSupply \in Nat /\ orcSupply \in Nat
      /\ Twap \in Nat /\ ReserveWbtc + n \in Nat
  BY ReserveTypes, TwapIsNat DEF ReserveInv
<1>2. e \in Nat /\ e2 \in Nat
  BY <1>1, EquityBounds DEF EquityInForce
<1>3. e # 0 => e2 = e + n
  BY <1>1, EquityOfDeposit DEF EquityInForce
<1>4. e2 = DepositEquity(n)
  BY DEF BuysOrc, EquityInForce, DepositEquity, Equity
<1>5. /\ ReserveWbtc' = ReserveWbtc + n /\ orcSupply' = orcSupply + out
      /\ e2 * out <= n * orcSupply
  BY <1>4 DEF BuysOrc
<1> HIDE DEF e, e2
<1>6. e * (orcSupply + out) <= e2 * orcSupply
  BY <1>1, <1>2, <1>3, <1>5, ShareBought
<1> QED
  BY <1>5, <1>6 DEF e, e2

\* The truncated division of burnORC favours the ORC that remain.
LEMMA SellingOrcDilutesNobody ==
  ASSUME ReserveInv, NEW n \in Nat, NEW out \in Nat, SellsOrc(n, out)
  PROVE  EquityInForce(ReserveWbtc, odSupply) * orcSupply'
           <= EquityInForce(ReserveWbtc', odSupply) * orcSupply
<1> DEFINE e == EquityInWbtc(ReserveWbtc, odSupply, Twap)
<1>1. /\ ReserveWbtc \in Nat /\ odSupply \in Nat /\ orcSupply \in Nat \ {0}
      /\ Twap \in Nat
  BY ReserveTypes, TwapIsNat DEF ReserveInv, SellsOrc
<1>2. e \in Nat
  BY <1>1, EquityBounds
<1>3. /\ orcSupply' = orcSupply - n /\ n <= orcSupply
      /\ ReserveWbtc' = ReserveWbtc - out
      /\ out * orcSupply <= n * e
      /\ phase = LIVE
  BY DEF SellsOrc, Equity
<1>4. out <= e /\ e * (orcSupply - n) <= (e - out) * orcSupply
  BY <1>1, <1>2, <1>3, ShareSold
<1>5. EquityInWbtc(ReserveWbtc - out, odSupply, Twap) = e - out
  BY <1>1, <1>4, EquityOfWithdrawal
<1> QED
  BY <1>3, <1>4, <1>5 DEF EquityInForce

\* No step outside PREMINT lowers the equity behind one ORC.
LEMMA StepKeepsEquity ==
  ASSUME ReserveInv, [Next]_vars, phase # PREMINT, orcSupply > 0
  PROVE  EquityInForce(ReserveWbtc, odSupply) * orcSupply'
           <= EquityInForce(ReserveWbtc', odSupply') * orcSupply
<1> DEFINE e == EquityInForce(ReserveWbtc, odSupply)
           e2 == EquityInForce(ReserveWbtc', odSupply')
           Goal == e * orcSupply' <= e2 * orcSupply
<1>1. /\ ReserveWbtc \in Nat /\ odSupply \in Nat /\ orcSupply \in Nat
      /\ Twap \in Nat
  BY ReserveTypes, TwapIsNat DEF ReserveInv
<1>2. e \in Nat
  BY <1>1, EquityBounds DEF EquityInForce
<1>3. ASSUME e2 \in Nat, e <= e2, orcSupply' = orcSupply
      PROVE  Goal
  <2> HIDE DEF e, e2
  <2> QED
    BY <1>1, <1>2, <1>3, MulMono
<1>4. CASE MovesNoMoney \/ LeavesSeeding \/ \E out \in Nat : Premints(out)
  <2>1. e2 = e /\ orcSupply' = orcSupply
    BY <1>4 DEF MovesNoMoney, LeavesSeeding, Premints
  <2> QED
    BY <1>2, <1>3, <2>1
<1>5. ASSUME NEW n \in Nat, Donates(n)
      PROVE  Goal
  <2>1. /\ ReserveWbtc' = ReserveWbtc + n /\ odSupply' = odSupply
        /\ orcSupply' = orcSupply /\ ReserveWbtc + n \in Nat
    BY <1>1, <1>5 DEF Donates
  <2>2. e2 \in Nat /\ e <= e2
    <3>1. /\ EquityInWbtc(ReserveWbtc + n, odSupply, Twap) \in Nat
          /\ EquityInWbtc(ReserveWbtc, odSupply, Twap)
               <= EquityInWbtc(ReserveWbtc + n, odSupply, Twap)
      BY <1>1, <2>1, EquityBounds, EquityOfDeposit
    <3> QED
      BY <1>1, <2>1, <3>1 DEF EquityInForce
  <2> QED
    BY <1>3, <2>1, <2>2
<1>6. ASSUME NEW n \in Nat, NEW out \in Nat, BuysOrc(n, out)
      PROVE  Goal
  BY <1>1, <1>6, BuyingOrcDilutesNobody DEF BuysOrc
<1>7. ASSUME NEW n \in Nat, NEW out \in Nat, SellsOrc(n, out)
      PROVE  Goal
  BY <1>7, SellingOrcDilutesNobody DEF SellsOrc
<1>8. ASSUME NEW n \in Nat, NEW out \in Nat, BuysOd(n, out)
      PROVE  Goal
  <2>1. /\ phase = LIVE /\ Twap \in Nat \ {0}
        /\ ReserveWbtc' = ReserveWbtc + n /\ odSupply' = odSupply + out
        /\ orcSupply' = orcSupply /\ out * RATIO_SCALE <= n * Twap
    BY <1>8 DEF BuysOd
  <2>2. e <= e2
    BY <1>1, <2>1, EquityOfOdMint DEF EquityInForce
  <2>3. e2 \in Nat
    BY <1>1, <2>1, EquityBounds, ReserveWbtc + n \in Nat, odSupply + out \in Nat
       DEF EquityInForce
  <2> QED
    BY <1>3, <2>1, <2>2, <2>3
<1>9. ASSUME NEW n \in Nat, NEW out \in Nat, SellsOd(n, out)
      PROVE  Goal
  <2>1. /\ phase = LIVE /\ Twap \in Nat \ {0}
        /\ n <= odSupply /\ out <= ReserveWbtc
        /\ ReserveWbtc' = ReserveWbtc - out /\ odSupply' = odSupply - n
        /\ orcSupply' = orcSupply /\ out * Twap <= n * RATIO_SCALE
    BY <1>9 DEF SellsOd
  <2>2. e <= e2
    BY <1>1, <2>1, EquityOfOdBurn DEF EquityInForce
  <2>3. e2 \in Nat
    BY <1>1, <2>1, EquityBounds, ReserveWbtc - out \in Nat, odSupply - n \in Nat
       DEF EquityInForce
  <2> QED
    BY <1>3, <2>1, <2>2, <2>3
<1> QED
  BY <1>4, <1>5, <1>6, <1>7, <1>8, <1>9, StepEffect

(* No call of anybody lowers the equity behind one ORC at the TWAP it is   *)
(* executed at; premintOD, which is meant to, is the exception.            *)
THEOREM EquityPerOrcIsKept == Spec => EquityPerOrcNeverFalls
<1>1. ReserveInv /\ [Next]_vars
        => [ (phase # PREMINT /\ orcSupply > 0)
               => EquityInForce(ReserveWbtc, odSupply) * orcSupply'
                    <= EquityInForce(ReserveWbtc', odSupply') * orcSupply ]_vars
  BY StepKeepsEquity, Zenon
<1> QED
  BY <1>1, ReserveInvariant, PTL DEF Spec, EquityPerOrcNeverFalls

-----------------------------------------------------------------------------
(* The contract implements the abstract reserve. *)

\* The abstract reserve and the contract measure equity alike.
LEMMA SameEquity ==
  ASSUME NEW w, NEW od, NEW price
  PROVE  SR!EquityAt(w, od, price) = EquityInWbtc(w, od, price)
  BY DEF SR!EquityAt, SR!EquityInWbtc, SR!LiabilityInWbtc, EquityInWbtc,
     LiabilityInWbtc

\* One step of trading at `price` is a step of the abstract reserve.
LEMMA OperateIsNext ==
  ASSUME phase = LIVE, NEW price \in Nat \ {0}, price <= U256_MAX,
         UNCHANGED <<phase, seedPrice>>,
         \/ SR!BuyOd(price) \/ SR!RedeemOd(price)
         \/ SR!BuyOrc(price) \/ SR!SellOrc(price)
  PROVE  SR!Next
<1>1. price \in SR!Price
  BY ReserveMathAssumption DEF SR!Price, SR!U256
<1>2. SR!Operate(price)
  BY DEF SR!Operate
<1> QED
  BY <1>1, <1>2 DEF SR!Next

\* Buying ORC is Seed or BuyOrc of the abstract reserve.
LEMMA BuysOrcRefines ==
  ASSUME ReserveInv, NEW n \in Nat, NEW out \in Nat, BuysOrc(n, out)
  PROVE  SR!Next
<1>1. /\ ReserveWbtc' > ReserveWbtc /\ orcSupply' > orcSupply
      /\ UNCHANGED <<phase, seedPrice, odSupply>>
  BY ReserveTypes DEF BuysOrc, ReserveInv
<1>2. orcSupply > 0 =>
        EquityInForce(ReserveWbtc, odSupply) * orcSupply'
          <= EquityInForce(ReserveWbtc', odSupply) * orcSupply
  BY BuyingOrcDilutesNobody
<1>3. CASE phase = SEEDING
  <2>1. SR!NotDiluted(ReserveWbtc, ReserveWbtc')
    BY <1>2, <1>3 DEF SR!NotDiluted, EquityInForce
  <2> QED
    BY <1>1, <1>3, <2>1 DEF SR!Next, SR!Seed
<1>4. CASE phase = LIVE
  <2>1. SR!NotDiluted(SR!EquityAt(ReserveWbtc, odSupply, Twap),
                      SR!EquityAt(ReserveWbtc', odSupply, Twap))
    BY <1>2, <1>4, SameEquity DEF SR!NotDiluted, EquityInForce
  <2>2. SR!BuyOrc(Twap)
    BY <1>1, <2>1 DEF SR!BuyOrc
  <2> QED
    BY <1>1, <1>4, <2>2, OperateIsNext DEF BuysOrc
<1> QED
  BY <1>3, <1>4 DEF BuysOrc

\* Without OD no price matters, so any stands for a TWAP beyond u256.
LEMMA SellsOrcRefines ==
  ASSUME ReserveInv, NEW n \in Nat, NEW out \in Nat, SellsOrc(n, out)
  PROVE  SR!Next
<1> DEFINE price == IF odSupply = 0 THEN 1 ELSE Twap
<1>1. /\ ReserveWbtc \in Nat /\ odSupply \in Nat /\ orcSupply \in Nat
      /\ RATIO_SCALE \in Nat \ {0} /\ MIN_RATIO \in Nat
      /\ 1 <= U256_MAX
  BY ReserveTypes, ReserveMathAssumption DEF ReserveInv
<1>2. /\ phase = LIVE /\ Twap \in Nat \ {0}
      /\ n > 0 /\ out > 0 /\ n <= orcSupply /\ out <= ReserveWbtc
      /\ ReserveWbtc' = ReserveWbtc - out /\ orcSupply' = orcSupply - n
      /\ UNCHANGED <<phase, seedPrice, odSupply>>
      /\ (ReserveWbtc - out) * Twap >= MIN_RATIO * odSupply
      /\ odSupply # 0 => Twap <= U256_MAX
  BY DEF SellsOrc
<1>3. price \in Nat \ {0} /\ price <= U256_MAX
  BY <1>1, <1>2
<1>4. \A w \in Nat : EquityInWbtc(w, odSupply, price) = EquityInWbtc(w, odSupply, Twap)
  <2> SUFFICES ASSUME NEW w \in Nat, odSupply = 0
               PROVE  EquityInWbtc(w, 0, 1) = EquityInWbtc(w, 0, Twap)
    OBVIOUS
  <2>1. 0 * RATIO_SCALE = 0 /\ 0 \div 1 = 0 /\ 0 \div Twap = 0
    BY <1>1, <1>2, SMT
  <2>2. LiabilityInWbtc(0, 1) = 0 /\ LiabilityInWbtc(0, Twap) = 0
    BY <2>1 DEF LiabilityInWbtc
  <2> QED
    BY <1>2, <2>2 DEF EquityInWbtc
<1>5. ReserveWbtc' * price >= MIN_RATIO * odSupply
  <2>1. CASE odSupply = 0
    <3>1. MIN_RATIO * odSupply = 0 /\ ReserveWbtc' * price \in Nat
      BY <1>1, <1>2, <1>3, <2>1, MulNat, ReserveWbtc - out \in Nat, SMT
    <3> QED
      BY <3>1
  <2>2. CASE odSupply # 0
    BY <1>2, <2>2
  <2> QED
    BY <2>1, <2>2
<1> HIDE DEF price
<1>6. SR!NotDiluted(SR!EquityAt(ReserveWbtc, odSupply, price),
                    SR!EquityAt(ReserveWbtc', odSupply, price))
  <2>1. EquityInWbtc(ReserveWbtc, odSupply, Twap) * orcSupply'
          <= EquityInWbtc(ReserveWbtc', odSupply, Twap) * orcSupply
    BY <1>2, SellingOrcDilutesNobody DEF EquityInForce
  <2>2. ReserveWbtc' \in Nat
    BY <1>1, <1>2
  <2> QED
    BY <1>1, <1>4, <2>1, <2>2, SameEquity DEF SR!NotDiluted
<1>7. SR!SellOrc(price)
  BY <1>1, <1>2, <1>5, <1>6 DEF SR!SellOrc, SR!Covers
<1> QED
  BY <1>2, <1>3, <1>7, OperateIsNext

\* Buying OD is BuyOd of the abstract reserve.
LEMMA BuysOdRefines ==
  ASSUME ReserveInv, NEW n \in Nat, NEW out \in Nat, BuysOd(n, out)
  PROVE  SR!Next
<1>1. ReserveWbtc \in Nat /\ odSupply \in Nat
  BY ReserveTypes DEF ReserveInv
<1>2. /\ ReserveWbtc' > ReserveWbtc /\ odSupply' > odSupply
      /\ odSupply' - odSupply = out /\ ReserveWbtc' - ReserveWbtc = n
  BY <1>1 DEF BuysOd
<1>3. SR!BuyOd(Twap)
  BY <1>2 DEF BuysOd, SR!BuyOd, SR!Covers
<1> QED
  BY <1>3, OperateIsNext DEF BuysOd

\* Redeeming OD is RedeemOd of the abstract reserve.
LEMMA SellsOdRefines ==
  ASSUME ReserveInv, NEW n \in Nat, NEW out \in Nat, SellsOd(n, out)
  PROVE  SR!Next
<1>1. ReserveWbtc \in Nat /\ odSupply \in Nat
  BY ReserveTypes DEF ReserveInv
<1>2. /\ ReserveWbtc' < ReserveWbtc /\ odSupply' < odSupply
      /\ odSupply - odSupply' = n /\ ReserveWbtc - ReserveWbtc' = out
  BY <1>1 DEF SellsOd
<1>3. SR!RedeemOd(Twap)
  BY <1>2 DEF SellsOd, SR!RedeemOd
<1> QED
  BY <1>3, OperateIsNext DEF SellsOd

\* Every step is a step of the abstract reserve, or none.
LEMMA StepRefines ==
  ASSUME ReserveInv, [Next]_vars
  PROVE  [SR!Next]_<<phase, seedPrice, ReserveWbtc, odSupply, orcSupply>>
<1>1. CASE MovesNoMoney
  BY <1>1 DEF MovesNoMoney, SR!Next, SR!GoLive
<1>2. CASE LeavesSeeding
  BY <1>2 DEF LeavesSeeding, SR!Next, SR!SetSeedPrice
<1>3. ASSUME NEW out \in Nat, Premints(out)
      PROVE  SR!Next
  <2>1. odSupply = 0
    BY <1>3 DEF Premints, ReserveInv, PremintInv
  <2> QED
    BY <1>3, <2>1 DEF Premints, SR!Next, SR!Premint, SR!Covers
<1>4. ASSUME NEW n \in Nat, Donates(n)
      PROVE  SR!Next
  <2>1. ReserveWbtc' > ReserveWbtc
    BY <1>4, ReserveTypes DEF Donates, ReserveInv
  <2> QED
    BY <1>4, <2>1 DEF Donates, SR!Next, SR!Donate
<1> QED
  BY <1>1, <1>2, <1>3, <1>4, BuysOrcRefines, SellsOrcRefines, BuysOdRefines,
     SellsOdRefines, StepEffect

(* The contract with its tokens and its oracle implements StableReserve:   *)
(* OD bought and redeemed at no better than some u256 price, nobody        *)
(* diluted, the floor kept by whoever takes from it, one covered premint.  *)
THEOREM ReserveRefinesStableReserve == Spec => RefinesStableReserve
<1>1. Init => SR!Init
  BY DEF Init, OracleInit, OD!Init, ORC!Init, SR!Init, ReserveWbtc, Addresses
<1>2. ReserveInv /\ [Next]_vars => [SR!Next]_(SR!svars)
  BY StepRefines DEF SR!svars
<1> QED
  BY <1>1, <1>2, ReserveInvariant, PTL DEF Spec, RefinesStableReserve, SR!Spec
=============================================================================
