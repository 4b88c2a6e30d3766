----------------------- MODULE BootstrapScript_proofs -----------------------
(***************************************************************************)
(* Proofs about BootstrapScript, for every amount, price and bound: the    *)
(* script never leaves the reserve in PREMINT without collateral, however  *)
(* late its transactions are included and whichever of its runs fail.      *)
(***************************************************************************)
EXTENDS BootstrapScript, FiniteSetTheorems, WellFoundedInduction, TLAPS

USE DEF SEEDING, PREMINT, LIVE

-----------------------------------------------------------------------------
(* The transactions of the script. *)

SeedTx == Tx("mintORC", "Reserve", SeedWbtc)
AdvanceTx == Tx("advancePhase", "Reserve", SeedPrice)

OtherTxs ==
  {Tx("setReserve", "OD", Reserve), Tx("setReserve", "ORC", Reserve),
   Tx("increaseAllowance", "WBTC", SeedWbtc), Tx("premintOD", "Reserve", PremintOd),
   Tx("approveRouter", "WBTC", LiquidityWbtc), Tx("approveRouter", "OD", LiquidityOd),
   Tx("createPool", "Factory", ThePool), Tx("addLiquidity", "Router", ThePool),
   Tx("initPool", "Reserve", ThePool)}

ScriptTxs == {SeedTx, AdvanceTx} \cup OtherTxs

\* Only mintORC deposits, and only advancePhase advances.
LEMMA MethodsDiffer ==
  ASSUME NEW tx \in OtherTxs
  PROVE  tx.method # "mintORC" /\ tx.method # "advancePhase" /\ tx # SeedTx
  BY DEF OtherTxs, SeedTx, Tx

\* What the steps of the script send.
LEMMA CurrentIs ==
  ASSUME step \in 0..9, at \in Nat \ {0}, Waiting
  PROVE  /\ Current \in ScriptTxs
         /\ at <= 2
         /\ Current = AdvanceTx => step = 2
         /\ step = 1 /\ at = 2 => Current = SeedTx
<1>1. step \in 0..8 /\ at <= Len(Calls(step))
  BY DEF Waiting, Exited
<1>2. /\ Calls(0) = <<Tx("setReserve", "OD", Reserve), Tx("setReserve", "ORC", Reserve)>>
      /\ Calls(1) = <<Tx("increaseAllowance", "WBTC", SeedWbtc), SeedTx>>
      /\ Calls(2) = <<AdvanceTx>>
      /\ Calls(3) = <<Tx("premintOD", "Reserve", PremintOd)>>
      /\ Calls(4) = RouterApprovals
      /\ Calls(5) = <<Tx("createPool", "Factory", ThePool)>>
      /\ Calls(6) = <<Tx("addLiquidity", "Router", ThePool)>>
      /\ Calls(7) = <<Tx("initPool", "Reserve", ThePool)>>
      /\ Calls(8) = <<>>
  BY DEF Calls, SeedTx, AdvanceTx
<1> USE DEF Current, ScriptTxs, OtherTxs, RouterApprovals
<1>3. AdvanceTx \notin OtherTxs /\ SeedTx # AdvanceTx
  BY MethodsDiffer DEF AdvanceTx, SeedTx, Tx
<1>4. CASE step = 0
  <2>1. at \in {1, 2}
    <3>1. Len(Calls(step)) = 2
      BY <1>2, <1>4
    <3> QED
      BY <1>1, <3>1
  <2>2. Current \in OtherTxs
    BY <1>2, <1>4, <2>1
  <2> QED
    BY <1>3, <1>4, <2>1, <2>2
<1>5. CASE step = 1
  <2>1. at \in {1, 2}
    <3>1. Len(Calls(step)) = 2
      BY <1>2, <1>5
    <3> QED
      BY <1>1, <3>1
  <2>2. CASE at = 1
    BY <1>2, <1>3, <1>5, <2>2
  <2>3. CASE at = 2
    BY <1>2, <1>3, <1>5, <2>3
  <2> QED
    BY <2>1, <2>2, <2>3
<1>6. CASE step = 2
  BY <1>1, <1>2, <1>6
<1>7. CASE step = 4
  <2>1. at \in {1, 2}
    <3>1. Len(Calls(step)) = 2
      BY <1>2, <1>7
    <3> QED
      BY <1>1, <3>1
  <2>2. Current \in OtherTxs
    BY <1>2, <1>7, <2>1
  <2> QED
    BY <1>3, <1>7, <2>1, <2>2
<1>8. CASE step \in {3, 5, 6, 7}
  <2>1. Current \in OtherTxs /\ at <= 2
    BY <1>1, <1>2, <1>8
  <2> QED
    BY <1>3, <1>8, <2>1
<1>9. CASE step = 8
  BY <1>1, <1>2, <1>9
<1> QED
  BY <1>1, <1>4, <1>5, <1>6, <1>7, <1>8, <1>9

\* What executes would simulate well, so no transaction can do both: be
\* executed and revert.
LEMMA ExecutedSimulates ==
  ASSUME NEW from, NEW tx, Call(from, tx)
  PROVE  Simulates(from, tx)
<1>1. CASE tx.method = "setReserve" /\ LinkToken(from, tx.on)
  BY <1>1 DEF Simulates, LinkToken, OD!SetReserve, ORC!SetReserve
<1>2. CASE tx.method = "transferOwnership" /\ HandOver(from, tx.on, tx.arg)
  <2>1. CASE tx.on = "Reserve"
    BY <1>2, <2>1 DEF Simulates, HandOver, TransferOwnership, Owner
  <2>2. CASE tx.on = "OD"
    BY <1>2, <2>2 DEF Simulates, HandOver, HandOverToken, OD!TransferOwnership, Owner
  <2>3. CASE tx.on \notin {"Reserve", "OD"}
    BY <1>2, <2>3 DEF Simulates, HandOver, HandOverToken, ORC!TransferOwnership, Owner
  <2> QED
    BY <2>1, <2>2, <2>3
<1>3. CASE tx.method = "mintORC" /\ Seed(from, tx.arg)
  BY <1>3 DEF Simulates, Seed
<1>4. CASE tx.method = "advancePhase" /\ OwnerAdvancePhase(from, tx.arg)
  BY <1>4 DEF Simulates, OwnerAdvancePhase, AdvancePhase
<1>5. CASE tx.method = "premintOD" /\ PremintOD(from, tx.arg)
  BY <1>5 DEF Simulates, PremintOD
<1>6. CASE \/ tx.method = "createPool" /\ CreatePool
           \/ tx.method = "addLiquidity" /\ AddLiquidity(from)
  BY <1>6 DEF Simulates, CreatePool, AddLiquidity
<1>7. CASE \/ tx.method = "initPool" /\ RegisterPool(from, tx.arg)
           \/ tx.method = "updateTwapSnapshot" /\ RefreshSnapshot
  BY <1>7 DEF Simulates, RegisterPool, OwnerInitPool, RefreshSnapshot, UpdateTwapSnapshot,
              TakeSnapshot
<1>8. CASE \/ tx.method = "increaseAllowance" /\ tx.on = "WBTC"
           \/ tx.method = "approveRouter"
  BY <1>8 DEF Simulates
<1> QED
  BY <1>1, <1>2, <1>3, <1>4, <1>5, <1>6, <1>7, <1>8 DEF Call

-----------------------------------------------------------------------------
(* The invariant. *)

Queue == mempool[Deployer]

\* A deposit that the contract accepts is among the first n of q.
DepositWithin(q, n) ==
  CanSeed(Deployer, SeedWbtc) /\ \E i \in 1..n : q[i] = SeedTx

Funded(q, n) == ReserveWbtc > 0 \/ DepositWithin(q, n)

ScriptTypes ==
  /\ wbtc \in [Addresses -> Nat]
  /\ reserveAllowed \in [Accounts -> Nat]
  /\ \A a \in Accounts : reserveAllowed[a] <= U256_MAX
  /\ mempool \in [Accounts -> Seq(ScriptTxs)]
  /\ step \in 0..9 /\ at \in Nat \ {0}
  /\ step = Exited => at = 1

\* The script has sent its deposit.
PastSeeding == (step = 1 /\ at > 2) \/ step \in 2..8

\* What is true of the money alone.
MoneyInv ==
  /\ orcSupply > 0 => ReserveWbtc > 0
  /\ phase # SEEDING => ReserveWbtc > 0
  /\ phase = SEEDING => \A a \in Addresses : odBalance[a] = 0

\* Every advancePhase that waits has a deposit ahead of it that would be
\* accepted, unless the reserve has collateral already.
AdvanceFollows(q) ==
  \A i \in 1..Len(q) : q[i] = AdvanceTx => Funded(q, i - 1)

ScriptInv ==
  /\ ScriptTypes
  /\ MoneyInv
  /\ AdvanceFollows(Queue)
  /\ PastSeeding => Funded(Queue, Len(Queue))

\* As much as SEEDING needs of a step that makes no deposit.
Calm ==
  /\ UNCHANGED <<wbtc, orcSupply, seedPrice, phase, odBalance>>
  /\ orcReserve = Reserve => orcReserve' = Reserve
  /\ reserveAllowed[Deployer] <= reserveAllowed'[Deployer]

\* A deposit that would be accepted still is after such a step.
LEMMA DepositStaysGood ==
  ASSUME ScriptTypes, ScriptTypes', phase = SEEDING, Calm, CanSeed(Deployer, SeedWbtc)
  PROVE  CanSeed(Deployer, SeedWbtc)'
<1>1. /\ DepositEquity(SeedWbtc)' = DepositEquity(SeedWbtc)
      /\ phase' = SEEDING
  BY DEF Calm, DepositEquity, ReserveWbtc
<1>2. OrcOut(SeedWbtc)' = OrcOut(SeedWbtc)
  BY <1>1 DEF Calm, OrcOut
<1>3. OrcPriced(SeedWbtc)'
  BY <1>1 DEF CanSeed, MintORCAccepted, OrcPriced, Calm
<1>4. ORC!CanMint(Reserve, Net(OrcOut(SeedWbtc)))'
  BY <1>2 DEF CanSeed, MintORCAccepted, ORC!CanMint, Calm
<1>5. MintORCAccepted(Deployer, SeedWbtc)'
  BY <1>1, <1>2, <1>3, <1>4 DEF CanSeed, MintORCAccepted, CanPay, Calm
<1>6. SeedWbtc <= reserveAllowed'[Deployer]
  BY ReserveAssumption, ScriptAssumption DEF CanSeed, Calm, ScriptTypes
<1> QED
  BY <1>5, <1>6 DEF CanSeed

\* So that what such a queue is worth does not change either.
LEMMA FundedStays ==
  ASSUME ScriptTypes, ScriptTypes', phase = SEEDING, Calm, NEW q, NEW n, Funded(q, n)
  PROVE  Funded(q, n)'
<1>1. ReserveWbtc' = ReserveWbtc
  BY DEF Calm, ReserveWbtc
<1> QED
  BY <1>1, DepositStaysGood DEF Funded, DepositWithin

\* Outside SEEDING the collateral is all that matters.
LEMMA LateInv ==
  ASSUME ScriptTypes', phase' # SEEDING, ReserveWbtc' > 0
  PROVE  ScriptInv'
  BY DEF ScriptInv, MoneyInv, AdvanceFollows, Funded

\* With collateral in the reserve nothing is left to be shown of the queue.
LEMMA CollateralInv ==
  ASSUME ScriptTypes', MoneyInv', ReserveWbtc' > 0
  PROVE  ScriptInv'
  BY DEF ScriptInv, AdvanceFollows, Funded

-----------------------------------------------------------------------------
(* What the calls of the script do to the money. *)

\* The assumptions on accounts and amounts, as the leaves use them.
LEMMA AccountFacts ==
  /\ Deployer \in Addresses /\ Reserve \in Addresses /\ Deployer # Reserve
  /\ PoolAccount \in Addresses /\ PoolAccount # Reserve
  /\ SeedWbtc \in Nat \ {0} /\ U256_MAX \in Nat
  /\ LiquidityWbtc \in Nat /\ LiquidityOd \in Nat \ {0}
  BY ReserveAssumption, SubmissionAssumption, ScriptAssumption, ReserveMathAssumption
     DEF Addresses

MoneyTypes ==
  /\ wbtc \in [Addresses -> Nat]
  /\ reserveAllowed \in [Accounts -> Nat]
  /\ \A a \in Accounts : reserveAllowed[a] <= U256_MAX

\* A deposit: collateral, and nothing else that matters here.
LEMMA SeedEffect ==
  ASSUME MoneyTypes, Seed(Deployer, SeedWbtc)
  PROVE  /\ MoneyTypes' /\ ReserveWbtc' > 0 /\ ReserveWbtc <= ReserveWbtc'
         /\ odBalance' = odBalance
         /\ phase = SEEDING <=> phase' = SEEDING
<1>1. /\ SeedWbtc <= reserveAllowed[Deployer]
      /\ reserveAllowed' = [reserveAllowed EXCEPT ![Deployer] = @ - SeedWbtc]
      /\ WbtcTransfer(Deployer, Reserve, SeedWbtc)
      /\ odBalance' = odBalance
      /\ IF phase = LIVE THEN ComputeTwap ELSE UNCHANGED oracleVars
  BY DEF Seed, CanSeed, MintORC, odVars
<1>2. phase = SEEDING <=> phase' = SEEDING
  BY <1>1 DEF ComputeTwap, oracleVars
<1>3. /\ wbtc' \in [Addresses -> Nat]
      /\ ReserveWbtc' > 0 /\ ReserveWbtc <= ReserveWbtc'
  BY <1>1, AccountFacts DEF WbtcTransfer, CanPay, MoneyTypes, ReserveWbtc
<1>4. /\ reserveAllowed' \in [Accounts -> Nat]
      /\ \A a \in Accounts : reserveAllowed'[a] <= U256_MAX
  <2>1. reserveAllowed[Deployer] \in Nat /\ reserveAllowed[Deployer] <= U256_MAX
    BY ReserveAssumption DEF MoneyTypes
  <2>2. PICK k \in Nat : k = reserveAllowed[Deployer] - SeedWbtc /\ k <= U256_MAX
    BY <1>1, <2>1, AccountFacts
  <2>3. reserveAllowed' = [reserveAllowed EXCEPT ![Deployer] = k]
    BY <1>1, <2>2
  <2> QED
    BY <2>2, <2>3, ReserveAssumption DEF MoneyTypes
<1> QED
  BY <1>1, <1>2, <1>3, <1>4 DEF MoneyTypes

\* increaseAllowance never lowers the allowance, at the u256 bound either.
LEMMA ApproveEffect ==
  ASSUME MoneyTypes, NEW n \in Nat, ApproveReserve(Deployer, n)
  PROVE  /\ MoneyTypes' /\ UNCHANGED vars
         /\ reserveAllowed[Deployer] <= reserveAllowed'[Deployer]
<1>1. PICK k \in Nat : k = reserveAllowed[Deployer] /\ k <= U256_MAX
  BY ReserveAssumption DEF MoneyTypes
<1>2. Raised(k, n) \in Nat /\ k <= Raised(k, n) /\ Raised(k, n) <= U256_MAX
  BY <1>1, AccountFacts DEF Raised, Fits
<1>3. reserveAllowed' = [reserveAllowed EXCEPT ![Deployer] = Raised(k, n)] /\ UNCHANGED vars
  BY <1>1 DEF ApproveReserve
<1> QED
  BY <1>1, <1>2, <1>3, ReserveAssumption DEF MoneyTypes, vars, moneyVars

\* addLiquidity pays with the deployer's WBTC, and only who holds OD can.
LEMMA AddLiquidityEffect ==
  ASSUME MoneyTypes, AddLiquidity(Deployer)
  PROVE  /\ MoneyTypes' /\ ReserveWbtc' = ReserveWbtc
         /\ UNCHANGED phase
         /\ odBalance[Deployer] # 0
<1>1. /\ WbtcTransfer(Deployer, PoolAccount, LiquidityWbtc)
      /\ LiquidityOd <= odBalance[Deployer]
      /\ UNCHANGED <<oracleVars, reserveAllowed>>
  BY DEF AddLiquidity, CanAddLiquidity, OD!CanTransfer
<1>2. wbtc' \in [Addresses -> Nat] /\ ReserveWbtc' = ReserveWbtc
  BY <1>1, AccountFacts DEF WbtcTransfer, CanPay, MoneyTypes, ReserveWbtc
<1> QED
  BY <1>1, <1>2, AccountFacts DEF MoneyTypes, oracleVars

\* The calls that neither deposit, nor advance, nor move OD.
LEMMA OtherEffect ==
  ASSUME MoneyTypes, NEW tx, Call(Deployer, tx),
         tx.method = "increaseAllowance" => tx.arg \in Nat,
         tx.method \notin {"mintORC", "advancePhase", "addLiquidity", "premintOD",
                           "transferOwnership"}
  PROVE  Calm /\ MoneyTypes'
<1>1. CASE tx.method = "setReserve" /\ LinkToken(Deployer, tx.on)
  <2>1. /\ UNCHANGED <<wbtc, reserveAllowed, twapVars>>
        /\ UNCHANGED <<odBalance, orcSupply>>
        /\ orcReserve' \in {orcReserve, Reserve}
    BY <1>1 DEF LinkToken, OD!SetReserve, ORC!SetReserve, odVars, orcVars, marketVars, allowanceVars
  <2> QED
    BY <2>1, AccountFacts, ReserveAssumption DEF Calm, MoneyTypes, twapVars, oracleVars
<1>2. CASE tx.method = "increaseAllowance" /\ ApproveReserve(Deployer, tx.arg)
  BY <1>2, ApproveEffect DEF Calm, vars, twapVars, oracleVars, moneyVars, odVars, orcVars
<1>3. CASE \/ tx.method = "approveRouter" /\ ApproveRouter(Deployer, tx.on)
           \/ tx.method = "createPool" /\ CreatePool
  <2>1. UNCHANGED vars /\ UNCHANGED reserveAllowed
    BY <1>3 DEF ApproveRouter, CreatePool, allowanceVars
  <2> QED
    BY <2>1, AccountFacts, ReserveAssumption
       DEF Calm, MoneyTypes, vars, twapVars, oracleVars, moneyVars, odVars, orcVars
<1>4. CASE \/ tx.method = "initPool" /\ RegisterPool(Deployer, tx.arg)
           \/ tx.method = "updateTwapSnapshot" /\ RefreshSnapshot /\ UNCHANGED marketVars
  <2>1. UNCHANGED <<moneyVars, reserveAllowed, phase, seedPrice>>
    BY <1>4 DEF RegisterPool, OwnerInitPool, InitPool, RefreshSnapshot, UpdateTwapSnapshot,
                marketVars, allowanceVars
  <2> QED
    BY <2>1, AccountFacts, ReserveAssumption DEF Calm, MoneyTypes, moneyVars, odVars, orcVars
<1> QED
  BY <1>1, <1>2, <1>3, <1>4 DEF Call

\* The other transactions have the arguments that OtherEffect asks for.
LEMMA OtherTxArgs ==
  ASSUME NEW tx \in OtherTxs
  PROVE  /\ tx.method = "increaseAllowance" => tx.arg \in Nat
         /\ tx.method # "transferOwnership"
  BY AccountFacts DEF OtherTxs, Tx

\* In SEEDING nobody holds OD, so that every other transaction is calm.
LEMMA QuietCall ==
  ASSUME MoneyTypes, MoneyInv, phase = SEEDING, NEW tx \in OtherTxs, Call(Deployer, tx)
  PROVE  Calm /\ MoneyTypes'
<1>1. tx.method # "mintORC" /\ tx.method # "advancePhase"
  BY MethodsDiffer
<1>2. tx.method # "premintOD"
  <2> SUFFICES ASSUME tx.method = "premintOD" PROVE FALSE
    OBVIOUS
  <2>1. PremintOD(Deployer, tx.arg)
    BY DEF Call
  <2> QED
    BY <2>1 DEF PremintOD, PremintODAccepted
<1>3. tx.method # "addLiquidity"
  <2> SUFFICES ASSUME tx.method = "addLiquidity" PROVE FALSE
    OBVIOUS
  <2>1. AddLiquidity(Deployer)
    BY DEF Call
  <2> QED
    BY <2>1, AddLiquidityEffect, AccountFacts DEF MoneyInv
<1> QED
  BY <1>1, <1>2, <1>3, OtherEffect, OtherTxArgs

\* advancePhase leaves SEEDING and moves no money.
LEMMA AdvanceEffect ==
  ASSUME MoneyTypes, Call(Deployer, AdvanceTx)
  PROVE  /\ MoneyTypes' /\ UNCHANGED <<wbtc, orcSupply>>
         /\ phase' # SEEDING
<1>1. OwnerAdvancePhase(Deployer, SeedPrice) /\ UNCHANGED marketVars
  BY DEF Call, AdvanceTx, Tx
<1>2. UNCHANGED <<wbtc, orcSupply, reserveAllowed>> /\ phase' = PREMINT
  BY <1>1 DEF OwnerAdvancePhase, AdvancePhase, moneyVars, orcVars, marketVars, allowanceVars
<1> QED
  BY <1>2, AccountFacts, ReserveAssumption DEF MoneyTypes

\* The only effect of the deposit transaction is Seed.
LEMMA SeedCall ==
  ASSUME Call(Deployer, SeedTx)
  PROVE  Seed(Deployer, SeedWbtc)
  BY DEF Call, SeedTx, Tx

\* Outside SEEDING the phase never returns there, and no call takes WBTC out.
LEMMA LateCall ==
  ASSUME MoneyTypes, phase # SEEDING, NEW tx \in ScriptTxs, Call(Deployer, tx)
  PROVE  MoneyTypes' /\ phase' # SEEDING /\ ReserveWbtc <= ReserveWbtc'
<1>0. ReserveWbtc \in Nat
  BY AccountFacts DEF MoneyTypes, ReserveWbtc
<1>1. CASE tx = SeedTx
  BY <1>1, SeedCall, SeedEffect
<1>2. CASE tx = AdvanceTx
  BY <1>2, <1>0, AdvanceEffect DEF ReserveWbtc
<1>3. CASE tx \in OtherTxs
  <2>1. tx.method # "mintORC" /\ tx.method # "advancePhase"
    BY <1>3, MethodsDiffer
  <2>2. CASE tx.method = "premintOD"
    <3>1. PremintOD(Deployer, tx.arg) /\ UNCHANGED marketVars
      BY <2>2 DEF Call
    <3>2. UNCHANGED <<wbtc, phase, reserveAllowed>>
      BY <3>1 DEF PremintOD, twapVars, oracleVars, marketVars, allowanceVars
    <3> QED
      BY <3>2, <1>0, AccountFacts, ReserveAssumption DEF MoneyTypes, ReserveWbtc
  <2>3. CASE tx.method = "addLiquidity"
    <3>1. AddLiquidity(Deployer)
      BY <2>3 DEF Call
    <3> QED
      BY <3>1, <1>0, AddLiquidityEffect
  <2>4. CASE tx.method \notin {"premintOD", "addLiquidity"}
    <3>1. Calm /\ MoneyTypes'
      BY <1>3, <2>1, <2>4, OtherEffect, OtherTxArgs
    <3> QED
      BY <3>1, <1>0 DEF Calm, ReserveWbtc
  <2> QED
    BY <2>2, <2>3, <2>4
<1> QED
  BY <1>1, <1>2, <1>3 DEF ScriptTxs
-----------------------------------------------------------------------------
(* The queue. *)

\* A longer part of the queue holds what a shorter one holds.
LEMMA FundedMore ==
  ASSUME NEW q, NEW n \in Nat, NEW m \in Nat, n <= m, Funded(q, n)
  PROVE  Funded(q, m)
  BY DEF Funded, DepositWithin

\* What is sent later takes nothing away.
LEMMA FundedAppend ==
  ASSUME NEW q \in Seq(ScriptTxs), NEW tx \in ScriptTxs, NEW n \in 0..Len(q), Funded(q, n)
  PROVE  Funded(Append(q, tx), n)
<1>1. \A i \in 1..n : Append(q, tx)[i] = q[i]
  OBVIOUS
<1> QED
  BY <1>1 DEF Funded, DepositWithin

\* Taking the head away takes no deposit away that would be accepted, unless
\* it is one.
LEMMA FundedTail ==
  ASSUME NEW q \in Seq(ScriptTxs), q # <<>>, NEW n \in 1..Len(q), Funded(q, n),
         Head(q) = SeedTx => ~CanSeed(Deployer, SeedWbtc)
  PROVE  Funded(Tail(q), n - 1)
<1>1. CASE ReserveWbtc > 0
  BY <1>1 DEF Funded
<1>2. CASE DepositWithin(q, n)
  <2>1. PICK i \in 1..n : q[i] = SeedTx
    BY <1>2 DEF DepositWithin
  <2>2. CanSeed(Deployer, SeedWbtc)
    BY <1>2 DEF DepositWithin
  <2>3. i # 1
    BY <2>1, <2>2
  <2>4. i - 1 \in 1..(n - 1) /\ Tail(q)[i - 1] = q[i]
    BY <2>1, <2>3
  <2> QED
    BY <2>1, <2>2, <2>4 DEF Funded, DepositWithin
<1> QED
  BY <1>1, <1>2 DEF Funded

\* So the tail is as good a queue as the whole was.
LEMMA TailFollows ==
  ASSUME NEW q \in Seq(ScriptTxs), q # <<>>, AdvanceFollows(q),
         Head(q) = SeedTx => ~CanSeed(Deployer, SeedWbtc)
  PROVE  AdvanceFollows(Tail(q))
<1> SUFFICES ASSUME NEW i \in 1..Len(Tail(q)), Tail(q)[i] = AdvanceTx
             PROVE  Funded(Tail(q), i - 1)
  BY DEF AdvanceFollows
<1>1. i + 1 \in 1..Len(q) /\ q[i + 1] = AdvanceTx /\ i \in 1..Len(q)
  OBVIOUS
<1>2. Funded(q, i)
  <2>1. Funded(q, (i + 1) - 1)
    BY <1>1 DEF AdvanceFollows
  <2>2. (i + 1) - 1 = i
    OBVIOUS
  <2> QED
    BY <2>1, <2>2
<1> QED
  BY <1>1, <1>2, FundedTail

\* And so is the queue with one more, if advancePhase comes after a deposit.
LEMMA AppendFollows ==
  ASSUME NEW q \in Seq(ScriptTxs), NEW tx \in ScriptTxs, AdvanceFollows(q),
         tx = AdvanceTx => Funded(q, Len(q))
  PROVE  AdvanceFollows(Append(q, tx))
<1> SUFFICES ASSUME NEW i \in 1..Len(Append(q, tx)), Append(q, tx)[i] = AdvanceTx
             PROVE  Funded(Append(q, tx), i - 1)
  BY DEF AdvanceFollows
<1>1. i - 1 \in 0..Len(q)
  OBVIOUS
<1>2. Funded(q, i - 1)
  <2>1. CASE i \in 1..Len(q)
    <3>1. q[i] = AdvanceTx
      BY <2>1
    <3> QED
      BY <2>1, <3>1 DEF AdvanceFollows
  <2>2. CASE i = Len(q) + 1
    <3>1. tx = AdvanceTx /\ i - 1 = Len(q)
      BY <2>2
    <3> QED
      BY <3>1
  <2> QED
    BY <2>1, <2>2
<1> QED
  BY <1>1, <1>2, FundedAppend

-----------------------------------------------------------------------------
(* The steps. *)

\* What a calm step leaves behind, when its queue q was good before it.
LEMMA CalmStep ==
  ASSUME ScriptTypes, MoneyInv, ScriptTypes', phase = SEEDING, Calm,
         NEW q, Queue' = q, AdvanceFollows(q), PastSeeding' => Funded(q, Len(q))
  PROVE  ScriptInv'
<1>1. MoneyInv'
  BY AccountFacts DEF MoneyInv, Calm, ReserveWbtc
<1>2. \A n : Funded(q, n) => Funded(q, n)'
  BY FundedStays
<1>3. AdvanceFollows(Queue)'
  <2> SUFFICES ASSUME NEW i \in 1..Len(q), q[i] = AdvanceTx
               PROVE  Funded(q, i - 1)'
    BY DEF AdvanceFollows, Funded, DepositWithin
  <2>1. Funded(q, i - 1)
    BY DEF AdvanceFollows
  <2> QED
    BY <1>2, <2>1
<1>4. PastSeeding' => Funded(Queue, Len(Queue))'
  <2>1. PastSeeding' => Funded(q, Len(q))'
    BY <1>2
  <2> QED
    BY <2>1 DEF Funded, DepositWithin
<1> QED
  BY <1>1, <1>3, <1>4 DEF ScriptInv

\* A step that moves no money, at any time.
LEMMA IdleStep ==
  ASSUME ScriptInv, ScriptTypes', UNCHANGED <<moneyVars, seedPrice, reserveAllowed>>,
         phase = SEEDING => phase' = SEEDING, phase # SEEDING => phase' # SEEDING,
         NEW q, Queue' = q, AdvanceFollows(q), PastSeeding' => Funded(q, Len(q))
  PROVE  ScriptInv'
<1>1. CASE phase = SEEDING
  <2>1. Calm
    <3>1. reserveAllowed[Deployer] \in Nat
      BY ReserveAssumption DEF ScriptInv, ScriptTypes
    <3> QED
      BY <1>1, <3>1 DEF Calm, moneyVars, odVars, orcVars
  <2> QED
    BY <1>1, <2>1, CalmStep DEF ScriptInv
<1>2. CASE phase # SEEDING
  <2>1. ReserveWbtc' > 0
    BY <1>2 DEF ScriptInv, MoneyInv, ReserveWbtc, moneyVars
  <2> QED
    BY <1>2, <2>1, LateInv
<1> QED
  BY <1>1, <1>2

\* Nothing is sent when the script starts.
LEMMA InitScript == ScriptInit => ScriptInv
<1> SUFFICES ASSUME ScriptInit PROVE ScriptInv
  OBVIOUS
<1> USE DEF ScriptInit, SubmissionInit, Init, OracleInit, OD!Init, ORC!Init
<1>1. ScriptTypes
  BY ReserveAssumption, AccountFacts DEF ScriptTypes, Addresses, Exited
<1>2. MoneyInv
  BY DEF MoneyInv
<1>3. Queue = <<>> /\ ~PastSeeding
  BY ReserveAssumption DEF Queue, PastSeeding
<1> QED
  BY <1>1, <1>2, <1>3 DEF ScriptInv, AdvanceFollows

\* The queue is a sequence of transactions of the script.
LEMMA QueueTyped ==
  ASSUME ScriptTypes
  PROVE  Queue \in Seq(ScriptTxs)
  BY ReserveAssumption DEF ScriptTypes, Queue

\* A transaction that is sent goes to the end of the queue.
LEMMA BroadcastQueue ==
  ASSUME ScriptTypes, NEW tx \in ScriptTxs, Broadcast(Deployer, tx)
  PROVE  /\ Queue' = Append(Queue, tx)
         /\ mempool' \in [Accounts -> Seq(ScriptTxs)]
<1>1. Append(Queue, tx) \in Seq(ScriptTxs)
  BY QueueTyped
<1> QED
  BY <1>1, ReserveAssumption DEF ScriptTypes, Broadcast, Queue

\* Whatever the process sends next, an advancePhase has its deposit.
LEMMA SendingFollows ==
  ASSUME ScriptInv, Waiting
  PROVE  /\ Current \in ScriptTxs
         /\ AdvanceFollows(Append(Queue, Current))
<1>1. /\ Current \in ScriptTxs
      /\ Current = AdvanceTx => step = 2
  BY CurrentIs DEF ScriptInv, ScriptTypes
<1>2. Current = AdvanceTx => Funded(Queue, Len(Queue))
  BY <1>1 DEF PastSeeding, ScriptInv
<1> QED
  BY <1>1, <1>2, QueueTyped, AppendFollows DEF ScriptInv

\* The script's own steps leave the money as it is.
LEMMA ScriptIdle ==
  ASSUME UNCHANGED vars, UNCHANGED marketVars
  PROVE  /\ UNCHANGED <<moneyVars, seedPrice, reserveAllowed, wbtc>>
         /\ phase = SEEDING => phase' = SEEDING
         /\ phase # SEEDING => phase' # SEEDING
  BY DEF vars, twapVars, oracleVars, marketVars, allowanceVars, moneyVars

\* A transaction is sent: a deposit simulated well, so it is accepted.
LEMMA SendKeeps == ScriptInv /\ Send => ScriptInv'
<1> SUFFICES ASSUME ScriptInv, Send PROVE ScriptInv'
  OBVIOUS
<1>1. /\ Waiting /\ Simulates(Deployer, Current) /\ Broadcast(Deployer, Current)
      /\ at' = at + 1 /\ step' = step
      /\ UNCHANGED vars /\ UNCHANGED marketVars
  BY DEF Send
<1>2. ScriptTypes /\ step \in 0..9 /\ at \in Nat \ {0} /\ Queue \in Seq(ScriptTxs)
  BY QueueTyped DEF ScriptInv, ScriptTypes
<1>3. /\ at <= 2
      /\ step = 1 /\ at = 2 => Current = SeedTx
  BY <1>1, <1>2, CurrentIs
<1>4. Current \in ScriptTxs /\ AdvanceFollows(Append(Queue, Current))
  BY <1>1, SendingFollows
<1>5. PICK q : q = Append(Queue, Current)
  OBVIOUS
<1>6. q \in Seq(ScriptTxs) /\ Len(q) = Len(Queue) + 1 /\ q[Len(q)] = Current
  BY <1>2, <1>4, <1>5
<1>7. PastSeeding' => Funded(q, Len(q))
  <2>1. CASE step = 1 /\ at = 2
    <3>1. Current = SeedTx /\ CanSeed(Deployer, SeedWbtc)
      BY <1>1, <1>3, <2>1 DEF Simulates, SeedTx, Tx
    <3> QED
      BY <1>6, <3>1 DEF Funded, DepositWithin
  <2>2. CASE step \in 2..8
    <3>1. Funded(Queue, Len(Queue))
      BY <2>2 DEF PastSeeding, ScriptInv
    <3>2. Funded(q, Len(Queue))
      BY <1>2, <1>4, <1>5, <3>1, FundedAppend
    <3> QED
      BY <1>2, <1>6, <3>2, FundedMore
  <2>3. CASE ~(step = 1 /\ at = 2) /\ step \notin 2..8
    BY <1>1, <1>2, <1>3, <2>3 DEF PastSeeding
  <2> QED
    BY <2>1, <2>2, <2>3
<1>8. ScriptTypes' /\ Queue' = q
  <2>1. Queue' = q /\ mempool' \in [Accounts -> Seq(ScriptTxs)]
    BY <1>1, <1>2, <1>4, <1>5, BroadcastQueue
  <2> QED
    BY <1>1, <1>2, <2>1, ScriptIdle DEF ScriptTypes, Waiting
<1> QED
  BY <1>1, <1>4, <1>5, <1>7, <1>8, ScriptIdle, IdleStep

\* A process that exits asks nothing of the queue any more.
LEMMA ExitFacts ==
  ASSUME Exit
  PROVE  step' \in 0..9 /\ at' \in Nat \ {0} /\ at' = 1 /\ ~PastSeeding'
  BY DEF Exit, Exited, PastSeeding

\* A process that stops without sending anything.
LEMMA SilentExit ==
  ASSUME ScriptInv, Exit, UNCHANGED submissionVars
  PROVE  ScriptInv'
<1>1. UNCHANGED vars /\ UNCHANGED marketVars /\ mempool' = mempool
  BY DEF submissionVars
<1>2. ScriptTypes'
  BY <1>1, ScriptIdle, ExitFacts DEF ScriptInv, ScriptTypes
<1>3. PICK q : q = Queue
  OBVIOUS
<1>4. Queue' = q /\ AdvanceFollows(q)
  BY <1>1, <1>3 DEF Queue, ScriptInv
<1> QED
  BY <1>1, <1>2, <1>4, ScriptIdle, ExitFacts, IdleStep

\* A process that a revert stops.
LEMMA RevertKeeps == ScriptInv /\ Revert => ScriptInv'
  BY SilentExit DEF Revert

\* A process that an RPC error stops, its transaction sent or not.
LEMMA RpcErrorKeeps == ScriptInv /\ RpcError => ScriptInv'
<1> SUFFICES ASSUME ScriptInv, RpcError PROVE ScriptInv'
  OBVIOUS
<1>1. /\ Waiting /\ Exit /\ UNCHANGED vars /\ UNCHANGED marketVars
      /\ Broadcast(Deployer, Current) \/ mempool' = mempool
  BY DEF RpcError
<1>2. CASE mempool' = mempool
  BY <1>1, <1>2, SilentExit DEF submissionVars
<1>3. CASE Broadcast(Deployer, Current)
  <2>1. Current \in ScriptTxs /\ AdvanceFollows(Append(Queue, Current))
    BY <1>1, SendingFollows
  <2>2. ScriptTypes
    BY DEF ScriptInv
  <2>3. PICK q : q = Append(Queue, Current)
    OBVIOUS
  <2>4. Queue' = q /\ mempool' \in [Accounts -> Seq(ScriptTxs)]
    BY <1>3, <2>1, <2>2, <2>3, BroadcastQueue
  <2>5. ScriptTypes'
    BY <1>1, <2>2, <2>4, ScriptIdle, ExitFacts DEF ScriptTypes
  <2> QED
    BY <1>1, <2>1, <2>3, <2>4, <2>5, ScriptIdle, ExitFacts, IdleStep
<1> QED
  BY <1>1, <1>2, <1>3

\* A whole run gets past step 1 only by sending both its transactions.
LEMMA EndStepKeeps == ScriptInv /\ EndStep => ScriptInv'
<1> SUFFICES ASSUME ScriptInv, EndStep PROVE ScriptInv'
  OBVIOUS
<1>1. /\ step # Exited /\ at > Len(Calls(step))
      /\ UNCHANGED submissionVars
      /\ \/ whole /\ step < 8 /\ step' = step + 1 /\ at' = 1
         \/ Exit
  BY DEF EndStep
<1>2. CASE Exit
  BY <1>1, <1>2, SilentExit
<1>3. CASE step < 8 /\ step' = step + 1 /\ at' = 1
  <2>1. ScriptTypes /\ step \in 0..9 /\ at \in Nat \ {0}
    BY DEF ScriptInv, ScriptTypes
  <2>2. step = 1 => Len(Calls(step)) = 2
    <3>1. Len(Calls(1)) = 2
      BY DEF Calls
    <3> QED
      BY <3>1
  <2>3. PastSeeding' => PastSeeding
    BY <1>1, <1>3, <2>1, <2>2 DEF PastSeeding
  <2>4. UNCHANGED vars /\ UNCHANGED marketVars /\ mempool' = mempool
    BY <1>1 DEF submissionVars
  <2>5. ScriptTypes'
    BY <1>3, <2>1, <2>4, ScriptIdle DEF ScriptTypes
  <2>6. PICK q : q = Queue
    OBVIOUS
  <2>7. Queue' = q /\ AdvanceFollows(q) /\ (PastSeeding => Funded(q, Len(q)))
    BY <2>4, <2>6 DEF Queue, ScriptInv
  <2> QED
    BY <2>3, <2>4, <2>5, <2>7, ScriptIdle, IdleStep
<1> QED
  BY <1>1, <1>2, <1>3

\* A set of naturals has a least element.
LEMMA LeastNat ==
  ASSUME NEW T, T \subseteq Nat, T # {}
  PROVE  \E n \in T : \A m \in T : ~(m < n)
<1>1. PICK R : R = OpToRel(<, Nat)
  OBVIOUS
<1>2. IsWellFoundedOn(R, Nat)
  BY <1>1, NatLessThanWellFounded
<1>3. \E n \in T : \A m \in T : ~(<<m, n>> \in R)
  BY <1>2, WFMin
<1>4. \A m, n \in Nat : m < n => <<m, n>> \in R
  BY <1>1 DEF OpToRel
<1> QED
  BY <1>3, <1>4

\* The operator re-runs the deposit before any later step.
LEMMA RerunKeeps == ScriptInv /\ Rerun => ScriptInv'
<1> SUFFICES ASSUME ScriptInv, Rerun PROVE ScriptInv'
  OBVIOUS
<1>1. /\ step = Exited /\ Queue = <<>> /\ Missing # {} /\ step' = Min(Missing)
      /\ at' = at /\ mempool' = mempool /\ UNCHANGED vars /\ UNCHANGED marketVars
  BY DEF Rerun, submissionVars, Queue
<1>2. ScriptTypes
  BY DEF ScriptInv
<1>3. step' \in Missing /\ \A s \in Missing : step' <= s
  <2>1. Missing \subseteq 0..7 /\ Missing \subseteq Nat
    BY DEF Missing
  <2>2. \E n \in Missing : \A m \in Missing : ~(m < n)
    BY <1>1, <2>1, LeastNat
  <2>3. \E n \in Missing : \A m \in Missing : n <= m
    BY <2>1, <2>2
  <2> QED
    BY <1>1, <2>3 DEF Min
<1>4. step' \in 0..7
  BY <1>3 DEF Missing
<1>5. ScriptTypes'
  BY <1>1, <1>2, <1>4, ScriptIdle DEF ScriptTypes, Exited
<1>6. PastSeeding' => ReserveWbtc > 0
  <2>1. at = 1
    BY <1>1, <1>2 DEF ScriptTypes
  <2>2. PastSeeding' => 1 \notin Missing
    BY <1>1, <1>3, <1>4, <2>1 DEF PastSeeding
  <2>3. 1 \notin Missing => orcSupply > 0
    BY DEF Missing
  <2> QED
    BY <2>2, <2>3 DEF ScriptInv, MoneyInv
<1>7. Queue' = <<>>
  BY <1>1 DEF Queue
<1>8. AdvanceFollows(<<>>)
  BY DEF AdvanceFollows
<1>9. PastSeeding' => Funded(<<>>, Len(<<>>))
  BY <1>6 DEF Funded
<1> QED
  BY <1>1, <1>5, <1>7, <1>8, <1>9, ScriptIdle, IdleStep

\* The head that is included, after which the queue is its tail.
LEMMA IncludeKeeps ==
  ScriptInv /\ Include(Deployer) /\ UNCHANGED scriptVars => ScriptInv'
<1> SUFFICES ASSUME ScriptInv, Include(Deployer), UNCHANGED scriptVars PROVE ScriptInv'
  OBVIOUS
<1>1. /\ Queue # <<>>
      /\ mempool' = [mempool EXCEPT ![Deployer] = Tail(@)]
      /\ Executed(Deployer) \/ Reverted(Deployer)
      /\ step' = step /\ at' = at
  BY DEF Include, Queue, scriptVars
<1>2. ScriptTypes /\ MoneyInv /\ MoneyTypes /\ Queue \in Seq(ScriptTxs)
  BY QueueTyped DEF ScriptInv, ScriptTypes, MoneyTypes
<1>3. PICK tx, q : tx = Head(Queue) /\ q = Tail(Queue)
  OBVIOUS
<1>4. tx \in ScriptTxs /\ q \in Seq(ScriptTxs)
  BY <1>1, <1>2, <1>3
<1>5. Queue' = q /\ mempool' \in [Accounts -> Seq(ScriptTxs)]
  BY <1>1, <1>2, <1>3, <1>4, ReserveAssumption DEF ScriptTypes, Queue
<1>6. MoneyTypes' => ScriptTypes'
  BY <1>1, <1>2, <1>5 DEF ScriptTypes, MoneyTypes
<1>7. (tx = SeedTx => ~CanSeed(Deployer, SeedWbtc))
        => AdvanceFollows(q) /\ (PastSeeding' => Funded(q, Len(q)))
  <2> SUFFICES ASSUME tx = SeedTx => ~CanSeed(Deployer, SeedWbtc)
               PROVE  AdvanceFollows(q) /\ (PastSeeding' => Funded(q, Len(q)))
    OBVIOUS
  <2>1. AdvanceFollows(q)
    BY <1>1, <1>2, <1>3, TailFollows DEF ScriptInv
  <2>2. ASSUME PastSeeding' PROVE Funded(q, Len(q))
    <3>1. Funded(Queue, Len(Queue))
      BY <1>1, <2>2 DEF ScriptInv, PastSeeding
    <3>2. Len(Queue) \in 1..Len(Queue) /\ Len(q) = Len(Queue) - 1
      BY <1>1, <1>2, <1>3
    <3> QED
      BY <1>1, <1>2, <1>3, <3>1, <3>2, FundedTail
  <2> QED
    BY <2>1, <2>2
<1>8. CASE Reverted(Deployer)
  <2>1. UNCHANGED vars /\ UNCHANGED marketVars /\ ~Simulates(Deployer, tx)
    BY <1>3, <1>8 DEF Reverted, Queue
  <2>2. tx = SeedTx => ~CanSeed(Deployer, SeedWbtc)
    BY <2>1 DEF Simulates, SeedTx, Tx
  <2>3. MoneyTypes'
    BY <1>2, <2>1, ScriptIdle DEF MoneyTypes
  <2> QED
    BY <1>5, <1>6, <1>7, <2>1, <2>2, <2>3, ScriptIdle, IdleStep
<1>9. CASE Executed(Deployer)
  <2>1. Call(Deployer, tx)
    BY <1>3, <1>9 DEF Executed, Queue
  <2>2. CASE phase # SEEDING
    <3>1. MoneyTypes' /\ phase' # SEEDING /\ ReserveWbtc <= ReserveWbtc'
      BY <1>2, <1>4, <2>1, <2>2, LateCall
    <3>2. ReserveWbtc > 0 /\ ReserveWbtc \in Nat /\ ReserveWbtc' \in Nat
      BY <1>2, <2>2, <3>1, AccountFacts DEF MoneyInv, MoneyTypes, ReserveWbtc
    <3>3. ReserveWbtc' > 0
      BY <3>1, <3>2
    <3> QED
      BY <1>6, <3>1, <3>3, LateInv
  <2>3. CASE phase = SEEDING /\ tx = SeedTx
    <3>1. /\ MoneyTypes' /\ ReserveWbtc' > 0 /\ odBalance' = odBalance
          /\ phase' = SEEDING
      BY <1>2, <2>1, <2>3, SeedCall, SeedEffect
    <3>2. MoneyInv'
      BY <1>2, <2>3, <3>1 DEF MoneyInv
    <3> QED
      BY <1>6, <3>1, <3>2, CollateralInv
  <2>4. CASE phase = SEEDING /\ tx = AdvanceTx
    <3>1. Funded(Queue, 0)
      <4>1. 1 \in 1..Len(Queue) /\ Queue[1] = AdvanceTx /\ 1 - 1 = 0
        BY <1>1, <1>2, <1>3, <2>4
      <4>2. Funded(Queue, 1 - 1)
        BY <4>1 DEF AdvanceFollows, ScriptInv
      <4> QED
        BY <4>1, <4>2
    <3>2. ReserveWbtc > 0
      BY <3>1 DEF Funded, DepositWithin
    <3>3. MoneyTypes' /\ wbtc' = wbtc /\ phase' # SEEDING
      BY <1>2, <2>1, <2>4, AdvanceEffect
    <3>4. ReserveWbtc' > 0
      BY <3>2, <3>3 DEF ReserveWbtc
    <3> QED
      BY <1>6, <3>3, <3>4, LateInv
  <2>5. CASE phase = SEEDING /\ tx \in OtherTxs
    <3>1. Calm /\ MoneyTypes'
      BY <1>2, <2>1, <2>5, QuietCall
    <3>2. tx # SeedTx
      BY <2>5, MethodsDiffer
    <3> QED
      BY <1>2, <1>5, <1>6, <1>7, <2>5, <3>1, <3>2, CalmStep
  <2> QED
    BY <1>4, <2>2, <2>3, <2>4, <2>5 DEF ScriptTxs
<1> QED
  BY <1>1, <1>8, <1>9

\* Steps of the chain and of others: no money, and SEEDING is not left.
LEMMA OracleStepKeeps ==
  ASSUME ScriptInv, UNCHANGED <<moneyVars, seedPrice, marketVars, mempool, scriptVars>>,
         phase = SEEDING => phase' = SEEDING, phase # SEEDING => phase' # SEEDING
  PROVE  ScriptInv'
<1>1. /\ UNCHANGED <<reserveAllowed, wbtc, mempool, step, at>>
      /\ UNCHANGED <<moneyVars, seedPrice, reserveAllowed>>
  BY DEF marketVars, allowanceVars, moneyVars, scriptVars
<1>2. ScriptTypes'
  BY <1>1 DEF ScriptInv, ScriptTypes
<1>3. PICK q : q = Queue
  OBVIOUS
<1>4. Queue' = q /\ AdvanceFollows(q) /\ (PastSeeding' => Funded(q, Len(q)))
  BY <1>1, <1>3 DEF Queue, ScriptInv, PastSeeding
<1> QED
  BY <1>1, <1>2, <1>4, IdleStep

\* Blocks, interactions and updates by hand.
LEMMA EnvironmentKeeps ==
  ScriptInv /\ (NextBlock \/ ReadPrice \/ ManualUpdate) /\ UNCHANGED scriptVars
    => ScriptInv'
<1> SUFFICES ASSUME ScriptInv, NextBlock \/ ReadPrice \/ ManualUpdate, UNCHANGED scriptVars
             PROVE  ScriptInv'
  OBVIOUS
<1>1. /\ UNCHANGED <<moneyVars, seedPrice, marketVars, mempool, scriptVars>>
      /\ phase = SEEDING => phase' = SEEDING
      /\ phase # SEEDING => phase' # SEEDING
  <2>1. CASE NextBlock
    BY <2>1 DEF NextBlock, oracleVars
  <2>2. CASE ReadPrice
    BY <2>2 DEF ReadPrice, View, ComputeTwap
  <2>3. CASE ManualUpdate
    <3>1. RefreshSnapshot /\ UNCHANGED marketVars /\ UNCHANGED mempool
      BY <2>3 DEF ManualUpdate, Call, Tx
    <3> QED
      BY <3>1 DEF RefreshSnapshot, UpdateTwapSnapshot
  <2> QED
    BY <2>1, <2>2, <2>3
<1> QED
  BY <1>1, OracleStepKeeps

\* A step that changes nothing.
LEMMA StutterKeeps == ScriptInv /\ UNCHANGED allVars => ScriptInv'
  BY OracleStepKeeps
     DEF allVars, submissionVars, vars, twapVars, oracleVars

\* ScriptInv is an invariant of the script.
LEMMA ScriptInvHolds == ScriptSpec => []ScriptInv
<1>1. ScriptInit => ScriptInv
  BY InitScript
<1>2. ScriptInv /\ [ScriptNext]_allVars => ScriptInv'
  BY SendKeeps, RevertKeeps, EndStepKeeps, RpcErrorKeeps, RerunKeeps, IncludeKeeps,
     EnvironmentKeeps, StutterKeeps
     DEF ScriptNext, Script
<1> QED
  BY <1>1, <1>2, PTL DEF ScriptSpec

(* The reserve never leaves SEEDING without collateral: the mempool keeps  *)
(* the order in which bootstrap.ts sends, and no failure or re-run of a    *)
(* step brings advancePhase in front of the deposit.                       *)
THEOREM SeedPrecedesPremint == ScriptSpec => []SeedBeforePremint
<1>1. ScriptInv => SeedBeforePremint
  BY DEF ScriptInv, MoneyInv, SeedBeforePremint
<1> QED
  BY <1>1, ScriptInvHolds, PTL
=============================================================================
