------------------------------ MODULE ODReserve ------------------------------
(***************************************************************************)
(* src/src/contracts/ODReserve.ts with the contracts it calls: the OD and  *)
(* ORC tokens (ReserveToken), the pool oracle (TwapOracle) and the WBTC    *)
(* balances (external OP-20).  One action per method, sent by any account. *)
(* A call that reverts changes nothing, so it is not a step: its guard     *)
(* collects every revert on the way, those of the contracts called         *)
(* included.  Allowances are abstracted: a missing one is one more revert. *)
(***************************************************************************)
EXTENDS TwapOracle, FiniteSets, Functions

CONSTANTS
  Accounts,     \* externally owned accounts
  Reserve,      \* the address of this contract
  Deployer,     \* sender of the deployments
  NewOwners,    \* addresses tried for transferOwnership, the zero address too
  Amounts,      \* token amounts tried as arguments
  Recipients,   \* addresses tried as recipients of a token transfer
  WbtcHeld      \* account -> WBTC it holds before deployment

Addresses == Accounts \cup {Reserve}

ASSUME ReserveAssumption ==
  /\ IsFiniteSet(Accounts)
  /\ Reserve \notin Accounts
  /\ NoAddress \notin Addresses
  /\ Deployer \in Accounts
  /\ NewOwners \subseteq Accounts \cup {NoAddress}
  /\ Amounts \subseteq Nat
  /\ Recipients \subseteq Addresses
  /\ WbtcHeld \in [Accounts -> Nat]

VARIABLES
  owner, premintDone,
  wbtc,            \* balances of the WBTC contract
  odOwner, odReserve, odReserveSet, odBalance, odSupply,
  orcOwner, orcReserve, orcReserveSet, orcBalance, orcSupply

OD == INSTANCE ReserveToken WITH
  owner <- odOwner, reserveAddress <- odReserve, reserveSet <- odReserveSet,
  balance <- odBalance, supply <- odSupply, MaxSupply <- U256_MAX

ORC == INSTANCE ReserveToken WITH
  owner <- orcOwner, reserveAddress <- orcReserve,
  reserveSet <- orcReserveSet, balance <- orcBalance, supply <- orcSupply,
  MaxSupply <- U256_MAX

odVars == <<odOwner, odReserve, odReserveSet, odBalance, odSupply>>
orcVars == <<orcOwner, orcReserve, orcReserveSet, orcBalance, orcSupply>>
moneyVars == <<wbtc, odVars, orcVars>>
vars == <<twapVars, owner, premintDone, moneyVars>>

ReserveWbtc == wbtc[Reserve]

Init ==
  /\ OracleInit
  /\ owner = Deployer
  /\ premintDone = FALSE
  /\ wbtc = [a \in Addresses |-> IF a = Reserve THEN 0 ELSE WbtcHeld[a]]
  /\ OD!Init
  /\ ORC!Init

-----------------------------------------------------------------------------
(* OP-20 transfer of WBTC (external). *)
CanPay(from, to, amount) == from # to /\ amount <= wbtc[from]

WbtcTransfer(from, to, amount) ==
  /\ CanPay(from, to, amount)
  /\ wbtc' = [wbtc EXCEPT ![from] = @ - amount, ![to] = @ + amount]

(* Owner methods. *)

TransferOwnership(sender, newOwner) ==
  /\ sender = owner
  /\ owner' = newOwner
  /\ UNCHANGED <<twapVars, premintDone, moneyVars>>

(* Mutant of OwnerAdvancePhase: the owner can also go LIVE by hand. *)
OwnerAdvanceEither(sender, price) ==
  /\ sender = owner
  /\ \/ AdvancePhase(price)
     \/ /\ phase = PREMINT /\ premintDone
        /\ phase' = LIVE
        /\ UNCHANGED <<seedPrice, bindingVars, snapshotVars, currentTwap>>
  /\ UNCHANGED <<chainVars, owner, premintDone, moneyVars>>

OwnerAdvancePhase(sender, price) ==
  /\ sender = owner
  /\ AdvancePhase(price)
  /\ UNCHANGED <<chainVars, owner, premintDone, moneyVars>>

OwnerInitPool(sender, pool) ==
  /\ sender = owner
  /\ InitPool(pool)
  /\ UNCHANGED <<chainVars, owner, premintDone, moneyVars>>

PremintRatio(od) == (ReserveWbtc * seedPrice) \div od

\* Everything premintOD asks for.
PremintODAccepted(sender, od) ==
  /\ sender = owner
  /\ phase = PREMINT
  /\ ~premintDone
  /\ od > 0
  /\ Fits(ReserveWbtc * seedPrice)
  /\ PremintRatio(od) >= MIN_RATIO
  /\ OD!CanMint(Reserve, od)

(* Mutant of PremintOD: premintDone is not recorded. *)
PremintODRepeatable(sender, od) ==
  /\ PremintODAccepted(sender, od)
  /\ OD!Mint(Reserve, owner, od)
  /\ UNCHANGED <<twapVars, owner, premintDone, wbtc, orcVars>>

PremintOD(sender, od) ==
  /\ PremintODAccepted(sender, od)
  /\ premintDone' = TRUE
  /\ OD!Mint(Reserve, owner, od)
  /\ UNCHANGED <<twapVars, owner, wbtc, orcVars>>

-----------------------------------------------------------------------------
(* Anybody's calls that move the oracle only. *)

RatioReadable == Twap # 0 => RatioFits(ReserveWbtc, odSupply, Twap, 0)
EquityReadable == Twap # 0 => Fits(odSupply * RATIO_SCALE)

\* getTwap, getReserveRatio and getEquity sent as transactions.
View ==
  /\ ComputeTwap
  /\ UNCHANGED <<chainVars, owner, premintDone, moneyVars>>

GetTwap == View
GetReserveRatio == RatioReadable /\ View
GetEquity == EquityReadable /\ View

RefreshSnapshot ==
  /\ UpdateTwapSnapshot
  /\ UNCHANGED <<chainVars, owner, premintDone, moneyVars>>

-----------------------------------------------------------------------------
(* Minting and burning. *)

Equity(reserve) == EquityInWbtc(reserve, odSupply, Twap)

\* mintORC in LIVE: a price, and a ratio at most MAX_RATIO once paid in.
DepositAllowed(wbtcIn) ==
  /\ OracleReadable
  /\ Twap # 0
  /\ RatioFits(ReserveWbtc + wbtcIn, odSupply, Twap, 0)
  /\ ReserveRatio(ReserveWbtc + wbtcIn, odSupply, Twap, 0) <= MAX_RATIO

\* Equity that prices a deposit, which is already in the reserve.
DepositEquity(wbtcIn) ==
  IF phase = SEEDING THEN ReserveWbtc + wbtcIn ELSE Equity(ReserveWbtc + wbtcIn)

OrcOut(wbtcIn) ==
  OrcForDeposit(wbtcIn, orcSupply, DepositEquity(wbtcIn), seedPrice)

OrcPriced(wbtcIn) ==
  /\ orcSupply = 0 => Fits(wbtcIn * seedPrice)
  /\ orcSupply # 0 => DepositEquity(wbtcIn) # 0 /\ Fits(wbtcIn * orcSupply)
  /\ (orcSupply # 0 /\ phase = LIVE) => EquityReadable

\* Everything mintORC asks for.
MintORCAccepted(sender, wbtcIn) ==
  /\ wbtcIn > 0
  /\ phase \in {SEEDING, LIVE}
  /\ phase = LIVE => DepositAllowed(wbtcIn)
  /\ CanPay(sender, Reserve, wbtcIn)
  /\ OrcPriced(wbtcIn)
  /\ Fits(OrcOut(wbtcIn) * FEE)
  /\ Net(OrcOut(wbtcIn)) > 0
  /\ ORC!CanMint(Reserve, Net(OrcOut(wbtcIn)))

MintORC(sender, wbtcIn) ==
  /\ MintORCAccepted(sender, wbtcIn)
  /\ WbtcTransfer(sender, Reserve, wbtcIn)
  /\ IF phase = LIVE THEN ComputeTwap ELSE UNCHANGED oracleVars
  /\ ORC!Mint(Reserve, sender, Net(OrcOut(wbtcIn)))
  /\ UNCHANGED <<chainVars, owner, premintDone, odVars>>

\* WBTC for ORC, before the fee.
WbtcForOrc(orc) == (orc * Equity(ReserveWbtc)) \div orcSupply

\* burnORC leaves at least MIN_RATIO behind.
WithdrawalKeepsRatio(out) ==
  /\ RatioFits(ReserveWbtc, odSupply, Twap, out)
  /\ ReserveRatio(ReserveWbtc, odSupply, Twap, out) >= MIN_RATIO

BurnORC(sender, orc) ==
  /\ orc > 0
  /\ phase = LIVE
  /\ OracleReadable /\ Twap # 0
  /\ EquityReadable
  /\ orcSupply # 0
  /\ Fits(orc * Equity(ReserveWbtc)) /\ Fits(WbtcForOrc(orc) * FEE)
  /\ Net(WbtcForOrc(orc)) > 0
  /\ WithdrawalKeepsRatio(Net(WbtcForOrc(orc)))
  /\ ComputeTwap
  /\ ORC!Burn(Reserve, sender, orc)
  /\ WbtcTransfer(Reserve, sender, Net(WbtcForOrc(orc)))
  /\ UNCHANGED <<chainVars, owner, premintDone, odVars>>

OdOut(wbtcIn) == Net(OdForWbtc(wbtcIn, Twap))

(* Mutant of MintKeepsRatio: the ratio is checked as it was before.        *)
MintKeepsRatioBefore(wbtcIn) ==
  ReserveWbtc * Twap >= MIN_RATIO * odSupply

\* _requireRatioAboveAfterMintOD
MintKeepsRatio(wbtcIn) ==
  /\ Fits((ReserveWbtc + wbtcIn) * Twap)
  /\ ((ReserveWbtc + wbtcIn) * Twap) \div (odSupply + OdOut(wbtcIn))
       >= MIN_RATIO

MintOD(sender, wbtcIn) ==
  /\ wbtcIn > 0
  /\ phase = LIVE
  /\ OracleReadable /\ Twap # 0
  /\ Fits(wbtcIn * Twap) /\ Fits(OdForWbtc(wbtcIn, Twap) * FEE)
  /\ OdOut(wbtcIn) > 0
  /\ MintKeepsRatio(wbtcIn)
  /\ ComputeTwap
  /\ WbtcTransfer(sender, Reserve, wbtcIn)
  /\ OD!Mint(Reserve, sender, OdOut(wbtcIn))
  /\ UNCHANGED <<chainVars, owner, premintDone, orcVars>>

WbtcOut(od) == Net(WbtcForOd(od, Twap))

(* Mutant of BurnODAccepted: redemption keeps the ratio, as burnORC does. *)
BurnODKeepsRatio(sender, od) ==
  /\ od > 0
  /\ phase = LIVE
  /\ OracleReadable /\ Twap # 0
  /\ Fits(od * RATIO_SCALE) /\ Fits(WbtcForOd(od, Twap) * FEE)
  /\ WbtcOut(od) > 0
  /\ WithdrawalKeepsRatio(WbtcOut(od))
  /\ odReserve = Reserve
  /\ od <= odBalance[sender] /\ od <= odSupply
  /\ WbtcOut(od) <= ReserveWbtc

\* Everything burnOD asks for; there is no ratio check.
BurnODAccepted(sender, od) ==
  /\ od > 0
  /\ phase = LIVE
  /\ OracleReadable /\ Twap # 0
  /\ Fits(od * RATIO_SCALE) /\ Fits(WbtcForOd(od, Twap) * FEE)
  /\ WbtcOut(od) > 0
  /\ odReserve = Reserve
  /\ od <= odBalance[sender] /\ od <= odSupply
  /\ WbtcOut(od) <= ReserveWbtc

BurnOD(sender, od) ==
  /\ BurnODAccepted(sender, od)
  /\ ComputeTwap
  /\ OD!Burn(Reserve, sender, od)
  /\ WbtcTransfer(Reserve, sender, WbtcOut(od))
  /\ UNCHANGED <<chainVars, owner, premintDone, orcVars>>

-----------------------------------------------------------------------------
(* Calls on the other contracts, which this contract does not see. *)

\* scripts/bootstrap.ts step 0 passes the reserve's own address.
SetReserve(sender) ==
  /\ \/ OD!SetReserve(sender, Reserve) /\ UNCHANGED orcVars
     \/ ORC!SetReserve(sender, Reserve) /\ UNCHANGED odVars
  /\ UNCHANGED <<twapVars, owner, premintDone, wbtc>>

TransferTokenOwnership(sender, newOwner) ==
  /\ \/ OD!TransferOwnership(sender, newOwner) /\ UNCHANGED orcVars
     \/ ORC!TransferOwnership(sender, newOwner) /\ UNCHANGED odVars
  /\ UNCHANGED <<twapVars, owner, premintDone, wbtc>>

\* Holders move their tokens; WBTC sent to the reserve is a donation.
TransferTokens(from, to, amount) ==
  /\ amount > 0
  /\ \/ OD!Transfer(from, to, amount) /\ UNCHANGED <<wbtc, orcVars>>
     \/ ORC!Transfer(from, to, amount) /\ UNCHANGED <<wbtc, odVars>>
     \/ WbtcTransfer(from, to, amount) /\ UNCHANGED <<odVars, orcVars>>
  /\ UNCHANGED <<twapVars, owner, premintDone>>

OwnerStep(sender) ==
  \/ \E new \in NewOwners : TransferOwnership(sender, new)
  \/ \E price \in SeedPrices : OwnerAdvancePhase(sender, price)
  \/ \E pool \in Pools : OwnerInitPool(sender, pool)
  \/ \E od \in Amounts : PremintOD(sender, od)

UserStep(sender) ==
  \E n \in Amounts :
    \/ MintORC(sender, n)
    \/ BurnORC(sender, n)
    \/ MintOD(sender, n)
    \/ BurnOD(sender, n)
    \/ \E to \in Recipients : TransferTokens(sender, to, n)

AnyoneStep == GetTwap \/ GetReserveRatio \/ GetEquity \/ RefreshSnapshot

TokenOwnerStep(sender) ==
  \/ SetReserve(sender)
  \/ \E new \in NewOwners : TransferTokenOwnership(sender, new)

EnvironmentStep ==
  Environment /\ UNCHANGED <<oracleVars, owner, premintDone, moneyVars>>

Next ==
  \/ EnvironmentStep
  \/ AnyoneStep
  \/ \E sender \in Accounts :
       OwnerStep(sender) \/ UserStep(sender) \/ TokenOwnerStep(sender)

Spec == Init /\ [][Next]_vars

-----------------------------------------------------------------------------
TokenTypeOK(reserve, set, balance, supply) ==
  /\ reserve \in {NoAddress, Reserve}
  /\ set \in BOOLEAN
  /\ balance \in [Addresses -> Nat]
  /\ supply \in U256

TypeOK ==
  /\ OracleTypeOK
  /\ {owner, odOwner, orcOwner} \subseteq Accounts \cup {NoAddress}
  /\ premintDone \in BOOLEAN
  /\ wbtc \in [Addresses -> Nat]
  /\ TokenTypeOK(odReserve, odReserveSet, odBalance, odSupply)
  /\ TokenTypeOK(orcReserve, orcReserveSet, orcBalance, orcSupply)

(* The OD issued by premintOD stay covered at the seed price until a TWAP  *)
(* takes over: there is no other OD before LIVE and no way to take WBTC    *)
(* out, however the calls of that phase are ordered.                       *)
PremintCovered ==
  phase # LIVE => ReserveWbtc * seedPrice >= MIN_RATIO * odSupply

(* A LIVE reserve that covers its OD at 400% of the TWAP in force still    *)
(* does after any call, at that TWAP: no minting, burning or fee, with its *)
(* rounding, takes it below the floor; only the price can.                 *)
FloorKept ==
  [][ (phase = LIVE /\ Twap > 0 /\ ReserveWbtc * Twap >= MIN_RATIO * odSupply)
        => ReserveWbtc' * Twap >= MIN_RATIO * odSupply' ]_vars

EquityInForce(reserve, od) ==
  IF phase = LIVE THEN EquityInWbtc(reserve, od, Twap) ELSE reserve

(* No call, of whatever sender, lowers the equity behind one ORC at the    *)
(* price it was executed at: every division of the pricing formulas rounds *)
(* in favour of the reserve.  (premintOD is the exception by design.)      *)
EquityPerOrcNeverFalls ==
  [][ (phase # PREMINT /\ orcSupply > 0)
        => EquityInForce(ReserveWbtc, odSupply) * orcSupply'
             <= EquityInForce(ReserveWbtc', odSupply') * orcSupply ]_vars

NoOverflowBurning(od) ==
  Fits(od * RATIO_SCALE) /\ Fits(WbtcForOd(od, Twap) * FEE)

(* "burnOD is never blocked", in the form that holds: with a TWAP, and     *)
(* collateral worth the outstanding OD, every holder can redeem any amount *)
(* it holds that is not dust, wherever the ratio stands above 100%.        *)
CoveredRedemption ==
  \A a \in Accounts : \A od \in 1..odBalance[a] :
    ( /\ phase = LIVE /\ Twap > 0
      /\ ReserveWbtc * Twap >= RATIO_SCALE * odSupply
      /\ WbtcOut(od) > 0 /\ NoOverflowBurning(od) )
    => BurnODAccepted(a, od)

SumOf(f) == FoldFunction(LAMBDA x, y : x + y, 0, f)

(* The supplies that the pricing reads are what the holders own, and WBTC  *)
(* only moves between accounts.                                            *)
BalancesAddUp ==
  /\ SumOf(odBalance) = odSupply
  /\ SumOf(orcBalance) = orcSupply
  /\ SumOf(wbtc) = SumOf(WbtcHeld)

(* Every step of the whole is a step of the oracle alone, or none.         *)
RefinesOracle == OracleSpec

SR == INSTANCE StableReserve WITH
  stage <- phase, seed <- seedPrice,
  collateral <- ReserveWbtc, odCoins <- odSupply, orcCoins <- orcSupply

(* The contract implements the abstract reserve, at the TWAP of each call. *)
RefinesStableReserve == SR!Spec
=============================================================================
