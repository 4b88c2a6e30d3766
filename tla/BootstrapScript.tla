--------------------------- MODULE BootstrapScript ---------------------------
(***************************************************************************)
(* scripts/bootstrap.ts: one run over all steps after the deployment, and  *)
(* runs of a single step after a failure.  A process that a revert or an   *)
(* RPC error stops leaves nothing behind but the transactions it has sent. *)
(*                                                                         *)
(* The operator re-runs the first step whose effect is missing on chain,   *)
(* once what was sent before is included.                                  *)
(***************************************************************************)
EXTENDS Submission, FiniteSetsExt

CONSTANTS
  SeedWbtc, SeedPrice,  \* SEED_WBTC_AMOUNT, SEED_PRICE
  MaxRpcErrors          \* bound of the model

ASSUME ScriptAssumption ==
  /\ SeedWbtc \in Nat \ {0} /\ SeedPrice \in Nat \ {0}
  /\ MaxRpcErrors \in Nat

VARIABLES
  step,       \* the step being run, Exited when no process runs
  at,         \* which transaction of the step is next
  whole,      \* the process was started without a step argument
  rpcErrors

scriptVars == <<step, at, whole, rpcErrors>>
allVars == <<submissionVars, scriptVars>>

Exited == 9

PremintOd == ((SeedWbtc * SeedPrice) \div RATIO_SCALE) \div 5


RouterApprovals ==
  <<Tx("approveRouter", "WBTC", LiquidityWbtc), Tx("approveRouter", "OD", LiquidityOd)>>

\* The transactions of each step, in order; step 8 only prints.
Calls(s) ==
  <<<<Tx("setReserve", "OD", Reserve), Tx("setReserve", "ORC", Reserve)>>,
    <<Tx("increaseAllowance", "WBTC", SeedWbtc), Tx("mintORC", "Reserve", SeedWbtc)>>,
    <<Tx("advancePhase", "Reserve", SeedPrice)>>,
    <<Tx("premintOD", "Reserve", PremintOd)>>,
    RouterApprovals,
    <<Tx("createPool", "Factory", ThePool)>>,
    <<Tx("addLiquidity", "Router", ThePool)>>,
    <<Tx("initPool", "Reserve", ThePool)>>,
    <<>>>>[s + 1]

ScriptInit ==
  /\ SubmissionInit
  /\ step = 0 /\ at = 1
  /\ whole = TRUE
  /\ rpcErrors = 0

-----------------------------------------------------------------------------
Exit ==
  /\ step' = Exited
  /\ at' = 1
  /\ whole' = FALSE

Waiting == step # Exited /\ at <= Len(Calls(step))
Current == Calls(step)[at]

Send ==
  /\ Waiting
  /\ Simulates(Deployer, Current)
  /\ Broadcast(Deployer, Current)
  /\ at' = at + 1
  /\ UNCHANGED <<vars, marketVars, step, whole, rpcErrors>>

(* Mutant of Revert: a reverted call is reported and passed over. *)
RevertPassedOver ==
  /\ Waiting
  /\ ~Simulates(Deployer, Current)
  /\ at' = at + 1
  /\ UNCHANGED <<submissionVars, step, whole, rpcErrors>>

\* "<method> reverted: ...", and process.exit(1).
Revert ==
  /\ Waiting
  /\ ~Simulates(Deployer, Current)
  /\ Exit
  /\ UNCHANGED <<submissionVars, rpcErrors>>

\* The node does not answer: the transaction may have got through or not.
RpcError ==
  /\ Waiting
  /\ rpcErrors < MaxRpcErrors
  /\ rpcErrors' = rpcErrors + 1
  /\ Exit
  /\ \/ Simulates(Deployer, Current) /\ Broadcast(Deployer, Current)
     \/ UNCHANGED mempool
  /\ UNCHANGED <<vars, marketVars>>

EndStep ==
  /\ step # Exited
  /\ at > Len(Calls(step))
  /\ IF whole /\ step < 8
     THEN step' = step + 1 /\ at' = 1 /\ UNCHANGED whole
     ELSE Exit
  /\ UNCHANGED <<submissionVars, rpcErrors>>

-----------------------------------------------------------------------------
(* The operator. *)

Missing ==
  {s \in 0..7 :
     ~ \/ s = 0 /\ odReserveSet /\ orcReserveSet
       \/ s = 1 /\ orcSupply > 0
       \/ s = 2 /\ phase # SEEDING
       \/ s = 3 /\ premintDone
       \/ s = 4 /\ (routerAllowed[Deployer] = {"OD", "WBTC"} \/ spot[ThePool] > 0)
       \/ s = 5 /\ poolCreated
       \/ s = 6 /\ spot[ThePool] > 0
       \/ s = 7 /\ PoolSet}

Rerun ==
  /\ step = Exited
  /\ mempool[Deployer] = <<>>
  /\ Missing # {}
  /\ step' = Min(Missing)
  /\ UNCHANGED <<submissionVars, at, whole, rpcErrors>>

\* "You can also manually trigger a TWAP update", which restarts the window.
ManualUpdate ==
  /\ step = Exited
  /\ Call(Deployer, Tx("updateTwapSnapshot", "Reserve", 0))
  /\ UNCHANGED mempool

Script == Send \/ Revert \/ EndStep

ScriptNext ==
  \/ Script \/ RpcError \/ Rerun
  \/ /\ Include(Deployer) \/ NextBlock \/ ReadPrice \/ ManualUpdate
     /\ UNCHANGED scriptVars

ScriptSpec == ScriptInit /\ [][ScriptNext]_allVars

\* A process runs on, the chain includes what was sent, and the operator does
\* not give up.
ScriptFairSpec ==
  /\ ScriptSpec
  /\ WF_allVars(Script)
  /\ WF_allVars(Rerun)
  /\ WF_allVars(Include(Deployer) /\ UNCHANGED scriptVars)

-----------------------------------------------------------------------------
(* The reserve never leaves SEEDING empty, although the script sends       *)
(* advancePhase without waiting for the deposit to be included and the     *)
(* contract would accept it: mintORC is refused in PREMINT, so an empty    *)
(* reserve could not be seeded any more, nor premint.                      *)
SeedBeforePremint == phase # SEEDING => ReserveWbtc > 0

(* What all steps are for: only time and a reading of the TWAP are then    *)
(* missing for LIVE.                                                       *)
Deployed ==
  /\ odReserveSet /\ orcReserveSet
  /\ phase # SEEDING /\ ReserveWbtc >= SeedWbtc
  /\ premintDone /\ spot[ThePool] > 0 /\ PoolSet

=============================================================================
