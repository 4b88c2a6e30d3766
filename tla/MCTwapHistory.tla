---------------------------- MODULE MCTwapHistory ----------------------------
(***************************************************************************)
(* MCTwapOracle with two history variables that define the average the     *)
(* oracle is after: `total` adds up the WBTC price of the bound pool at    *)
(* the end of every block since the snapshot, and `synced` says that the   *)
(* snapshot was taken from accumulators a trade had brought up to date.    *)
(***************************************************************************)
EXTENDS MCTwapOracle

VARIABLES total, synced

historyVars == <<twapVars, total, synced>>

snapshot == <<poolAddr, snapshotVars>>

PriceNow == IF PoolSet THEN spot[poolAddr] ELSE 0

HistoryInit == OracleInit /\ total = 0 /\ synced = FALSE

Observe ==
  IF snapshot' # snapshot
  THEN total' = 0 /\ synced' = (lastTrade[poolAddr'] = block)
  ELSE /\ total' = IF block' # block THEN total + PriceNow ELSE total
       /\ UNCHANGED synced

HistoryNext == OracleNext /\ Observe

\* The fairness of OracleFairSpec: blocks are produced, somebody reads.
HistorySpec ==
  /\ HistoryInit /\ [][HistoryNext]_historyVars
  /\ WF_historyVars(MineBlock /\ UNCHANGED oracleVars /\ Observe)
  /\ WF_historyVars(ComputeTwap /\ UNCHANGED chainVars /\ Observe)

-----------------------------------------------------------------------------
(* docs/protocol/twap.md, "rolling average": between two points at which   *)
(* the pool's accumulators are up to date, the TWAP is the mean, over the  *)
(* blocks since the snapshot, of the WBTC price at the end of each block,  *)
(* whichever side WBTC is listed on and however often pools are rebound.   *)
TwapIsRollingAverage ==
  (synced /\ Elapsed > 0 /\ lastTrade[poolAddr] = block)
    => Twap = total \div Elapsed
=============================================================================
