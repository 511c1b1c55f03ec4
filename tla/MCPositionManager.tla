--------------------------- MODULE MCPositionManager ---------------------------
(***************************************************************************)
(* A provider who also trades, and a trader.                               *)
(***************************************************************************)
EXTENDS Deployment, TLC

CONSTANTS lp, trader, deployer, xlm, LeAddr, OtherPm, FrAddr

MCInitialUsdc == (lp :> 40) @@ (trader :> 12)
===============================================================================
