-------------------------------- MODULE MCPerps --------------------------------
(***************************************************************************)
(* All contracts from the first call of the deployment on: a user who      *)
(* provides liquidity and trades two assets, and a keeper.                 *)
(***************************************************************************)
EXTENDS Perps, TLC

CONSTANTS user, keeper, deployer, xlm, btc, FrAddr, OtherPm

\* The funding contract's environment: any open interest that is not negative.
MCOpenInterests == Nat

MCInitialUsdc == (user :> 28) @@ (keeper :> 0)
===============================================================================
