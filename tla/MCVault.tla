-------------------------------- MODULE MCVault --------------------------------
(***************************************************************************)
(* A small vault: two liquidity providers with a few units of USDC each.   *)
(***************************************************************************)
EXTENDS VaultEnv, TLC

CONSTANTS alice, bob, admin, PmAddr

MCInitialUsdc == (alice :> 3) @@ (bob :> 2)
MCManagerPnls == {-1, 2}
===============================================================================
