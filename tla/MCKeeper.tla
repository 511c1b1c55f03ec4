------------------------------- MODULE MCKeeper -------------------------------
(***************************************************************************)
(* Two positions of one trader and one of another.                         *)
(***************************************************************************)
EXTENDS Keeper

CONSTANTS alice, bob

MCTraderOf == (1 :> alice) @@ (2 :> alice) @@ (3 :> bob)
===============================================================================
