------------------------------- MODULE MCFunding -------------------------------
(***************************************************************************)
(* The funding contract under every open interest of a small set, and the  *)
(* funder with other keepers beside it.                                    *)
(***************************************************************************)
EXTENDS Funder

CONSTANT admin
===============================================================================
