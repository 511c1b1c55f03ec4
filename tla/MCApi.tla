--------------------------------- MODULE MCApi ---------------------------------
(***************************************************************************)
(* One request, two WebSocket clients and two broadcasts that overlap.     *)
(***************************************************************************)
EXTENDS ApiServer

CONSTANT get
===============================================================================
