------------------------------- MODULE MCIndexer -------------------------------
(***************************************************************************)
(* A position and three events, one more than an answer holds, over three  *)
(* ledgers: a close that is written in part, after its opening was passed. *)
(***************************************************************************)
EXTENDS Indexer
===============================================================================
