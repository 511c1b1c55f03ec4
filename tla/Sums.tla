--------------------------------- MODULE Sums ---------------------------------
(***************************************************************************)
(* The total of a function into the natural numbers, counted unit by unit: *)
(* the elements of the disjoint union of {x} \X 1..f[x].  Written this way *)
(* and not as a fold, the facts about it follow from the library's facts   *)
(* about the cardinality of unions and products, without induction.        *)
(***************************************************************************)
EXTENDS Naturals, FiniteSets

Units(f, x) == {x} \X (1 .. f[x])

SumOver(f) == Cardinality(UNION {Units(f, x) : x \in DOMAIN f})
===============================================================================
