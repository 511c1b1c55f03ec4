------------------------------ MODULE PerpsTypes ------------------------------
(***************************************************************************)
(* What the contracts share (crate perps-types): the two directions of a   *)
(* position, the basis-point denominator, and the addresses that are not   *)
(* the subject of any one contract.                                        *)
(***************************************************************************)
EXTENDS Integers

CONSTANTS
    Admins,     \* addresses that may be handed to an initialize as the admin
    NoAddress   \* an instance-storage key that holds no address yet

ASSUME NoAddressAssumption == NoAddress \notin Admins

\* A position gains when the price rises (Long) or falls (Short).
Directions == {"Long", "Short"}

\* BPS_DENOMINATOR.
BPS == 10000
===============================================================================
