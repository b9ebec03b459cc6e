------------------------------- MODULE MCUnits -------------------------------
(***************************************************************************)
(* Instance of Units for TLC: the divider with all operands of four bits   *)
(* (hence all halfwords of two), the multiplier with all of six, two       *)
(* stores before each load, a CLINT of three bits, two trained counters    *)
(* and the last, and a stack of four return addresses.                     *)
(***************************************************************************)
EXTENDS Units

AllWords == Val
=============================================================================
