------------------------------ MODULE MCConsole ------------------------------
(***************************************************************************)
(* One tab of the console on one page, for TLC. What a configuration does   *)
(* with an app does not depend on which configuration it is.                *)
(***************************************************************************)
EXTENDS Console, TLC

ConfigSymmetry == Permutations(Templates)
=============================================================================
