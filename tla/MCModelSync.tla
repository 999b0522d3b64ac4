---------------------------- MODULE MCModelSync -----------------------------
(* ModelSync for TLC: the constants are given in the configurations.         *)
EXTENDS ModelSync, TLC
=============================================================================
