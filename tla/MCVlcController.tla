---------------------------- MODULE MCVlcController ---------------------------
(* Small instances of VlcController for TLC.                                *)
EXTENDS VlcController, TLC

Symmetric == Permutations(Shutdowns)
==============================================================================
