----------------------------- MODULE MCDownloads -----------------------------
(***************************************************************************)
(* Downloads for TLC.                                                      *)
(***************************************************************************)
EXTENDS Downloads, TLC

\* Tasks and file names are interchangeable in the properties of a state.
Symmetry == Permutations(Tasks) \union Permutations(Files)
=============================================================================
