---------------------------- MODULE MCTitleBars ----------------------------
(* An instance of TitleBars for TLC.                                       *)
EXTENDS TitleBars, TLC

Symmetry == Permutations(Apps)
=============================================================================
