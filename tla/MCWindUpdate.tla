---------------------------- MODULE MCWindUpdate ----------------------------
(* Instances of WindUpdate for TLC.                                        *)
EXTENDS WindUpdate, TLC

Twice      == [l \in Lock |-> 2]
NestUpdate == [UPDATE |-> 2, MCTRL |-> 1]
Symmetry   == Permutations(Client)
=============================================================================
