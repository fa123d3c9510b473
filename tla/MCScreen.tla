------------------------------ MODULE MCScreen ------------------------------
(***************************************************************************)
(* Two applications handle events, and each is clicked on the slider or on *)
(* the title bar of a window.                                              *)
(***************************************************************************)
EXTENDS Screen

EventsOnly == [c \in Client |-> {{"MU_MESAG"}}]
NoCalls    == [c \in Client |-> {}]
Bars       == {"slider", "mover"}
=============================================================================
