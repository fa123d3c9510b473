----------------------------- MODULE MCSrvEvent -----------------------------
(***************************************************************************)
(* Instances of SrvEvent: the calls that the clients of a run make.  In a  *)
(* behaviour all calls are of one kind, and what the calls of this kind    *)
(* cannot wait for does not happen.                                        *)
(***************************************************************************)
EXTENDS SrvEvent

CONSTANTS inside, outside, Kinds

VARIABLE asked   \* the calls of this behaviour

Nowhere == [leave |-> FALSE, r |-> {}]
Plain   == [events |-> {}, MU_M1 |-> Nowhere, MU_M2 |-> Nowhere,
            any |-> FALSE, bmask |-> {}, bstate |-> {}, count |-> 0]

Message  == [Plain EXCEPT !.events = {"MU_MESAG"}]

\* evnt_mouse().
Enter == [Plain EXCEPT !.events = {"MU_M1"}, !.MU_M1 = [leave |-> FALSE, r |-> {inside}]]

\* evnt_multi() for a timer and for the mouse to enter or to leave an area; the
\* menu bar is what Evnt_do_multi() adds.
TimerEnter == [Enter EXCEPT !.events = {"MU_TIMER", "MU_M1"}, !.count = 2]
TimerLeave == [Plain EXCEPT !.events = {"MU_TIMER", "MU_M2", "MU_MENU_BAR"},
                            !.MU_M2 = [leave |-> TRUE, r |-> {inside}],
                            !.count = 0]

\* evnt_button() for the button to be released, and a call for a click, a key or
\* a message, anywhere.
Released == [Plain EXCEPT !.events = {"MU_BUTTON"}, !.bmask = Button]
Anything == [Plain EXCEPT !.events = {"MU_BUTTON", "MU_KEYBD", "MU_MESAG"},
                          !.any = TRUE, !.bmask = Button]

Clocks    == {TimerEnter, TimerLeave}
Inputs    == {Released, Anything}
Messages  == {Message}
JustEnter == {Enter}
Calls     == Clocks \cup Inputs

OneKind  == {Request}
TwoKinds == {Clocks, Inputs}

Positions == {inside, outside}
OnePosition == {outside}
MenuPositions == {outside}
NoButton  == {}
OneOwner  == {CHOOSE f \in [Pos -> Apid] : TRUE}

InitKind == Init /\ asked \in Kinds
NextKind ==
  /\ Next /\ UNCHANGED asked
  /\ \A a \in DOMAIN call' : call'[a] \in asked
  /\ asked = Inputs => UNCHANGED timer_counter
  /\ asked = Clocks => UNCHANGED <<keys, menu>>
SpecKind == InitKind /\ [][NextKind]_<<vars, asked>>
FairSpecKind == SpecKind /\ Fairness
=============================================================================
