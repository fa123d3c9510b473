------------------------------ MODULE MCSafety ------------------------------
(***************************************************************************)
(* The parts whose properties are safety properties, side by side: a       *)
(* behaviour is one of one of them and leaves the others alone.            *)
(***************************************************************************)
EXTENDS Appl, TitleBars, Screen, TLC

CONSTANTS Part, Avoided

VARIABLES
  part,
  upper, size, above, mine, theirs, copies, wanted, by,
  intin, addrin, intout, calls, taken, answer,
  head, tail, next, unseen, kids

R(x, y, w, h) == [x |-> x, y |-> y, w |-> w, h |-> h]

(* A desktop of four by four cells; the window above cuts the other one at *)
(* a corner, at an edge, in the middle or in two, and both may leave it.   *)
Desktop == R(0, 0, 4, 4)
Sizes == {R(0, 0, 2, 3), R(1, 0, 2, 3), R(1, 1, 3, 3),
          R(0, 1, 3, 3), R(1, 1, 2, 2), R(-1, 1, 3, 3)}
Uppers == {R(0, 0, 2, 2), R(2, 0, 2, 1), R(1, 1, 1, 1),
           R(1, 2, 3, 2), R(0, 1, 4, 1)}

Rects == INSTANCE RectList WITH Screen <- Desktop, asked <- wanted
Bound == INSTANCE Binding WITH MaxCalls <- 2
\* Four objects that overlap their brothers and stick out of their parents.
Trees == INSTANCE ObjectTree WITH hidden <- unseen, LASTOB <- 3, MaxOut <- 1,
            OB_X     <- [o \in 0 .. 3 |-> (<<1, 0, 1, 2>>)[o + 1]],
            OB_WIDTH <- [o \in 0 .. 3 |-> (<<4, 3, 2, 3>>)[o + 1]]

(* One application makes every call of the library, clicks everywhere and  *)
(* gets two events at a time; the other takes and returns both locks, in   *)
(* either order.                                                           *)
User == CHOOSE c \in Client : TRUE
UserAsks == [c \in Client |->
  IF c = User THEN {{"MU_MESAG"}, {"MU_MESAG", "MU_BUTTON", "MU_KEYBD"}} ELSE {}]
UserCalls == [c \in Client |->
  IF c # User THEN {"Wind_update", "Update_first"}
  ELSE {"Graf_rubberbox", "Graf_dragbox", "Graf_growbox", "Graf_watchbox", "Graf_slidebox",
        "Form_do", "Menu_popup", "Fsel_input", "Evnt_button", "Wind_update",
        "Update_form"}]
Everywhere == {"closer", "smaller", "sizer", "mover", "arrow", "slider", "border",
               "user", "covered", "icon"}

(* Calls whose arguments miss their place, and those that have no routine  *)
(* or whose routine leaves int_out[0] alone.                               *)
Unsound ==
  {"evnt_dclick", "form_button", "graf_growbox", "graf_shrinkbox",
   "objc_order", "shel_get", "shel_put", "evnt_timer", "form_center", "rsrc_free"}

rects  == <<upper, size, above, mine, theirs, copies, wanted, by>>
block  == <<intin, addrin, intout, calls, taken, answer>>
objects == <<head, tail, next, unseen, kids>>
tables == vars
all == <<part, rects, tables, screenVars, block, objects, titleVars>>

\* Processes are alike.
Symmetry == Permutations(Pid)

InitPart ==
  /\ part \in Part
  /\ Init /\ Rects!Init /\ ScreenInit /\ Bound!Init /\ Trees!Init /\ TitlesInit
  /\ part # "rlist" => size = R(0, 0, 2, 3)

NextPart ==
  \/ /\ part = "appl" /\ Next
     /\ UNCHANGED <<part, rects, screenVars, block, objects, titleVars>>
  \/ /\ part = "rlist" /\ Rects!Next
     /\ UNCHANGED <<part, tables, screenVars, block, objects, titleVars>>
  \/ /\ part = "screen" /\ ScreenNext
     /\ UNCHANGED <<part, rects, tables, block, objects, titleVars>>
  \/ /\ part = "binding" /\ Bound!Next
     /\ UNCHANGED <<part, rects, tables, screenVars, objects, titleVars>>
  \/ /\ part = "objc" /\ Trees!Next
     /\ UNCHANGED <<part, rects, tables, screenVars, block, titleVars>>
  \/ /\ part = "titles" /\ TitlesNext
     /\ UNCHANGED <<part, rects, tables, screenVars, block, objects>>

SpecPart == InitPart /\ [][NextPart]_all
-----------------------------------------------------------------------------
\* Rectangle lists cover what is to be seen of their windows, once.
ListsAreExact == part = "rlist" => Rects!ListsAreExact

\* What a moved window shows is copied from where it could be seen, or asked for.
CopiedOrAsked == Rects!CopiedOrAsked

\* Every argument of a call reaches its routine.
ArgumentsArrive == part = "binding" => Bound!ArgumentsArrive

\* What is drawn, found and measured along the links is the tree that was built.
LinksAreTheTree == part = "objc" => Trees!LinksAreTheTree

\* Every result of a call is of this call.
ResultIsFresh == part = "binding" => Bound!ResultIsFresh
=============================================================================
