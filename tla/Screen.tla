------------------------------- MODULE Screen -------------------------------
(***************************************************************************)
(* The part of the client library that talks with the user: evnt_multi(),  *)
(* the clicks on window elements and on the menu bar (evnthndl.c), the     *)
(* dragged boxes (graf.c), dialogs (form.c), pop-ups (menu.c) and the file *)
(* selector (fsel.c).  It runs in the application, in several at a time,   *)
(* and what they share is the screen: the two locks of wind_update() (the  *)
(* abstract ReentrantLock of each), the cursor and its form, and what is   *)
(* drawn on top of the windows.  The window that a dialog opens for itself *)
(* (Form_do_dial) is left to module Windows.                               *)
(*                                                                         *)
(* A function is the sequence of its steps, "todo" is what an application  *)
(* still has to do.  Where the code tests data that is not kept here (the  *)
(* position of the mouse, the flags of an object) either branch is taken.  *)
(***************************************************************************)
EXTENDS Integers, Sequences, FiniteSets

CONSTANTS
  Client,
  Asks,       \* the sets of events each application asks evnt_multi() for
  Calls,      \* the other calls it makes, names of Call
  Places,     \* where they are clicked
  Together    \* most events that the server reports in one answer

VARIABLES
  todo,       \* steps left of the call an application is in
  call,       \* the call it is in, "none" while the application itself runs
  asked,      \* the events it asked evnt_multi() for
  out,        \* events_out of that call
  got,        \* events of the last inner wait
  used,       \* messages and reports the last click has led to
  hidden,     \* v_hide_c() calls that v_show_c() has not undone
  marked,     \* objects that are selected, or drawn on top
  lines,      \* are lines drawn with MD_XOR on the screen?
  doing,      \* "slider", "redraw" and "application" are told apart
  form,       \* current and last of srv_graf_mouse()
  updateDepth, updateLine, mctrlDepth, mctrlLine   \* the two locks

events == <<asked, out, used>>
locks  == <<updateDepth, updateLine, mctrlDepth, mctrlLine>>
shown  == <<hidden, marked, lines, doing>>
screenVars == <<todo, call, events, got, shown, form, locks>>

UPDATE == INSTANCE ReentrantLock WITH depth <- updateDepth, waiting <- updateLine
MCTRL  == INSTANCE ReentrantLock WITH depth <- mctrlDepth, waiting <- mctrlLine

-----------------------------------------------------------------------------
(* The steps. *)
BEG(l)     == [beg |-> l]                \* Wind_do_update()
END(l)     == [end |-> l]
Mouse(m)   == [mouse |-> m]              \* the cursor is hidden or shown
Form(m)    == [form |-> m]               \* its form is changed
Mark(o)    == [mark |-> o]               \* state set, and drawn
Clear(o)   == [clear |-> o]
Bare(o)    == [mark |-> o, bare |-> TRUE]   \* drawn with the cursor as it is
Unselect(o) == [unselect |-> o]          \* state reset, and not drawn
Line       == [line |-> "MD_XOR"]
Wait(E)    == [wait |-> E]               \* Evnt_do_multi(), no messages, no menu
Multi      == [multi |-> "HANDLE_MENU_BAR"]
Tell(m)    == [send |-> m]               \* Appl_do_write()
Report(E)  == [report |-> E]             \* |= in events_out
Remember(e) == [note |-> e]
Doing(d)   == [doing |-> d]
Either(a, b) == [either |-> <<a, b>>]
If(e, a, b)  == [when |-> e, then |-> a, else |-> b]
Until(e, body) == [until |-> e, body |-> body]

BUTTON == "MU_BUTTON"
M1     == "MU_M1"
KEYBD  == "MU_KEYBD"
TIMER  == "MU_TIMER"
MESAG  == "MU_MESAG"
MENU   == "MU_MENU_BAR"

\* drawn between M_OFF and M_ON
Hidden(steps) == <<Mouse("M_OFF")>> \o steps \o <<Mouse("M_ON")>>

\* Objc_do_draw() hides the cursor for itself
Drawn(step) == <<Mouse("v_hide_c"), step, Mouse("v_show_c")>>

(* Objc_do_change() of form.c gets the application's identifier for the     *)
(* workstation to draw on: its own one, if that has the same number, whose  *)
(* cursor is hidden then, or another.                                       *)
Astray(o) == <<Either(Drawn(Mark(o)), <<Bare(o)>>)>>

Evnt_do_button == <<Wait({BUTTON})>>

-----------------------------------------------------------------------------
(* graf.c: the boxes of the mouse *)

(* The lines are put on the screen, moved with the mouse and taken off     *)
(* again; a button that is up already ends it at once.                     *)
Dragged ==
  <<Either(<<>>,
      Hidden(<<Line>>)
      \o <<Until(BUTTON,
             <<Wait({BUTTON, M1}),
               If(M1, <<Either(<<>>, Hidden(<<Line, Line>>))>>, <<>>)>>)>>
      \o Hidden(<<Line>>))>>

Graf_do_rubberbox == Dragged
Graf_do_dragbox   == Dragged

Graf_rubberbox == <<BEG("MCTRL")>> \o Graf_do_rubberbox \o <<END("MCTRL")>>
Graf_dragbox   == <<BEG("MCTRL")>> \o Graf_do_dragbox \o <<END("MCTRL")>>

Graf_do_grmobox ==
  <<BEG("UPDATE"), Mouse("v_hide_c"), Line, Line, Mouse("v_show_c"), END("UPDATE")>>

\* instate while the mouse is on the object, outstate while it is not
Graf_do_watchbox(obj) ==
  <<Either(Hidden(Drawn(Mark(obj))), Hidden(Drawn(Clear(obj)))),
    BEG("MCTRL"),
    Until(BUTTON,
      <<Wait({BUTTON, M1}),
        If(BUTTON, <<>>,
           <<If(obj, Hidden(Drawn(Clear(obj))), Hidden(Drawn(Mark(obj))))>>)>>),
    END("MCTRL")>>

Graf_do_slidebox == <<BEG("MCTRL")>> \o Graf_do_dragbox \o <<END("MCTRL")>>

-----------------------------------------------------------------------------
(* evnthndl.c: clicks on window elements *)

Wind_change(step) == Hidden(Drawn(step))

\* Mutant of handle_arrow_click: waits between M_OFF and M_ON.
ArrowWaitsHidden ==
  <<BEG("MCTRL")>>
  \o Hidden(Drawn(Mark("arrow")) \o Evnt_do_button \o Drawn(Clear("arrow")))
  \o <<Tell("WM_ARROWED"), END("MCTRL")>>

\* beside the slider no object changes
handle_arrow_click ==
  <<BEG("MCTRL"),
    Either(Wind_change(Mark("arrow")) \o Evnt_do_button \o Wind_change(Clear("arrow")),
           Evnt_do_button),
    Tell("WM_ARROWED"), END("MCTRL")>>

\* a short click tops the window, a button that stays down moves it
handle_mover_click ==
  <<BEG("MCTRL")>> \o Wind_change(Mark("name"))
  \o <<Wait({BUTTON, TIMER}),
       If(BUTTON, <<Tell("WM_TOPPED")>>,
          <<Form("FLAT_HAND"), BEG("UPDATE")>> \o Graf_do_dragbox
          \o <<Tell("WM_MOVED"), END("UPDATE"), Form("M_RESTORE")>>)>>
  \o Wind_change(Clear("name")) \o <<END("MCTRL")>>

handle_sizer_click ==
  <<BEG("MCTRL")>> \o Wind_change(Mark("sizer")) \o Graf_do_rubberbox
  \o <<Tell("WM_SIZED"), BEG("UPDATE")>> \o Wind_change(Clear("sizer"))
  \o <<END("UPDATE"), END("MCTRL")>>

handle_smaller_click ==
  <<BEG("MCTRL")>> \o Graf_do_watchbox("smaller")
  \o <<If("smaller", <<Tell("WM_ICONIFY")>>, <<>>)>>
  \o Wind_change(Clear("smaller")) \o <<END("MCTRL")>>

handle_window_button_click(obj) ==
  <<BEG("MCTRL")>> \o Graf_do_watchbox(obj)
  \o <<If(obj, <<Tell("WM_CLOSED")>>, <<>>)>>
  \o Wind_change(Clear(obj)) \o <<END("MCTRL")>>

\* Mutant of handle_slider_click: returns with the screen still locked.
SliderKeepsUpdate ==
  <<Doing("slider"), Form("FLAT_HAND")>> \o Wind_change(Mark("slider"))
  \o <<BEG("UPDATE")>> \o Graf_do_slidebox \o <<Tell("WM_VSLID")>>
  \o Wind_change(Clear("slider")) \o <<Form("M_RESTORE"), Doing("other")>>

\* The only one that asks for MCTRL (in Graf_do_slidebox) inside UPDATE.
handle_slider_click ==
  <<Doing("slider"), Form("FLAT_HAND")>> \o Wind_change(Mark("slider"))
  \o <<BEG("UPDATE")>> \o Graf_do_slidebox \o <<Tell("WM_VSLID"), END("UPDATE")>>
  \o Wind_change(Clear("slider")) \o <<Form("M_RESTORE"), Doing("other")>>

\* a press and a release for each click that is left to count
count_clicks ==
  <<Until("counted",
      <<Either(<<Remember("counted")>>,
          <<Wait({BUTTON, TIMER}),
            If(BUTTON, <<Wait({BUTTON, TIMER}), If(BUTTON, <<>>, <<Remember("counted")>>)>>,
                       <<Remember("counted")>>)>>)>>)>>

\* Mutant of handle_user_click: does not look at what was asked for.
UserClickUnasked(E) == <<Either(<<>>, count_clicks \o <<Report({BUTTON})>>)>>

\* a click that matches the pattern the application asked for
handle_user_click(E) ==
  IF BUTTON \in E THEN <<Either(<<>>, count_clicks \o <<Report({BUTTON})>>)>> ELSE <<>>

\* "border" is what is none of the objects with a handler
handle_window_element_click(obj, E) ==
  CASE obj \in {"closer", "fuller"} -> handle_window_button_click(obj)
    [] obj = "smaller" -> handle_smaller_click
    [] obj = "sizer"   -> handle_sizer_click
    [] obj = "mover"   -> handle_mover_click
    [] obj = "arrow"   -> handle_arrow_click
    [] obj = "slider"  -> handle_slider_click
    [] obj = "border"  -> <<Either(<<Tell("WM_TOPPED")>>, handle_user_click(E))>>

Element == {"closer", "fuller", "smaller", "sizer", "mover", "arrow", "slider", "border"}

(* Where the button is pressed: "user" is the desktop, a dialog, the inside *)
(* of the top window or another button; "covered" the inside of another     *)
(* window, "icon" an iconified one.                                         *)
Target == Element \union {"user", "covered", "icon"}

Somewhere == CHOOSE p \in Places : TRUE

Evhd_handle_button(place, E) ==
  CASE place = "user" -> handle_user_click(E)
    [] place = "covered" -> <<Tell("WM_TOPPED")>>
    [] place = "icon" -> Evnt_do_button
         \o <<Either(<<Tell("WM_UNICONIFY")>>,
                     <<Either(<<Tell("WM_TOPPED")>>, handle_user_click(E))>>)>>
    [] OTHER -> handle_window_element_click(place, E)

-----------------------------------------------------------------------------
(* evnthndl.c: the menu bar *)

\* an entry below the mouse, until it is left or clicked
handle_drop_down ==
  <<Either(<<>>, Hidden(Drawn(Mark("entry")))),
    Wait({BUTTON, M1}),
    If(M1, <<If("entry", Hidden(Drawn(Clear("entry"))), <<>>)>>,
       Evnt_do_button \o <<Unselect("entry"), Remember("closebox")>>)>>

\* Mutant of handle_selected_title: takes the screen before the mouse.
TitleLocksScreenFirst ==
  Hidden(Drawn(Mark("title")))
  \o <<BEG("UPDATE"), BEG("MCTRL")>>
  \o Hidden(<<Mark("saved")>>) \o Drawn(Mark("box"))
  \o <<Until("closebox",
         <<Wait({M1}), Either(<<Remember("closebox")>>, handle_drop_down)>>)>>
  \o Hidden(Drawn(Clear("title"))) \o Hidden(<<Clear("saved")>>)
  \o <<END("UPDATE"), END("MCTRL"), Unselect("box")>>

\* "saved" is the screen below the box, "box" the box itself
handle_selected_title ==
  Hidden(Drawn(Mark("title")))
  \o <<BEG("MCTRL"), BEG("UPDATE")>>
  \o Hidden(<<Mark("saved")>>)
  \o <<Either(Drawn(Mark("box")), Hidden(Drawn(Mark("box"))))>>
  \o <<Until("closebox",
         <<Wait({M1}), Either(<<Remember("closebox")>>, handle_drop_down)>>)>>
  \o Hidden(Drawn(Clear("title")))
  \o Hidden(<<Clear("saved")>>)
  \o <<END("UPDATE"), END("MCTRL"), Unselect("box")>>

\* AC_OPEN, MN_SELECTED, or Appl_do_control(), or nothing
Evhd_handle_menu ==
  <<Either(<<>>, handle_selected_title \o <<Either(<<>>, <<Tell("menu")>>)>>)>>

-----------------------------------------------------------------------------
(* form.c, menu.c and fsel.c *)

\* ED_END, and ED_INIT for another object; draw_cursor() does not hide the mouse
Objc_do_edit(init) == <<If("cursor", <<Clear("cursor")>>, <<>>)>> \o init

\* ED_CHAR: the text cursor is taken off, the text drawn, and the cursor put back
handle_ed_char ==
  <<If("cursor", <<Clear("cursor")>>, <<>>), Either(<<>>, Drawn(Mark("own"))),
    Mark("cursor")>>

\* An object with EXIT or SELECTABLE; and one with TOUCHEXIT alone, with
\* EDITABLE alone, or none: there the click leads to nothing.
Form_do_button ==
  <<Either(
      <<Either(<<Either(<<>>, Astray("own"))>> \o Evnt_do_button,    \* a radio button
               Graf_do_watchbox("own")),
        Either(<<Remember("exit")>>, <<>>)>>,
      <<Either(<<Remember("exit")>>,
               <<Either(<<>>, Objc_do_edit(<<Mark("cursor")>>))>>)>>)>>

Form_do_keybd ==
  <<Either(Astray("own") \o <<Remember("exit")>>,    \* the default button
           <<Either(<<>>,
               <<Either(Objc_do_edit(<<>>),
                        <<Either(Objc_do_edit(<<Mark("cursor")>>), handle_ed_char)>>)>>)>>)>>

Form_do_do ==
  <<Either(<<>>, <<Mark("cursor")>>), BEG("MCTRL"),
    Until("exit",
      <<Wait({BUTTON, KEYBD}),
        If(BUTTON,
           <<If(KEYBD, Form_do_button \o <<If("exit", <<>>, Form_do_keybd)>>,
                Form_do_button)>>,
           Form_do_keybd)>>)>>
  \o Objc_do_edit(<<>>) \o <<END("MCTRL")>>

wait_for_selection ==
  <<Until("left",
      <<Wait({BUTTON, M1}),
        If(BUTTON, <<Unselect("own"), Remember("left")>>,
           <<Either(<<Remember("left")>>, Drawn(Clear("own")) \o Drawn(Mark("own")))>>)>>)>>

Menu_do_popup ==
  <<BEG("MCTRL"), BEG("UPDATE")>> \o Drawn(Mark("own")) \o wait_for_selection
  \o <<END("UPDATE"), END("MCTRL")>>

slider_handle ==
  <<Either(<<>>,
      <<BEG("MCTRL"), Form("FLAT_HAND")>> \o Drawn(Mark("fslider"))
      \o <<Until(BUTTON,
             <<Wait({BUTTON, M1}),
               If(BUTTON,
                  Drawn(Clear("fslider"))
                  \o <<Form("M_RESTORE"),
                       Either(<<>>, Drawn(Mark("own")) \o <<Either(<<>>, Evnt_do_button)>>)>>,
                  <<Either(<<>>, Drawn(Mark("own")))>>)>>),
           END("MCTRL")>>)>>

\* FISEL_UP and FISEL_DOWN: the list is copied by a line where it stands
Fsel_scroll ==
  <<Either(<<>>, Drawn(Mark("own")) \o <<Bare("own")>> \o Drawn(Mark("own")))>>

\* Another object: a file, the bar of the slider, OK and Cancel, or the way to
\* another directory, which is read below the bee.
Fsel_pick ==
  <<Either(<<>>, Drawn(Mark("own"))),
    Either(<<Remember("done")>>,
           <<Either(<<>>, <<Form("BUSY_BEE")>> \o Drawn(Mark("own")) \o <<Form("M_RESTORE")>>)>>)>>

Fsel_do_exinput ==
  <<Form("BUSY_BEE")>> \o Drawn(Mark("own"))
  \o <<Form("ARROW"),
       Until("done",
         Form_do_do \o <<Either(slider_handle, <<Either(Fsel_scroll, Fsel_pick)>>)>>)>>

-----------------------------------------------------------------------------
(* Evnt_do_multi(): what a message that was taken from the server leads to. *)
RedrawElements ==
  <<Doing("redraw")>>
  \o Hidden(<<BEG("UPDATE")>> \o Drawn(Mark("border")) \o <<Unselect("border"), END("UPDATE")>>)
  \o <<Doing("other")>>

\* The messages that are told apart; "desk" is a WM_REDRAW for the desktop
\* or the menu bar, and the only one that the application does not see.
Message == {"WM_REDRAW", "desk", "other"}

Read(m) ==
  (IF m \in {"WM_REDRAW", "desk"} THEN RedrawElements ELSE <<>>)
  \o (IF m = "desk" THEN <<>> ELSE <<Report({MESAG})>>)

(* An application's own sections: wind_update() is called for either lock   *)
(* as it likes.  "Wind_update" is the order of the library, MCTRL outside; *)
(* in "Update_first" MCTRL is asked for inside UPDATE, and in               *)
(* "Update_form" by a dialog of the library.  Each is one call here.        *)
Wind_update ==
  <<BEG("MCTRL"), BEG("UPDATE")>>
  \o <<Either(<<END("UPDATE"), END("MCTRL")>>, <<END("MCTRL"), END("UPDATE")>>)>>

Updated(steps) ==
  <<Doing("application"), BEG("UPDATE")>> \o steps \o <<END("UPDATE"), Doing("other")>>

Update_first == Updated(<<BEG("MCTRL"), END("MCTRL")>>)
Update_form  == Updated(Form_do_do)

Routine == [Graf_rubberbox |-> Graf_rubberbox, Graf_dragbox |-> Graf_dragbox,
         Graf_growbox |-> Graf_do_grmobox, Graf_watchbox |-> Graf_do_watchbox("own"),
         Graf_slidebox |-> Graf_do_slidebox, Form_do |-> Form_do_do,
         Menu_popup |-> Menu_do_popup, Fsel_input |-> Fsel_do_exinput,
         Evnt_button |-> Evnt_do_button,
         Wind_update |-> Wind_update, Update_first |-> Update_first,
         Update_form |-> Update_form]

-----------------------------------------------------------------------------
ASSUME CallsAssumption  == \A c \in Client : Calls[c] \subseteq DOMAIN Routine
ASSUME PlacesAssumption == Places \subseteq Target

ScreenInit ==
  /\ todo = [c \in Client |-> <<>>] /\ call = [c \in Client |-> "none"]
  /\ asked = [c \in Client |-> {}] /\ out = [c \in Client |-> {}]
  /\ got = [c \in Client |-> {}] /\ used = [c \in Client |-> 0]
  /\ hidden = [c \in Client |-> 0] /\ marked = [c \in Client |-> {}]
  /\ lines = [c \in Client |-> FALSE] /\ doing = [c \in Client |-> "other"]
  /\ form = <<"ARROW", "ARROW">>
  /\ UPDATE!LockInit /\ MCTRL!LockInit

\* Evnt_multi() and Evnt_mesag()
CallEvents(c, E) ==
  /\ call[c] = "none"
  /\ call' = [call EXCEPT ![c] = "Evnt_multi"]
  /\ asked' = [asked EXCEPT ![c] = E]
  /\ todo' = [todo EXCEPT ![c] = <<Multi>>]
  /\ UNCHANGED <<out, used, got, shown, form, locks>>

CallOther(c, f) ==
  /\ call[c] = "none"
  /\ call' = [call EXCEPT ![c] = f]
  /\ todo' = [todo EXCEPT ![c] = Routine[f]]
  /\ UNCHANGED <<events, got, shown, form, locks>>

Return(c) ==
  /\ call[c] # "none" /\ todo[c] = <<>>
  /\ call' = [call EXCEPT ![c] = "none"]
  /\ asked' = [asked EXCEPT ![c] = {}] /\ out' = [out EXCEPT ![c] = {}]
  /\ used' = [used EXCEPT ![c] = 0] /\ got' = [got EXCEPT ![c] = {}]
  /\ UNCHANGED <<todo, shown, form, locks>>

\* client c is at a step of this kind
At(c, kind) == todo[c] # <<>> /\ kind \in DOMAIN Head(todo[c])
Next1(c) == Head(todo[c])
Then(c, steps) == todo' = [todo EXCEPT ![c] = steps \o Tail(@)]

(***************************************************************************)
(* One answer of the server to Evnt_do_multi(), with HANDLE_MENU_BAR: menu *)
(* first, then the message, the button, the rest; and again while there is *)
(* nothing for the application.  MU_BUTTON is answered, asked for or not.  *)
(***************************************************************************)
HandlesEvents(c) ==
  /\ At(c, "multi")
  /\ \E R \in SUBSET (asked[c] \union {MENU, BUTTON}), m \in Message, p \in Places :
       /\ R # {} /\ Cardinality(R) <= Together
       /\ (MESAG \notin R => m = "other") /\ (BUTTON \notin R => p = Somewhere)
       /\ todo' = [todo EXCEPT ![c] =
            (IF MENU \in R THEN Evhd_handle_menu ELSE <<>>)
            \o (IF MESAG \in R THEN Read(m) ELSE <<>>)
            \o (IF BUTTON \in R THEN Evhd_handle_button(p, asked[c]) ELSE <<>>)
            \o <<Report(R \ {MENU, MESAG, BUTTON}), [unless |-> Multi]>>]
  /\ used' = [used EXCEPT ![c] = 0]
  /\ UNCHANGED <<call, asked, out, got, shown, form, locks>>

Again(c) ==
  /\ At(c, "unless")
  /\ Then(c, IF out[c] = {} THEN <<Multi>> ELSE <<>>)
  /\ UNCHANGED <<call, events, got, shown, form, locks>>

\* Evnt_do_multi() with DONT_HANDLE_MENU_BAR
Waits(c) ==
  /\ At(c, "wait")
  /\ \E R \in (SUBSET Next1(c).wait) \ {{}} : got' = [got EXCEPT ![c] = R]
  /\ Then(c, <<>>)
  /\ UNCHANGED <<call, events, shown, form, locks>>

Notes(c) ==
  /\ At(c, "note")
  /\ got' = [got EXCEPT ![c] = @ \union {Next1(c).note}]
  /\ Then(c, <<>>)
  /\ UNCHANGED <<call, events, shown, form, locks>>

Branches(c) ==
  /\ At(c, "either")
  /\ \E k \in {1, 2} : Then(c, Next1(c).either[k])
  /\ UNCHANGED <<call, events, got, shown, form, locks>>

Tests(c) ==
  /\ At(c, "when")
  /\ Then(c, IF Next1(c).when \in got[c] \union marked[c]
             THEN Next1(c).then ELSE Next1(c).else)
  /\ UNCHANGED <<call, events, got, shown, form, locks>>

Loops(c) ==
  /\ At(c, "until")
  /\ LET again == [still |-> Next1(c).until, body |-> Next1(c).body]
     IN Then(c, Next1(c).body \o <<again>>)
  /\ UNCHANGED <<call, events, got, shown, form, locks>>

Repeats(c) ==
  /\ At(c, "still")
  /\ IF Next1(c).still \in got[c]
     THEN Then(c, <<>>) /\ got' = [got EXCEPT ![c] = {}]
     ELSE Then(c, Next1(c).body \o <<Next1(c)>>) /\ UNCHANGED got
  /\ UNCHANGED <<call, events, shown, form, locks>>

Reports(c) ==
  /\ At(c, "report")
  /\ out' = [out EXCEPT ![c] = @ \union Next1(c).report]
  /\ used' = [used EXCEPT ![c] = IF BUTTON \in Next1(c).report THEN @ + 1 ELSE @]
  /\ Then(c, <<>>)
  /\ UNCHANGED <<call, asked, got, shown, form, locks>>

Appl_do_write(c) ==
  /\ At(c, "send")
  /\ used' = [used EXCEPT ![c] = IF Next1(c).send = "menu" THEN @ ELSE @ + 1]
  /\ Then(c, <<>>)
  /\ UNCHANGED <<call, asked, out, got, shown, form, locks>>

\* v_hide_c() counts, v_show_c() undoes one or, from M_ON, all of them
Shown(n, m) ==
  CASE m \in {"M_OFF", "v_hide_c"} -> n + 1
    [] m = "M_ON" -> 0
    [] m = "v_show_c" -> IF n > 0 THEN n - 1 ELSE 0

Graf_do_mouse(c) ==
  /\ At(c, "mouse")
  /\ hidden' = [hidden EXCEPT ![c] = Shown(@, Next1(c).mouse)]
  /\ Then(c, <<>>)
  /\ UNCHANGED <<call, events, got, marked, lines, doing, form, locks>>

\* a form, and the one before it; both are the server's, not the application's
srv_graf_mouse(c) ==
  /\ At(c, "form")
  /\ form' = IF Next1(c).form = "M_RESTORE" THEN <<form[2], form[1]>>
             ELSE <<Next1(c).form, form[1]>>
  /\ hidden' = [hidden EXCEPT ![c] = 0]
  /\ Then(c, <<>>)
  /\ UNCHANGED <<call, events, got, marked, lines, doing, locks>>

Draws(c) ==
  /\ \/ /\ At(c, "mark")
        /\ marked' = [marked EXCEPT ![c] = @ \union {Next1(c).mark}]
        /\ UNCHANGED lines
     \/ /\ At(c, "clear")
        /\ marked' = [marked EXCEPT ![c] = @ \ {Next1(c).clear}]
        /\ UNCHANGED lines
     \/ /\ At(c, "unselect")
        /\ marked' = [marked EXCEPT ![c] = @ \ {Next1(c).unselect}]
        /\ UNCHANGED lines
     \/ /\ At(c, "line")
        /\ lines' = [lines EXCEPT ![c] = ~@]
        /\ UNCHANGED marked
  /\ Then(c, <<>>)
  /\ UNCHANGED <<call, events, got, hidden, doing, form, locks>>

Enters(c) ==
  /\ At(c, "doing")
  /\ doing' = [doing EXCEPT ![c] = Next1(c).doing]
  /\ Then(c, <<>>)
  /\ UNCHANGED <<call, events, got, hidden, marked, lines, form, locks>>

(***************************************************************************)
(* Wind_do_update() returns at once, or when the lock is handed over.      *)
(***************************************************************************)
Begins(c) ==
  /\ \/ /\ At(c, "beg") /\ Next1(c).beg = "UPDATE"
        /\ \/ (UPDATE!Enter(c) \/ UPDATE!EnterAgain(c)) /\ Then(c, <<>>)
           \/ UPDATE!StandInLine(c) /\ Then(c, <<[granted |-> "UPDATE"]>>)
        /\ UNCHANGED <<mctrlDepth, mctrlLine>>
     \/ /\ At(c, "beg") /\ Next1(c).beg = "MCTRL"
        /\ \/ (MCTRL!Enter(c) \/ MCTRL!EnterAgain(c)) /\ Then(c, <<>>)
           \/ MCTRL!StandInLine(c) /\ Then(c, <<[granted |-> "MCTRL"]>>)
        /\ UNCHANGED <<updateDepth, updateLine>>
  /\ UNCHANGED <<call, events, got, shown, form>>

Inside(l) == IF l = "UPDATE" THEN UPDATE!Inside ELSE MCTRL!Inside
InLine(l) == IF l = "UPDATE" THEN UPDATE!InLine ELSE MCTRL!InLine

Granted(c) ==
  /\ At(c, "granted") /\ c \in Inside(Next1(c).granted)
  /\ Then(c, <<>>)
  /\ UNCHANGED <<call, events, got, shown, form, locks>>

Ends(c) ==
  /\ \/ /\ At(c, "end") /\ Next1(c).end = "UPDATE"
        /\ IF updateDepth[c] = 1 THEN UPDATE!Leave(c) ELSE UPDATE!LeaveInner(c)
        /\ UNCHANGED <<mctrlDepth, mctrlLine>>
     \/ /\ At(c, "end") /\ Next1(c).end = "MCTRL"
        /\ IF mctrlDepth[c] = 1 THEN MCTRL!Leave(c) ELSE MCTRL!LeaveInner(c)
        /\ UNCHANGED <<updateDepth, updateLine>>
  /\ Then(c, <<>>)
  /\ UNCHANGED <<call, events, got, shown, form>>

Step(c) ==
  \/ \E E \in Asks[c] : CallEvents(c, E)
  \/ \E f \in Calls[c] : CallOther(c, f)
  \/ Return(c) \/ HandlesEvents(c) \/ Again(c)
  \/ Waits(c) \/ Notes(c) \/ Branches(c) \/ Tests(c) \/ Loops(c) \/ Repeats(c)
  \/ Reports(c) \/ Appl_do_write(c) \/ Graf_do_mouse(c) \/ srv_graf_mouse(c)
  \/ Draws(c) \/ Enters(c) \/ Begins(c) \/ Granted(c) \/ Ends(c)

(* Steps that change nothing but what is the application's own commute with *)
(* the steps of the others: they are taken at once.                         *)
Private == {"mouse", "mark", "clear", "unselect", "line", "send", "report", "note", "doing",
        "either", "when", "until", "still", "unless"}
Busy(c) == todo[c] # <<>> /\ DOMAIN Head(todo[c]) \intersect Private # {}

ScreenNext ==
  \E c \in Client :
    /\ (\E d \in Client : Busy(d)) => Busy(c)
    /\ Step(c)

ScreenSpec == ScreenInit /\ [][ScreenNext]_screenVars

-----------------------------------------------------------------------------
\* An application that may change the form: by clicks, or the file selector.
ChangesForm(c) == Asks[c] # {} \/ "Fsel_input" \in Calls[c]

(***************************************************************************)
(* Whichever way a call ends - in the middle of a drag, beside the menu,   *)
(* with the button already up - the application gets the screen back as it *)
(* was: no lock of the library is held or waited for, the cursor shows,    *)
(* nothing of a window, of the menu or of a drag is left on the screen, and *)
(* the form of the mouse is its own.  (That only if no other one changes   *)
(* it: M_RESTORE of one can bring back the form that another had set.)     *)
(***************************************************************************)
GivenBack ==
  \A c \in Client : call[c] = "none" =>
    /\ \A l \in {"UPDATE", "MCTRL"} : c \notin Inside(l) \union InLine(l)
    /\ hidden[c] = 0 /\ ~lines[c] /\ marked[c] \subseteq {"own"}
    /\ (\A d \in Client \ {c} : ~ChangesForm(d)) => form[1] = "ARROW"

(***************************************************************************)
(* Who waits for the user, or for a lock, has the cursor shown - unless it *)
(* redraws window borders, where the cursor is hidden first - and what is  *)
(* drawn is drawn with the cursor hidden.  Three things are not: the text  *)
(* cursor, the file list that Misc_copy_area() scrolls, and the buttons    *)
(* that Form_do_button() and Form_do_keybd() draw on the workstation       *)
(* numbered "apid", which hides another application's cursor if it is not  *)
(* their own.                                                              *)
(***************************************************************************)
CursorIsKept ==
  \A c \in Client :
    /\ At(c, "wait") \/ At(c, "multi") \/ (At(c, "granted") /\ doing[c] # "redraw")
         => hidden[c] = 0
    /\ At(c, "line") \/ (At(c, "mark") /\ ~At(c, "bare") /\ Next1(c).mark # "cursor")
                     \/ (At(c, "clear") /\ Next1(c).clear # "cursor")
         => hidden[c] > 0

(***************************************************************************)
(* Two applications wait for each other's lock only if the one inside      *)
(* UPDATE drags the slider of a window, or is in an UPDATE of its own: all *)
(* other code of the library asks for MCTRL before UPDATE.                 *)
(***************************************************************************)
LocksAreOrdered ==
  \A a, b \in Client :
    (a \in Inside("MCTRL") /\ a \in InLine("UPDATE")
     /\ b \in Inside("UPDATE") /\ b \in InLine("MCTRL"))
      => doing[b] \in {"slider", "application"}

(***************************************************************************)
(* An application gets only events it asked for, although the server       *)
(* answers others for the library; and a click leads to one message to the *)
(* owner of the window or to one event, never to both.                     *)
(***************************************************************************)
ClicksAreUsedOnce ==
  \A c \in Client : out[c] \subseteq asked[c] /\ used[c] <= 1

(***************************************************************************)
(* No two applications wait for each other: one inside MCTRL for UPDATE,   *)
(* the other inside UPDATE for MCTRL.  Neither would ever go on, and every *)
(* application that moves the mouse to the menu bar stops with them.       *)
(***************************************************************************)
NobodyHangs ==
  \A a, b \in Client :
    ~ (a \in Inside("MCTRL") /\ a \in InLine("UPDATE")
       /\ b \in Inside("UPDATE") /\ b \in InLine("MCTRL"))
=============================================================================
