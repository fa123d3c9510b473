------------------------------ MODULE TitleBars ------------------------------
(***************************************************************************)
(* Who knows which window is the topped one: the server, which marks it    *)
(* with WIN_TOPPED (srv_wind.c), and the library of the application that   *)
(* owns it, which keeps a structure for every window it created (wind.c)   *)
(* and draws the title bar in the colours of a topped or another window.   *)
(* The library learns of a change from WM_NEWTOP and WM_UNTOPPED and draws *)
(* the title bar for WM_REDRAW and WM_EREDRAW, when the application gets   *)
(* the message in evnt_multi() (evnt.c); in between anything may happen.   *)
(* Windows overlap each other, so that every window shows more of itself   *)
(* when one above it goes.  Where they are is left to module Windows.      *)
(***************************************************************************)
EXTENDS Integers, Sequences, FiniteSets, SequencesExt

CONSTANTS
  Apps,       \* applications
  Server,     \* owner of the desktop: its messages are not of interest
  WinId,      \* the ids of windows, without DESKTOP_WINDOW
  MaxMessage, \* most messages to be read
  MaxStruct,  \* most windows that are created
  Liberty     \* what is not always put right, see "May..." below

ASSUME ServerAssumption == Server \notin Apps
ASSUME WinIdAssumption  == 0 \notin WinId

VARIABLES
  win,       \* server: id -> owner, kind and WIN_TOPPED
  order,     \* server: ids of the open windows, front to back
  letters,   \* server: the messages of an application, oldest first
  windows,   \* library: the structures of an application, newest first
  look       \* screen: the windows whose title is drawn as that of a topped one
titleVars == <<win, order, letters, windows, look>>

DESKTOP_WINDOW == 0
Open == ToSet(order)
Foremost == Head(order)
Kind(i) == win[i].kind
IsTopped(i) == win[i].topped

(* Messages of the server about window i, for its owner. *)
Note(type, i) == <<[type |-> type, id |-> i, to |-> win[i].owner]>>
Untop(i) == Note("WM_UNTOPPED", i) \o Note("WM_EREDRAW", i)
Newtop(i) == Note("WM_NEWTOP", i) \o Note("WM_EREDRAW", i)

\* The elements of sequence s that are at the places S, in their order.
Picked(s, S) ==
  LET Nth(n) == CHOOSE k \in S : Cardinality({l \in S : l <= k}) = n
  IN  [n \in 1 .. Cardinality(S) |-> s[Nth(n)]]

Redraws(ids) ==
  LET told == Picked(ids, {k \in DOMAIN ids : Kind(ids[k]) # "menu"})
  IN  [k \in DOMAIN told |-> Note("WM_REDRAW", told[k])[1]]

\* How many elements the sequences of all applications have.
Total(f) == Cardinality(UNION {{a} \X DOMAIN f[a] : a \in Apps})

Send(notes) ==
  /\ letters' = [a \in Apps |->
                   letters[a] \o Picked(notes, {k \in DOMAIN notes : notes[k].to = a})]
  /\ Total(letters') <= MaxMessage

TitlesInit ==
  /\ win = [i \in {DESKTOP_WINDOW} |->
              [owner |-> Server, kind |-> "desktop", topped |-> FALSE]]
  /\ order = <<DESKTOP_WINDOW>>
  /\ letters = [a \in Apps |-> <<>>]
  /\ windows = [a \in Apps |-> <<>>]
  /\ look = {}

-----------------------------------------------------------------------------
(* Four things go wrong, and happen only where Liberty allows them.         *)

\* A window that was topped when it was closed, of which its owner is never told,
\* is opened again under a dialog.
MayOpenUnder(i) ==
  \/ "reopen" \in Liberty
  \/ \A a \in Apps :
       /\ \A k \in DOMAIN windows[a] : windows[a][k].id = i => ~windows[a][k].topped
       /\ \A k \in DOMAIN letters[a] : letters[a][k].id # i

\* An id is used again while messages about the old window are still to be read.
MayReuse(i) ==
  \/ "reuse" \in Liberty
  \/ \A a \in Apps : \A k \in DOMAIN letters[a] : letters[a][k].id # i

\* The front window is topped when a dialog is right behind it: it goes below the
\* dialog and keeps WIN_TOPPED, and then a second window gets WIN_TOPPED.
MayGoUnder(i, next) ==
  "under dialog" \in Liberty \/ ~(i = Foremost /\ Kind(next) = "dialog")

\* A menu opens in front of the topped window, whose owner is told that it is not
\* topped any more, which it is.
Kinds == {"normal", "dialog"} \union ({"menu"} \intersect Liberty)

-----------------------------------------------------------------------------
(* The structure of a deleted window stays in the list, and the newest one of   *)
(* an id is found first.  Dialogs and menus have no tree, and so no title bar.  *)
Struct(i, kind) == [id |-> i, tree |-> kind = "normal", topped |-> FALSE]
find_window_struct(a, i) == SelectInSeq(windows[a], LAMBDA s : s.id = i)

Wind_do_create(a, i, kind) ==
  /\ i \notin DOMAIN win /\ MayReuse(i) /\ Total(windows) < MaxStruct
  /\ win' = [j \in DOMAIN win \union {i} |->
               IF j = i THEN [owner |-> a, kind |-> kind, topped |-> FALSE] ELSE win[j]]
  /\ windows' = [windows EXCEPT ![a] = <<Struct(i, kind)>> \o @]
  /\ look' = look \ {i}
  /\ UNCHANGED <<order, letters>>

OpenInFront(i) ==
  LET tops == Kind(i) # "menu"
  IN  /\ Kind(Foremost) # "dialog"
      /\ order' = <<i>> \o order
      /\ win' = IF tops THEN [win EXCEPT ![i].topped = TRUE, ![Foremost].topped = FALSE]
                ELSE win
      /\ Send((IF Kind(i) = "dialog" THEN <<>>
               ELSE (IF tops THEN Note("WM_NEWTOP", i) ELSE <<>>) \o Note("WM_REDRAW", i))
              \o Untop(Foremost))

OpenUnder(i) ==
  /\ Kind(Foremost) = "dialog" /\ MayOpenUnder(i)
  /\ order' = InsertAt(order, 2, i)
  /\ win' = [win EXCEPT ![i].topped = FALSE]
  /\ Send(IF Kind(i) = "dialog" THEN <<>> ELSE Note("WM_REDRAW", i))

srv_wind_open(i) ==
  /\ i \in DOMAIN win \ Open
  /\ OpenInFront(i) \/ OpenUnder(i)
  /\ UNCHANGED <<windows, look>>

(* The window below takes over; who closed its window is not told. *)
Position(i) == CHOOSE k \in DOMAIN order : order[k] = i
Behind(i) == SubSeq(order, Position(i) + 1, Len(order))
Others(i) ==
  [n \in 1 .. Len(order) - 1 |-> order[IF n < Position(i) THEN n ELSE n + 1]]

Close(i) ==
  /\ order' = Others(i)
  /\ Send(Redraws(Behind(i)) \o (IF IsTopped(i) THEN Newtop(Head(Behind(i))) ELSE <<>>))
Handed(i) ==
  [j \in DOMAIN win |->
     [win[j] EXCEPT !.topped = IF IsTopped(i) THEN j # i /\ (@ \/ j = Head(Behind(i)))
                               ELSE @]]

srv_wind_close(i) ==
  /\ i \in Open \ {DESKTOP_WINDOW}
  /\ Close(i) /\ win' = Handed(i)
  /\ UNCHANGED <<windows, look>>

srv_wind_delete(i) ==
  /\ i \in DOMAIN win \ {DESKTOP_WINDOW}
  /\ IF i \in Open
     THEN Close(i) /\ win' = [j \in DOMAIN win \ {i} |-> Handed(i)[j]]
     ELSE win' = [j \in DOMAIN win \ {i} |-> win[j]] /\ UNCHANGED <<order, letters>>
  /\ UNCHANGED <<windows, look>>

-----------------------------------------------------------------------------
\* WF_TOP of the desktop.
TopDesktop ==
  /\ IsTopped(Foremost)
  /\ win' = [win EXCEPT ![Foremost].topped = FALSE]
  /\ Send(Untop(Foremost))
  /\ UNCHANGED <<order, windows, look>>

(* The one that was in front is told that it is not topped even if it was not. *)
top_window(i) ==
  LET rest == Others(i)
      old  == Head(rest)
      tops == Kind(old) # "dialog" /\ ~IsTopped(i)
  IN  /\ i \in Open \ {DESKTOP_WINDOW} /\ MayGoUnder(i, old)
      /\ order' = IF Kind(old) = "dialog" THEN InsertAt(rest, 2, i) ELSE <<i>> \o rest
      /\ win' = IF tops THEN [win EXCEPT ![i].topped = TRUE, ![old].topped = FALSE] ELSE win
      /\ Send((IF Kind(old) = "dialog" THEN <<>> ELSE Untop(old))
              \o (IF tops THEN Newtop(i) ELSE <<>>))
      /\ UNCHANGED <<windows, look>>

bottom_window(i) ==
  LET below  == Behind(i)
      passed == IF Kind(Head(below)) = "menu" THEN Tail(below) ELSE below
      heir   == Head(passed)
      hands  == IsTopped(i) /\ heir # DESKTOP_WINDOW
  IN  /\ i \in Open \ {DESKTOP_WINDOW}
      /\ order' = InsertAt(Others(i), Len(order) - 1, i)
      /\ win' = IF hands THEN [win EXCEPT ![heir].topped = TRUE, ![i].topped = FALSE]
                ELSE win
      /\ Send(Redraws(Front(passed))
              \o (IF hands THEN Newtop(heir) \o Untop(i) ELSE <<>>))
      /\ UNCHANGED <<windows, look>>

-----------------------------------------------------------------------------
(* Evnt_do_multi() looks at a message before the application gets it. *)

Wind_newtop(a, m) ==
  LET k == find_window_struct(a, m.id)
  IN  /\ m.type \in {"WM_NEWTOP", "WM_UNTOPPED"}
      /\ windows' = IF k = 0 THEN windows
                    ELSE [windows EXCEPT ![a][k].topped = m.type = "WM_NEWTOP"]
      /\ UNCHANGED look

\* Mutant of Wind_redraw_elements: the colours are those of the oldest structure.
RedrawOldest(a, m) ==
  LET k == SelectLastInSeq(windows[a], LAMBDA s : s.id = m.id)
  IN  /\ m.type \in {"WM_REDRAW", "WM_EREDRAW"}
      /\ look' = IF k = 0 \/ m.id \notin Open \/ ~windows[a][k].tree THEN look
                 ELSE IF windows[a][k].topped THEN look \union {m.id} ELSE look \ {m.id}
      /\ UNCHANGED windows

\* Whoever the window belongs to by now.
Wind_redraw_elements(a, m) ==
  LET k == find_window_struct(a, m.id)
  IN  /\ m.type \in {"WM_REDRAW", "WM_EREDRAW"}
      /\ look' = IF k = 0 \/ m.id \notin Open \/ ~windows[a][k].tree THEN look
                 ELSE IF windows[a][k].topped THEN look \union {m.id} ELSE look \ {m.id}
      /\ UNCHANGED windows

Evnt_do_multi(a) ==
  /\ letters[a] # <<>>
  /\ letters' = [letters EXCEPT ![a] = Tail(@)]
  /\ Wind_newtop(a, Head(letters[a])) \/ Wind_redraw_elements(a, Head(letters[a]))
  /\ UNCHANGED <<win, order>>

TitlesNext ==
  \/ \E a \in Apps : Evnt_do_multi(a)
  \/ \E a \in Apps, i \in WinId, kind \in Kinds : Wind_do_create(a, i, kind)
  \/ \E i \in WinId : \/ srv_wind_open(i) \/ srv_wind_close(i) \/ srv_wind_delete(i)
                   \/ top_window(i) \/ bottom_window(i)
  \/ TopDesktop

TitlesSpec == TitlesInit /\ [][TitlesNext]_titleVars

-----------------------------------------------------------------------------
(***************************************************************************)
(* When an application has read its messages, the title bars of its        *)
(* windows look as the server sees them: the topped one, and no other, has *)
(* the colours of a topped window.  Five calls change who is topped, each  *)
(* sends its own messages, the structures of deleted windows stay in the   *)
(* lists, and the ids are used again.                                      *)
(***************************************************************************)
TitlesFollowTheTop ==
  \A i \in Open \ {DESKTOP_WINDOW} :
    Kind(i) = "normal" /\ letters[win[i].owner] = <<>> => (i \in look <=> IsTopped(i))
=============================================================================
