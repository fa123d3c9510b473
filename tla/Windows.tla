------------------------------ MODULE Windows ------------------------------
(***************************************************************************)
(* The window manager of the server, srv_wind.c: identifiers, stacking     *)
(* order, the WIN_TOPPED flag, and who owns which part of the screen.      *)
(*                                                                         *)
(* A rectangle list (rlist.c) is the set of screen cells its rectangles    *)
(* cover: Rlist_rectinter(dst, area, src) moves the cells of area from src *)
(* to dst and Rlist_insert(dst, src) moves all of them.  Module RectList   *)
(* checks that the lists do that.                                          *)
(*                                                                         *)
(* What the screen shows is the set `stale' of the cells that do not show  *)
(* the part of the window that belongs there, and `redraw' is what the     *)
(* owners have been asked to draw: the union of the areas of the WM_REDRAW *)
(* and WM_AREDRAW messages not answered yet.  `torn' are the stale cells   *)
(* that show another part of their own window because it was moved in the  *)
(* wrong order: the server takes them for copied.  A dialog is not asked   *)
(* to draw when it opens (its owner draws the dialog next, form.c and      *)
(* objc.c): what it shows is in `redraw' as well.  The windows are without *)
(* widgets, so the working area is the whole window and WM_EREDRAW draws   *)
(* nothing.                                                                *)
(***************************************************************************)
EXTENDS Integers, Sequences, FiniteSets

CONSTANTS
  Apid,        \* applications; the first one, FirstAppl, is not among them
  FirstAppl,   \* owner of the desktop and of the menu bar
  NoAppl,      \* nobody is exiting
  Width, Height, BarHeight,  \* the screen, and the rows of the menu bar
  Rects,       \* the sizes applications give their windows
  MaxWindow,   \* bound on win_next
  Liberty      \* what applications do that the server does not stand

ASSUME ScreenAssumption ==
  /\ Width \in Nat \ {0} /\ BarHeight \in Nat \ {0} /\ Height \in Nat
  /\ BarHeight < Height
ASSUME RectsAssumption ==
  \A r \in Rects :
    /\ r \in [x : Int, y : Int, w : Nat, h : Nat]
    /\ r.y >= BarHeight
ASSUME AppsAssumption == FirstAppl \notin Apid /\ NoAppl \notin Apid
ASSUME WindowAssumption == MaxWindow \in Nat /\ MaxWindow >= 2
ASSUME LibertyAssumption ==
  Liberty \subseteq
    {"over menu",     \* open or top a window while a menu is in front
     "past menu",     \* put a window under a menu that is right below it
     "under dialog",  \* top the front window when a dialog is right below it
     "move undrawn"}  \* move a window before its owner has drawn it

VARIABLES
  win,       \* win_list: identifier -> WINSTRUCT
  win_vis,   \* identifiers of the open windows, front to back
  win_free,  \* identifiers below win_next not in use
  win_next,  \* the next fresh identifier
  exiting,   \* the application srv_wind_new() is at work for
  redraw,    \* identifier -> cells its owner has been asked to draw
  stale,     \* cells that do not show what belongs there
  torn       \* the stale cells whose copy was lost when their window moved

screen == <<redraw, stale, torn>>
vars == <<win, win_vis, win_free, win_next, exiting, screen>>

-----------------------------------------------------------------------------
DESKTOP_WINDOW == 0
MENU_BAR_WINDOW == 1
Id == 0 .. MaxWindow - 1
Kind == {"desktop", "menu", "dialog", "normal"}

Cell == (0 .. Width - 1) \X (0 .. Height - 1)
Area(r) == {c \in Cell : /\ r.x <= c[1] /\ c[1] < r.x + r.w
                         /\ r.y <= c[2] /\ c[2] < r.y + r.h}

Rect(x, y, w, h) == [x |-> x, y |-> y, w |-> w, h |-> h]
DesktopRect == Rect(0, BarHeight, Width, Height - BarHeight)
BarRect == Rect(0, 0, Width, BarHeight)
NoRect == Rect(0, 0, 0, 0)
Size == Rects \union {DesktopRect, BarRect, NoRect}

WINSTRUCT == [owner : Apid \union {FirstAppl}, kind : Kind, topped : BOOLEAN,
              totsize : Size, rlist : SUBSET Cell]

Open == {win_vis[k] : k \in DOMAIN win_vis}
Front == Head(win_vis)
IsTopped(i) == win[i].topped
Own(i) == win[i].rlist
AreaOf(i) == Area(win[i].totsize)

\* The windows applications made: any of them may name any handle, but the
\* desktop and the menu bar are left to the server.
AppWindow == DOMAIN win \ {DESKTOP_WINDOW, MENU_BAR_WINDOW}

\* Window a comes before window b in the stacking order `order'.
InFront(order, a, b) ==
  \E l \in DOMAIN order : order[l] = b /\ \E k \in 1 .. l - 1 : order[k] = a
Under(i, order) == {j \in Open : InFront(order, i, j)}
Below(i) == Under(i, win_vis)

Position(i) == CHOOSE k \in DOMAIN win_vis : win_vis[k] = i
After(i) == win_vis[Position(i) + 1]
Without(i) ==
  [n \in 1 .. Len(win_vis) - 1 |-> win_vis[IF n < Position(i) THEN n ELSE n + 1]]

\* What window j takes of the cells S that become free, when the windows of
\* `offered' are offered them front to back.
ShareAll(S, j, offered) == S \intersect AreaOf(j)
Share(S, j, offered) ==
  (S \intersect AreaOf(j))
    \ UNION {AreaOf(l) : l \in {m \in offered : InFront(win_vis, m, j)}}

\* Every asked window draws all of `area'.
Ask(asked, area) ==
  [j \in Id |-> IF j \in asked THEN redraw[j] \union area ELSE redraw[j]]

\* The cells S are another window's now, which has not drawn them yet.
Soil(S) == stale' = stale \union S /\ torn' = torn \ S

-----------------------------------------------------------------------------
(* srv_init_windows *)

NewWindow(a, kind) ==
  [owner |-> a, kind |-> kind, topped |-> FALSE, totsize |-> NoRect, rlist |-> {}]

\* The first application has drawn its desktop and its menu bar.
Init ==
  /\ win = [i \in {DESKTOP_WINDOW, MENU_BAR_WINDOW} |->
              IF i = DESKTOP_WINDOW
              THEN [NewWindow(FirstAppl, "desktop") EXCEPT
                      !.totsize = DesktopRect, !.rlist = Area(DesktopRect)]
              ELSE [NewWindow(FirstAppl, "menu") EXCEPT
                      !.totsize = BarRect, !.rlist = Area(BarRect)]]
  /\ win_vis = <<MENU_BAR_WINDOW, DESKTOP_WINDOW>>
  /\ win_free = {} /\ win_next = 2
  /\ exiting = NoAppl
  /\ redraw = [j \in Id |-> {}]
  /\ stale = {} /\ torn = {}

-----------------------------------------------------------------------------
(* Creating and deleting *)

\* winalloc: an identifier given back, or else a fresh one.
Fresh == IF win_free # {} THEN win_free ELSE {win_next} \intersect Id

srv_wind_create(a, kind) ==
  /\ exiting = NoAppl
  /\ \E i \in Fresh :
       /\ win' = [j \in DOMAIN win \union {i} |->
                    IF j = i THEN NewWindow(a, kind) ELSE win[j]]
       /\ win_free' = win_free \ {i}
       /\ win_next' = IF i = win_next THEN win_next + 1 ELSE win_next
  /\ UNCHANGED <<win_vis, exiting, screen>>

\* The newest identifier is given up, with every free one right below it.
ShrunkByOne(ids) == win_next - 1
Shrunk(ids) ==
  CHOOSE n \in 0 .. win_next :
    /\ \A i \in ids : i < n
    /\ n = 0 \/ n - 1 \in ids

Forget(i) ==
  LET ids == DOMAIN win \ {i} IN
  /\ win_next' = IF i = win_next - 1 THEN Shrunk(ids) ELSE win_next
  /\ win_free' = {j \in win_free \union {i} : j < win_next'}

\* The windows after i has left the screen: the ones below share its cells,
\* and the next one becomes the topped one if i was.  The size of a closed
\* window is not kept: wind_open gives it a new one.
ClosedStaysTopped(i) ==
  [j \in DOMAIN win |->
     CASE j = i -> [win[j] EXCEPT !.totsize = NoRect, !.rlist = {}]
       [] j \in Below(i) ->
            [win[j] EXCEPT !.topped = @ \/ (IsTopped(i) /\ j = After(i)),
                           !.rlist = @ \union Share(Own(i), j, Below(i))]
       [] OTHER -> win[j]]
Closed(i) ==
  LET given(j) == Share(Own(i), j, Below(i))
  IN  [j \in DOMAIN win |->
         CASE j = i -> [win[j] EXCEPT !.topped = FALSE, !.totsize = NoRect,
                                      !.rlist = {}]
           [] j \in Below(i) ->
                [win[j] EXCEPT !.topped = @ \/ (IsTopped(i) /\ j = After(i)),
                               !.rlist = @ \union given(j)]
           [] OTHER -> win[j]]

\* Menu windows are not told that a part of them shows again.
UncoverNext(i) ==
  /\ redraw' = [Ask({After(i)}, AreaOf(i)) EXCEPT ![i] = {}]
  /\ Soil(Own(i))
Uncover(i) ==
  LET gaining == {j \in Below(i) : Share(Own(i), j, Below(i)) # {}}
      asked == {j \in gaining : win[j].kind # "menu"}
  IN  /\ redraw' = [Ask(asked, AreaOf(i)) EXCEPT ![i] = {}]
      /\ Soil(Own(i))

srv_wind_close(i) ==
  /\ exiting = NoAppl
  /\ i \in AppWindow \intersect Open
  /\ win' = Closed(i)
  /\ win_vis' = Without(i)
  /\ Uncover(i)
  /\ UNCHANGED <<win_free, win_next, exiting>>

\* wind_delete closes an open window first.
Delete(i) ==
  LET left == IF i \in Open THEN Closed(i) ELSE win IN
  /\ win' = [j \in DOMAIN win \ {i} |-> left[j]]
  /\ Forget(i)
  /\ IF i \in Open THEN win_vis' = Without(i) /\ Uncover(i)
     ELSE UNCHANGED <<win_vis, screen>>

srv_wind_delete(i) ==
  /\ exiting = NoAppl
  /\ i \in AppWindow
  /\ Delete(i)
  /\ UNCHANGED exiting

\* srv_appl_exit reaches srv_wind_new: the windows of the application go one
\* by one, open ones first, front to back.
srv_appl_exit(a) ==
  /\ exiting = NoAppl
  /\ exiting' = a
  /\ UNCHANGED <<win, win_vis, win_free, win_next, screen>>

Owned(a) == {i \in DOMAIN win : win[i].owner = a}

srv_wind_new ==
  /\ exiting # NoAppl
  /\ LET mine == Owned(exiting)
         front == {i \in mine \intersect Open :
                     \A j \in mine : ~InFront(win_vis, j, i)}
     IN  IF mine = {}
         THEN /\ exiting' = NoAppl
              /\ UNCHANGED <<win, win_vis, win_free, win_next, screen>>
         ELSE /\ \E i \in (IF front # {} THEN front ELSE mine) : Delete(i)
              /\ UNCHANGED exiting

-----------------------------------------------------------------------------
(* Opening and stacking *)

\* A window goes to the front, or second when a dialog is in front.
UnderDialog(order) == win[Head(order)].kind = "dialog"
Raised(i, order) ==
  IF UnderDialog(order) THEN <<Head(order), i>> \o Tail(order)
                        ELSE <<i>> \o order

\* At its place in the order `order' window i takes its area A from every
\* window below it.
Grabbed(i, A, order) == A \intersect UNION {Own(j) : j \in Under(i, order)}
LeftTo(j, i, A, order) == IF j \in Under(i, order) THEN Own(j) \ A ELSE Own(j)

\* A menu is in front and some other window is topped.
MenuInFront ==
  /\ win[Front].kind = "menu"
  /\ \E j \in DOMAIN win : j # Front /\ IsTopped(j)

srv_wind_open(i, r) ==
  /\ exiting = NoAppl
  /\ i \in AppWindow \ Open
  /\ win[i].kind = "menu" \/ ~MenuInFront \/ "over menu" \in Liberty
  /\ LET order == Raised(i, win_vis)
         A == Area(r)
         got == Grabbed(i, A, order)
         tops == ~UnderDialog(win_vis) /\ win[i].kind # "menu"
     IN  /\ win_vis' = order
         /\ win' = [j \in DOMAIN win |->
              IF j = i THEN [win[j] EXCEPT !.topped = tops, !.totsize = r,
                                           !.rlist = got]
              ELSE [win[j] EXCEPT !.topped = @ /\ ~(tops /\ j = Front),
                                  !.rlist = LeftTo(j, i, A, order)]]
         /\ redraw' = Ask({i}, A)
         /\ Soil(got)
  /\ UNCHANGED <<win_free, win_next, exiting>>

\* wind_set(WF_TOP) of the desktop only takes WIN_TOPPED from the front window.
TopDesktop ==
  /\ exiting = NoAppl
  /\ IsTopped(Front)
  /\ win' = [win EXCEPT ![Front].topped = FALSE]
  /\ UNCHANGED <<win_vis, win_free, win_next, exiting, screen>>

\* If that makes another application the first one, top_appl() then tops the
\* first window it has in win_list: here a step of its own.
top_window(i) ==
  /\ exiting = NoAppl
  /\ i \in AppWindow \intersect Open
  /\ ~MenuInFront \/ "over menu" \in Liberty
  /\ i = Front /\ UnderDialog(Tail(win_vis)) => "under dialog" \in Liberty
  /\ LET rest == Without(i)
         order == Raised(i, rest)
         got == Grabbed(i, AreaOf(i), order)
         tops == ~UnderDialog(rest) /\ ~IsTopped(i)
     IN  /\ win_vis' = order
         /\ win' = [j \in DOMAIN win |->
              IF j = i THEN [win[j] EXCEPT !.topped = @ \/ tops,
                                           !.rlist = @ \union got]
              ELSE [win[j] EXCEPT !.topped = @ /\ ~(tops /\ j = Head(rest)),
                                  !.rlist = LeftTo(j, i, AreaOf(i), order)]]
         /\ redraw' = Ask({i}, got)
         /\ Soil(got)
  /\ UNCHANGED <<win_free, win_next, exiting>>

\* A window is put right above the desktop, which is the last one.  A menu
\* right below it is skipped: it is not offered the window's cells and does not
\* become the topped window.
Lowered(i) ==
  LET n == Len(win_vis)
  IN  [m \in 1 .. n |-> IF m = n - 1 THEN i
                        ELSE IF m = n THEN win_vis[n] ELSE Without(i)[m]]
Skips(i) == win[After(i)].kind = "menu"
Heir(i) == IF Skips(i) THEN win_vis[Position(i) + 2] ELSE After(i)
Passed(i) ==
  {j \in Below(i) : win[j].kind # "desktop" /\ ~(Skips(i) /\ j = After(i))}

MayBottom(i) ==
  \/ "past menu" \in Liberty
  \/ ~Skips(i)
  \/ ~IsTopped(i) /\ Own(i) \intersect AreaOf(After(i)) = {}

bottom_window(i) ==
  /\ exiting = NoAppl
  /\ i \in AppWindow \intersect Open
  /\ MayBottom(i)
  /\ LET given(j) == Share(Own(i), j, Passed(i))
         all == UNION {given(j) : j \in Passed(i)}
         hands == IsTopped(i) /\ win[Heir(i)].kind # "desktop"
     IN  /\ win_vis' = Lowered(i)
         /\ win' = [j \in DOMAIN win |->
              CASE j = i -> [win[j] EXCEPT !.topped = @ /\ ~hands,
                                           !.rlist = @ \ all]
                [] j \in Passed(i) -> [win[j] EXCEPT
                     !.topped = @ \/ (hands /\ j = Heir(i)),
                     !.rlist = @ \union given(j)]
                [] OTHER -> win[j]]
         /\ redraw' = Ask({j \in Passed(i) : win[j].kind # "menu"}, AreaOf(i))
         /\ Soil(all)
  /\ UNCHANGED <<win_free, win_next, exiting>>

-----------------------------------------------------------------------------
(* Moving and sizing *)

\* The strips at the right and at the bottom by which the window grows.
Strips(old, new) ==
  LET right == IF new.w > old.w
               THEN Area(Rect(new.x + old.w, new.y, new.w - old.w, old.h)) ELSE {}
      bottom == IF new.h > old.h
                THEN Area(Rect(new.x, new.y + old.h, old.w, new.h - old.h)) ELSE {}
  IN  right \union bottom

From(c, old, new) == <<c[1] - (new.x - old.x), c[2] - (new.y - old.y)>>

\* The window is copied one rectangle at a time.  The order is right when it
\* moves sideways (module RectList); else a rectangle may be copied over the
\* source of a later one, and which cells are lost so depends on how the list
\* happens to be cut into rectangles.
Exposed(moved, old, new) ==
  IF new.y = old.y THEN {} ELSE {c \in moved : From(c, old, new) \in moved}

\* Window i gets the cells of its new area from itself and from below, what it
\* leaves is shared below.  What was to be seen of it is copied, the rest is
\* to be drawn; if only the size changes nothing is copied, but what it keeps
\* stays where it is.
changewinsize(i, r) ==
  /\ exiting = NoAppl
  /\ i \in AppWindow \intersect Open
  /\ LET old == win[i].totsize
         A == Area(r)
         left == Own(i) \ A
         new == (Own(i) \intersect A) \union (A \intersect UNION {Own(j) : j \in Below(i)})
         moved == {c \in new : From(c, old, r) \in Own(i)}
         given(j) == Share(left, j, Below(i))
         gaining == {j \in Below(i) : given(j) # {}}
     IN  /\ \/ <<old.x, old.y>> = <<r.x, r.y>>
            \/ redraw[i] = {}
            \/ "move undrawn" \in Liberty
         /\ win' = [j \in DOMAIN win |->
              CASE j = i -> [win[j] EXCEPT !.totsize = r, !.rlist = new]
                [] j \in Below(i) -> [win[j] EXCEPT !.rlist = (@ \ A) \union given(j)]
                [] OTHER -> win[j]]
         /\ redraw' = [Ask(gaining, AreaOf(i))
                       EXCEPT ![i] = @ \union Strips(old, r) \union (new \ moved)]
         /\ \E lost \in SUBSET Exposed(moved, old, r) :
              /\ stale' = (stale \ new) \union left \union (new \ moved) \union lost
                            \union {c \in moved : From(c, old, r) \in stale}
              /\ torn' = (torn \ (left \union new)) \union lost
                           \union {c \in moved : From(c, old, r) \in torn}
  /\ UNCHANGED <<win_vis, win_free, win_next, exiting>>

-----------------------------------------------------------------------------
(* The owner of window i answers its redraw messages: it draws what it was   *)
(* asked to draw where the window can be seen.                               *)

Draw(i) ==
  /\ i \in DOMAIN win /\ redraw[i] # {}
  /\ win[i].owner # exiting
  /\ redraw' = [redraw EXCEPT ![i] = {}]
  /\ stale' = stale \ (redraw[i] \intersect Own(i))
  /\ torn' = torn \ (redraw[i] \intersect Own(i))
  /\ UNCHANGED <<win, win_vis, win_free, win_next, exiting>>

Next ==
  \/ \E a \in Apid, kind \in Kind \ {"desktop"} : srv_wind_create(a, kind)
  \/ \E a \in Apid : srv_appl_exit(a)
  \/ srv_wind_new
  \/ TopDesktop
  \/ \E i \in Id : \/ srv_wind_delete(i)
                   \/ srv_wind_close(i)
                   \/ top_window(i)
                   \/ bottom_window(i)
                   \/ Draw(i)
  \/ \E i \in Id, r \in Rects : \/ srv_wind_open(i, r)
                                \/ changewinsize(i, r)

Spec == Init /\ [][Next]_vars

-----------------------------------------------------------------------------
(* Properties *)

\* The types of the variables.
TypeOK ==
  /\ DOMAIN win \subseteq Id
  /\ \A i \in DOMAIN win : win[i] \in WINSTRUCT
  /\ win_vis \in Seq(DOMAIN win) /\ win_vis # <<>>
  /\ win_vis[Len(win_vis)] = DESKTOP_WINDOW
  /\ win_free \subseteq Id
  /\ win_next \in 0 .. MaxWindow
  /\ exiting \in Apid \union {NoAppl}
  /\ redraw \in [Id -> SUBSET Cell]
  /\ stale \subseteq Cell /\ torn \subseteq stale

\* Every window's rectangle list is exactly the part of the window that no
\* window in front of it covers, whatever was opened, moved, sized, stacked
\* and closed before: the lists are only ever changed by handing cells from
\* one window to another.
RegionsAreVisible ==
  \A i \in Open :
    Own(i) = AreaOf(i) \ UNION {AreaOf(j) : j \in {l \in Open : InFront(win_vis, l, i)}}

\* The screen is repaired: a cell that does not show what belongs there is one
\* the owner of the window has been asked to draw, or else its copy was lost in
\* a move up or down since it was last drawn; nobody is asked to draw that one.
\* (Menu windows are never told that they show again.)
StaleIsAsked ==
  \A i \in Open :
    win[i].kind = "menu" \/ Own(i) \intersect stale \subseteq redraw[i] \union torn

\* WIN_TOPPED, which four operations hand from one window to another, marks
\* at most one window, and that window is on the screen.
OneTopped ==
  \A i, j \in DOMAIN win : IsTopped(i) /\ IsTopped(j) => i = j /\ i \in Open

\* An identifier below win_next is in exactly one of win_list and win_free,
\* and the newest one is in use: otherwise the loop of srv_wind_delete() that
\* gives identifiers up does not end.
IdentifiersAreKept ==
  /\ DOMAIN win \union win_free = 0 .. win_next - 1
  /\ DOMAIN win \intersect win_free = {}
  /\ win_next - 1 \in DOMAIN win

=============================================================================
