--------------------------- MODULE WindowElements ---------------------------
(***************************************************************************)
(* The widgets of a window and its work area (lib/wind.c).  The library    *)
(* keeps an object tree for every window.  set_win_elem() packs the        *)
(* widgets side by side; when the size changes Wind_set_size() does not    *)
(* pack them again but moves each by the difference.  The library answers  *)
(* questions about the size itself, although the server (srv_wind.c) keeps *)
(* sizes of its own, by which it cuts and redraws windows.  One window,    *)
(* from wind_create() to wind_delete() and again; what its widgets look    *)
(* like, and what is drawn, is left out.                                   *)
(***************************************************************************)
EXTENDS Integers, FiniteSets

CONSTANTS
  Elements,   \* the sets of elements windows are created with
  Sizes,      \* the sizes windows get
  Slides,     \* what sliders are set to, -1 to leave them alone
  WINDOW,     \* the tree in the resource: objects and where they are
  csheight,   \* height of the small font
  NoWindow,   \* no window
  Adrift,     \* objects whose place is not looked at
  OpenTwice   \* are windows opened that are open already?

Rectangle == [x : Int, y : Int, w : Int, h : Int]
Root == "W"
Widget == {Root, "WMOVER", "WAPP", "WFULLER", "WDOWN", "WSIZER", "WRIGHT", "WLEFT",
           "WVSB", "WVSLIDER", "WHSB", "WHSLIDER", "WINFO", "TFILLOUT", "RFILLOUT",
           "BFILLOUT", "WUP", "SFILLOUT", "WSMALLER", "WCLOSER"}

ASSUME ResourceAssumption == WINDOW \in [Widget -> Rectangle] /\ csheight \in Int
ASSUME SizesAssumption    == Sizes \subseteq Rectangle

VARIABLES ws, win   \* the window in the library and in the server
frameVars == <<ws, win>>

D3DSIZE == 2
Edge == Root      \* 0 for packelem(): the edge of the window
Free == "free"    \* -1: not on this side

\* The difference between two sizes, and a size changed by it.
Delta(new, old) == [x |-> new.x - old.x, y |-> new.y - old.y,
                    w |-> new.w - old.w, h |-> new.h - old.h]
Plus(r, d) == [x |-> r.x + d.x, y |-> r.y + d.y, w |-> r.w + d.w, h |-> r.h + d.h]

HasRow(elem) == elem \cap {"HSLIDE", "LFARROW", "RTARROW"} # {}
HasColumn(elem) ==
  \/ ~HasRow(elem) /\ "SIZER" \in elem
  \/ elem \cap {"VSLIDE", "UPARROW", "DNARROW"} # {}

\* Mutant of calcworksize: the line of information is forgotten.
WorkUnderInfo(elem, orig) ==
  LET top == IF elem \cap {"CLOSER", "MOVER", "FULLER", "NAME"} # {} THEN WINDOW["WMOVER"].h + 4 ELSE 1
      bottom == IF HasRow(elem) THEN WINDOW["WLEFT"].h + 4 ELSE 1
      right == IF HasColumn(elem) THEN WINDOW["WSIZER"].w + 4 ELSE 1
  IN  Plus(orig, [x |-> 1, y |-> top, w |-> -1 - right, h |-> -top - bottom])

\* The work area of a window (WC_WORK); it is never asked for the other way.
calcworksize(elem, orig) ==
  LET topsize ==
        IF elem \cap {"CLOSER", "MOVER", "FULLER", "NAME"} # {}
        THEN WINDOW["WMOVER"].h + 2 * D3DSIZE
        ELSE IF "IMOVER" \in elem THEN csheight + 2 + 2 * D3DSIZE ELSE 0
      infosize == IF "INFO" \in elem THEN WINDOW["WINFO"].h + 2 * D3DSIZE ELSE 0
      headsize == IF topsize + infosize > 0 THEN topsize + infosize ELSE 1
      bottomsize == IF HasRow(elem) THEN WINDOW["WLEFT"].h + 2 * D3DSIZE ELSE 1
      rightsize == IF HasColumn(elem) THEN WINDOW["WSIZER"].w + 2 * D3DSIZE ELSE 1
  IN  Plus(orig, [x |-> 1, y |-> headsize,
                  w |-> -1 - rightsize, h |-> -headsize - bottomsize])

(* packelem(): an object gets its place from those before and behind it,   *)
(* and its length too when it has both.                                    *)
packelem(tree, o, left, right, top, bottom) ==
  LET x0 == IF left = Edge THEN D3DSIZE ELSE tree[left].x + tree[left].w + 2 * D3DSIZE
      x1 == IF right = Edge THEN tree[Root].w - D3DSIZE ELSE tree[right].x - 2 * D3DSIZE
      y0 == IF top = Edge THEN D3DSIZE ELSE tree[top].y + tree[top].h + 2 * D3DSIZE
      y1 == IF bottom = Edge THEN tree[Root].h - D3DSIZE ELSE tree[bottom].y - 2 * D3DSIZE
  IN  [tree EXCEPT
         ![o].x = IF left # Free THEN x0 ELSE IF right # Free THEN x1 - tree[o].w ELSE @,
         ![o].w = IF Free \notin {left, right} THEN x1 - x0 ELSE @,
         ![o].y = IF top # Free THEN y0 ELSE IF bottom # Free THEN y1 - tree[o].h ELSE @,
         ![o].h = IF Free \notin {top, bottom} THEN y1 - y0 ELSE @]

\* An object is shown and packed, or hidden.
Put(t, shows, o, left, right, top, bottom) ==
  IF shows
  THEN [tree |-> packelem(t.tree, o, left, right, top, bottom), shown |-> t.shown \cup {o}]
  ELSE [t EXCEPT !.shown = @ \ {o}]

PackTitle(t, elem) ==
  LET left == IF "CLOSER" \in elem THEN "WCLOSER" ELSE Edge
      fuller == IF "FULLER" \in elem THEN "WFULLER" ELSE Edge
      right == IF "SMALLER" \in elem THEN "WSMALLER" ELSE fuller
      t1 == Put(t, "CLOSER" \in elem, "WCLOSER", Edge, Free, Edge, Free)
      t2 == Put(t1, "FULLER" \in elem, "WFULLER", Free, Edge, Edge, Free)
      t3 == Put(t2, "SMALLER" \in elem, "WSMALLER", Free, fuller, Edge, Free)
      t4 == Put([t3 EXCEPT !.tree["WMOVER"].h =
                   IF "MOVER" \in elem THEN t3.tree["WCLOSER"].h ELSE @],
                "MOVER" \in elem, "WMOVER", left, right, Edge, Free)
      t5 == Put(t4, "MOVER" \notin elem /\ {left, right} # {Edge},
                "TFILLOUT", left, right, Edge, Free)
      top == IF "MOVER" \in elem THEN "WMOVER"
             ELSE IF {left, right} # {Edge} THEN "TFILLOUT" ELSE Edge
  IN  Put(t5, "INFO" \in elem, "WINFO", Edge, Edge, top, Free)

\* The lowest object of the title: where the column begins.
Lowest(elem) ==
  CASE "INFO" \in elem -> "WINFO"
    [] "INFO" \notin elem /\ "MOVER" \in elem -> "WMOVER"
    [] elem \cap {"INFO", "MOVER"} = {} /\ elem \cap {"CLOSER", "FULLER", "SMALLER"} # {} -> "TFILLOUT"
    [] OTHER -> Edge

Corner(elem) ==
  CASE "SIZER" \in elem -> "WSIZER"
    [] "SIZER" \notin elem /\ HasRow(elem) /\ HasColumn(elem) -> "SFILLOUT"
    [] OTHER -> Edge

PackColumn(t, elem) ==
  LET up == "UPARROW" \in elem
      down == "DNARROW" \in elem
      top == IF up THEN "WUP" ELSE Lowest(elem)
      bottom == IF down THEN "WDOWN" ELSE Corner(elem)
      t1 == Put(t, up, "WUP", Free, Edge, Lowest(elem), Free)
      t2 == Put(t1, "SIZER" \in elem, "WSIZER", Free, Edge, Free, Edge)
      t3 == Put(t2, Corner(elem) = "SFILLOUT", "SFILLOUT", Free, Edge, Free, Edge)
      t4 == Put(t3, down, "WDOWN", Free, Edge, Free, Corner(elem))
      t5 == Put(t4, "VSLIDE" \in elem, "WVSB", Free, Edge, top, bottom)
  IN  Put(t5, "VSLIDE" \notin elem /\ HasColumn(elem), "RFILLOUT", Free, Edge, top, bottom)

PackRow(t, elem) ==
  LET left == IF "LFARROW" \in elem THEN "WLEFT" ELSE Edge
      right == IF "RTARROW" \in elem THEN "WRIGHT" ELSE Corner(elem)
      t1 == Put(t, "LFARROW" \in elem, "WLEFT", Edge, Free, Free, Edge)
      t2 == Put(t1, "RTARROW" \in elem, "WRIGHT", Free, Corner(elem), Free, Edge)
      t3 == Put(t2, "HSLIDE" \in elem, "WHSB", left, right, Free, Edge)
  IN  Put(t3, "HSLIDE" \notin elem /\ HasRow(elem), "BFILLOUT", left, right, Free, Edge)

\* The title of an icon comes last: it has a height of its own, and the name of
\* the application, which is in the title, is not shown.
PackIcon(t, elem) ==
  LET low == [t EXCEPT !.tree["WMOVER"].h = csheight + 2, !.shown = @ \ {"WAPP"}]
  IN  IF "IMOVER" \in elem THEN Put(low, TRUE, "WMOVER", Edge, Edge, Edge, Free)
      ELSE [t EXCEPT !.shown = @ \cup {"WAPP"}]

set_win_elem(t, elem) == PackIcon(PackRow(PackColumn(PackTitle(t, elem), elem), elem), elem)

-----------------------------------------------------------------------------
(* Division as C has it, and the sliders, in thousandths of their bars.     *)
Thousandth(n) == IF n >= 0 THEN n \div 1000 ELSE -((-n) \div 1000)
Clamp(n) == IF n > 1000 THEN 1000 ELSE IF n < 1 THEN 1 ELSE n
Slid(old, n) == IF n = -1 THEN old ELSE Clamp(n)

(* Wind_set_slider(): where the slider goes depends on the length it had.  *)
SetVertical(w, position, size) ==
  LET p == Slid(w.vslidepos, position)
      s == Slid(w.vslidesize, size)
      bar == w.tree["WVSB"].h
  IN  [w EXCEPT !.vslidepos = p, !.vslidesize = s,
         !.tree["WVSLIDER"].y = Thousandth(p * (bar - w.tree["WVSLIDER"].h)),
         !.tree["WVSLIDER"].h = Thousandth(s * bar)]
SetHorizontal(w, position, size) ==
  LET p == Slid(w.hslidepos, position)
      s == Slid(w.hslidesize, size)
      bar == w.tree["WHSB"].w
  IN  [w EXCEPT !.hslidepos = p, !.hslidesize = s,
         !.tree["WHSLIDER"].x = Thousandth(p * (bar - w.tree["WHSLIDER"].w)),
         !.tree["WHSLIDER"].w = Thousandth(s * bar)]

\* The part of Wind_set_size() each object takes in a change of size.
Shift(o, d) ==
  LET None == [x |-> 0, y |-> 0, w |-> 0, h |-> 0]
  IN  CASE o \in {"WMOVER", "WINFO", "TFILLOUT"} -> [None EXCEPT !.w = d.w]
        [] o \in {"WFULLER", "WSMALLER", "WUP"} -> [None EXCEPT !.x = d.w]
        [] o \in {"WDOWN", "WSIZER", "WRIGHT", "SFILLOUT"} -> [None EXCEPT !.x = d.w, !.y = d.h]
        [] o = "WLEFT" -> [None EXCEPT !.y = d.h]
        [] o \in {"WVSB", "RFILLOUT"} -> [None EXCEPT !.x = d.w, !.h = d.h]
        [] o = "WHSB" -> [None EXCEPT !.y = d.h, !.w = d.w]
        [] o = "BFILLOUT" -> [None EXCEPT !.y = d.y, !.w = d.w]
        [] OTHER -> None

\* Mutant of Wind_set_size: the right arrow stays at its height.
RightArrowStays(w, size) ==
  LET d == Delta(size, w.totsize)
      moved == [o \in DOMAIN w.tree |->
                  IF o = Root THEN size
                  ELSE Plus(w.tree[o], IF o = "WRIGHT" THEN [Shift(o, d) EXCEPT !.y = 0]
                                       ELSE Shift(o, d))]
  IN  [w EXCEPT !.totsize = size, !.worksize = Plus(@, d), !.tree = moved]

Wind_set_size(w, size) ==
  LET d == Delta(size, w.totsize)
      moved == [o \in DOMAIN w.tree |->
                  IF o = Root THEN size ELSE Plus(w.tree[o], Shift(o, d))]
      named == [moved EXCEPT !["WAPP"].w = moved["WMOVER"].w]
      sized == [w EXCEPT !.totsize = size, !.worksize = Plus(@, d), !.tree = named]
  IN  SetHorizontal(SetVertical(sized, -1, -1), -1, -1)

\* set_win_elem() and calcworksize(), as iconify, uniconify and create call them.
Dressed(w, elem) ==
  LET t == set_win_elem([tree |-> w.tree, shown |-> w.shown], elem)
  IN  [w EXCEPT !.tree = t.tree, !.shown = t.shown,
                !.worksize = calcworksize(elem, w.totsize)]

\* The server's side of a new size.
setwinsize(s, size) ==
  [s EXCEPT !.totsize = size, !.worksize = Plus(@, Delta(size, s.totsize))]

-----------------------------------------------------------------------------
FrameInit == ws = NoWindow /\ win = NoWindow

(* The server gets the size of the resource and the work area in two calls. *)
Wind_do_create(elem) ==
  /\ ws = NoWindow
  /\ LET new == [elements |-> elem, tree |-> WINDOW, shown |-> {},
                 totsize |-> WINDOW[Root], worksize |-> WINDOW[Root],
                 vslidepos |-> 1, vslidesize |-> 1000,
                 hslidepos |-> 1, hslidesize |-> 1000]
         dressed == Dressed(new, elem)
     IN  /\ ws' = Wind_set_size(dressed, dressed.totsize)
         /\ win' = [totsize |-> dressed.totsize, worksize |-> dressed.worksize,
                    open |-> FALSE, iconified |-> FALSE]

\* The library takes the size even if the server refuses the call.
Wind_do_open(size) ==
  /\ ws # NoWindow
  /\ win.open => OpenTwice
  /\ ws' = Wind_set_size(ws, size)
  /\ win' = IF win.open THEN win ELSE [setwinsize(win, size) EXCEPT !.open = TRUE]

Wind_do_close ==
  /\ ws # NoWindow /\ win.open
  /\ win' = [win EXCEPT !.open = FALSE]
  /\ UNCHANGED ws

Wind_do_delete ==
  /\ ws # NoWindow /\ ~win.open
  /\ ws' = NoWindow /\ win' = NoWindow

Wind_set_currxywh(size) ==
  /\ ws # NoWindow
  /\ ws' = Wind_set_size(ws, size)
  /\ win' = setwinsize(win, size)

Wind_set_iconify(size) ==
  /\ ws # NoWindow
  /\ ws' = Wind_set_size(Dressed(ws, {"IMOVER"}), size)
  /\ win' = [setwinsize(win, size) EXCEPT !.iconified = TRUE]

\* Mutant of Wind_set_uniconify: the work area is left as it is.
UniconifyKeepsWork(size) ==
  /\ ws # NoWindow
  /\ ws' = Wind_set_size([Dressed(ws, ws.elements) EXCEPT !.worksize = ws.worksize], size)
  /\ win' = [setwinsize(win, size) EXCEPT !.iconified = FALSE]

Wind_set_uniconify(size) ==
  /\ ws # NoWindow
  /\ ws' = Wind_set_size(Dressed(ws, ws.elements), size)
  /\ win' = [setwinsize(win, size) EXCEPT !.iconified = FALSE]

Wind_set_slider(position, size) ==
  /\ ws # NoWindow
  /\ \/ "VSLIDE" \in ws.elements /\ ws' = SetVertical(ws, position, size)
     \/ "HSLIDE" \in ws.elements /\ ws' = SetHorizontal(ws, position, size)
  /\ UNCHANGED win

FrameNext ==
  \/ \E elem \in Elements : Wind_do_create(elem)
  \/ \E size \in Sizes : \/ Wind_do_open(size) \/ Wind_set_currxywh(size)
                         \/ Wind_set_iconify(size) \/ Wind_set_uniconify(size)
  \/ \E n \in Slides : Wind_set_slider(n, -1) \/ Wind_set_slider(-1, n)
  \/ Wind_do_close \/ Wind_do_delete

FrameSpec == FrameInit /\ [][FrameNext]_frameVars
-----------------------------------------------------------------------------
Elem == IF win.iconified THEN {"IMOVER"} ELSE ws.elements
Packed == ws.shown \ (Adrift \cup {"WAPP"})

\* However often a window has changed its size, was made an icon and a window
\* again: its widgets and its work area are where set_win_elem() and
\* calcworksize() put them in a new window of this size, and each slider has
\* the length that was set.
LayoutIsKept ==
  ws # NoWindow =>
    LET fresh == set_win_elem([tree |-> [WINDOW EXCEPT ![Root] = ws.totsize], shown |-> {}], Elem)
    IN  /\ ws.shown = fresh.shown
        /\ \A o \in Packed \cup {Root} : ws.tree[o] = fresh.tree[o]
        /\ ws.worksize = calcworksize(Elem, ws.totsize)
        /\ ws.tree["WAPP"].w = ws.tree["WMOVER"].w
        /\ ws.tree["WVSLIDER"].h = Thousandth(ws.vslidesize * ws.tree["WVSB"].h)
        /\ ws.tree["WHSLIDER"].w = Thousandth(ws.hslidesize * ws.tree["WHSB"].w)

\* What an object covers with its three-dimensional border.
Extent(o) ==
  LET b == IF o = Root THEN 0 ELSE D3DSIZE
      r == ws.tree[o]
  IN  [x |-> r.x - b, y |-> r.y - b, w |-> r.w + 2 * b, h |-> r.h + 2 * b]
Apart(r, s) ==
  r.x + r.w <= s.x \/ s.x + s.w <= r.x \/ r.y + r.h <= s.y \/ s.y + s.h <= r.y

\* What set_win_elem() puts at the top of a window that has the iconify box but
\* nothing calcworksize() counts a headline for: the box, the filling beside it
\* and, below them, the line of information.
Uncounted ==
  IF "SMALLER" \in Elem /\ Elem \cap {"CLOSER", "MOVER", "FULLER", "NAME"} = {}
  THEN {"WSMALLER", "TFILLOUT", "WINFO"} ELSE {}

\* The widgets that are shown lie in the window, and neither on each other nor
\* on the work area, which the application draws: what set_win_elem() packs is
\* what calcworksize() leaves out.  It is not for a window whose title is the
\* iconify box only: its title lies on the work area (wind.c:239, 763-796).
WidgetsFit ==
  ws # NoWindow =>
    LET work == [ws.worksize EXCEPT !.x = @ - ws.totsize.x, !.y = @ - ws.totsize.y]
    IN  \A o \in Packed :
          /\ Extent(o).x >= 0 /\ Extent(o).x + Extent(o).w <= ws.totsize.w
          /\ Extent(o).y >= 0 /\ Extent(o).y + Extent(o).h <= ws.totsize.h
          /\ o \notin Uncounted => Apart(Extent(o), work)
          /\ \A p \in Packed \ {o} : Apart(Extent(o), Extent(p))

\* wind_get() answers from what the library keeps ("Return area if we have it",
\* wind.c:1435), the server redraws and cuts by what it keeps: they agree on the
\* window and, unless it is an icon, on its work area.
SizesAgree ==
  ws # NoWindow =>
    /\ ws.totsize = win.totsize
    /\ ~win.iconified => ws.worksize = win.worksize
=============================================================================
