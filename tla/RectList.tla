------------------------------ MODULE RectList ------------------------------
(***************************************************************************)
(* The rectangle lists of rlist.c, under the three operations of           *)
(* srv_wind.c that use all of them: a window `size' that lies on the       *)
(* desktop is moved and sized, while a window `upper' above it is opened   *)
(* and closed.  A list is a sequence of rectangles, in the order of the    *)
(* code, so that how a region is cut into rectangles, and the order in     *)
(* which a moved window is copied, are those of the code.                  *)
(***************************************************************************)
EXTENDS Integers, Sequences, FiniteSets, SequencesExt

CONSTANTS
  Screen,   \* the rectangle of the desktop
  Sizes,    \* where the window may be put
  Uppers    \* where the window above it may be opened

VARIABLES
  upper,    \* the window above, or NoRect
  size,     \* totsize of the window
  above, mine, theirs,  \* the rlist of upper, of the window, of the desktop
  copies, asked, by     \* the last operation copied these rectangles by this
                        \* distance, and asked the window for these

vars == <<upper, size, above, mine, theirs, copies, asked, by>>

-----------------------------------------------------------------------------
Rect(x, y, w, h) == [x |-> x, y |-> y, w |-> w, h |-> h]
NoRect == Rect(0, 0, 0, 0)
Right(r) == r.x + r.w
Bottom(r) == r.y + r.h
Surface(r) == r.w * r.h
Cells(r) == (r.x .. Right(r) - 1) \X (r.y .. Bottom(r) - 1)
Region(list) == UNION {Cells(list[k]) : k \in DOMAIN list}
Moved(r, d) == [r EXCEPT !.x = @ + d[1], !.y = @ + d[2]]

Least(a, b) == IF a < b THEN a ELSE b
Most(a, b) == IF a > b THEN a ELSE b

Meet(r, s) ==
  LET x == Most(r.x, s.x)
      y == Most(r.y, s.y)
  IN  Rect(x, y, Least(Right(r), Right(s)) - x, Least(Bottom(r), Bottom(s)) - y)

-----------------------------------------------------------------------------
(* tryinsert *)

Beside(r, s) == Right(r) = s.x \/ Right(s) = r.x

\* The rectangle across d and s, that lie side by side, and what is left of
\* them above and below it.
Across(d, s) ==
  LET y == Most(d.y, s.y)
  IN  Rect(Least(d.x, s.x), y, d.w + s.w, Least(Bottom(d), Bottom(s)) - y)
Above(d, s) ==
  LET r == IF s.y < d.y THEN s ELSE d
  IN  Rect(r.x, r.y, r.w, Across(d, s).y - r.y)
Under(d, s) ==
  LET r == IF Bottom(s) < Bottom(d) THEN d ELSE s
      y == Bottom(Across(d, s))
  IN  Rect(r.x, y, r.w, Bottom(r) - y)

JoinsAcross(d, s) ==
  /\ Across(d, s).h > 0
  /\ Surface(Across(d, s)) > Surface(d)
  /\ Surface(Across(d, s)) > Surface(s)
PartsAbove(d, s) ==
  SelectSeq(<<Above(d, s), Across(d, s)>>, LAMBDA r : r.h # 0)
Parts(d, s) ==
  SelectSeq(<<Above(d, s), Under(d, s), Across(d, s)>>, LAMBDA r : r.h # 0)

\* One above the other is the same with x and y exchanged.
Turned(r) == Rect(r.y, r.x, r.h, r.w)

\* The rectangles d and s are replaced by; <<>> if they stay as they are.
tryinsert(d, s) ==
  IF Beside(d, s)
  THEN IF JoinsAcross(d, s) THEN Parts(d, s) ELSE <<>>
  ELSE IF Beside(Turned(d), Turned(s)) /\ JoinsAcross(Turned(d), Turned(s))
  THEN LET p == Parts(Turned(d), Turned(s)) IN [k \in DOMAIN p |-> Turned(p[k])]
  ELSE <<>>

\* Every rectangle of src is tried on all of dst, from its first one again
\* after each success, and is appended when none takes it.
RECURSIVE InsertFrom(_, _, _)
InsertFrom(dst, src, k) ==
  IF src = <<>> THEN dst
  ELSE IF k > Len(dst) THEN InsertFrom(Append(dst, Head(src)), Tail(src), 1)
  ELSE LET parts == tryinsert(dst[k], Head(src)) IN
       IF parts = <<>> THEN InsertFrom(dst, src, k + 1)
       ELSE InsertFrom(RemoveAt(dst, k), parts \o Tail(src), 1)
Rlist_insert(dst, src) == InsertFrom(dst, src, 1)

-----------------------------------------------------------------------------
(* Rlist_rectinter *)

\* What is left of r around its part m: left, right, top and bottom, each
\* pushed to the front of the remainders.
Around(r, m) ==
  SelectSeq(<<Rect(r.x, Bottom(m), r.w, Bottom(r) - Bottom(m)),
              Rect(r.x, r.y, r.w, m.y - r.y),
              Rect(Right(m), m.y, Right(r) - Right(m), m.h),
              Rect(r.x, m.y, m.x - r.x, m.h)>>,
            LAMBDA s : s.w > 0 /\ s.h > 0)

Grab(lists, area, r) ==
  LET m == Meet(area, r) IN
  IF m.w > 0 /\ m.h > 0
  THEN [lists EXCEPT !.dst = <<m>> \o @, !.rest = Around(r, m) \o @]
  ELSE [lists EXCEPT !.kept = Append(@, r)]

\* The parts of src inside area go to the front of dst; the remainders follow
\* the rectangles that were left alone.
Rlist_rectinter(dst, area, src) ==
  LET all == FoldLeft(LAMBDA lists, r : Grab(lists, area, r),
                      [dst |-> dst, kept |-> <<>>, rest |-> <<>>], src)
  IN  [dst |-> all.dst, src |-> all.kept \o all.rest]

-----------------------------------------------------------------------------
(* Rlist_sort: a bubble sort, so rectangles that compare equal keep their  *)
(* order.                                                                  *)

GoesBefore(r, s, d) ==
  IF r.x # s.x THEN IF d[1] > 0 THEN r.x > s.x ELSE r.x < s.x
  ELSE IF d[2] > 0 THEN r.y > s.y ELSE Bottom(r) < Bottom(s)

Rlist_sort(list, d) ==
  LET Put(sorted, r) ==
        LET k == Cardinality({n \in DOMAIN sorted : ~GoesBefore(r, sorted[n], d)})
        IN  InsertAt(sorted, k + 1, r)
  IN  FoldLeft(Put, <<>>, list)

-----------------------------------------------------------------------------
(* srv_wind_open and srv_wind_close of the window above *)

Init ==
  /\ size \in Sizes
  /\ upper = NoRect /\ above = <<>>
  /\ LET cut == Rlist_rectinter(<<>>, size, <<Screen>>)
     IN  /\ mine = Rlist_insert(<<>>, cut.dst)
         /\ theirs = Rlist_insert(<<>>, cut.src)
  /\ copies = <<>> /\ asked = <<>> /\ by = <<0, 0>>

srv_wind_open(r) ==
  /\ upper = NoRect
  /\ upper' = r
  /\ LET first == Rlist_rectinter(<<>>, r, mine)
         second == Rlist_rectinter(first.dst, r, theirs)
     IN  /\ mine' = Rlist_insert(<<>>, first.src)
         /\ theirs' = Rlist_insert(<<>>, second.src)
         /\ above' = Rlist_insert(<<>>, second.dst)
  /\ copies' = <<>> /\ asked' = <<>> /\ by' = <<0, 0>>
  /\ UNCHANGED size

srv_wind_close ==
  /\ upper # NoRect
  /\ upper' = NoRect
  /\ LET first == Rlist_rectinter(<<>>, size, above)
         second == Rlist_rectinter(<<>>, Screen, first.src)
     IN  /\ mine' = Rlist_insert(mine, first.dst)
         /\ theirs' = Rlist_insert(theirs, second.dst)
         /\ above' = <<>>
         /\ asked' = IF first.dst = <<>> THEN <<>> ELSE <<upper>>
  /\ copies' = <<>> /\ by' = <<0, 0>>
  /\ UNCHANGED size

-----------------------------------------------------------------------------
(* changewinsize *)

\* The parts of `from' that were in `list' before it moved, and the rest.
SplitUnmoved(list, d, from) ==
  FoldLeft(LAMBDA lists, s : Rlist_rectinter(lists.dst, s, lists.src),
           [dst |-> <<>>, src |-> from], list)
Split(list, d, from) ==
  FoldLeft(LAMBDA lists, s : Rlist_rectinter(lists.dst, Moved(s, d), lists.src),
           [dst |-> <<>>, src |-> from], list)

\* The window moves, and perhaps changes its size.
Move(r) ==
  /\ r.x # size.x \/ r.y # size.y
  /\ LET d == <<r.x - size.x, r.y - size.y>>
         own == Rlist_rectinter(<<>>, r, mine)
         got == Rlist_rectinter(own.dst, r, theirs)
         new == Rlist_insert(<<>>, got.dst)
         movable == IF r.w = size.w /\ r.h = size.h THEN new
                    ELSE Rlist_rectinter(<<>>, r, new).dst
         split == Split(mine, d, movable)
         given == Rlist_rectinter(<<>>, Screen, own.src)
         moves == Rlist_sort(split.dst, d)
         fresh == Rlist_insert(<<>>, split.src)
     IN  /\ copies' = moves /\ asked' = fresh /\ by' = d
         /\ mine' = Rlist_insert(fresh, moves)
         /\ theirs' = Rlist_insert(got.src, given.dst)
  /\ size' = r
  /\ UNCHANGED <<upper, above>>

\* Only the size changes: strips at the right and at the bottom come or go.
Sized(r) ==
  /\ r.x = size.x /\ r.y = size.y /\ r # size
  /\ LET dw == r.w - size.w
         dh == r.h - size.h
         rt == IF dw < 0 THEN Rect(Right(r), r.y, -dw, r.h)
               ELSE Rect(Right(r) - dw, r.y, dw, r.h)
         dn == IF dh < 0 THEN Rect(r.x, Bottom(r), size.w, -dh)
               ELSE Rect(r.x, Bottom(r) - dh, r.w, dh)
         \* Rlist_rectinter when the strip goes (comes), nothing otherwise
         If(c, dst, area, src) ==
           IF c THEN Rlist_rectinter(dst, area, src) ELSE [dst |-> dst, src |-> src]
         lost1 == If(dw < 0, <<>>, rt, mine)
         lost2 == If(dh < 0, lost1.dst, dn, lost1.src)
         given == If(dw < 0 \/ dh < 0, <<>>, Screen, lost2.dst)
         got1 == If(dw > 0, <<>>, rt, theirs)
         got2 == If(dh > 0, got1.dst, dn, got1.src)
         \* the working area of a window without widgets is all of it
         kept == Rlist_rectinter(<<>>, size, lost2.src)
         top == Rlist_rectinter(got2.dst, r, kept.src)
         fresh == Rlist_insert(<<>>, top.dst)
     IN  /\ theirs' = Rlist_insert(got2.src, given.dst)
         /\ asked' = fresh
         /\ mine' = Rlist_insert(Rlist_insert(top.src, kept.dst), fresh)
  /\ copies' = <<>> /\ by' = <<0, 0>>
  /\ size' = r
  /\ UNCHANGED <<upper, above>>

Next ==
  \/ \E r \in Uppers : srv_wind_open(r)
  \/ srv_wind_close
  \/ \E r \in Sizes : Move(r) \/ Sized(r)

Spec == Init /\ [][Next]_vars

-----------------------------------------------------------------------------
(* Properties *)

\* Cutting, joining and handing over rectangles loses no cell and makes none:
\* each list covers what is to be seen of its window, and no cell of it twice,
\* so that an application that walks the list draws every cell once.
ListsAreExact ==
  LET on(r) == Cells(r) \intersect Cells(Screen) IN
  /\ Region(above) = on(upper)
  /\ Region(mine) = on(size) \ on(upper)
  /\ Region(theirs) = Cells(Screen) \ (on(size) \union on(upper))
  /\ \A list \in {above, mine, theirs} :
       \A k, l \in DOMAIN list : k # l => Cells(list[k]) \intersect Cells(list[l]) = {}

\* The order Rlist_sort() gives the copies is safe, as its comment says: no
\* rectangle is copied over one that is still to be copied from.
SafeOrder ==
  \A k, l \in DOMAIN copies :
    k < l => Cells(copies[k])
               \intersect Cells(Moved(copies[l], <<-by[1], -by[2]>>)) = {}

\* A move makes the whole window right: every cell of it is copied or asked
\* for, not both; what is copied comes from where the window could be seen,
\* and from no place that was copied over before if it moves sideways.
CopiedOrAsked ==
  [][by' # <<0, 0>> =>
       LET back == [k \in DOMAIN copies' |-> Moved(copies'[k], <<-by'[1], -by'[2]>>)]
       IN  /\ Region(mine') = Region(copies') \union Region(asked')
           /\ Region(copies') \intersect Region(asked') = {}
           /\ Region(back) \subseteq Region(mine)
           /\ by'[2] = 0 => SafeOrder']_vars

=============================================================================
