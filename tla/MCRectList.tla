----------------------------- MODULE MCRectList -----------------------------
(* A window on a desktop of four by four cells, and one that cuts a corner *)
(* or the middle out of it.                                                *)
EXTENDS RectList

R(x, y, w, h) == [x |-> x, y |-> y, w |-> w, h |-> h]
Desktop   == R(0, 0, 4, 4)
Windows   == {R(0, 0, 3, 3), R(0, 1, 3, 3), R(1, 1, 3, 3)}
Corners   == {R(2, 0, 2, 2), R(1, 1, 1, 1), R(0, 0, 2, 2)}
=============================================================================
