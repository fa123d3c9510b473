----------------------------- MODULE MCWindows -----------------------------
(* A screen of two by four cells, the top row being the menu bar, and two *)
(* sizes a row apart: a move from one to the other copies over a source.  *)
EXTENDS Windows, TLC

R(x, y, w, h) == [x |-> x, y |-> y, w |-> w, h |-> h]
SomeRects == {R(0, 1, 2, 3), R(0, 2, 1, 2)}

=============================================================================
