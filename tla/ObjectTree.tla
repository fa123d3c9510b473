----------------------------- MODULE ObjectTree -----------------------------
(***************************************************************************)
(* Object trees (objc.c): an array of objects linked by three indices.     *)
(* ob_head and ob_tail of an object are its first and last child, ob_next  *)
(* is the next sibling or, for the last one, the parent.  objc_add() and   *)
(* objc_delete() relink them; objc_draw(), objc_find() and objc_offset()   *)
(* walk along them.  The children that the program means an object to have *)
(* are kept beside the links, in "kids".  Positions have one coordinate.   *)
(***************************************************************************)
EXTENDS Integers, Sequences, FiniteSets, SequencesExt

CONSTANTS
  LASTOB,    \* index of the last object; 0 is the root
  OB_X,      \* position of each object in its parent
  OB_WIDTH,
  MaxOut     \* most objects out of the tree at a time

VARIABLES head, tail, next,  \* ob_head, ob_tail and ob_next
          hidden,            \* objects with HIDETREE
          kids               \* object -> its children, in order
vars == <<head, tail, next, hidden, kids>>

Object == 0 .. LASTOB
None == -1

-----------------------------------------------------------------------------
(* The tree that is meant. *)
Parent(c) == CHOOSE p \in Object : Contains(kids[p], c)
Out == {o \in Object \ {0} : \A p \in Object : ~Contains(kids[p], o)}

RECURSIVE Subtree(_, _, _)
\* Object o at place x and what is below it, but for the unseen, front last.
Subtree(o, x, unseen) ==
  IF o \in unseen THEN <<>>
  ELSE FoldLeft(LAMBDA s, c : s \o Subtree(c, x + OB_X[c], unseen),
                <<[object |-> o, at |-> x]>>, kids[o])

InTree == {r.object : r \in ToSet(Subtree(0, 0, {}))}

-----------------------------------------------------------------------------
(* All objects are children of the root, as a resource file may have them. *)
Init ==
  /\ kids = [o \in Object |-> IF o = 0 THEN [k \in 1 .. LASTOB |-> k] ELSE <<>>]
  /\ head = [o \in Object |-> IF o = 0 THEN 1 ELSE None]
  /\ tail = [o \in Object |-> IF o = 0 THEN LASTOB ELSE None]
  /\ next = [o \in Object |-> IF o = 0 THEN None ELSE IF o = LASTOB THEN 0 ELSE o + 1]
  /\ hidden = {}

\* Mutant of do_objc_add: the last child is not linked to the new one.
AddUnlinked(p, c) ==
  /\ tail' = [tail EXCEPT ![p] = c] /\ next' = [next EXCEPT ![c] = p]
  /\ head' = IF tail[p] < 0 THEN [head EXCEPT ![p] = c] ELSE head

do_objc_add(p, c) ==
  /\ tail' = [tail EXCEPT ![p] = c]
  /\ IF tail[p] < 0
     THEN head' = [head EXCEPT ![p] = c] /\ next' = [next EXCEPT ![c] = p]
     ELSE next' = [next EXCEPT ![c] = p, ![tail[p]] = c] /\ UNCHANGED head

objc_add(p, c) ==
  /\ p \in InTree /\ c \in Out
  /\ do_objc_add(p, c)
  /\ kids' = [kids EXCEPT ![p] = Append(@, c)]
  /\ UNCHANGED hidden

(* The predecessor is the first object of the array that has o as its next *)
(* one and is not its last child.  ob_next of o stays as it is.            *)
Before(o) == {i \in Object : next[i] = o /\ tail[o] # i}
Predecessor(o) == CHOOSE i \in Before(o) : \A j \in Before(o) : i <= j

Objc_do_delete(o) ==
  LET after  == IF next[o] # None /\ tail[next[o]] = o THEN None ELSE next[o]
      before == IF Before(o) = {} THEN None ELSE Predecessor(o)
  IN  /\ next' = IF before = None THEN next ELSE [next EXCEPT ![before] = next[o]]
      /\ head' = [i \in Object |-> IF head[i] = o THEN after ELSE head[i]]
      /\ tail' = [i \in Object |-> IF tail[i] = o THEN before ELSE tail[i]]

objc_delete(o) ==
  /\ o \in InTree \ {0} /\ Cardinality(Out) < MaxOut
  /\ Objc_do_delete(o)
  /\ kids' = [kids EXCEPT ![Parent(o)] = Remove(@, o)]
  /\ UNCHANGED hidden

\* The program shows or hides an object and what is below it.
SetHidden(o) ==
  /\ hidden' = IF o \in hidden THEN hidden \ {o} ELSE hidden \union {o}
  /\ UNCHANGED <<head, tail, next, kids>>

Next ==
  \/ \E p, c \in Object : objc_add(p, c)
  \/ \E o \in Object : objc_delete(o) \/ SetHidden(o)

Spec == Init /\ [][Next]_vars

-----------------------------------------------------------------------------
(* The walks, along the links. *)

RECURSIVE Objc_do_offset(_), Upward(_)
Upward(o) == IF tail[next[o]] = o THEN next[o] ELSE Upward(next[o])
Objc_do_offset(o) ==
  OB_X[o] + (IF next[o] < 0 \/ o = 0 THEN 0 ELSE Objc_do_offset(Upward(o)))

RECURSIVE Draws(_, _), Climb(_, _)
\* Up from the last child, to an object that has a sibling or to the start.
Climb(w, object) ==
  IF w.next # None /\ tail[w.next] = w.current /\ w.current # object
  THEN Climb([w EXCEPT !.depth = @ + 1, !.current = w.next, !.x = @ - OB_X[w.next],
                       !.next = next[w.next]], object)
  ELSE w

\* One round of the loop of Objc_do_draw(), and the rounds after it.
Draws(w, object) ==
  LET c    == w.current
      seen == c \notin hidden
      n    == IF seen THEN head[c] ELSE w.next
      d    == [w EXCEPT
                !.drawn = IF seen THEN Append(@, [object |-> c, at |-> w.x + OB_X[c]]) ELSE @,
                !.x     = IF seen /\ n # None THEN @ + OB_X[c] ELSE @,
                !.next  = n]
      up   == Climb([d EXCEPT !.next = next[c]], object)
  IN  IF (n = None \/ w.depth <= 0) /\ c = object THEN d.drawn
      ELSE IF w.depth >= 0 /\ n # None /\ seen
      THEN Draws([d EXCEPT !.depth = @ - 1, !.current = n], object)
      ELSE IF up.next = None \/ up.current = object \/ up.next = object THEN up.drawn
      ELSE Draws([up EXCEPT !.current = up.next], object)

Objc_do_draw(object, depth) ==
  Draws([current |-> object, next |-> None, depth |-> depth,
         x |-> Objc_do_offset(object) - OB_X[object], drawn |-> <<>>], object)

RECURSIVE Objc_do_find(_, _, _), Best(_, _, _, _, _)
\* The last of the children from i on in which something is found, else best.
Best(i, parent, depth, x, best) ==
  IF i = parent THEN best
  ELSE LET deeper == Objc_do_find(i, depth - 1, x - OB_X[i])
       IN  Best(next[i], parent, depth, x, IF deeper >= 0 THEN deeper ELSE best)
Objc_do_find(o, depth, x) ==
  IF o \in hidden \/ x < 0 \/ x >= OB_WIDTH[o] THEN None
  ELSE IF depth > 0 /\ head[o] >= 0 THEN Best(head[o], o, depth, x, o) ELSE o

-----------------------------------------------------------------------------
MAX_DEPTH == 9

LinksAgree ==
  \A p \in Object :
    /\ kids[p] = <<>> => head[p] = None /\ tail[p] = None
    /\ \A k \in DOMAIN kids[p] :
         /\ k = 1 => head[p] = kids[p][k]
         /\ IF k < Len(kids[p]) THEN next[kids[p][k]] = kids[p][k + 1]
            ELSE tail[p] = kids[p][k] /\ next[kids[p][k]] = p

Everything == Subtree(0, OB_X[0], {})
PlaceOf(o) == (CHOOSE r \in ToSet(Everything) : r.object = o).at

RECURSIVE Shows(_, _)
\* Object o is seen at place x: so are all the objects that it is in.
Shows(o, x) ==
  /\ o \notin hidden /\ x \in PlaceOf(o) .. PlaceOf(o) + OB_WIDTH[o] - 1
  /\ o # 0 => Shows(Parent(o), x)

(***************************************************************************)
(* The links are the tree that the program has built, whichever objects it *)
(* took out and put in elsewhere: objc_draw() draws what is not hidden,    *)
(* parents before children and brothers in their order, each in its place; *)
(* objc_offset() tells that place; and objc_find() finds the object that   *)
(* was drawn last at a place, so that a click hits what the user sees.     *)
(***************************************************************************)
LinksAreTheTree ==
  /\ LinksAgree
  /\ \A o \in InTree :
       /\ Objc_do_offset(o) = PlaceOf(o)
       /\ Objc_do_draw(o, MAX_DEPTH) = Subtree(o, PlaceOf(o), hidden)
  /\ \A x \in OB_X[0] - 1 .. OB_X[0] + OB_WIDTH[0] :
       LET shown == SelectSeq(Everything, LAMBDA r : Shows(r.object, x))
       IN  Objc_do_find(0, MAX_DEPTH, x - Objc_do_offset(0))
             = IF shown = <<>> THEN None ELSE shown[Len(shown)].object
=============================================================================
