--------------------------- MODULE WindowsProofs ---------------------------
(***************************************************************************)
(* Proofs about the window manager for every screen, every set of sizes    *)
(* and any number of windows.                                              *)
(*                                                                         *)
(* The stacking order is a sequence, but the regions only depend on which  *)
(* window is in front of which.  The first part says what each operation   *)
(* does to the relation InFront, the rest never looks at positions again:  *)
(* the regions, then who is topped, then what is left to draw.             *)
(***************************************************************************)
EXTENDS Windows, NaturalsInduction, WellFoundedInduction, TLAPS

-----------------------------------------------------------------------------
(* The stacking order *)

\* The windows of `order' and that each is in it once, the desktop last.
In(order) == {order[k] : k \in DOMAIN order}
Once(order) == \A k, l \in DOMAIN order : order[k] = order[l] => k = l
Stack(order, S) ==
  /\ order \in Seq(S) /\ order # <<>>
  /\ Once(order)
  /\ order[Len(order)] = DESKTOP_WINDOW

\* A set of naturals has a least element.
LEMMA LeastExists ==
  ASSUME NEW S \in SUBSET Nat, S # {}
  PROVE  \E m \in S : \A n \in S : m <= n
<1>1. PICK m \in S : \A n \in S : <<n, m>> \notin OpToRel(<, Nat)
  BY WFMin, NatLessThanWellFounded, Zenon
<1>2. \A n \in S : ~ (n < m)
  BY <1>1, Zenon DEF OpToRel
<1> QED
  BY <1>2

\* An order of some windows is one of more.
LEMMA StackGrows ==
  ASSUME NEW S, NEW R, R \subseteq S, NEW order, Stack(order, R)
  PROVE  Stack(order, S)
BY DEF Stack

\* Which of two windows is in front is decided, and only one of them is.
LEMMA FrontIsTotal ==
  ASSUME NEW S, NEW order, Stack(order, S),
         NEW a \in In(order), NEW b \in In(order), a # b
  PROVE  InFront(order, a, b) <=> ~InFront(order, b, a)
<1>1. PICK k \in 1 .. Len(order) : order[k] = a
  BY DEF In, Stack
<1>2. PICK l \in 1 .. Len(order) : order[l] = b
  BY DEF In, Stack
<1>3. k # l
  BY <1>1, <1>2
<1>4. CASE k < l
  BY <1>1, <1>2, <1>4 DEF InFront, Stack, Once
<1>5. CASE l < k
  BY <1>1, <1>2, <1>5 DEF InFront, Stack, Once
<1> QED
  BY <1>3, <1>4, <1>5

\* A window in front of another is another window of the same order.
LEMMA FrontIsIn ==
  ASSUME NEW S, NEW order, Stack(order, S), NEW a, NEW b, InFront(order, a, b)
  PROVE  a \in In(order) /\ b \in In(order) /\ a # b
BY DEF InFront, In, Stack, Once

\* Being in front of is transitive.
LEMMA FrontIsTransitive ==
  ASSUME NEW S, NEW order, Stack(order, S), NEW a, NEW b, NEW c,
         InFront(order, a, b), InFront(order, b, c)
  PROVE  InFront(order, a, c)
BY DEF InFront, Stack, Once

\* The desktop is behind every other window.
LEMMA DesktopIsLast ==
  ASSUME NEW S, NEW order, Stack(order, S), NEW a \in In(order), a # DESKTOP_WINDOW
  PROVE  InFront(order, a, DESKTOP_WINDOW) /\ DESKTOP_WINDOW \in In(order)
BY DEF InFront, In, Stack

\* Position finds an open window.
LEMMA PositionFound ==
  ASSUME NEW S, Stack(win_vis, S), NEW i \in Open
  PROVE  Position(i) \in 1 .. Len(win_vis) /\ win_vis[Position(i)] = i
BY DEF Position, Open, Stack

\* A window is taken out of the order.
LEMMA WithoutOrder ==
  ASSUME NEW S, Stack(win_vis, S), NEW i \in Open, i # DESKTOP_WINDOW
  PROVE  /\ Stack(Without(i), S \ {i})
         /\ In(Without(i)) = Open \ {i}
         /\ \A a, b : InFront(Without(i), a, b)
                        <=> InFront(win_vis, a, b) /\ a # i /\ b # i
<1> DEFINE p == Position(i)
           n == Len(win_vis)
           w == Without(i)
<1>1. p \in 1 .. n /\ win_vis[p] = i
  BY PositionFound
<1>2. n \in Nat /\ n > 1 /\ p # n /\ win_vis \in [1 .. n -> S]
  BY <1>1 DEF Stack
<1>3. w \in Seq(S \ {i}) /\ Len(w) = n - 1 /\ DOMAIN w = 1 .. n - 1
  <2>1. w = [k \in 1 .. n - 1 |-> win_vis[IF k < p THEN k ELSE k + 1]]
    BY DEF Without
  <2>2. \A k \in 1 .. n - 1 : w[k] \in S \ {i}
    BY <1>1, <1>2, <2>1 DEF Stack, Once
  <2>3. w \in [1 .. n - 1 -> S \ {i}] /\ n - 1 \in Nat
    BY <2>1, <2>2, <1>2
  <2> QED
    BY <2>3
<1>4. \A k \in 1 .. n - 1 : w[k] = win_vis[IF k < p THEN k ELSE k + 1]
  BY DEF Without
<1> HIDE DEF w, n, p
<1>5. \A k \in 1 .. n : k # p => \E m \in 1 .. n - 1 :
        w[m] = win_vis[k] /\ m = (IF k < p THEN k ELSE k - 1)
  BY <1>1, <1>2, <1>4
<1>6. \A a, b : InFront(w, a, b) => InFront(win_vis, a, b) /\ a # i /\ b # i
  BY <1>1, <1>2, <1>3, <1>4 DEF InFront
<1>7. \A a, b : InFront(win_vis, a, b) /\ a # i /\ b # i => InFront(w, a, b)
  <2> SUFFICES ASSUME NEW a, NEW b, InFront(win_vis, a, b), a # i, b # i
               PROVE  InFront(w, a, b)
    OBVIOUS
  <2>1. PICK l \in 1 .. n : win_vis[l] = b /\ \E k \in 1 .. l - 1 : win_vis[k] = a
    BY <1>2 DEF InFront
  <2>2. PICK k \in 1 .. l - 1 : win_vis[k] = a
    BY <2>1
  <2>3. PICK m \in 1 .. n - 1 : w[m] = b /\ m = (IF l < p THEN l ELSE l - 1)
    BY <1>1, <1>5, <2>1
  <2>4. PICK o \in 1 .. n - 1 : w[o] = a /\ o = (IF k < p THEN k ELSE k - 1)
    BY <1>1, <1>2, <1>5, <2>1, <2>2
  <2>5. o < m
    BY <1>1, <1>2, <2>1, <2>2, <2>3, <2>4
  <2> QED
    BY <1>2, <1>3, <2>3, <2>4, <2>5, SMTT(30) DEF InFront
<1>8. In(w) = Open \ {i}
  <2>1. In(w) \subseteq Open \ {i}
    BY <1>1, <1>2, <1>3, <1>4 DEF In, Open
  <2>2. Open \ {i} \subseteq In(w)
    BY <1>1, <1>2, <1>3, <1>5 DEF In, Open
  <2> QED
    BY <2>1, <2>2
<1>9. Once(w)
  BY <1>1, <1>2, <1>3, <1>4 DEF Once, Stack
<1>10. w # <<>> /\ w[Len(w)] = DESKTOP_WINDOW
  BY <1>1, <1>2, <1>3, <1>4 DEF Stack
<1> QED
  BY <1>3, <1>6, <1>7, <1>8, <1>9, <1>10 DEF Stack, w

\* What is raised goes in front of all, or of all but a dialog in front.
LEMMA RaisedOrder ==
  ASSUME NEW S, NEW order, Stack(order, S), NEW i \in S, i \notin In(order),
         UnderDialog(order) => Head(order) # DESKTOP_WINDOW
  PROVE  /\ Stack(Raised(i, order), S)
         /\ In(Raised(i, order)) = In(order) \union {i}
         /\ \A a, b : InFront(Raised(i, order), a, b) <=>
              \/ InFront(order, a, b)
              \/ a = i /\ b \in In(order) /\ ~(UnderDialog(order) /\ b = Head(order))
              \/ UnderDialog(order) /\ a = Head(order) /\ b = i
<1> DEFINE n == Len(order)
           r == Raised(i, order)
<1>1. n \in Nat /\ n > 0 /\ order \in [1 .. n -> S] /\ Head(order) = order[1]
  BY DEF Stack
<1>2. CASE UnderDialog(order)
  <2>1. r = <<Head(order), i>> \o Tail(order)
    BY <1>2 DEF Raised
  <2>2. r \in Seq(S) /\ Len(r) = n + 1
    BY <1>1, <2>1 DEF Stack
  <2>3. \A k \in 1 .. n + 1 :
          r[k] = (IF k = 1 THEN order[1] ELSE IF k = 2 THEN i ELSE order[k - 1])
    BY <1>1, <2>1
  <2>4. \A k \in 1 .. n : k # 1 => r[k + 1] = order[k] /\ k + 1 \in 1 .. n + 1
    BY <1>1, <2>3
  <2>5. r[1] = order[1] /\ r[2] = i
    BY <1>1, <2>3
  <2>6. n > 1
    BY <1>1, <1>2 DEF Stack
  <2> HIDE DEF r, n
  <2>7. In(r) = In(order) \union {i}
    <3>1. In(r) \subseteq In(order) \union {i}
      BY <1>1, <2>2, <2>3 DEF In
    <3>2. In(order) \union {i} \subseteq In(r)
      BY <1>1, <2>2, <2>4, <2>5, <2>6 DEF In, n
    <3> QED
      BY <3>1, <3>2
  <2>8. Stack(r, S)
    <3>1. r # <<>> /\ r[Len(r)] = DESKTOP_WINDOW
      BY <1>1, <2>2, <2>3, <2>6 DEF Stack, n
    <3>2. ASSUME NEW k \in 1 .. n + 1, NEW l \in 1 .. n + 1, k < l
          PROVE  r[k] # r[l]
      <4>1. CASE l = 2
        BY <3>2, <4>1, <1>1, <2>5 DEF In, n
      <4>2. CASE l > 2 /\ k = 2
        BY <4>2, <1>1, <2>3, <2>5 DEF In, n
      <4>3. CASE l > 2 /\ k = 1
        BY <4>3, <1>1, <2>3, <2>5 DEF Stack, Once, n
      <4>4. CASE l > 2 /\ k > 2
        BY <3>2, <4>4, <1>1, <2>3 DEF Stack, Once, n
      <4> QED
        BY <3>2, <4>1, <4>2, <4>3, <4>4, <1>1
    <3>3. Once(r)
      BY <1>1, <2>2, <3>2 DEF Once
    <3> QED
      BY <2>2, <3>1, <3>3 DEF Stack
  <2>9. ASSUME NEW a, NEW b
        PROVE  InFront(r, a, b) <=>
                 \/ InFront(order, a, b)
                 \/ a = i /\ b \in In(order) /\ b # order[1]
                 \/ a = order[1] /\ b = i
    <3>1. InFront(r, a, b) => \/ InFront(order, a, b)
                              \/ a = i /\ b \in In(order) /\ b # order[1]
                              \/ a = order[1] /\ b = i
      <4> SUFFICES ASSUME NEW l \in 1 .. n + 1, r[l] = b,
                          NEW k \in 1 .. l - 1, r[k] = a
                   PROVE  \/ InFront(order, a, b)
                          \/ a = i /\ b \in In(order) /\ b # order[1]
                          \/ a = order[1] /\ b = i
        BY <2>2 DEF InFront
      <4>1. CASE l = 2
        BY <4>1, <2>5, <1>1
      <4>2. CASE l > 2 /\ k = 2
        BY <4>2, <2>3, <2>5, <1>1 DEF In, Stack, Once, n
      <4>3. CASE l > 2 /\ k = 1
        BY <4>3, <2>3, <2>5, <1>1 DEF InFront, n
      <4>4. CASE l > 2 /\ k > 2
        BY <4>4, <2>3, <1>1 DEF InFront, n
      <4> QED
        BY <4>1, <4>2, <4>3, <4>4, <1>1
    <3>2. InFront(order, a, b) => InFront(r, a, b)
      <4> SUFFICES ASSUME NEW l \in 1 .. n, order[l] = b,
                          NEW k \in 1 .. l - 1, order[k] = a
                   PROVE  InFront(r, a, b)
        BY <1>1 DEF InFront, n
      <4>1. r[l + 1] = b /\ l + 1 \in 1 .. n + 1
        BY <2>4, <1>1
      <4>2. CASE k = 1
        BY <4>1, <4>2, <2>2, <2>5, <1>1 DEF InFront
      <4>3. CASE k # 1
        <5>1. r[k + 1] = a /\ k + 1 \in 1 .. (l + 1) - 1
          BY <4>3, <2>4, <1>1
        <5> QED
          BY <4>1, <5>1, <2>2 DEF InFront
      <4> QED
        BY <4>2, <4>3
    <3>3. b \in In(order) /\ b # order[1] => InFront(r, i, b)
      <4> SUFFICES ASSUME NEW l \in 1 .. n, order[l] = b, l # 1
                   PROVE  InFront(r, i, b)
        BY <1>1 DEF In, n
      <4>1. r[l + 1] = b /\ l + 1 \in 1 .. n + 1 /\ 2 \in 1 .. (l + 1) - 1
        BY <2>4, <1>1
      <4> QED
        BY <4>1, <2>2, <2>5 DEF InFront
    <3>4. InFront(r, order[1], i)
      <4>1. 2 \in 1 .. n + 1 /\ 1 \in 1 .. 2 - 1
        BY <1>1
      <4> QED
        BY <4>1, <2>2, <2>5 DEF InFront
    <3> QED
      BY <3>1, <3>2, <3>3, <3>4
  <2> QED
    BY <1>1, <1>2, <2>7, <2>8, <2>9 DEF r
<1>3. CASE ~UnderDialog(order)
  <2>1. r = <<i>> \o order
    BY <1>3 DEF Raised
  <2>2. r \in Seq(S) /\ Len(r) = n + 1
    BY <1>1, <2>1 DEF Stack
  <2>3. \A k \in 1 .. n + 1 : r[k] = (IF k = 1 THEN i ELSE order[k - 1])
    BY <1>1, <2>1
  <2>4. \A k \in 1 .. n : r[k + 1] = order[k] /\ k + 1 \in 1 .. n + 1
    BY <1>1, <2>3
  <2>5. r[1] = i
    BY <1>1, <2>3
  <2> HIDE DEF r, n
  <2>7. In(r) = In(order) \union {i}
    <3>1. In(r) \subseteq In(order) \union {i}
      BY <1>1, <2>2, <2>3 DEF In, n
    <3>2. In(order) \union {i} \subseteq In(r)
      BY <1>1, <2>2, <2>4, <2>5 DEF In, n
    <3> QED
      BY <3>1, <3>2
  <2>8. Stack(r, S)
    <3>1. r # <<>> /\ r[Len(r)] = DESKTOP_WINDOW
      BY <1>1, <2>2, <2>3 DEF Stack, n
    <3>2. ASSUME NEW k \in 1 .. n + 1, NEW l \in 1 .. n + 1, k < l
          PROVE  r[k] # r[l]
      <4>1. CASE k = 1
        BY <3>2, <4>1, <1>1, <2>3, <2>5 DEF In, n
      <4>2. CASE k > 1
        BY <3>2, <4>2, <1>1, <2>3 DEF Stack, Once, n
      <4> QED
        BY <3>2, <4>1, <4>2, <1>1
    <3>3. Once(r)
      BY <1>1, <2>2, <3>2 DEF Once
    <3> QED
      BY <2>2, <3>1, <3>3 DEF Stack
  <2>9. ASSUME NEW a, NEW b
        PROVE  InFront(r, a, b) <=>
                 InFront(order, a, b) \/ (a = i /\ b \in In(order))
    <3>1. InFront(r, a, b) => InFront(order, a, b) \/ (a = i /\ b \in In(order))
      <4> SUFFICES ASSUME NEW l \in 1 .. n + 1, r[l] = b,
                          NEW k \in 1 .. l - 1, r[k] = a
                   PROVE  InFront(order, a, b) \/ (a = i /\ b \in In(order))
        BY <2>2 DEF InFront
      <4>1. CASE k = 1
        BY <4>1, <2>3, <2>5, <1>1 DEF In, n
      <4>2. CASE k > 1
        BY <4>2, <2>3, <1>1 DEF InFront, n
      <4> QED
        BY <4>1, <4>2, <1>1
    <3>2. InFront(order, a, b) => InFront(r, a, b)
      <4> SUFFICES ASSUME NEW l \in 1 .. n, order[l] = b,
                          NEW k \in 1 .. l - 1, order[k] = a
                   PROVE  InFront(r, a, b)
        BY <1>1 DEF InFront, n
      <4>1. r[l + 1] = b /\ l + 1 \in 1 .. n + 1
        BY <2>4, <1>1
      <4>2. r[k + 1] = a /\ k + 1 \in 1 .. (l + 1) - 1
        BY <2>4, <1>1
      <4> QED
        BY <4>1, <4>2, <2>2 DEF InFront
    <3>3. b \in In(order) => InFront(r, i, b)
      <4> SUFFICES ASSUME NEW l \in 1 .. n, order[l] = b
                   PROVE  InFront(r, i, b)
        BY <1>1 DEF In, n
      <4>1. r[l + 1] = b /\ l + 1 \in 1 .. n + 1 /\ 1 \in 1 .. (l + 1) - 1
        BY <2>4, <1>1
      <4> QED
        BY <4>1, <2>2, <2>5 DEF InFront
    <3> QED
      BY <3>1, <3>2, <3>3
  <2> QED
    BY <1>1, <1>3, <2>7, <2>8, <2>9 DEF r
<1> QED
  BY <1>2, <1>3

\* A window that is lowered comes right before the desktop.
LEMMA LoweredOrder ==
  ASSUME NEW S, Stack(win_vis, S), NEW i \in Open, i # DESKTOP_WINDOW
  PROVE  /\ Stack(Lowered(i), S)
         /\ In(Lowered(i)) = Open
         /\ \A a, b : InFront(Lowered(i), a, b) <=>
              \/ InFront(win_vis, a, b) /\ a # i /\ b # i
              \/ b = i /\ a \in Open /\ a # i /\ a # DESKTOP_WINDOW
              \/ a = i /\ b = DESKTOP_WINDOW
<1> DEFINE n == Len(win_vis)
           w == Without(i)
           v == Lowered(i)
<1>1. /\ Stack(w, S \ {i})
      /\ In(w) = Open \ {i}
      /\ \A a, b : InFront(w, a, b) <=> InFront(win_vis, a, b) /\ a # i /\ b # i
  BY WithoutOrder
<1>2. n \in Nat /\ n > 0 /\ win_vis \in [1 .. n -> S] /\ win_vis[n] = DESKTOP_WINDOW
  BY DEF Stack
<1>3. Len(w) = n - 1 /\ w \in Seq(S \ {i})
  BY <1>1, <1>2 DEF Without, Stack
<1>4. n - 1 \in Nat /\ n - 1 > 0 /\ w \in [1 .. n - 1 -> S \ {i}]
      /\ w[n - 1] = DESKTOP_WINDOW /\ DOMAIN w = 1 .. n - 1
  BY <1>1, <1>2, <1>3 DEF Stack
<1>5. v = [m \in 1 .. n |-> IF m = n - 1 THEN i
                            ELSE IF m = n THEN win_vis[n] ELSE w[m]]
  BY DEF Lowered
<1>6. i \in S
  BY <1>2 DEF Open
<1> HIDE DEF w, v, n
<1>7. v \in [1 .. n -> S] /\ DOMAIN v = 1 .. n
  BY <1>2, <1>4, <1>5, <1>6
<1>8. v \in Seq(S) /\ Len(v) = n
  BY <1>2, <1>7
<1>9. /\ v[n - 1] = i /\ v[n] = DESKTOP_WINDOW
      /\ \A m \in 1 .. n - 2 : v[m] = w[m] /\ m \in 1 .. n - 1
  BY <1>2, <1>4, <1>5
<1>10. In(v) = Open
  <2>1. In(v) \subseteq Open
    BY <1>1, <1>2, <1>4, <1>7, <1>9 DEF In
  <2>2. ASSUME NEW a \in Open PROVE a \in In(v)
    <3>1. CASE a = i
      BY <3>1, <1>2, <1>4, <1>7, <1>9 DEF In
    <3>2. CASE a # i
      <4>1. PICK m \in 1 .. n - 1 : w[m] = a
        BY <3>2, <1>1, <1>4 DEF In
      <4> QED
        BY <4>1, <1>2, <1>4, <1>7, <1>9 DEF In
    <3> QED
      BY <3>1, <3>2
  <2> QED
    BY <2>1, <2>2
<1>11. Once(v)
  <2>1. ASSUME NEW k \in 1 .. n, NEW l \in 1 .. n, k < l
        PROVE  v[k] # v[l]
    <3>1. CASE l <= n - 2
      <4>1. k \in 1 .. n - 2 /\ l \in 1 .. n - 2
        BY <2>1, <3>1, <1>2
      <4>2. v[k] = w[k] /\ v[l] = w[l] /\ k \in 1 .. n - 1 /\ l \in 1 .. n - 1
        BY <4>1, <1>9
      <4> QED
        BY <2>1, <4>2, <1>1, <1>4 DEF Stack, Once
    <3>2. CASE l = n - 1
      <4>1. k \in 1 .. n - 2
        BY <2>1, <3>2, <1>2
      <4>2. v[k] = w[k] /\ w[k] \in S \ {i}
        BY <4>1, <1>4, <1>9
      <4> QED
        BY <3>2, <4>2, <1>9
    <3>3. CASE l = n /\ k = n - 1
      BY <3>3, <1>9
    <3>4. CASE l = n /\ k < n - 1
      BY <2>1, <3>4, <1>1, <1>4, <1>9 DEF Stack, Once
    <3> QED
      BY <2>1, <3>1, <3>2, <3>3, <3>4, <1>2
  <2> QED
    BY <2>1, <1>2, <1>7 DEF Once
<1>12. Stack(v, S)
  BY <1>2, <1>8, <1>9, <1>11 DEF Stack
<1>13. ASSUME NEW a, NEW b
       PROVE  InFront(v, a, b) <=>
                \/ InFront(w, a, b)
                \/ b = i /\ a \in In(w) /\ a # DESKTOP_WINDOW
                \/ a = i /\ b = DESKTOP_WINDOW
  <2>1. ASSUME NEW l \in 1 .. n, v[l] = b, NEW k \in 1 .. l - 1, v[k] = a
        PROVE  \/ InFront(w, a, b)
               \/ b = i /\ a \in In(w) /\ a # DESKTOP_WINDOW
               \/ a = i /\ b = DESKTOP_WINDOW
    <3>1. CASE l <= n - 2
      BY <2>1, <3>1, <1>2, <1>4, <1>9 DEF InFront
    <3>2. CASE l = n - 1
      BY <2>1, <3>2, <1>1, <1>2, <1>4, <1>9 DEF In, Stack, Once
    <3>3. CASE l = n /\ k = n - 1
      BY <2>1, <3>3, <1>9
    <3>4. CASE l = n /\ k < n - 1
      <4>1. b = w[n - 1] /\ n - 1 \in 1 .. n - 1 /\ a = w[k] /\ k \in 1 .. (n - 1) - 1
        BY <2>1, <3>4, <1>2, <1>4, <1>9
      <4> QED
        BY <4>1, <1>4 DEF InFront
    <3> QED
      BY <2>1, <3>1, <3>2, <3>3, <3>4, <1>2
  <2>2. ASSUME NEW l \in 1 .. n - 1, w[l] = b, NEW k \in 1 .. l - 1, w[k] = a
        PROVE  InFront(v, a, b)
    <3>1. v[k] = a /\ k \in 1 .. n
      BY <2>2, <1>2, <1>4, <1>9
    <3>2. CASE l = n - 1
      BY <2>2, <3>1, <3>2, <1>2, <1>4, <1>7, <1>9 DEF InFront
    <3>3. CASE l < n - 1
      BY <2>2, <3>1, <3>3, <1>2, <1>4, <1>7, <1>9 DEF InFront
    <3> QED
      BY <3>2, <3>3, <1>4
  <2>3. ASSUME NEW k \in 1 .. n - 1, w[k] = a, a # DESKTOP_WINDOW
        PROVE  InFront(v, a, i)
    <3>1. k \in 1 .. n - 2 /\ v[k] = a
      BY <2>3, <1>2, <1>4, <1>9
    <3> QED
      BY <3>1, <1>2, <1>4, <1>7, <1>9 DEF InFront
  <2>4. InFront(v, i, DESKTOP_WINDOW)
    <3>1. n \in 1 .. n /\ n - 1 \in 1 .. n - 1
      BY <1>2, <1>4
    <3> QED
      BY <3>1, <1>7, <1>9 DEF InFront
  <2>5. InFront(v, a, b) => \E l \in 1 .. n : v[l] = b /\ \E k \in 1 .. l - 1 : v[k] = a
    BY <1>7 DEF InFront
  <2>6. InFront(w, a, b) => \E l \in 1 .. n - 1 : w[l] = b /\ \E k \in 1 .. l - 1 : w[k] = a
    BY <1>4 DEF InFront
  <2>7. a \in In(w) => \E k \in 1 .. n - 1 : w[k] = a
    BY <1>4 DEF In
  <2> QED
    BY <2>1, <2>2, <2>3, <2>4, <2>5, <2>6, <2>7
<1> QED
  BY <1>1, <1>10, <1>12, <1>13 DEF v

\* The first window of an order is in front of all others.
LEMMA HeadIsFirst ==
  ASSUME NEW S, NEW order, Stack(order, S)
  PROVE  /\ Head(order) \in In(order)
         /\ \A b \in In(order) : b # Head(order) => InFront(order, Head(order), b)
<1>1. Head(order) = order[1] /\ 1 \in DOMAIN order
  BY DEF Stack
<1>2. ASSUME NEW l \in DOMAIN order, order[l] # order[1]
      PROVE  InFront(order, order[1], order[l])
  <2>1. 1 \in 1 .. l - 1
    BY <1>2 DEF Stack
  <2> QED
    BY <2>1 DEF InFront
<1> QED
  BY <1>1, <1>2 DEF In

\* Among some open windows one is in front of the others.
LEMMA FrontmostExists ==
  ASSUME NEW S, NEW order, Stack(order, S), NEW T \in SUBSET In(order), T # {}
  PROVE  \E b \in T : \A a \in T : ~InFront(order, a, b)
<1> DEFINE Places == {k \in DOMAIN order : order[k] \in T}
<1>1. DOMAIN order \subseteq Nat
  BY DEF Stack
<1>2. Places \in SUBSET Nat /\ Places # {}
  BY <1>1 DEF In
<1>3. PICK k \in Places : \A l \in Places : k <= l
  BY <1>2, LeastExists
<1>4. order[k] \in T
  BY <1>3
<1>5. ASSUME NEW a \in T, InFront(order, a, order[k]) PROVE FALSE
  <2>1. PICK l \in DOMAIN order : order[l] = order[k] /\ \E m \in 1 .. l - 1 : order[m] = a
    BY <1>5 DEF InFront
  <2>2. PICK m \in 1 .. l - 1 : order[m] = a
    BY <2>1
  <2>3. l = k
    BY <2>1, <1>3 DEF Stack, Once
  <2>4. m \in Places
    BY <2>1, <2>2 DEF Stack
  <2> QED
    BY <1>1, <1>3, <2>2, <2>3, <2>4
<1> QED
  BY <1>4, <1>5

\* A window that is put under a dialog was already under it, unless it was in
\* front and the dialog the second one.
LEMMA DialogWasInFront ==
  ASSUME NEW S, Stack(win_vis, S), NEW i \in Open, i # DESKTOP_WINDOW,
         UnderDialog(Without(i)), ~(i = Front /\ UnderDialog(Tail(win_vis)))
  PROVE  InFront(win_vis, Head(Without(i)), i)
<1> DEFINE p == Position(i)
           n == Len(win_vis)
<1>1. p \in 1 .. n /\ win_vis[p] = i
  BY PositionFound
<1>2. n \in Nat /\ n > 1 /\ win_vis \in [1 .. n -> S] /\ DOMAIN win_vis = 1 .. n
      /\ Front = win_vis[1]
  BY <1>1 DEF Stack, Front
<1>3. Stack(Without(i), S \ {i})
  BY WithoutOrder
<1>4. /\ Without(i) = [k \in 1 .. n - 1 |-> win_vis[IF k < p THEN k ELSE k + 1]]
      /\ Head(Without(i)) = Without(i)[1]
  BY <1>3 DEF Without, Stack
<1> HIDE DEF p, n
<1>5. CASE p = 1
  <2>1. Head(Without(i)) = win_vis[2]
    BY <1>2, <1>4, <1>5
  <2>2. Head(Tail(win_vis)) = win_vis[2]
    BY <1>2 DEF n, Stack
  <2> QED
    BY <2>1, <2>2, <1>1, <1>2, <1>5 DEF UnderDialog
<1>6. CASE p > 1
  <2>1. Head(Without(i)) = win_vis[1] /\ 1 \in 1 .. p - 1
    BY <1>1, <1>2, <1>4, <1>6
  <2> QED
    BY <2>1, <1>1, <1>2 DEF InFront
<1> QED
  BY <1>1, <1>2, <1>5, <1>6

-----------------------------------------------------------------------------
(* The invariant *)

\* The desktop and the menu bar are always there, they belong to the server's
\* own application, and no other window is a desktop.
Desk ==
  /\ {DESKTOP_WINDOW, MENU_BAR_WINDOW} \subseteq DOMAIN win
  /\ win[DESKTOP_WINDOW].owner = FirstAppl /\ win[MENU_BAR_WINDOW].owner = FirstAppl
  /\ win[DESKTOP_WINDOW].totsize = DesktopRect
  /\ \A i \in DOMAIN win : win[i].kind = "desktop" <=> i = DESKTOP_WINDOW

\* RegionsAreVisible cell by cell.
Regions(w, order) ==
  \A b \in In(order) : \A c :
    c \in w[b].rlist <=>
      /\ c \in Area(w[b].totsize)
      /\ \A a \in In(order) : InFront(order, a, b) => c \notin Area(w[a].totsize)

Structure == TypeOK /\ Once(win_vis) /\ Desk /\ IdentifiersAreKept
Inv == Structure /\ Regions(win, win_vis)

\* The open windows are a stack of windows that exist.
LEMMA StackIsKept == Structure => Stack(win_vis, DOMAIN win) /\ Open \subseteq DOMAIN win
BY DEF Structure, TypeOK, Stack, Open

\* The property, and its form cell by cell that the proofs use.
LEMMA RegionsCellByCell == Regions(win, win_vis) <=> RegionsAreVisible
<1>1. Open = In(win_vis)
  BY DEF Open, In
<1>2. ASSUME NEW b \in Open
      PROVE  (Own(b) = AreaOf(b) \ UNION {AreaOf(j) : j \in {l \in Open : InFront(win_vis, l, b)}})
             <=> \A c : c \in Own(b) <=> /\ c \in AreaOf(b)
                          /\ \A a \in Open : InFront(win_vis, a, b) => c \notin AreaOf(a)
  OBVIOUS
<1> QED
  BY <1>1, <1>2 DEF Regions, RegionsAreVisible, Own, AreaOf

\* Sizes that applications may use are sizes.
LEMMA SizesAreTyped ==
  /\ \A r \in Size : Area(r) \subseteq Cell
  /\ Rects \subseteq Size /\ DesktopRect \in Size /\ BarRect \in Size /\ NoRect \in Size
BY DEF Area, Size

\* The invariant holds when the first application has made its windows.
LEMMA InitKeeps == Init => Inv
<1> SUFFICES ASSUME Init PROVE Inv
  OBVIOUS
<1> USE DEF Init
<1>1. /\ DOMAIN win = {0, 1}
      /\ win[0] = [owner |-> FirstAppl, kind |-> "desktop", topped |-> FALSE,
                   totsize |-> DesktopRect, rlist |-> Area(DesktopRect)]
      /\ win[1] = [owner |-> FirstAppl, kind |-> "menu", topped |-> FALSE,
                   totsize |-> BarRect, rlist |-> Area(BarRect)]
  <2>1. DOMAIN win = {0, 1} /\ DESKTOP_WINDOW = 0 /\ MENU_BAR_WINDOW = 1
    BY DEF DESKTOP_WINDOW, MENU_BAR_WINDOW
  <2>2. win[0] = [NewWindow(FirstAppl, "desktop") EXCEPT
                    !.totsize = DesktopRect, !.rlist = Area(DesktopRect)]
    BY DEF DESKTOP_WINDOW, MENU_BAR_WINDOW
  <2>3. win[1] = [NewWindow(FirstAppl, "menu") EXCEPT
                    !.totsize = BarRect, !.rlist = Area(BarRect)]
    BY DEF DESKTOP_WINDOW, MENU_BAR_WINDOW
  <2> QED
    BY <2>1, <2>2, <2>3 DEF NewWindow
<1>2. win_vis \in Seq(DOMAIN win) /\ Len(win_vis) = 2 /\ win_vis[1] = 1 /\ win_vis[2] = 0
      /\ DOMAIN win_vis = {1, 2}
  BY <1>1 DEF DESKTOP_WINDOW, MENU_BAR_WINDOW
<1>3. TypeOK
  <2>1. \A i \in DOMAIN win : win[i] \in WINSTRUCT
    <3>1. win[0] \in WINSTRUCT
      <4>1. DesktopRect \in Size /\ Area(DesktopRect) \in SUBSET Cell
        BY SizesAreTyped
      <4> QED
        BY <4>1, <1>1 DEF WINSTRUCT, Kind
    <3>2. win[1] \in WINSTRUCT
      <4>1. BarRect \in Size /\ Area(BarRect) \in SUBSET Cell
        BY SizesAreTyped
      <4>2. win[1] = [owner |-> FirstAppl, kind |-> "menu", topped |-> FALSE,
                      totsize |-> BarRect, rlist |-> Area(BarRect)]
        BY <1>1
      <4>3. "menu" \in Kind
        BY DEF Kind
      <4>4. [owner |-> FirstAppl, kind |-> "menu", topped |-> FALSE,
              totsize |-> BarRect, rlist |-> Area(BarRect)] \in WINSTRUCT
        BY <4>1, <4>3 DEF WINSTRUCT
      <4> QED
        BY <4>2, <4>4
    <3> QED
      BY <1>1, <3>1, <3>2
  <2>2. DOMAIN win \subseteq Id /\ win_next \in 0 .. MaxWindow
    <3>1. {0, 1} \subseteq 0 .. MaxWindow - 1 /\ win_next = 2
      BY WindowAssumption
    <3> QED
      BY <1>1, <3>1, WindowAssumption, SMTT(30) DEF Id
  <2> QED
    BY <2>1, <2>2, <1>2 DEF TypeOK, DESKTOP_WINDOW
<1>4. Once(win_vis)
  BY <1>2 DEF Once
<1>5. Desk
  BY <1>1 DEF Desk, DESKTOP_WINDOW, MENU_BAR_WINDOW
<1>6. IdentifiersAreKept
  BY <1>1 DEF IdentifiersAreKept
<1>7. Regions(win, win_vis)
  <2>1. In(win_vis) = {0, 1}
    BY <1>2 DEF In
  <2>2. \A a, b : InFront(win_vis, a, b) => a = 1 /\ b = 0
    BY <1>2 DEF InFront
  <2>3. InFront(win_vis, 1, 0)
    BY <1>2 DEF InFront
  <2>4. \A c \in Area(DesktopRect) : c \notin Area(BarRect)
    BY ScreenAssumption DEF Area, Cell, DesktopRect, BarRect, Rect
  <2> QED
    BY <1>1, <2>1, <2>2, <2>4 DEF Regions
<1> QED
  BY <1>3, <1>4, <1>5, <1>6, <1>7 DEF Inv, Structure

-----------------------------------------------------------------------------
(* Creating and deleting *)

\* The number Shrunk() looks for exists.
LEMMA ShrunkIds ==
  ASSUME win_next \in Nat, NEW ids \in SUBSET (0 .. win_next - 1), 0 \in ids
  PROVE  /\ Shrunk(ids) \in 1 .. win_next
         /\ \A i \in ids : i < Shrunk(ids)
         /\ Shrunk(ids) - 1 \in ids
<1> DEFINE Bounds == {n \in 0 .. win_next : \A i \in ids : i < n}
<1>1. win_next \in Bounds /\ Bounds \in SUBSET Nat
  OBVIOUS
<1>2. PICK n \in Bounds : \A m \in Bounds : n <= m
  BY <1>1, LeastExists
<1>3. n - 1 \in ids
  <2> SUFFICES ASSUME n - 1 \notin ids PROVE FALSE
    OBVIOUS
  <2>1. n > 0
    OBVIOUS
  <2>2. \A i \in ids : i < n - 1
    BY <2>1
  <2>3. n - 1 \in Bounds
    BY <2>1, <2>2
  <2> QED
    BY <2>1, <2>3, <1>2
<1>4. \E m \in 0 .. win_next : (\A i \in ids : i < m) /\ (m = 0 \/ m - 1 \in ids)
  BY <1>3
<1>5. /\ Shrunk(ids) \in 0 .. win_next
      /\ \A i \in ids : i < Shrunk(ids)
      /\ Shrunk(ids) = 0 \/ Shrunk(ids) - 1 \in ids
  BY <1>4 DEF Shrunk
<1> QED
  BY <1>5

\* Giving an identifier up keeps the identifiers apart, and the newest in use.
LEMMA ForgetKeeps ==
  ASSUME Structure, NEW i \in AppWindow, Forget(i), DOMAIN win' = DOMAIN win \ {i}
  PROVE  IdentifiersAreKept' /\ win_next' \in 0 .. MaxWindow /\ win_free' \subseteq Id
<1>1. /\ win_next \in 0 .. MaxWindow /\ MaxWindow \in Nat /\ i # 0 /\ i \in DOMAIN win
      /\ 0 \in DOMAIN win
      /\ DOMAIN win \union win_free = 0 .. win_next - 1
      /\ DOMAIN win \intersect win_free = {} /\ win_next - 1 \in DOMAIN win
  BY WindowAssumption DEF Structure, TypeOK, IdentifiersAreKept, AppWindow, Desk,
     DESKTOP_WINDOW
<1>2. CASE i = win_next - 1
  <2> DEFINE n == Shrunk(DOMAIN win \ {i})
  <2>1. n \in 1 .. win_next /\ (\A j \in DOMAIN win \ {i} : j < n) /\ n - 1 \in DOMAIN win \ {i}
    BY <1>1, ShrunkIds
  <2>2. win_next' = n /\ win_free' = {j \in win_free \union {i} : j < n}
    BY <1>2 DEF Forget
  <2> HIDE DEF n
  <2> QED
    BY <1>1, <2>1, <2>2 DEF IdentifiersAreKept, Id
<1>3. CASE i # win_next - 1
  <2>1. win_next' = win_next /\ win_free' = {j \in win_free \union {i} : j < win_next}
    BY <1>3 DEF Forget
  <2> QED
    BY <1>1, <1>3, <2>1 DEF IdentifiersAreKept, Id
<1> QED
  BY <1>2, <1>3

\* A created window has an identifier nobody has, and is not on the screen.
LEMMA CreateKeeps ==
  ASSUME Inv, NEW a \in Apid, NEW kind \in Kind \ {"desktop"}, srv_wind_create(a, kind)
  PROVE  Inv'
<1> USE DEF Inv, Structure
<1>1. PICK i \in Fresh :
        /\ win' = [j \in DOMAIN win \union {i} |->
                     IF j = i THEN NewWindow(a, kind) ELSE win[j]]
        /\ win_free' = win_free \ {i}
        /\ win_next' = IF i = win_next THEN win_next + 1 ELSE win_next
  BY DEF srv_wind_create
<1>2. win_vis' = win_vis /\ exiting' = exiting
      /\ redraw' = redraw /\ stale' = stale /\ torn' = torn
  BY DEF srv_wind_create, screen
<1>3. /\ win_next \in Nat /\ MaxWindow \in Nat /\ win_next <= MaxWindow
      /\ DOMAIN win \union win_free = 0 .. win_next - 1
      /\ DOMAIN win \intersect win_free = {} /\ win_next - 1 \in DOMAIN win
      /\ win_free \subseteq Id
  BY WindowAssumption DEF TypeOK, IdentifiersAreKept
<1>4. i \in Id /\ i \notin DOMAIN win
      /\ ((i \in win_free /\ i # win_next) \/ (i = win_next /\ win_free = {}))
  <2>1. CASE win_free # {}
    <3>1. i \in win_free /\ i \in Id /\ i \in 0 .. win_next - 1 /\ i \notin DOMAIN win
      BY <1>3, <2>1 DEF Fresh
    <3> QED
      BY <1>3, <3>1
  <2>2. CASE win_free = {}
    BY <1>3, <2>2 DEF Fresh, Id
  <2> QED
    BY <2>1, <2>2
<1>5. DOMAIN win' = DOMAIN win \union {i} /\ win'[i] = NewWindow(a, kind)
      /\ \A j \in DOMAIN win : win'[j] = win[j]
  BY <1>1, <1>4
<1>6. NewWindow(a, kind) \in WINSTRUCT
  BY SizesAreTyped DEF NewWindow, WINSTRUCT
<1>7. TypeOK'
  <2>1. win_next' \in 0 .. MaxWindow /\ win_free' \subseteq Id
    BY <1>1, <1>3, <1>4 DEF TypeOK, Id
  <2> QED
    BY <2>1, <1>2, <1>4, <1>5, <1>6 DEF TypeOK
<1>8. Desk'
  BY <1>4, <1>5 DEF Desk, NewWindow
<1>9. IdentifiersAreKept'
  BY <1>1, <1>3, <1>4, <1>5 DEF IdentifiersAreKept
<1>10. Regions(win', win_vis')
  <2>1. In(win_vis) \subseteq DOMAIN win
    BY StackIsKept DEF In, Open
  <2> QED
    BY <2>1, <1>2, <1>5 DEF Regions
<1> QED
  BY <1>2, <1>7, <1>8, <1>9, <1>10 DEF Once

\* What Closed() leaves are windows, and the lists of the ones below i grow.
LEMMA ClosedTyped ==
  ASSUME Structure, NEW i \in DOMAIN win
  PROVE  /\ DOMAIN Closed(i) = DOMAIN win
         /\ \A j \in DOMAIN win :
              /\ Closed(i)[j] \in WINSTRUCT
              /\ Closed(i)[j].owner = win[j].owner /\ Closed(i)[j].kind = win[j].kind
              /\ j # i => Closed(i)[j].totsize = win[j].totsize
              /\ j # i => Closed(i)[j].rlist =
                   IF j \in Below(i) THEN Own(j) \union Share(Own(i), j, Below(i))
                                     ELSE Own(j)
<1>1. DOMAIN Closed(i) = DOMAIN win
  BY DEF Closed
<1>2. i \notin Below(i)
  BY StackIsKept, FrontIsIn DEF Below, Under
<1>3. ASSUME NEW j \in DOMAIN win
      PROVE  /\ Closed(i)[j] \in WINSTRUCT
             /\ Closed(i)[j].owner = win[j].owner /\ Closed(i)[j].kind = win[j].kind
             /\ j # i => Closed(i)[j].totsize = win[j].totsize
             /\ j # i => Closed(i)[j].rlist =
                  IF j \in Below(i) THEN Own(j) \union Share(Own(i), j, Below(i))
                                    ELSE Own(j)
  <2>1. win[j] \in WINSTRUCT /\ Own(i) \subseteq Cell
    BY DEF Structure, TypeOK, WINSTRUCT, Own
  <2>2. CASE j = i
    <3>1. Closed(i)[j] = [win[j] EXCEPT !.topped = FALSE, !.totsize = NoRect, !.rlist = {}]
      BY <1>2, <2>2 DEF Closed
    <3> QED
      BY <3>1, <2>1, <2>2, SizesAreTyped DEF WINSTRUCT
  <2>3. CASE j # i /\ j \in Below(i)
    <3> DEFINE t == win[j].topped \/ (IsTopped(i) /\ j = After(i))
               l == Own(j) \union Share(Own(i), j, Below(i))
    <3>1. Closed(i)[j] = [win[j] EXCEPT !.topped = t, !.rlist = l]
      BY <2>3 DEF Closed, Own
    <3>2. t \in BOOLEAN
      BY <2>1 DEF WINSTRUCT
    <3>3. l \subseteq Cell
      BY <2>1 DEF WINSTRUCT, Share, Own
    <3>4. l = IF j \in Below(i) THEN Own(j) \union Share(Own(i), j, Below(i)) ELSE Own(j)
      BY <2>3
    <3> HIDE DEF t, l
    <3> QED
      BY <3>1, <3>2, <3>3, <3>4, <2>1 DEF WINSTRUCT
  <2>4. CASE j # i /\ j \notin Below(i)
    BY <2>1, <2>4 DEF Closed, Own
  <2> QED
    BY <2>2, <2>3, <2>4
<1> QED
  BY <1>1, <1>3

\* A window leaves the screen: the ones below share what was to be seen of it.
LEMMA RemovedRegions ==
  ASSUME Inv, NEW i \in Open, i # DESKTOP_WINDOW, NEW w,
         \A j \in Open \ {i} : /\ w[j].totsize = win[j].totsize
                               /\ w[j].rlist = Closed(i)[j].rlist
  PROVE  Regions(w, Without(i))
<1> DEFINE F(a, b) == InFront(win_vis, a, b)
<1>1. /\ Stack(win_vis, DOMAIN win) /\ Open \subseteq DOMAIN win /\ Open = In(win_vis)
      /\ In(Without(i)) = Open \ {i}
      /\ \A a, b : InFront(Without(i), a, b) <=> F(a, b) /\ a # i /\ b # i
  BY StackIsKept, WithoutOrder DEF Inv, Open, In
<1>2. /\ \A a, b \in Open : a # b => (F(a, b) <=> ~F(b, a))
      /\ \A a, b, c : F(a, b) /\ F(b, c) => F(a, c)
      /\ \A a, b : F(a, b) => a \in Open /\ b \in Open /\ a # b
  BY <1>1, FrontIsTotal, FrontIsTransitive, FrontIsIn
<1>3. \A b \in Open : \A c : c \in Own(b) <=>
        /\ c \in AreaOf(b)
        /\ \A a \in Open : F(a, b) => c \notin AreaOf(a)
  BY <1>1 DEF Inv, Regions, Own, AreaOf
<1> HIDE DEF F
<1> SUFFICES ASSUME NEW b \in Open \ {i}, NEW c
             PROVE  c \in w[b].rlist <=>
                      /\ c \in AreaOf(b)
                      /\ \A a \in Open \ {i} : F(a, b) => c \notin AreaOf(a)
  BY <1>1 DEF Regions, AreaOf
<1>4. CASE F(i, b)
  <2>1. c \in w[b].rlist <=>
          \/ c \in Own(b)
          \/ /\ c \in Own(i) /\ c \in AreaOf(b)
             /\ \A l \in Open : F(i, l) /\ F(l, b) => c \notin AreaOf(l)
    <3>1. b \in Below(i) /\ b \in DOMAIN win
      BY <1>1, <1>4 DEF Below, Under, F
    <3>2. Closed(i)[b].rlist = Own(b) \union Share(Own(i), b, Below(i))
      BY <3>1, <1>1, ClosedTyped DEF Inv
    <3>3. c \in Share(Own(i), b, Below(i)) <=>
            /\ c \in Own(i) /\ c \in AreaOf(b)
            /\ \A l \in Open : F(i, l) /\ F(l, b) => c \notin AreaOf(l)
      BY DEF Share, Below, Under, F
    <3> QED
      BY <3>2, <3>3
  <2>2. ASSUME c \in Own(i), NEW a \in Open \ {i}, F(a, b),
               \A l \in Open : F(i, l) /\ F(l, b) => c \notin AreaOf(l)
        PROVE  c \notin AreaOf(a)
    BY <2>2, <1>2, <1>3
  <2>3. ASSUME c \in AreaOf(b), c \notin Own(b),
               \A a \in Open \ {i} : F(a, b) => c \notin AreaOf(a)
        PROVE  c \in Own(i)
    <3>1. c \in AreaOf(i)
      BY <2>3, <1>3
    <3>2. \A a \in Open : F(a, i) => c \notin AreaOf(a)
      BY <2>3, <1>2, <1>4
    <3> QED
      BY <3>1, <3>2, <1>3
  <2> QED
    BY <1>3, <2>1, <2>2, <2>3
<1>5. CASE ~F(i, b)
  <2>1. w[b].rlist = Own(b)
    <3>1. b \notin Below(i) /\ b \in DOMAIN win
      BY <1>1, <1>5 DEF Below, Under, F
    <3> QED
      BY <3>1, <1>1, ClosedTyped DEF Inv
  <2> QED
    BY <1>3, <1>5, <2>1
<1> QED
  BY <1>4, <1>5

\* Messages and screen after a window has left it.
LEMMA UncoverTyped ==
  ASSUME Structure, NEW i \in AppWindow, Uncover(i)
  PROVE  redraw' \in [Id -> SUBSET Cell] /\ stale' \subseteq Cell /\ torn' \subseteq stale'
<1>1. i \in Id /\ Own(i) \subseteq Cell /\ AreaOf(i) \subseteq Cell
  BY SizesAreTyped DEF Structure, TypeOK, AppWindow, WINSTRUCT, Own, AreaOf
<1>2. \A asked : Ask(asked, AreaOf(i)) \in [Id -> SUBSET Cell]
  BY <1>1 DEF Ask, Structure, TypeOK
<1> QED
  BY <1>1, <1>2 DEF Uncover, Soil, Structure, TypeOK

\* wind_close keeps the invariant.
LEMMA CloseKeeps ==
  ASSUME Inv, NEW i, srv_wind_close(i)
  PROVE  Inv'
<1>1. /\ i \in AppWindow \intersect Open
      /\ win' = Closed(i) /\ win_vis' = Without(i) /\ Uncover(i)
      /\ UNCHANGED <<win_free, win_next, exiting>>
  BY DEF srv_wind_close
<1>2. Structure /\ Stack(win_vis, DOMAIN win) /\ i # DESKTOP_WINDOW /\ i \in DOMAIN win
  BY <1>1, StackIsKept DEF Inv, AppWindow
<1>3. Stack(win_vis', DOMAIN win \ {i})
  BY <1>1, <1>2, WithoutOrder
<1>4. Stack(win_vis', DOMAIN win')
  BY <1>1, <1>2, <1>3, ClosedTyped DEF Stack
<1>5. TypeOK'
  BY <1>1, <1>2, <1>4, ClosedTyped, UncoverTyped DEF Structure, TypeOK, Stack
<1>6. Desk' /\ IdentifiersAreKept'
  <2>1. DOMAIN win' = DOMAIN win
    BY <1>1, <1>2, ClosedTyped
  <2>2. Desk'
    <3>1. \A j \in DOMAIN win :
            /\ win'[j].owner = win[j].owner /\ win'[j].kind = win[j].kind
            /\ j # i => win'[j].totsize = win[j].totsize
      BY <1>1, <1>2, ClosedTyped
    <3> QED
      BY <1>2, <2>1, <3>1 DEF Structure, Desk
  <2>3. IdentifiersAreKept'
    BY <1>1, <1>2, <2>1 DEF Structure, IdentifiersAreKept
  <2> QED
    BY <2>2, <2>3
<1>7. Regions(win', win_vis')
  <2>1. \A j \in Open \ {i} : win'[j].totsize = win[j].totsize
    BY <1>1, <1>2, ClosedTyped, StackIsKept
  <2> QED
    BY <2>1, <1>1, <1>2, RemovedRegions
<1> QED
  BY <1>4, <1>5, <1>6, <1>7 DEF Inv, Structure, Stack, Once

\* wind_delete keeps the invariant, whether the window is open or not.
LEMMA DeleteKeeps ==
  ASSUME Inv, NEW i \in AppWindow, Delete(i), exiting' = exiting
  PROVE  Inv'
<1> DEFINE left == IF i \in Open THEN Closed(i) ELSE win
<1>1. /\ win' = [j \in DOMAIN win \ {i} |-> left[j]]
      /\ Forget(i)
      /\ IF i \in Open THEN win_vis' = Without(i) /\ Uncover(i)
         ELSE UNCHANGED <<win_vis, screen>>
  BY DEF Delete
<1>2. Structure /\ Stack(win_vis, DOMAIN win) /\ i # DESKTOP_WINDOW /\ i # MENU_BAR_WINDOW
      /\ i \in DOMAIN win
  BY StackIsKept DEF Inv, AppWindow
<1>3. /\ \A j \in DOMAIN win \ {i} :
           /\ left[j] \in WINSTRUCT
           /\ left[j].owner = win[j].owner /\ left[j].kind = win[j].kind
           /\ left[j].totsize = win[j].totsize
  BY <1>2, ClosedTyped DEF Structure, TypeOK
<1>4. DOMAIN win' = DOMAIN win \ {i} /\ \A j \in DOMAIN win \ {i} : win'[j] = left[j]
  BY <1>1
<1>5. IdentifiersAreKept' /\ win_next' \in 0 .. MaxWindow /\ win_free' \subseteq Id
  BY <1>1, <1>2, <1>4, ForgetKeeps
<1>6. Stack(win_vis', DOMAIN win')
  <2>1. CASE i \in Open
    BY <2>1, <1>1, <1>2, <1>4, WithoutOrder
  <2>2. CASE i \notin Open
    BY <2>2, <1>1, <1>2, <1>4 DEF Stack, Open
  <2> QED
    BY <2>1, <2>2
<1>7. TypeOK'
  <2>1. redraw' \in [Id -> SUBSET Cell] /\ stale' \subseteq Cell /\ torn' \subseteq stale'
    BY <1>1, <1>2, UncoverTyped DEF Structure, TypeOK, screen
  <2>2. exiting' \in Apid \union {NoAppl} /\ DOMAIN win' \subseteq Id
    BY <1>2, <1>4 DEF Structure, TypeOK
  <2> QED
    BY <2>1, <2>2, <1>3, <1>4, <1>5, <1>6 DEF TypeOK, Stack
<1>8. Desk'
  BY <1>2, <1>3, <1>4 DEF Structure, Desk
<1>9. Regions(win', win_vis')
  <2>1. CASE i \in Open
    <3>1. \A j \in Open \ {i} : win'[j].totsize = win[j].totsize
                                /\ win'[j].rlist = Closed(i)[j].rlist
      BY <2>1, <1>2, <1>3, <1>4, StackIsKept
    <3> QED
      BY <2>1, <3>1, <1>1, <1>2, RemovedRegions
  <2>2. CASE i \notin Open
    <3>1. win_vis' = win_vis /\ In(win_vis) \subseteq DOMAIN win \ {i}
      BY <2>2, <1>1, <1>2 DEF In, Open, Stack
    <3>2. \A j \in In(win_vis) : win'[j] = win[j]
      BY <2>2, <3>1, <1>4
    <3> QED
      BY <3>1, <3>2 DEF Inv, Regions
  <2> QED
    BY <2>1, <2>2
<1> QED
  BY <1>5, <1>6, <1>7, <1>8, <1>9 DEF Inv, Structure, Stack, Once

\* The windows of an application that exits are its own.
LEMMA NewKeeps ==
  ASSUME Inv, srv_wind_new
  PROVE  Inv'
<1>1. CASE Owned(exiting) = {}
  <2>1. /\ exiting' = NoAppl
        /\ UNCHANGED <<win, win_vis, win_free, win_next, screen>>
    BY <1>1 DEF srv_wind_new
  <2> QED
    BY <2>1 DEF Inv, Structure, TypeOK, Once, Desk, IdentifiersAreKept, screen
<1>2. CASE Owned(exiting) # {}
  <2>1. exiting \in Apid
    BY DEF srv_wind_new, Inv, Structure, TypeOK
  <2>2. PICK i \in Owned(exiting) : Delete(i)
    BY <1>2 DEF srv_wind_new
  <2>3. i \in AppWindow
    BY <2>1, <2>2, AppsAssumption DEF Owned, AppWindow, Inv, Structure, Desk
  <2>4. exiting' = exiting
    BY <1>2 DEF srv_wind_new
  <2> QED
    BY <2>2, <2>3, <2>4, DeleteKeeps
<1> QED
  BY <1>1, <1>2

-----------------------------------------------------------------------------
(* Opening and stacking *)

\* What the steps below keep without much ado.
LEMMA StructureKept ==
  ASSUME Structure, NEW i \in AppWindow,
         DOMAIN win' = DOMAIN win,
         \A j \in DOMAIN win :
           /\ win'[j] \in WINSTRUCT
           /\ win'[j].owner = win[j].owner /\ win'[j].kind = win[j].kind
           /\ j # i => win'[j].totsize = win[j].totsize,
         Stack(win_vis', DOMAIN win),
         UNCHANGED <<win_free, win_next, exiting>>,
         redraw' \in [Id -> SUBSET Cell], stale' \subseteq Cell /\ torn' \subseteq stale'
  PROVE  Structure'
<1>1. TypeOK'
  BY DEF Structure, TypeOK, Stack
<1>2. Desk'
  BY DEF Structure, Desk, AppWindow
<1>3. IdentifiersAreKept'
  BY DEF Structure, IdentifiersAreKept
<1> QED
  BY <1>1, <1>2, <1>3 DEF Structure, Stack, Once

\* Asking for cells to be drawn asks for cells.
LEMMA AskTyped ==
  ASSUME Structure, NEW asked, NEW area \in SUBSET Cell
  PROVE  Ask(asked, area) \in [Id -> SUBSET Cell]
BY DEF Ask, Structure, TypeOK

\* Every cell of an open window is in the list of the first window there.
LEMMA Shown ==
  ASSUME Inv, NEW x \in Open, NEW c \in AreaOf(x)
  PROVE  \E y \in Open :
           /\ c \in Own(y) /\ c \in AreaOf(y)
           /\ \A a \in Open : c \in AreaOf(a) => ~InFront(win_vis, a, y)
<1> DEFINE T == {a \in Open : c \in AreaOf(a)}
<1>1. Stack(win_vis, DOMAIN win) /\ Open = In(win_vis)
  BY StackIsKept DEF Inv, Open, In
<1>2. PICK y \in T : \A a \in T : ~InFront(win_vis, a, y)
  BY <1>1, FrontmostExists
<1> QED
  BY <1>1, <1>2 DEF Inv, Regions, Own, AreaOf

\* The desktop is under every window that an application may open.
LEMMA DesktopCovers ==
  ASSUME Structure, NEW r \in Rects, NEW c \in Area(r)
  PROVE  DESKTOP_WINDOW \in Open /\ c \in AreaOf(DESKTOP_WINDOW)
<1>1. DESKTOP_WINDOW \in Open
  BY StackIsKept DEF Stack, Open
<1>2. c \in Area(DesktopRect)
  <2>1. c \in Cell /\ r.y \in Int /\ r.y >= BarHeight /\ r.y <= c[2]
    BY RectsAssumption DEF Area
  <2>2. c[1] \in 0 .. Width - 1 /\ c[2] \in 0 .. Height - 1
    BY <2>1 DEF Cell
  <2>3. BarHeight <= c[2]
    BY <2>1, <2>2, ScreenAssumption
  <2> QED
    BY <2>1, <2>2, <2>3, ScreenAssumption DEF Area, DesktopRect, Rect
<1> QED
  BY <1>1, <1>2 DEF AreaOf, Structure, Desk

\* Window i is put in front of the order `rest' of the other ones, or second:
\* it takes its area A from all windows it is then in front of.
LEMMA RaisedRegions ==
  ASSUME Inv, NEW i \in DOMAIN win, i # DESKTOP_WINDOW,
         NEW rest, Stack(rest, DOMAIN win), In(rest) = Open \ {i},
         \A a, b : InFront(rest, a, b) <=> InFront(win_vis, a, b) /\ a # i /\ b # i,
         \A j \in Open \ {i} :
           /\ win'[j].totsize = win[j].totsize
           /\ win'[j].rlist = LeftTo(j, i, Area(win'[i].totsize), Raised(i, rest)),
         i \in Open =>
           /\ Area(win'[i].totsize) = AreaOf(i)
           /\ win'[i].rlist =
                Own(i) \union Grabbed(i, Area(win'[i].totsize), Raised(i, rest))
           /\ UnderDialog(rest) => InFront(win_vis, Head(rest), i),
         i \notin Open =>
           /\ \E r \in Rects : Area(win'[i].totsize) = Area(r)
           /\ win'[i].rlist = Grabbed(i, Area(win'[i].totsize), Raised(i, rest))
  PROVE  Stack(Raised(i, rest), DOMAIN win) /\ Regions(win', Raised(i, rest))
<1> DEFINE order == Raised(i, rest)
           A == Area(win'[i].totsize)
           w == win'
           F(a, b) == InFront(win_vis, a, b)
           G(a, b) == InFront(order, a, b)
           D == UnderDialog(rest)
           h == Head(rest)
<1>1. Structure /\ Stack(win_vis, DOMAIN win) /\ Open = In(win_vis) /\ Open \subseteq DOMAIN win
  BY StackIsKept DEF Inv, Open, In
<1>2. h \in Open \ {i} /\ \A b \in Open \ {i} : b # h => F(h, b)
  BY HeadIsFirst
<1>3. D => h # DESKTOP_WINDOW
  BY <1>1, <1>2 DEF UnderDialog, Structure, Desk
<1>4. /\ Stack(order, DOMAIN win)
      /\ In(order) = (Open \ {i}) \union {i}
      /\ \A a, b : G(a, b) <=>
           \/ F(a, b) /\ a # i /\ b # i
           \/ a = i /\ b \in Open \ {i} /\ ~(D /\ b = h)
           \/ D /\ a = h /\ b = i
  BY <1>3, RaisedOrder
<1>5. /\ \A a, b \in Open : a # b => (F(a, b) <=> ~F(b, a))
      /\ \A a, b : F(a, b) => a \in Open /\ b \in Open /\ a # b
  BY <1>1, FrontIsTotal, FrontIsIn
<1>6. \A b \in Open : \A c : c \in Own(b) <=>
        /\ c \in AreaOf(b)
        /\ \A a \in Open : F(a, b) => c \notin AreaOf(a)
  BY <1>1 DEF Inv, Regions, Own, AreaOf
<1>7. \A c : c \in Grabbed(i, A, order) <=>
        c \in A /\ \E j \in Open : G(i, j) /\ c \in Own(j)
  BY DEF Grabbed, Under
<1>8. \A j \in Open : LeftTo(j, i, A, order) = IF G(i, j) THEN Own(j) \ A ELSE Own(j)
  BY DEF LeftTo, Under
<1>9. i \in Open /\ D => F(h, i)
  OBVIOUS
<1>10. ASSUME NEW c \in A
       PROVE  \E y \in Open : c \in Own(y) /\ c \in AreaOf(y)
  BY <1>1, DesktopCovers, Shown
<1>0. /\ i \in Open => /\ A = AreaOf(i)
                        /\ w[i].rlist = Own(i) \union Grabbed(i, A, order)
      /\ i \notin Open => w[i].rlist = Grabbed(i, A, order)
      /\ \A j \in Open \ {i} : w[j].rlist = LeftTo(j, i, A, order)
  OBVIOUS
<1> HIDE DEF F, G, D, h, A, order, w
<1>11. ASSUME NEW c
       PROVE  c \in w[i].rlist <=> c \in A /\ (D => c \notin AreaOf(h))
  <2>1. c \in w[i].rlist => c \in A /\ (D => c \notin AreaOf(h))
    BY <1>0, <1>2, <1>4, <1>6, <1>7, <1>9
  <2>2. ASSUME c \in A, D => c \notin AreaOf(h)
        PROVE  c \in w[i].rlist
    <3>1. PICK y \in Open : c \in Own(y) /\ c \in AreaOf(y)
      BY <1>10, <2>2
    <3> QED
      BY <2>2, <3>1, <1>0, <1>4, <1>7
  <2> QED
    BY <2>1, <2>2
<1>12. ASSUME NEW b \in Open \ {i}, NEW c
       PROVE  c \in w[b].rlist <=>
                /\ c \in AreaOf(b)
                /\ G(i, b) => c \notin A
                /\ \A a \in Open \ {i} : F(a, b) => c \notin AreaOf(a)
  <2>1. c \in w[b].rlist <=> c \in Own(b) /\ (G(i, b) => c \notin A)
    BY <1>0, <1>8
  <2>2. i \in Open /\ F(i, b) => G(i, b) /\ A = AreaOf(i)
    BY <1>0, <1>2, <1>4, <1>5, <1>9
  <2> QED
    BY <2>1, <2>2, <1>6
<1>13. Area(w[i].totsize) = A /\ \A a \in Open \ {i} : Area(w[a].totsize) = AreaOf(a)
  BY DEF AreaOf, A, w
<1>14. Regions(w, order)
  <2>1. ASSUME NEW c
        PROVE  c \in w[i].rlist <=>
                 /\ c \in Area(w[i].totsize)
                 /\ \A a \in In(order) : G(a, i) => c \notin Area(w[a].totsize)
    BY <1>2, <1>4, <1>11, <1>13
  <2>2. ASSUME NEW b \in Open \ {i}, NEW c
        PROVE  c \in w[b].rlist <=>
                 /\ c \in Area(w[b].totsize)
                 /\ \A a \in In(order) : G(a, b) => c \notin Area(w[a].totsize)
    BY <1>4, <1>12, <1>13
  <2> QED
    BY <2>1, <2>2, <1>4 DEF Regions, G
<1> QED
  BY <1>4, <1>14 DEF order, w

\* The cells a window gets, or leaves to the others, are cells.
LEMMA TakenTyped ==
  ASSUME Structure, NEW i, NEW A \in SUBSET Cell, NEW order
  PROVE  /\ Grabbed(i, A, order) \subseteq Cell
         /\ \A j \in DOMAIN win : LeftTo(j, i, A, order) \subseteq Cell
BY DEF Grabbed, LeftTo, Own, Structure, TypeOK, WINSTRUCT

\* wind_open keeps the invariant: the window takes its area from below it.
LEMMA OpenKeeps ==
  ASSUME Inv, NEW i, NEW r \in Rects, srv_wind_open(i, r)
  PROVE  Inv'
<1> DEFINE order == Raised(i, win_vis)
           A == Area(r)
           got == Grabbed(i, A, order)
           tops == ~UnderDialog(win_vis) /\ win[i].kind # "menu"
<1>1. /\ i \in AppWindow \ Open
      /\ win_vis' = order
      /\ win' = [j \in DOMAIN win |->
           IF j = i THEN [win[j] EXCEPT !.topped = tops, !.totsize = r, !.rlist = got]
           ELSE [win[j] EXCEPT !.topped = @ /\ ~(tops /\ j = Front),
                               !.rlist = LeftTo(j, i, A, order)]]
      /\ redraw' = Ask({i}, A) /\ Soil(got)
      /\ UNCHANGED <<win_free, win_next, exiting>>
  BY DEF srv_wind_open
<1>2. Structure /\ Stack(win_vis, DOMAIN win) /\ Open = In(win_vis)
      /\ i \in DOMAIN win /\ i # DESKTOP_WINDOW
  BY <1>1, StackIsKept DEF Inv, Open, In, AppWindow
<1>3. r \in Size /\ A \subseteq Cell /\ got \subseteq Cell
      /\ \A j \in DOMAIN win : win[j] \in WINSTRUCT /\ LeftTo(j, i, A, order) \subseteq Cell
  BY <1>2, SizesAreTyped, TakenTyped DEF Structure, TypeOK
<1>4. tops \in BOOLEAN /\ \A j : (tops /\ j = Front) \in BOOLEAN
  OBVIOUS
<1> HIDE DEF order, A, got, tops
<1>5. \A j \in DOMAIN win :
        /\ win'[j] \in WINSTRUCT
        /\ win'[j].owner = win[j].owner /\ win'[j].kind = win[j].kind
        /\ j # i => win'[j].totsize = win[j].totsize /\ win'[j].rlist = LeftTo(j, i, A, order)
        /\ j = i => win'[j].totsize = r /\ win'[j].rlist = got
  BY <1>1, <1>3, <1>4 DEF WINSTRUCT
<1>6. Stack(order, DOMAIN win) /\ Regions(win', order)
  <2>1. \A a, b : InFront(win_vis, a, b) <=> InFront(win_vis, a, b) /\ a # i /\ b # i
    BY <1>1, <1>2, FrontIsIn
  <2>2. Open \subseteq DOMAIN win
    BY <1>2, StackIsKept
  <2>3. In(win_vis) = Open \ {i} /\ i \notin Open
    BY <1>1, <1>2
  <2>4. Area(win'[i].totsize) = A
    BY <1>2, <1>5 DEF A
  <2>5. /\ \E s \in Rects : Area(win'[i].totsize) = Area(s)
        /\ win'[i].rlist = Grabbed(i, Area(win'[i].totsize), Raised(i, win_vis))
    BY <1>2, <1>5, <2>4 DEF A, got, order
  <2>6. \A j \in Open \ {i} :
          /\ win'[j].totsize = win[j].totsize
          /\ win'[j].rlist = LeftTo(j, i, Area(win'[i].totsize), Raised(i, win_vis))
    BY <1>5, <2>2, <2>4 DEF order
  <2>7. Stack(Raised(i, win_vis), DOMAIN win) /\ Regions(win', Raised(i, win_vis))
    BY <1>2, <2>1, <2>3, <2>5, <2>6, RaisedRegions
  <2> QED
    BY <2>7 DEF order
<1>7. Structure'
  <2>1. redraw' \in [Id -> SUBSET Cell] /\ stale' \subseteq Cell /\ torn' \subseteq stale'
    BY <1>1, <1>2, <1>3, AskTyped DEF Structure, TypeOK, Soil
  <2>2. DOMAIN win' = DOMAIN win
    BY <1>1
  <2> QED
    BY <1>1, <1>2, <1>5, <1>6, <2>1, <2>2, StructureKept
<1> QED
  BY <1>1, <1>6, <1>7 DEF Inv

\* The front window may only be topped when no dialog is right below it.
LEMMA TopKeeps ==
  ASSUME Inv, "under dialog" \notin Liberty, NEW i, top_window(i)
  PROVE  Inv'
<1> DEFINE rest == Without(i)
           order == Raised(i, rest)
           A == AreaOf(i)
           got == Grabbed(i, A, order)
           tops == ~UnderDialog(rest) /\ ~IsTopped(i)
<1>1. /\ i \in AppWindow \intersect Open
      /\ ~(i = Front /\ UnderDialog(Tail(win_vis)))
      /\ win_vis' = order
      /\ win' = [j \in DOMAIN win |->
           IF j = i THEN [win[j] EXCEPT !.topped = @ \/ tops, !.rlist = @ \union got]
           ELSE [win[j] EXCEPT !.topped = @ /\ ~(tops /\ j = Head(rest)),
                               !.rlist = LeftTo(j, i, A, order)]]
      /\ redraw' = Ask({i}, got) /\ Soil(got)
      /\ UNCHANGED <<win_free, win_next, exiting>>
  BY DEF top_window
<1>2. Structure /\ Stack(win_vis, DOMAIN win) /\ Open = In(win_vis) /\ Open \subseteq DOMAIN win
      /\ i \in DOMAIN win /\ i # DESKTOP_WINDOW
  BY <1>1, StackIsKept DEF Inv, Open, In, AppWindow
<1>3. A \subseteq Cell /\ got \subseteq Cell
      /\ \A j \in DOMAIN win : win[j] \in WINSTRUCT /\ LeftTo(j, i, A, order) \subseteq Cell
  <2>1. A \subseteq Cell
    BY DEF AreaOf, Area
  <2> QED
    BY <1>2, <2>1, TakenTyped DEF Structure, TypeOK
<1>4. tops \in BOOLEAN /\ \A j : (tops /\ j = Head(rest)) \in BOOLEAN
  OBVIOUS
<1>5. UnderDialog(rest) => InFront(win_vis, Head(rest), i)
  BY <1>1, <1>2, DialogWasInFront
<1>6. /\ Stack(rest, DOMAIN win)
      /\ In(rest) = Open \ {i}
      /\ \A a, b : InFront(rest, a, b) <=> InFront(win_vis, a, b) /\ a # i /\ b # i
  BY <1>1, <1>2, WithoutOrder, StackGrows
<1> HIDE DEF rest, order, A, got, tops
<1>7. \A j \in DOMAIN win :
        /\ win'[j] \in WINSTRUCT
        /\ win'[j].owner = win[j].owner /\ win'[j].kind = win[j].kind
        /\ win'[j].totsize = win[j].totsize
        /\ j # i => win'[j].rlist = LeftTo(j, i, A, order)
        /\ j = i => win'[j].rlist = Own(i) \union got
  BY <1>1, <1>3, <1>4 DEF WINSTRUCT, Own
<1>8. Stack(order, DOMAIN win) /\ Regions(win', order)
  <2>1. Area(win'[i].totsize) = A /\ A = AreaOf(i)
    BY <1>2, <1>7 DEF A, AreaOf
  <2>2. /\ Area(win'[i].totsize) = AreaOf(i)
        /\ win'[i].rlist = Own(i) \union Grabbed(i, Area(win'[i].totsize), Raised(i, rest))
        /\ UnderDialog(rest) => InFront(win_vis, Head(rest), i)
    BY <1>2, <1>5, <1>7, <2>1 DEF got, order
  <2>3. \A j \in Open \ {i} :
          /\ win'[j].totsize = win[j].totsize
          /\ win'[j].rlist = LeftTo(j, i, Area(win'[i].totsize), Raised(i, rest))
    BY <1>2, <1>7, <2>1 DEF order
  <2>4. i \in Open
    BY <1>1
  <2>5. Stack(Raised(i, rest), DOMAIN win) /\ Regions(win', Raised(i, rest))
    BY <1>2, <1>6, <2>2, <2>3, <2>4, RaisedRegions
  <2> QED
    BY <2>5 DEF order
<1>9. Structure'
  <2>1. redraw' \in [Id -> SUBSET Cell] /\ stale' \subseteq Cell /\ torn' \subseteq stale'
    BY <1>1, <1>2, <1>3, AskTyped DEF Structure, TypeOK, Soil
  <2>2. DOMAIN win' = DOMAIN win
    BY <1>1
  <2> QED
    BY <1>1, <1>2, <1>7, <1>8, <2>1, <2>2, StructureKept
<1> QED
  BY <1>1, <1>8, <1>9 DEF Inv

\* Topping the desktop moves nothing.
LEMMA TopDesktopKeeps ==
  ASSUME Inv, TopDesktop
  PROVE  Inv'
<1>1. /\ win' = [win EXCEPT ![Front].topped = FALSE]
      /\ UNCHANGED <<win_vis, win_free, win_next, exiting, screen>>
  BY DEF TopDesktop
<1>2. Structure /\ Stack(win_vis, DOMAIN win) /\ In(win_vis) \subseteq DOMAIN win
  BY StackIsKept DEF Inv, Open, In
<1>3. DOMAIN win' = DOMAIN win
      /\ \A j \in DOMAIN win :
           /\ win'[j] \in WINSTRUCT
           /\ win'[j].owner = win[j].owner /\ win'[j].kind = win[j].kind
           /\ win'[j].totsize = win[j].totsize /\ win'[j].rlist = win[j].rlist
  BY <1>1, <1>2 DEF Structure, TypeOK, WINSTRUCT
<1>4. TypeOK'
  BY <1>1, <1>2, <1>3 DEF Structure, TypeOK, screen
<1>5. Desk' /\ IdentifiersAreKept' /\ Once(win_vis)'
  BY <1>1, <1>2, <1>3 DEF Structure, Desk, IdentifiersAreKept, Once
<1>6. Regions(win', win_vis')
  BY <1>1, <1>2, <1>3 DEF Inv, Regions
<1> QED
  BY <1>4, <1>5, <1>6 DEF Inv, Structure

\* A window goes under all others but the desktop.
LEMMA BottomKeeps ==
  ASSUME Inv, "past menu" \notin Liberty, NEW i, bottom_window(i)
  PROVE  Inv'
<1> DEFINE F(a, b) == InFront(win_vis, a, b)
           G(a, b) == InFront(Lowered(i), a, b)
           given(j) == Share(Own(i), j, Passed(i))
           all == UNION {given(j) : j \in Passed(i)}
           hands == IsTopped(i) /\ win[Heir(i)].kind # "desktop"
<1>1. /\ i \in AppWindow \intersect Open
      /\ win_vis' = Lowered(i)
      /\ win' = [j \in DOMAIN win |->
           CASE j = i -> [win[j] EXCEPT !.topped = @ /\ ~hands, !.rlist = @ \ all]
             [] j \in Passed(i) -> [win[j] EXCEPT !.topped = @ \/ (hands /\ j = Heir(i)),
                                                  !.rlist = @ \union given(j)]
             [] OTHER -> win[j]]
      /\ redraw' = Ask({j \in Passed(i) : win[j].kind # "menu"}, AreaOf(i))
      /\ Soil(all)
      /\ UNCHANGED <<win_free, win_next, exiting>>
  BY DEF bottom_window
<1>2. Structure /\ Stack(win_vis, DOMAIN win) /\ Open = In(win_vis) /\ Open \subseteq DOMAIN win
      /\ i \in Open /\ i \in DOMAIN win /\ i # DESKTOP_WINDOW
  BY <1>1, StackIsKept DEF Inv, Open, In, AppWindow
<1>3. /\ Stack(Lowered(i), DOMAIN win)
      /\ In(Lowered(i)) = Open
      /\ \A a, b : G(a, b) <=>
           \/ F(a, b) /\ a # i /\ b # i
           \/ b = i /\ a \in Open /\ a # i /\ a # DESKTOP_WINDOW
           \/ a = i /\ b = DESKTOP_WINDOW
  BY <1>2, LoweredOrder
<1>4. /\ \A a, b \in Open : a # b => (F(a, b) <=> ~F(b, a))
      /\ \A a, b, c : F(a, b) /\ F(b, c) => F(a, c)
      /\ \A a, b : F(a, b) => a \in Open /\ b \in Open /\ a # b
      /\ \A a \in Open : a # DESKTOP_WINDOW => F(a, DESKTOP_WINDOW)
      /\ DESKTOP_WINDOW \in Open
  BY <1>2, FrontIsTotal, FrontIsTransitive, FrontIsIn, DesktopIsLast
<1>5. \A b \in Open : \A c : c \in Own(b) <=>
        /\ c \in AreaOf(b)
        /\ \A a \in Open : F(a, b) => c \notin AreaOf(a)
  BY <1>2 DEF Inv, Regions, Own, AreaOf
\* The windows below i, the desktop and a skipped one excepted, are passed.
<1>6. \A j : j \in Passed(i) => j \in Open /\ F(i, j) /\ j # DESKTOP_WINDOW
  BY <1>2 DEF Passed, Below, Under, Structure, Desk
<1>7. \A j \in Open : F(i, j) /\ j # DESKTOP_WINDOW /\ j \notin Passed(i) =>
        \A c \in Own(i) : c \notin AreaOf(j)
  <2>1. Skips(i) => Own(i) \intersect AreaOf(After(i)) = {}
    BY DEF bottom_window, MayBottom
  <2>2. \A j \in Open : F(i, j) /\ j # DESKTOP_WINDOW /\ j \notin Passed(i) =>
          Skips(i) /\ j = After(i)
    BY <1>2 DEF Passed, Below, Under, Structure, Desk
  <2> QED
    BY <2>1, <2>2
<1>8. \A j, c : c \in given(j) <=>
        /\ c \in Own(i) /\ c \in AreaOf(j)
        /\ \A l \in Passed(i) : F(l, j) => c \notin AreaOf(l)
  BY DEF Share
<1>9. \A c : c \in all <=> \E j \in Passed(i) : c \in given(j)
  OBVIOUS
<1>10. hands \in BOOLEAN /\ \A j : (hands /\ j = Heir(i)) \in BOOLEAN
  OBVIOUS
<1> HIDE DEF F, G, given, all, hands
<1>11. /\ i \notin Passed(i)
       /\ \A j \in DOMAIN win : win[j] \in WINSTRUCT /\ Own(j) \subseteq Cell
       /\ \A j : given(j) \subseteq Cell
       /\ all \subseteq Cell
  <2>1. \A j \in DOMAIN win : win[j] \in WINSTRUCT /\ Own(j) \subseteq Cell
    BY <1>2 DEF Structure, TypeOK, WINSTRUCT, Own
  <2>2. \A j : given(j) \subseteq Cell
    BY <1>2, <2>1, <1>8
  <2> QED
    BY <1>4, <1>6, <1>9, <2>1, <2>2
<1>12. DOMAIN win' = DOMAIN win
       /\ \A j \in DOMAIN win :
            /\ win'[j] \in WINSTRUCT
            /\ win'[j].owner = win[j].owner /\ win'[j].kind = win[j].kind
            /\ win'[j].totsize = win[j].totsize
            /\ win'[j].rlist = IF j = i THEN Own(i) \ all
                               ELSE IF j \in Passed(i) THEN Own(j) \union given(j)
                               ELSE Own(j)
  <2>1. DOMAIN win' = DOMAIN win
    BY <1>1
  <2>2. ASSUME NEW j \in DOMAIN win
        PROVE  /\ win'[j] \in WINSTRUCT
               /\ win'[j].owner = win[j].owner /\ win'[j].kind = win[j].kind
               /\ win'[j].totsize = win[j].totsize
               /\ win'[j].rlist = IF j = i THEN Own(i) \ all
                                  ELSE IF j \in Passed(i) THEN Own(j) \union given(j)
                                  ELSE Own(j)
    <3>1. CASE j = i
      BY <3>1, <1>1, <1>11, <1>10 DEF WINSTRUCT, Own
    <3>2. CASE j # i /\ j \in Passed(i)
      BY <3>2, <1>1, <1>11, <1>10 DEF WINSTRUCT, Own
    <3>3. CASE j # i /\ j \notin Passed(i)
      BY <3>3, <1>1, <1>11 DEF WINSTRUCT, Own
    <3> QED
      BY <3>1, <3>2, <3>3
  <2> QED
    BY <2>1, <2>2
<1>13. ASSUME NEW c
       PROVE  c \in win'[i].rlist <=>
                /\ c \in AreaOf(i)
                /\ \A a \in Open : a # i /\ a # DESKTOP_WINDOW => c \notin AreaOf(a)
  <2>1. c \in win'[i].rlist <=> c \in Own(i) /\ c \notin all
    BY <1>2, <1>12
  <2>2. ASSUME c \in Own(i), NEW a \in Open, a # i, a # DESKTOP_WINDOW, c \in AreaOf(a)
        PROVE  c \in all
    <3> DEFINE T == {x \in Passed(i) : c \in AreaOf(x)}
    <3>1. a \in T
      BY <2>2, <1>2, <1>4, <1>5, <1>7
    <3>2. T \subseteq In(win_vis)
      BY <1>2, <1>6
    <3>3. PICK b \in T : \A x \in T : ~F(x, b)
      BY <3>1, <3>2, <1>2, FrontmostExists DEF F
    <3>4. c \in given(b)
      BY <2>2, <3>3, <1>8
    <3> QED
      BY <3>3, <3>4, <1>9
  <2>3. ASSUME c \in AreaOf(i), \A a \in Open : a # i /\ a # DESKTOP_WINDOW => c \notin AreaOf(a)
        PROVE  c \in Own(i) /\ c \notin all
    <3>1. \A a : F(a, i) => a \in Open /\ a # i /\ a # DESKTOP_WINDOW
      <4>1. F(i, DESKTOP_WINDOW) /\ ~F(DESKTOP_WINDOW, i)
        BY <1>2, <1>4
      <4>2. \A a : F(a, i) => a \in Open /\ a # i
        BY <1>4
      <4> QED
        BY <4>1, <4>2
    <3>2. c \in Own(i)
      BY <2>3, <3>1, <1>2, <1>5
    <3>3. \A j \in Passed(i) : j \in Open /\ j # i /\ j # DESKTOP_WINDOW
      BY <1>6, <1>11
    <3>4. \A j \in Passed(i) : c \notin given(j)
      BY <2>3, <3>3, <1>8
    <3> QED
      BY <3>2, <3>4, <1>9
  <2> QED
    BY <2>1, <2>2, <2>3, <1>2, <1>5
<1>14. ASSUME NEW b \in Open, b # i, b # DESKTOP_WINDOW, NEW c
       PROVE  c \in win'[b].rlist <=>
                /\ c \in AreaOf(b)
                /\ \A a \in Open : F(a, b) /\ a # i => c \notin AreaOf(a)
  <2>1. CASE ~F(i, b)
    <3>1. win'[b].rlist = Own(b)
      BY <1>2, <1>6, <1>12, <1>14, <2>1
    <3> QED
      BY <3>1, <2>1, <1>5
  <2>2. CASE F(i, b)
    <3>1. ASSUME c \in AreaOf(b), \A a \in Open : F(a, b) /\ a # i => c \notin AreaOf(a),
                 c \notin Own(b)
          PROVE  c \in Own(i)
      <4>1. c \in AreaOf(i)
        BY <3>1, <1>5
      <4>2. \A a \in Open : F(a, i) => F(a, b) /\ a # i
        BY <2>2, <1>4
      <4> QED
        BY <3>1, <4>1, <4>2, <1>2, <1>5
    <3>2. CASE b \notin Passed(i)
      <4>1. win'[b].rlist = Own(b)
        BY <1>2, <1>12, <1>14, <3>2
      <4>2. \A d \in Own(i) : d \notin AreaOf(b)
        BY <2>2, <3>2, <1>7, <1>14
      <4> QED
        BY <3>1, <4>1, <4>2, <1>5
    <3>3. CASE b \in Passed(i)
      <4>1. c \in win'[b].rlist <=> c \in Own(b) \/ c \in given(b)
        BY <1>2, <1>12, <1>14, <3>3
      <4>2. ASSUME c \in given(b), NEW a \in Open, F(a, b), a # i
            PROVE  c \notin AreaOf(a)
        <5>1. CASE F(a, i)
          BY <4>2, <5>1, <1>2, <1>5, <1>8
        <5>2. CASE F(i, a)
          <6>1. a # DESKTOP_WINDOW
            BY <4>2, <1>4, <1>14
          <6> QED
            BY <4>2, <5>2, <6>1, <1>7, <1>8
        <5> QED
          BY <4>2, <5>1, <5>2, <1>2, <1>4
      <4>3. ASSUME c \in Own(i), c \in AreaOf(b),
                   \A a \in Open : F(a, b) /\ a # i => c \notin AreaOf(a)
            PROVE  c \in given(b)
        <5>1. \A l \in Passed(i) : l \in Open /\ l # i
          BY <1>6, <1>11
        <5>2. \A l \in Passed(i) : F(l, b) => c \notin AreaOf(l)
          BY <4>3, <5>1
        <5> QED
          BY <4>3, <5>2, <1>8
      <4> QED
        BY <3>1, <4>1, <4>2, <4>3, <1>5, <1>8
    <3> QED
      BY <3>2, <3>3
  <2> QED
    BY <2>1, <2>2
<1>15. win'[DESKTOP_WINDOW].rlist = Own(DESKTOP_WINDOW)
  BY <1>2, <1>4, <1>6, <1>12
<1>16. Regions(win', win_vis')
  <2>1. \A a \in Open : Area(win'[a].totsize) = AreaOf(a)
    BY <1>2, <1>12 DEF AreaOf
  <2>2. ASSUME NEW b \in Open, NEW c
        PROVE  c \in win'[b].rlist <=>
                 /\ c \in AreaOf(b)
                 /\ \A a \in Open : G(a, b) => c \notin AreaOf(a)
    <3>1. CASE b = i
      <4>1. \A a : G(a, i) <=> a \in Open /\ a # i /\ a # DESKTOP_WINDOW
        BY <1>2, <1>3
      <4> QED
        BY <3>1, <4>1, <1>13
    <3>2. CASE b = DESKTOP_WINDOW
      <4>1. \A a \in Open : G(a, b) <=> F(a, b)
        <5>1. F(i, DESKTOP_WINDOW)
          BY <1>2, <1>4
        <5> QED
          BY <3>2, <5>1, <1>2, <1>3
      <4> QED
        BY <3>2, <4>1, <1>5, <1>15
    <3>3. CASE b # i /\ b # DESKTOP_WINDOW
      BY <3>3, <1>3, <1>14
    <3> QED
      BY <3>1, <3>2, <3>3
  <2> QED
    <3>1. ASSUME NEW b \in Open, NEW c
          PROVE  c \in win'[b].rlist <=>
                   /\ c \in Area(win'[b].totsize)
                   /\ \A a \in Open : G(a, b) => c \notin Area(win'[a].totsize)
      <4>1. Area(win'[b].totsize) = AreaOf(b)
        BY <2>1
      <4>2. (\A a \in Open : G(a, b) => c \notin Area(win'[a].totsize))
              <=> (\A a \in Open : G(a, b) => c \notin AreaOf(a))
        BY <2>1
      <4> QED
        <5>1. c \in win'[b].rlist <=>
                 /\ c \in AreaOf(b)
                 /\ \A a \in Open : G(a, b) => c \notin AreaOf(a)
          BY <2>2
        <5>2. c \in Area(win'[b].totsize) <=> c \in AreaOf(b)
          BY <4>1
        <5> QED
          BY <5>1, <5>2, <4>2
    <3>2. Regions(win', Lowered(i))
      BY <3>1, <1>3 DEF Regions, G
    <3> QED
      BY <3>2, <1>1
<1>17. Structure'
  <2>1. redraw' \in [Id -> SUBSET Cell] /\ stale' \subseteq Cell /\ torn' \subseteq stale'
    <3>1. AreaOf(i) \in SUBSET Cell
      BY DEF AreaOf, Area
    <3> QED
      BY <3>1, <1>1, <1>2, <1>11, AskTyped DEF Structure, TypeOK, Soil
  <2> QED
    BY <2>1, <1>1, <1>2, <1>3, <1>12, StructureKept
<1> QED
  BY <1>16, <1>17 DEF Inv

-----------------------------------------------------------------------------
(* Moving and sizing *)

\* Moving and sizing keep the invariant: the window takes its new area from
\* itself and from below, and what it leaves is shared below.
LEMMA ChangeKeeps ==
  ASSUME Inv, NEW i, NEW r \in Rects, changewinsize(i, r)
  PROVE  Inv'
<1> DEFINE F(a, b) == InFront(win_vis, a, b)
           old == win[i].totsize
           A == Area(r)
           left == Own(i) \ A
           new == (Own(i) \intersect A) \union (A \intersect UNION {Own(j) : j \in Below(i)})
           moved == {c \in new : From(c, old, r) \in Own(i)}
           given(j) == Share(left, j, Below(i))
           gaining == {j \in Below(i) : given(j) # {}}
<1>1. /\ i \in AppWindow \intersect Open
      /\ win' = [j \in DOMAIN win |->
           CASE j = i -> [win[j] EXCEPT !.totsize = r, !.rlist = new]
             [] j \in Below(i) -> [win[j] EXCEPT !.rlist = (@ \ A) \union given(j)]
             [] OTHER -> win[j]]
      /\ redraw' = [Ask(gaining, AreaOf(i))
                    EXCEPT ![i] = @ \union Strips(old, r) \union (new \ moved)]
      /\ \E lost \in SUBSET Exposed(moved, old, r) :
           /\ stale' = (stale \ new) \union left \union (new \ moved) \union lost
                         \union {c \in moved : From(c, old, r) \in stale}
           /\ torn' = (torn \ (left \union new)) \union lost
                        \union {c \in moved : From(c, old, r) \in torn}
      /\ UNCHANGED <<win_vis, win_free, win_next, exiting>>
  BY DEF changewinsize
<1>2. Structure /\ Stack(win_vis, DOMAIN win) /\ Open = In(win_vis) /\ Open \subseteq DOMAIN win
      /\ i \in Open /\ i \in DOMAIN win /\ i # DESKTOP_WINDOW
  BY <1>1, StackIsKept DEF Inv, Open, In, AppWindow
<1>3. /\ \A a, b \in Open : a # b => (F(a, b) <=> ~F(b, a))
      /\ \A a, b, c : F(a, b) /\ F(b, c) => F(a, c)
      /\ \A a, b : F(a, b) => a \in Open /\ b \in Open /\ a # b
  BY <1>2, FrontIsTotal, FrontIsTransitive, FrontIsIn
<1>4. \A b \in Open : \A c : c \in Own(b) <=>
        /\ c \in AreaOf(b)
        /\ \A a \in Open : F(a, b) => c \notin AreaOf(a)
  BY <1>2 DEF Inv, Regions, Own, AreaOf
<1>5. \A j : j \in Below(i) <=> j \in Open /\ F(i, j)
  BY DEF Below, Under
<1>6. \A c : c \in new <=> /\ c \in A
                           /\ c \in Own(i) \/ \E j \in Below(i) : c \in Own(j)
  OBVIOUS
<1>7. \A c : c \in left <=> c \in Own(i) /\ c \notin A
  OBVIOUS
<1>8. \A j, c : c \in given(j) <=>
        /\ c \in left /\ c \in AreaOf(j)
        /\ \A l \in Below(i) : F(l, j) => c \notin AreaOf(l)
  BY DEF Share
<1>9. \A c \in A : \E y \in Open :
        /\ c \in Own(y) /\ c \in AreaOf(y)
        /\ \A a \in Open : c \in AreaOf(a) => ~F(a, y)
  BY <1>2, DesktopCovers, Shown
<1>10. A \subseteq Cell /\ r \in Size /\ moved \subseteq new
  BY SizesAreTyped
<1> HIDE DEF F, old, A, left, new, moved, given
<1>11. /\ i \notin Below(i)
       /\ \A j \in DOMAIN win : win[j] \in WINSTRUCT /\ Own(j) \subseteq Cell
       /\ \A j : given(j) \subseteq Cell
       /\ new \subseteq Cell /\ left \subseteq Cell
  <2>1. \A j \in DOMAIN win : win[j] \in WINSTRUCT /\ Own(j) \subseteq Cell
    BY <1>2 DEF Structure, TypeOK, WINSTRUCT, Own
  <2>2. new \subseteq Cell /\ left \subseteq Cell
    BY <1>2, <1>6, <1>7, <1>10, <2>1
  <2>3. \A j : given(j) \subseteq Cell
    BY <1>8, <2>2
  <2> QED
    BY <1>3, <1>5, <2>1, <2>2, <2>3
<1>12. DOMAIN win' = DOMAIN win
       /\ \A j \in DOMAIN win :
            /\ win'[j] \in WINSTRUCT
            /\ win'[j].owner = win[j].owner /\ win'[j].kind = win[j].kind
            /\ j # i => win'[j].totsize = win[j].totsize
            /\ j = i => win'[j].totsize = r
            /\ win'[j].rlist = IF j = i THEN new
                               ELSE IF j \in Below(i) THEN (Own(j) \ A) \union given(j)
                               ELSE Own(j)
  <2>1. DOMAIN win' = DOMAIN win
    BY <1>1
  <2>2. ASSUME NEW j \in DOMAIN win
        PROVE  /\ win'[j] \in WINSTRUCT
               /\ win'[j].owner = win[j].owner /\ win'[j].kind = win[j].kind
               /\ j # i => win'[j].totsize = win[j].totsize
               /\ j = i => win'[j].totsize = r
               /\ win'[j].rlist = IF j = i THEN new
                                  ELSE IF j \in Below(i) THEN (Own(j) \ A) \union given(j)
                                  ELSE Own(j)
    <3>1. CASE j = i
      BY <3>1, <1>1, <1>10, <1>11 DEF WINSTRUCT, Own
    <3>2. CASE j # i /\ j \in Below(i)
      BY <3>2, <1>1, <1>11 DEF WINSTRUCT, Own
    <3>3. CASE j # i /\ j \notin Below(i)
      BY <3>3, <1>1, <1>11 DEF WINSTRUCT, Own
    <3> QED
      BY <3>1, <3>2, <3>3
  <2> QED
    BY <2>1, <2>2
\* What window i gets: its new area, but for what is in front of it.
<1>13. ASSUME NEW c
       PROVE  c \in new <=> c \in A /\ \A a \in Open : F(a, i) => c \notin AreaOf(a)
  <2>1. ASSUME c \in new, NEW a \in Open, F(a, i)
        PROVE  c \notin AreaOf(a)
    <3>1. CASE c \in Own(i)
      BY <2>1, <3>1, <1>2, <1>4
    <3>2. CASE \E j \in Below(i) : c \in Own(j)
      BY <2>1, <3>2, <1>3, <1>4, <1>5
    <3> QED
      BY <2>1, <3>1, <3>2, <1>6
  <2>2. ASSUME c \in A, \A a \in Open : F(a, i) => c \notin AreaOf(a)
        PROVE  c \in new
    <3>1. PICK y \in Open : c \in Own(y) /\ c \in AreaOf(y)
      BY <1>9, <2>2
    <3>2. y = i \/ y \in Below(i)
      BY <2>2, <3>1, <1>2, <1>3, <1>5
    <3> QED
      BY <2>2, <3>1, <3>2, <1>6
  <2> QED
    BY <2>1, <2>2, <1>6
\* What the others have: as before, with the new area of i for the old one.
<1>14. ASSUME NEW b \in Open, b # i, NEW c
       PROVE  c \in win'[b].rlist <=>
                /\ c \in AreaOf(b)
                /\ F(i, b) => c \notin A
                /\ \A a \in Open : F(a, b) /\ a # i => c \notin AreaOf(a)
  <2>1. CASE ~F(i, b)
    <3>1. win'[b].rlist = Own(b)
      BY <1>2, <1>5, <1>12, <1>14, <2>1
    <3> QED
      BY <3>1, <2>1, <1>4
  <2>2. CASE F(i, b)
    <3>1. c \in win'[b].rlist <=> (c \in Own(b) /\ c \notin A) \/ c \in given(b)
      BY <1>2, <1>5, <1>12, <1>14, <2>2
    <3>2. ASSUME c \in given(b), NEW a \in Open, F(a, b), a # i
          PROVE  c \notin AreaOf(a)
      <4>1. CASE F(a, i)
        BY <3>2, <4>1, <1>2, <1>4, <1>7, <1>8
      <4>2. CASE F(i, a)
        BY <3>2, <4>2, <1>5, <1>8
      <4> QED
        BY <3>2, <4>1, <4>2, <1>2, <1>3
    <3>3. ASSUME c \in AreaOf(b), c \notin A, c \notin Own(b),
                 \A a \in Open : F(a, b) /\ a # i => c \notin AreaOf(a)
          PROVE  c \in given(b)
      <4>1. c \in AreaOf(i)
        BY <3>3, <1>4
      <4>2. \A a \in Open : F(a, i) => F(a, b) /\ a # i
        BY <2>2, <1>3
      <4>3. c \in Own(i)
        BY <3>3, <4>1, <4>2, <1>2, <1>4
      <4>4. \A l \in Below(i) : l \in Open /\ l # i
        BY <1>5, <1>11
      <4>5. \A l \in Below(i) : F(l, b) => c \notin AreaOf(l)
        BY <3>3, <4>4
      <4> QED
        BY <3>3, <4>3, <4>5, <1>7, <1>8
    <3> QED
      BY <3>1, <3>2, <3>3, <2>2, <1>4, <1>7, <1>8
  <2> QED
    BY <2>1, <2>2
<1>15. Regions(win', win_vis')
  <2>1. Area(win'[i].totsize) = A /\ win'[i].rlist = new
        /\ \A a \in Open : a # i => Area(win'[a].totsize) = AreaOf(a)
    BY <1>2, <1>12 DEF AreaOf, A
  <2>2. ASSUME NEW c
        PROVE  c \in win'[i].rlist <=>
                 /\ c \in Area(win'[i].totsize)
                 /\ \A a \in Open : F(a, i) => c \notin Area(win'[a].totsize)
    <3>1. \A a \in Open : F(a, i) => Area(win'[a].totsize) = AreaOf(a)
      BY <1>3, <2>1
    <3> QED
      BY <1>13, <2>1, <3>1
  <2>3. ASSUME NEW b \in Open, b # i, NEW c
        PROVE  c \in win'[b].rlist <=>
                 /\ c \in Area(win'[b].totsize)
                 /\ \A a \in Open : F(a, b) => c \notin Area(win'[a].totsize)
    <3>1. c \in Area(win'[b].totsize) <=> c \in AreaOf(b)
      BY <2>1, <2>3
    <3>2. (\A a \in Open : F(a, b) => c \notin Area(win'[a].totsize))
            <=> /\ F(i, b) => c \notin A
                /\ \A a \in Open : F(a, b) /\ a # i => c \notin AreaOf(a)
      BY <2>1, <1>2
    <3>3. c \in win'[b].rlist <=>
            /\ c \in AreaOf(b)
            /\ F(i, b) => c \notin A
            /\ \A a \in Open : F(a, b) /\ a # i => c \notin AreaOf(a)
      BY <1>14, <2>3
    <3> QED
      BY <3>1, <3>2, <3>3
  <2>4. Regions(win', win_vis)
    BY <2>2, <2>3, <1>2 DEF Regions, F
  <2> QED
    BY <2>4, <1>1
<1>16. Structure'
  <2>1. redraw' \in [Id -> SUBSET Cell]
    <3>1. AreaOf(i) \in SUBSET Cell /\ Strips(old, r) \in SUBSET Cell
      BY DEF AreaOf, Area, Strips
    <3>2. Ask(gaining, AreaOf(i)) \in [Id -> SUBSET Cell] /\ i \in Id
      BY <3>1, <1>2, AskTyped DEF Structure, TypeOK
    <3> QED
      BY <3>1, <3>2, <1>1, <1>11
  <2>2. stale' \subseteq Cell /\ torn' \subseteq stale'
    <3>1. PICK lost \in SUBSET moved :
            /\ stale' = (stale \ new) \union left \union (new \ moved) \union lost
                          \union {c \in moved : From(c, old, r) \in stale}
            /\ torn' = (torn \ (left \union new)) \union lost
                         \union {c \in moved : From(c, old, r) \in torn}
      BY <1>1 DEF Exposed
    <3>2. stale \subseteq Cell /\ torn \subseteq stale
      BY <1>2 DEF Structure, TypeOK
    <3> QED
      BY <3>1, <3>2, <1>10, <1>11
  <2>3. i \in AppWindow /\ Stack(win_vis', DOMAIN win)
    BY <1>1, <1>2
  <2> QED
    BY <2>1, <2>2, <2>3, <1>1, <1>2, <1>12, StructureKept
<1> QED
  BY <1>15, <1>16 DEF Inv

-----------------------------------------------------------------------------
(* The theorems *)

\* Steps that change neither windows nor order.
LEMMA ScreenKeeps ==
  ASSUME Inv, UNCHANGED <<win, win_vis, win_free, win_next>>,
         exiting' \in Apid \union {NoAppl},
         redraw' \in [Id -> SUBSET Cell], stale' \subseteq Cell /\ torn' \subseteq stale'
  PROVE  Inv'
BY DEF Inv, Structure, TypeOK, Once, Desk, IdentifiersAreKept

\* The restrictions the theorems are proved under: no menu is passed by the
\* window above it, no front window topped above a dialog.
Restrained == "past menu" \notin Liberty /\ "under dialog" \notin Liberty

\* Every step keeps the invariant.
LEMMA InvariantKept ==
  ASSUME Restrained, Inv, [Next]_vars
  PROVE  Inv'
<1> USE DEF Restrained
<1>1. CASE \E a \in Apid, kind \in Kind \ {"desktop"} : srv_wind_create(a, kind)
  BY <1>1, CreateKeeps
<1>2. CASE \E a \in Apid : srv_appl_exit(a)
  BY <1>2, ScreenKeeps DEF srv_appl_exit, Inv, Structure, TypeOK, screen
<1>3. CASE srv_wind_new
  BY <1>3, NewKeeps
<1>4. CASE TopDesktop
  BY <1>4, TopDesktopKeeps
<1>5. CASE \E i \in Id : srv_wind_delete(i)
  BY <1>5, DeleteKeeps DEF srv_wind_delete
<1>6. CASE \E i \in Id : srv_wind_close(i)
  BY <1>6, CloseKeeps
<1>7. CASE \E i \in Id : top_window(i)
  BY <1>7, TopKeeps
<1>8. CASE \E i \in Id : bottom_window(i)
  BY <1>8, BottomKeeps
<1>9. CASE \E i \in Id : Draw(i)
  BY <1>9, ScreenKeeps DEF Draw, Inv, Structure, TypeOK
<1>10. CASE \E i \in Id, r \in Rects : srv_wind_open(i, r)
  BY <1>10, OpenKeeps
<1>11. CASE \E i \in Id, r \in Rects : changewinsize(i, r)
  BY <1>11, ChangeKeeps
<1>12. CASE UNCHANGED vars
  BY <1>12, ScreenKeeps DEF vars, screen, Inv, Structure, TypeOK
<1> QED
  BY <1>1, <1>2, <1>3, <1>4, <1>5, <1>6, <1>7, <1>8, <1>9, <1>10, <1>11, <1>12 DEF Next

\* The variables keep their types, however windows are created, opened,
\* stacked, moved, closed and deleted.
THEOREM TypeCorrect == Restrained /\ Spec => []TypeOK
<1>1. Inv => TypeOK
  BY DEF Inv, Structure
<1> SUFFICES ASSUME Restrained PROVE Spec => []TypeOK
  OBVIOUS
<1>2. Inv /\ [Next]_vars => Inv'
  BY InvariantKept
<1> QED
  BY <1>1, <1>2, InitKeeps, PTL DEF Spec

\* An identifier is never given to two windows, and srv_wind_delete() stops
\* giving identifiers up: the desktop's one is always in use.
THEOREM IdentifiersCorrect == Restrained /\ Spec => []IdentifiersAreKept
<1>1. Inv => IdentifiersAreKept
  BY DEF Inv, Structure
<1> SUFFICES ASSUME Restrained PROVE Spec => []IdentifiersAreKept
  OBVIOUS
<1>2. Inv /\ [Next]_vars => Inv'
  BY InvariantKept
<1> QED
  BY <1>1, <1>2, InitKeeps, PTL DEF Spec

\* The rectangle list of every open window is the part of it that can be seen,
\* on every screen and for any number of windows.
THEOREM RegionsCorrect == Restrained /\ Spec => []RegionsAreVisible
<1>1. Inv => RegionsAreVisible
  BY RegionsCellByCell DEF Inv
<1> SUFFICES ASSUME Restrained PROVE Spec => []RegionsAreVisible
  OBVIOUS
<1>2. Inv /\ [Next]_vars => Inv'
  BY InvariantKept
<1> QED
  BY <1>1, <1>2, InitKeeps, PTL DEF Spec

-----------------------------------------------------------------------------
(***************************************************************************)
(* One window is topped when no menu is in the way: WIN_TOPPED is handed   *)
(* on by four operations, and some of them only look at the first window   *)
(* of win_vis.  They may, because a window that is topped has nothing but  *)
(* menus in front of it.  Then, the screen is repaired: whoever gets cells *)
(* of another window, or shows cells that were not copied right, is asked  *)
(* to draw them.  It rests on the regions, which do not overlap.           *)
(***************************************************************************)

\* What the applications keep away from, besides what Restrained says.
Unmenued == Restrained /\ "over menu" \notin Liberty

\* Seen from window t of the order: if it is topped, it is on the screen,
\* below menus only, and no other window is topped.
Leads(w, order, t) ==
  w[t].topped =>
    /\ t \in In(order)
    /\ \A j \in In(order) : InFront(order, j, t) => w[j].kind = "menu"
    /\ \A s \in DOMAIN w : w[s].topped => s = t

Led(w, order) == \A t \in DOMAIN w : Leads(w, order, t)
TopInv == Led(win, win_vis)

-----------------------------------------------------------------------------
(* About the order *)

\* What the proofs below need to know of the open windows.
LEMMA OrderFacts ==
  ASSUME Inv
  PROVE  /\ Structure /\ Stack(win_vis, DOMAIN win)
         /\ Open = In(win_vis) /\ Open \subseteq DOMAIN win
         /\ \A j \in DOMAIN win : win[j] \in WINSTRUCT
         /\ Front \in Open /\ \A b \in Open : b # Front => InFront(win_vis, Front, b)
         /\ \A a, b \in Open : a # b => (InFront(win_vis, a, b) <=> ~InFront(win_vis, b, a))
<1>1. Structure /\ Stack(win_vis, DOMAIN win)
      /\ Open = In(win_vis) /\ Open \subseteq DOMAIN win
      /\ \A j \in DOMAIN win : win[j] \in WINSTRUCT
  BY StackIsKept DEF Inv, Structure, TypeOK, Open, In
<1> QED
  BY <1>1, HeadIsFirst, FrontIsTotal DEF Front

\* The window after i is below it, and only i and what is in front of i is in
\* front of that one.
LEMMA AfterIsNext ==
  ASSUME NEW S, Stack(win_vis, S), NEW i \in Open, i # DESKTOP_WINDOW
  PROVE  /\ After(i) \in Below(i)
         /\ \A j : InFront(win_vis, j, After(i)) => j = i \/ InFront(win_vis, j, i)
<1> DEFINE p == Position(i)
           n == Len(win_vis)
<1>1. p \in 1 .. n /\ win_vis[p] = i
  BY PositionFound
<1>2. n \in Nat /\ p # n /\ DOMAIN win_vis = 1 .. n /\ win_vis[n] = DESKTOP_WINDOW
  BY <1>1 DEF Stack
<1>3. p + 1 \in 1 .. n /\ After(i) = win_vis[p + 1]
  BY <1>1, <1>2 DEF After
<1> HIDE DEF p, n
<1>4. After(i) \in Open /\ InFront(win_vis, i, After(i))
  <2>1. p \in 1 .. (p + 1) - 1
    BY <1>1, <1>2
  <2> QED
    BY <1>1, <1>2, <1>3, <2>1 DEF Open, InFront
<1>5. ASSUME NEW j, InFront(win_vis, j, After(i)), j # i
      PROVE  InFront(win_vis, j, i)
  <2>1. PICK l \in 1 .. n : win_vis[l] = After(i) /\ \E k \in 1 .. l - 1 : win_vis[k] = j
    BY <1>2, <1>5 DEF InFront
  <2>2. l = p + 1
    BY <1>2, <1>3, <2>1 DEF Stack, Once
  <2>3. PICK k \in 1 .. l - 1 : win_vis[k] = j
    BY <2>1
  <2>4. k \in 1 .. p - 1
    BY <1>1, <1>2, <1>5, <2>2, <2>3
  <2> QED
    BY <1>1, <1>2, <2>3, <2>4 DEF InFront
<1> QED
  BY <1>4, <1>5 DEF Below, Under

\* The first window of what is left without i is the front window, unless i is.
LEMMA HeadWithout ==
  ASSUME Inv, NEW i \in Open, i # DESKTOP_WINDOW, i # Front
  PROVE  Head(Without(i)) = Front
<1>1. /\ Stack(Without(i), DOMAIN win \ {i})
      /\ In(Without(i)) = Open \ {i}
      /\ \A a, b : InFront(Without(i), a, b) <=> InFront(win_vis, a, b) /\ a # i /\ b # i
  BY OrderFacts, WithoutOrder
<1>2. SUFFICES ASSUME Head(Without(i)) # Front PROVE FALSE
  OBVIOUS
<1>3. Front \in In(Without(i)) /\ Head(Without(i)) \in In(Without(i))
  BY <1>1, OrderFacts, HeadIsFirst
<1>4. InFront(Without(i), Head(Without(i)), Front)
  BY <1>1, <1>2, <1>3, HeadIsFirst
<1> QED
  BY <1>1, <1>2, <1>3, <1>4, OrderFacts

\* What the order becomes when a closed window is opened.
LEMMA RaisedNew ==
  ASSUME Inv, NEW i \in DOMAIN win, i \notin Open,
         UnderDialog(win_vis) => Front # DESKTOP_WINDOW
  PROVE  /\ In(Raised(i, win_vis)) = Open \union {i}
         /\ \A a, b : InFront(Raised(i, win_vis), a, b) <=>
              \/ InFront(win_vis, a, b)
              \/ a = i /\ b \in Open /\ ~(UnderDialog(win_vis) /\ b = Front)
              \/ UnderDialog(win_vis) /\ a = Front /\ b = i
<1> DEFINE v == win_vis
<1>1. Stack(v, DOMAIN win) /\ Open = In(v) /\ Front = Head(v)
  BY OrderFacts DEF Front
<1>2. i \notin In(v) /\ (UnderDialog(v) => Head(v) # DESKTOP_WINDOW)
  BY <1>1
<1> HIDE DEF v
<1>3. /\ In(Raised(i, v)) = In(v) \union {i}
      /\ \A a, b : InFront(Raised(i, v), a, b) <=>
           \/ InFront(v, a, b)
           \/ a = i /\ b \in In(v) /\ ~(UnderDialog(v) /\ b = Head(v))
           \/ UnderDialog(v) /\ a = Head(v) /\ b = i
  BY <1>1, <1>2, RaisedOrder
<1> QED
  BY <1>1, <1>3 DEF v

\* With no menu in front of it the topped window is the front one.
LEMMA ToppedIsFront ==
  ASSUME Inv, TopInv, NEW t \in DOMAIN win, IsTopped(t),
         ~MenuInFront \/ win[Front].kind # "menu"
  PROVE  t = Front
<1>1. SUFFICES ASSUME t # Front PROVE FALSE
  OBVIOUS
<1>2. t \in Open /\ \A j \in Open : InFront(win_vis, j, t) => win[j].kind = "menu"
  BY OrderFacts DEF TopInv, Led, Leads, IsTopped
<1>3. win[Front].kind = "menu"
  BY <1>1, <1>2, OrderFacts
<1> QED
  BY <1>1, <1>3 DEF MenuInFront

-----------------------------------------------------------------------------
(* The steps *)

\* Nothing is topped or put in front by a step that keeps order and WIN_TOPPED.
LEMMA SameTop ==
  ASSUME Inv, TopInv, win_vis' = win_vis, Open \subseteq DOMAIN win',
         \A j \in DOMAIN win' : IF j \in DOMAIN win
                                THEN /\ win'[j].topped => win[j].topped
                                     /\ win'[j].kind = win[j].kind
                                ELSE ~win'[j].topped
  PROVE  TopInv'
<1> SUFFICES ASSUME NEW t \in DOMAIN win', win'[t].topped
             PROVE  /\ t \in In(win_vis)
                    /\ \A j \in In(win_vis) : InFront(win_vis, j, t) => win'[j].kind = "menu"
                    /\ \A s \in DOMAIN win' : win'[s].topped => s = t
  BY DEF TopInv, Led, Leads
<1>1. t \in DOMAIN win /\ win[t].topped
  OBVIOUS
<1>2. /\ t \in In(win_vis)
      /\ \A j \in In(win_vis) : InFront(win_vis, j, t) => win[j].kind = "menu"
      /\ \A s \in DOMAIN win : win[s].topped => s = t
  BY <1>1 DEF TopInv, Led, Leads
<1>3. \A j \in In(win_vis) : j \in DOMAIN win /\ j \in DOMAIN win'
  BY OrderFacts
<1> QED
  BY <1>2, <1>3

\* Who is topped after i was taken from the screen.
LEMMA ClosedTop ==
  ASSUME Inv, NEW i \in Open, NEW j \in DOMAIN win
  PROVE  Closed(i)[j].topped <=>
           /\ j # i
           /\ IsTopped(j) \/ (j \in Below(i) /\ IsTopped(i) /\ j = After(i))
<1>1. win[j] \in WINSTRUCT
  BY OrderFacts
<1>2. CASE j = i
  <2>1. Closed(i)[i] = [win[i] EXCEPT !.topped = FALSE, !.totsize = NoRect, !.rlist = {}]
    <3>1. i \in DOMAIN win /\ i \notin Below(i)
      BY <1>2, OrderFacts, FrontIsIn DEF Below, Under
    <3> QED
      BY <3>1 DEF Closed
  <2> QED
    BY <1>1, <1>2, <2>1 DEF WINSTRUCT
<1>3. CASE j # i /\ j \in Below(i)
  <2> DEFINE t == win[j].topped \/ (IsTopped(i) /\ j = After(i))
             l == win[j].rlist \union Share(Own(i), j, Below(i))
  <2>1. Closed(i)[j] = [win[j] EXCEPT !.topped = t, !.rlist = l]
    BY <1>3 DEF Closed
  <2>2. Closed(i)[j].topped = t
    <3> HIDE DEF t, l
    <3> QED BY <1>1, <2>1 DEF WINSTRUCT
  <2>3. t <=> IsTopped(j) \/ (IsTopped(i) /\ j = After(i))
    BY DEF IsTopped
  <2> HIDE DEF t, l
  <2> QED
    BY <1>3, <2>2, <2>3
<1>4. CASE j # i /\ j \notin Below(i)
  <2>1. Closed(i)[j] = win[j]
    BY <1>4 DEF Closed
  <2> QED
    BY <1>4, <2>1 DEF IsTopped
<1> QED
  BY <1>2, <1>3, <1>4

\* The next window takes over from one that leaves the screen.
LEMMA RemovedTop ==
  ASSUME Inv, TopInv, NEW i \in Open, i # DESKTOP_WINDOW, NEW w,
         DOMAIN w \in {DOMAIN win, DOMAIN win \ {i}},
         \A j \in DOMAIN w : w[j].topped = Closed(i)[j].topped /\ w[j].kind = win[j].kind
  PROVE  Led(w, Without(i))
<1> SUFFICES ASSUME NEW t \in DOMAIN w, w[t].topped
             PROVE  /\ t \in In(Without(i))
                    /\ \A j \in In(Without(i)) : InFront(Without(i), j, t) => w[j].kind = "menu"
                    /\ \A s \in DOMAIN w : w[s].topped => s = t
  BY DEF Led, Leads
<1>1. /\ In(Without(i)) = Open \ {i}
      /\ \A a, b : InFront(Without(i), a, b) <=> InFront(win_vis, a, b) /\ a # i /\ b # i
  BY OrderFacts, WithoutOrder
<1>2. Open \subseteq DOMAIN win /\ DOMAIN w \subseteq DOMAIN win
      /\ \A j \in Open \ {i} : j \in DOMAIN w
  BY OrderFacts
<1>3. /\ After(i) \in Below(i) /\ After(i) \in Open /\ InFront(win_vis, i, After(i))
      /\ \A j : InFront(win_vis, j, After(i)) => j = i \/ InFront(win_vis, j, i)
  BY OrderFacts, AfterIsNext DEF Below, Under
<1>4. \A s \in DOMAIN w : w[s].topped <=>
        s # i /\ (IsTopped(s) \/ (IsTopped(i) /\ s = After(i)))
  BY <1>2, <1>3, ClosedTop
<1>5. \A s \in DOMAIN win : IsTopped(s) =>
        /\ s \in Open
        /\ \A j \in Open : InFront(win_vis, j, s) => win[j].kind = "menu"
        /\ \A u \in DOMAIN win : IsTopped(u) => u = s
  BY OrderFacts DEF TopInv, Led, Leads, IsTopped
<1>6. CASE IsTopped(i)
  <2>1. \A s \in DOMAIN w : w[s].topped => s = After(i)
    BY <1>2, <1>4, <1>5, <1>6
  <2>2. t = After(i) /\ t # i
    BY <1>4, <2>1
  <2>3. \A j \in Open \ {i} : InFront(win_vis, j, t) => win[j].kind = "menu"
    BY <1>2, <1>3, <1>5, <1>6, <2>2
  <2> QED
    BY <1>1, <1>2, <1>3, <2>1, <2>2, <2>3
<1>7. CASE ~IsTopped(i)
  <2>1. \A s \in DOMAIN w : w[s].topped <=> s # i /\ IsTopped(s)
    BY <1>4, <1>7
  <2>2. /\ t \in Open /\ t # i
        /\ \A j \in Open : InFront(win_vis, j, t) => win[j].kind = "menu"
        /\ \A s \in DOMAIN w : w[s].topped => s = t
    BY <1>2, <1>5, <2>1
  <2> QED
    BY <1>1, <1>2, <2>2
<1> QED
  BY <1>6, <1>7

\* wind_close hands WIN_TOPPED to the next window.
LEMMA CloseTop ==
  ASSUME Inv, TopInv, NEW i, srv_wind_close(i)
  PROVE  TopInv'
<1>1. i \in Open /\ i # DESKTOP_WINDOW /\ win' = Closed(i) /\ win_vis' = Without(i)
  BY DEF srv_wind_close, AppWindow
<1>2. /\ DOMAIN win' \in {DOMAIN win, DOMAIN win \ {i}}
      /\ \A j \in DOMAIN win' :
           win'[j].topped = Closed(i)[j].topped /\ win'[j].kind = win[j].kind
  BY <1>1, OrderFacts, ClosedTyped
<1>3. i \in Open /\ i # DESKTOP_WINDOW
  BY <1>1
<1>4. Led(win', Without(i))
  BY <1>2, <1>3, RemovedTop
<1> QED
  BY <1>1, <1>4 DEF TopInv

\* So does wind_delete of an open window; a closed one is not topped.
LEMMA DeleteTop ==
  ASSUME Inv, TopInv, NEW i \in AppWindow, Delete(i)
  PROVE  TopInv'
<1>1. i # DESKTOP_WINDOW /\ i \in DOMAIN win
  BY DEF AppWindow
<1>2. CASE i \in Open
  <2>1. /\ win' = [j \in DOMAIN win \ {i} |-> Closed(i)[j]] /\ win_vis' = Without(i)
    BY <1>2 DEF Delete
  <2>2. DOMAIN win' = DOMAIN win \ {i} /\ \A j \in DOMAIN win' :
          win'[j].topped = Closed(i)[j].topped /\ win'[j].kind = win[j].kind
    BY <1>1, <2>1, OrderFacts, ClosedTyped
  <2>3. Led(win', Without(i))
    BY <1>1, <1>2, <2>2, RemovedTop
  <2> QED
    BY <2>1, <2>3 DEF TopInv
<1>3. CASE i \notin Open
  <2>1. win' = [j \in DOMAIN win \ {i} |-> win[j]] /\ win_vis' = win_vis
    BY <1>3 DEF Delete
  <2>2. Open \subseteq DOMAIN win'
    BY <1>3, <2>1, OrderFacts
  <2> QED
    BY <2>1, <2>2, SameTop
<1> QED
  BY <1>2, <1>3

\* The windows of an application that exits are deleted one by one.
LEMMA NewTop ==
  ASSUME Inv, TopInv, srv_wind_new
  PROVE  TopInv'
<1>1. CASE Owned(exiting) = {}
  BY <1>1 DEF srv_wind_new, TopInv
<1>2. CASE Owned(exiting) # {}
  <2>1. exiting \in Apid
    BY DEF srv_wind_new, Inv, Structure, TypeOK
  <2>2. PICK i \in Owned(exiting) : Delete(i)
    BY <1>2 DEF srv_wind_new
  <2>3. i \in AppWindow
    BY <2>1, <2>2, AppsAssumption DEF Owned, AppWindow, Inv, Structure, Desk
  <2> QED
    BY <2>2, <2>3, DeleteTop
<1> QED
  BY <1>1, <1>2

\* A new window is not topped.
LEMMA CreateTop ==
  ASSUME Inv, TopInv, NEW a \in Apid, NEW kind \in Kind, srv_wind_create(a, kind)
  PROVE  TopInv'
<1>1. PICK i \in Fresh :
        win' = [j \in DOMAIN win \union {i} |-> IF j = i THEN NewWindow(a, kind) ELSE win[j]]
  BY DEF srv_wind_create
<1>2. win_vis' = win_vis
  BY DEF srv_wind_create
<1>3. i \notin DOMAIN win
  BY DEF Fresh, Inv, Structure, IdentifiersAreKept, TypeOK
<1>4. ~NewWindow(a, kind).topped
  BY DEF NewWindow
<1> QED
  BY <1>1, <1>2, <1>3, <1>4, OrderFacts, SameTop

\* wind_set(WF_TOP) of the desktop leaves no window topped.
LEMMA TopDesktopTop ==
  ASSUME Inv, TopInv, TopDesktop
  PROVE  TopInv'
<1>1. win' = [win EXCEPT ![Front].topped = FALSE] /\ win_vis' = win_vis
  BY DEF TopDesktop
<1>2. \A j \in DOMAIN win : /\ win'[j].topped => win[j].topped
                            /\ win'[j].kind = win[j].kind
  BY <1>1, OrderFacts DEF WINSTRUCT
<1> QED
  BY <1>1, <1>2, OrderFacts, SameTop

\* Moving and sizing a window changes neither order nor WIN_TOPPED.
LEMMA ChangeTop ==
  ASSUME Inv, TopInv, NEW i, NEW r \in Rects, changewinsize(i, r)
  PROVE  TopInv'
<1> DEFINE A == Area(r)
           left == Own(i) \ A
           new == (Own(i) \intersect A) \union (A \intersect UNION {Own(j) : j \in Below(i)})
           given(j) == Share(left, j, Below(i))
<1>1. /\ win' = [j \in DOMAIN win |->
              CASE j = i -> [win[j] EXCEPT !.totsize = r, !.rlist = new]
                [] j \in Below(i) -> [win[j] EXCEPT !.rlist = (@ \ A) \union given(j)]
                [] OTHER -> win[j]]
      /\ win_vis' = win_vis
  BY DEF changewinsize
<1> HIDE DEF A, left, new, given
<1>2. i \notin Below(i)
  BY OrderFacts, FrontIsIn DEF Below, Under
<1>3. DOMAIN win' = DOMAIN win
  BY <1>1
<1>4. ASSUME NEW j \in DOMAIN win
      PROVE  win'[j].topped = win[j].topped /\ win'[j].kind = win[j].kind
  <2>1. win[j] \in WINSTRUCT
    BY OrderFacts
  <2>2. CASE j = i
    BY <1>1, <1>2, <2>1, <2>2 DEF WINSTRUCT
  <2>3. CASE j # i /\ j \in Below(i)
    BY <1>1, <2>1, <2>3 DEF WINSTRUCT
  <2>4. CASE j # i /\ j \notin Below(i)
    BY <1>1, <2>4
  <2> QED
    BY <2>2, <2>3, <2>4
<1> QED
  BY <1>1, <1>3, <1>4, OrderFacts, SameTop

\* wind_open tops the new window, unless a dialog is in front or it is a menu.
LEMMA OpenTop ==
  ASSUME Inv, TopInv, "over menu" \notin Liberty, NEW i, NEW r \in Rects, srv_wind_open(i, r)
  PROVE  TopInv'
<1> DEFINE order == Raised(i, win_vis)
           A == Area(r)
           got == Grabbed(i, A, order)
           tops == ~UnderDialog(win_vis) /\ win[i].kind # "menu"
<1>1. /\ i \in AppWindow \ Open
      /\ win[i].kind = "menu" \/ ~MenuInFront
      /\ win_vis' = order
      /\ win' = [j \in DOMAIN win |->
           IF j = i THEN [win[j] EXCEPT !.topped = tops, !.totsize = r, !.rlist = got]
           ELSE [win[j] EXCEPT !.topped = @ /\ ~(tops /\ j = Front),
                               !.rlist = LeftTo(j, i, A, order)]]
  BY DEF srv_wind_open
<1>2. i \in DOMAIN win /\ i # DESKTOP_WINDOW /\ i \notin Open
  BY <1>1 DEF AppWindow
<1>3. UnderDialog(win_vis) <=> win[Front].kind = "dialog"
  BY DEF UnderDialog, Front
<1>4. /\ In(order) = Open \union {i}
      /\ \A a, b : InFront(order, a, b) <=>
           \/ InFront(win_vis, a, b)
           \/ a = i /\ b \in Open /\ ~(UnderDialog(win_vis) /\ b = Front)
           \/ UnderDialog(win_vis) /\ a = Front /\ b = i
  <2>1. UnderDialog(win_vis) => Front # DESKTOP_WINDOW
    BY <1>3, OrderFacts DEF Structure, Desk
  <2> QED
    BY <1>2, <2>1, RaisedNew
<1> HIDE DEF order, A, got
<1>5. DOMAIN win' = DOMAIN win
      /\ \A j \in DOMAIN win :
           /\ win'[j].kind = win[j].kind
           /\ win'[j].topped <=> IF j = i THEN tops ELSE IsTopped(j) /\ ~(tops /\ j = Front)
  <2>1. tops \in BOOLEAN /\ \A j : (tops /\ j = Front) \in BOOLEAN
    OBVIOUS
  <2> HIDE DEF tops
  <2> QED
    BY <1>1, <2>1, OrderFacts DEF WINSTRUCT, IsTopped
<1>6. \A s \in DOMAIN win : IsTopped(s) =>
        /\ s \in Open
        /\ \A j \in Open : InFront(win_vis, j, s) => win[j].kind = "menu"
        /\ \A u \in DOMAIN win : IsTopped(u) => u = s
  BY OrderFacts DEF TopInv, Led, Leads, IsTopped
<1> SUFFICES ASSUME NEW t \in DOMAIN win, win'[t].topped
             PROVE  /\ t \in In(order)
                    /\ \A j \in In(order) : InFront(order, j, t) => win[j].kind = "menu"
                    /\ \A s \in DOMAIN win : win'[s].topped => s = t
  <2>1. Led(win', order)
    <3>1. \A j \in In(order) : win'[j].kind = win[j].kind
      BY <1>2, <1>4, <1>5, OrderFacts
    <3> QED
      BY <1>5, <3>1 DEF Led, Leads
  <2> QED
    BY <1>1, <2>1 DEF TopInv
<1>7. CASE tops
  <2>1. \A s \in DOMAIN win : IsTopped(s) => s = Front
    BY <1>1, <1>7, ToppedIsFront
  <2>2. \A s \in DOMAIN win : win'[s].topped => s = i
    BY <1>5, <1>7, <2>1
  <2>3. \A j : ~InFront(win_vis, j, i)
    <3>1. Stack(win_vis, DOMAIN win) /\ i \notin In(win_vis)
      BY <1>2, OrderFacts
    <3> QED
      BY <3>1, FrontIsIn
  <2>4. \A j : ~InFront(order, j, i)
    BY <1>2, <1>4, <1>7, <2>3
  <2> QED
    BY <1>4, <2>2, <2>4
<1>8. CASE ~tops
  <2>1. \A s \in DOMAIN win : win'[s].topped => s # i /\ IsTopped(s)
    BY <1>5, <1>8
  <2>2. CASE UnderDialog(win_vis)
    <3>1. t = Front /\ t # i
      BY <1>3, <2>1, <2>2, ToppedIsFront
    <3>2. \A j : ~InFront(order, j, t)
      BY <1>2, <1>4, <2>2, <3>1, OrderFacts, FrontIsIn
    <3> QED
      BY <1>4, <1>6, <2>1, <3>2
  <2>3. CASE ~UnderDialog(win_vis)
    <3>1. win[i].kind = "menu"
      BY <1>8, <2>3
    <3> QED
      BY <1>4, <1>6, <2>1, <2>3, <3>1, OrderFacts
  <2> QED
    BY <2>2, <2>3
<1> QED
  BY <1>7, <1>8

\* wind_set(WF_TOP) tops a window, unless a dialog stays in front of it.
LEMMA TopTop ==
  ASSUME Inv, TopInv, Unmenued, NEW i, top_window(i)
  PROVE  TopInv'
<1> DEFINE rest == Without(i)
           order == Raised(i, rest)
           A == AreaOf(i)
           got == Grabbed(i, A, order)
           tops == ~UnderDialog(rest) /\ ~IsTopped(i)
<1>1. /\ i \in AppWindow \intersect Open
      /\ ~MenuInFront
      /\ ~(i = Front /\ UnderDialog(Tail(win_vis)))
      /\ win_vis' = order
      /\ win' = [j \in DOMAIN win |->
           IF j = i THEN [win[j] EXCEPT !.topped = @ \/ tops, !.rlist = @ \union got]
           ELSE [win[j] EXCEPT !.topped = @ /\ ~(tops /\ j = Head(rest)),
                               !.rlist = LeftTo(j, i, A, order)]]
  BY DEF top_window, Unmenued, Restrained
<1>2. i \in DOMAIN win /\ i # DESKTOP_WINDOW /\ i \in Open
  BY <1>1 DEF AppWindow
<1>3. /\ Stack(rest, DOMAIN win)
      /\ In(rest) = Open \ {i}
      /\ \A a, b : InFront(rest, a, b) <=> InFront(win_vis, a, b) /\ a # i /\ b # i
  BY <1>2, OrderFacts, WithoutOrder, StackGrows
\* A dialog in front of the others is in front of i as well.
<1>4. UnderDialog(rest) => i # Front /\ Head(rest) = Front /\ win[Front].kind = "dialog"
  <2>1. SUFFICES ASSUME UnderDialog(rest)
                 PROVE  i # Front /\ Head(rest) = Front /\ win[Front].kind = "dialog"
    OBVIOUS
  <2>2. InFront(win_vis, Head(rest), i)
    BY <1>1, <1>2, <2>1, OrderFacts, DialogWasInFront
  <2>3. i # Front
    BY <1>2, <2>2, OrderFacts, FrontIsIn
  <2>4. Head(rest) = Front
    BY <1>2, <2>3, HeadWithout
  <2> QED
    BY <2>1, <2>3, <2>4 DEF UnderDialog
<1>5. /\ In(order) = Open
      /\ \A a, b : InFront(order, a, b) <=>
           \/ InFront(rest, a, b)
           \/ a = i /\ b \in In(rest) /\ ~(UnderDialog(rest) /\ b = Head(rest))
           \/ UnderDialog(rest) /\ a = Head(rest) /\ b = i
  <2>1. UnderDialog(rest) => Head(rest) # DESKTOP_WINDOW
    BY <1>4, OrderFacts DEF Structure, Desk
  <2>2. i \notin In(rest)
    BY <1>3
  <2> HIDE DEF rest
  <2> QED
    BY <1>2, <1>3, <2>1, <2>2, RaisedOrder DEF order
<1>6. \A s \in DOMAIN win : IsTopped(s) => s = Front
  BY <1>1, ToppedIsFront
<1>7. i # Front => Head(rest) = Front
  BY <1>2, HeadWithout
<1> HIDE DEF rest, order, A, got
<1>8. DOMAIN win' = DOMAIN win
      /\ \A j \in DOMAIN win :
           /\ win'[j].kind = win[j].kind
           /\ win'[j].topped <=> IF j = i THEN IsTopped(i) \/ tops
                                 ELSE IsTopped(j) /\ ~(tops /\ j = Head(rest))
  <2>1. tops \in BOOLEAN /\ \A j : (tops /\ j = Head(rest)) \in BOOLEAN
    OBVIOUS
  <2> HIDE DEF tops
  <2> QED
    BY <1>1, <2>1, OrderFacts DEF WINSTRUCT, IsTopped
<1> SUFFICES ASSUME NEW t \in DOMAIN win, win'[t].topped
             PROVE  /\ t \in Open
                    /\ \A j \in Open : InFront(order, j, t) => win[j].kind = "menu"
                    /\ \A s \in DOMAIN win : win'[s].topped => s = t
  <2>1. Led(win', order)
    <3>1. \A j \in In(order) : win'[j].kind = win[j].kind
      BY <1>5, <1>8, OrderFacts
    <3> QED
      BY <1>5, <1>8, <3>1 DEF Led, Leads
  <2> QED
    BY <1>1, <2>1 DEF TopInv
<1>9. CASE UnderDialog(rest)
  <2>1. ~tops /\ i # Front /\ Head(rest) = Front
    BY <1>4, <1>9
  <2>2. \A s \in DOMAIN win : win'[s].topped => s = Front
    BY <1>6, <1>8, <2>1
  <2>3. \A j : ~InFront(order, j, Front)
    <3>1. \A j : ~InFront(win_vis, j, Front)
      BY OrderFacts, FrontIsIn
    <3> QED
      BY <1>3, <1>5, <1>9, <2>1, <3>1
  <2> QED
    BY <2>2, <2>3, OrderFacts
<1>10. CASE ~UnderDialog(rest)
  <2>1. \A s \in DOMAIN win : win'[s].topped => s = i
    <3>1. CASE IsTopped(i)
      BY <1>6, <1>8, <3>1, <1>2
    <3>2. CASE ~IsTopped(i)
      <4>1. tops
        BY <1>10, <3>2
      <4> QED
        BY <1>6, <1>7, <1>8, <3>2, <4>1
    <3> QED
      BY <3>1, <3>2
  <2>2. \A j : ~InFront(order, j, i)
    <3>1. \A j : ~InFront(rest, j, i) /\ i \notin In(rest)
      BY <1>3
    <3> QED
      BY <1>5, <1>10, <3>1
  <2> QED
    BY <1>2, <2>1, <2>2
<1> QED
  BY <1>9, <1>10

\* wind_set(WF_BOTTOM) hands WIN_TOPPED to the window that was right below.
LEMMA BottomTop ==
  ASSUME Inv, TopInv, "past menu" \notin Liberty, NEW i, bottom_window(i)
  PROVE  TopInv'
<1> DEFINE given(j) == Share(Own(i), j, Passed(i))
           all == UNION {given(j) : j \in Passed(i)}
           hands == IsTopped(i) /\ win[Heir(i)].kind # "desktop"
<1>1. /\ i \in AppWindow \intersect Open
      /\ win_vis' = Lowered(i)
      /\ win' = [j \in DOMAIN win |->
           CASE j = i -> [win[j] EXCEPT !.topped = @ /\ ~hands, !.rlist = @ \ all]
             [] j \in Passed(i) -> [win[j] EXCEPT !.topped = @ \/ (hands /\ j = Heir(i)),
                                                  !.rlist = @ \union given(j)]
             [] OTHER -> win[j]]
  BY DEF bottom_window
<1>2. i \in DOMAIN win /\ i # DESKTOP_WINDOW /\ i \in Open
  BY <1>1 DEF AppWindow
<1>3. /\ In(Lowered(i)) = Open
      /\ \A a, b : InFront(Lowered(i), a, b) <=>
           \/ InFront(win_vis, a, b) /\ a # i /\ b # i
           \/ b = i /\ a \in Open /\ a # i /\ a # DESKTOP_WINDOW
           \/ a = i /\ b = DESKTOP_WINDOW
  BY <1>2, OrderFacts, LoweredOrder
<1>4. /\ After(i) \in Open /\ InFront(win_vis, i, After(i)) /\ After(i) # i
      /\ \A j : InFront(win_vis, j, After(i)) => j = i \/ InFront(win_vis, j, i)
  BY <1>2, OrderFacts, AfterIsNext, FrontIsIn DEF Below, Under
<1>5. IsTopped(i) => Heir(i) = After(i)
  BY DEF bottom_window, MayBottom, Heir
<1>6. i \notin Passed(i)
  BY OrderFacts, FrontIsIn DEF Passed, Below, Under
<1>7. \A j \in DOMAIN win : win[j].kind = "desktop" <=> j = DESKTOP_WINDOW
  BY OrderFacts DEF Structure, Desk
<1> HIDE DEF given, all
<1>8. DOMAIN win' = DOMAIN win
      /\ \A j \in DOMAIN win :
           /\ win'[j].kind = win[j].kind
           /\ win'[j].topped => IF j = i THEN IsTopped(i) /\ ~hands
                                ELSE IsTopped(j) \/ (hands /\ j = Heir(i))
  <2>1. DOMAIN win' = DOMAIN win
    BY <1>1
  <2>2. hands \in BOOLEAN /\ \A j : (hands /\ j = Heir(i)) \in BOOLEAN
    OBVIOUS
  <2> HIDE DEF hands
  <2>3. ASSUME NEW j \in DOMAIN win
        PROVE  /\ win'[j].kind = win[j].kind
               /\ win'[j].topped => IF j = i THEN IsTopped(i) /\ ~hands
                                    ELSE IsTopped(j) \/ (hands /\ j = Heir(i))
    <3>1. win[j] \in WINSTRUCT
      BY OrderFacts
    <3>2. CASE j = i
      <4>1. win'[j] = [win[j] EXCEPT !.topped = win[j].topped /\ ~hands, !.rlist = win[j].rlist \ all]
        BY <1>1, <1>6, <3>2
      <4> QED
        BY <2>2, <3>1, <3>2, <4>1 DEF WINSTRUCT, IsTopped
    <3>3. CASE j # i /\ j \in Passed(i)
      <4>1. win'[j] = [win[j] EXCEPT !.topped = win[j].topped \/ (hands /\ j = Heir(i)),
                                     !.rlist = win[j].rlist \union given(j)]
        BY <1>1, <3>3
      <4> QED
        BY <2>2, <3>1, <3>3, <4>1 DEF WINSTRUCT, IsTopped
    <3>4. CASE j # i /\ j \notin Passed(i)
      BY <1>1, <3>4 DEF IsTopped
    <3> QED
      BY <3>2, <3>3, <3>4
  <2> QED
    BY <2>1, <2>3
<1>9. \A s \in DOMAIN win : IsTopped(s) =>
        /\ s \in Open
        /\ \A j \in Open : InFront(win_vis, j, s) => win[j].kind = "menu"
        /\ \A u \in DOMAIN win : IsTopped(u) => u = s
  BY OrderFacts DEF TopInv, Led, Leads, IsTopped
<1> SUFFICES ASSUME NEW t \in DOMAIN win, win'[t].topped
             PROVE  /\ t \in Open
                    /\ \A j \in Open : InFront(Lowered(i), j, t) => win[j].kind = "menu"
                    /\ \A s \in DOMAIN win : win'[s].topped => s = t
  <2>1. Led(win', Lowered(i))
    <3>1. \A j \in In(Lowered(i)) : win'[j].kind = win[j].kind
      BY <1>3, <1>8, OrderFacts
    <3> QED
      BY <1>3, <1>8, <3>1 DEF Led, Leads
  <2> QED
    BY <1>1, <2>1 DEF TopInv
<1>10. CASE hands
  <2>1. \A s \in DOMAIN win : win'[s].topped => s = After(i)
    BY <1>5, <1>8, <1>9, <1>10, <1>2
  <2>2. After(i) # DESKTOP_WINDOW
    BY <1>2, <1>4, <1>5, <1>7, <1>10, OrderFacts
  <2>3. \A j \in Open : InFront(Lowered(i), j, After(i)) => win[j].kind = "menu"
    <3>1. \A j \in Open : InFront(win_vis, j, i) => win[j].kind = "menu"
      BY <1>2, <1>9, <1>10
    <3> QED
      BY <1>3, <1>4, <2>2, <3>1
  <2> QED
    BY <1>4, <2>1, <2>3
<1>11. CASE ~hands /\ IsTopped(i)
  <2>1. \A s \in DOMAIN win : win'[s].topped => s = i
    BY <1>2, <1>8, <1>9, <1>11
  <2>2. After(i) = DESKTOP_WINDOW
    BY <1>4, <1>5, <1>7, <1>11, OrderFacts
  <2>3. \A a \in Open : a # i /\ a # DESKTOP_WINDOW => InFront(win_vis, a, i)
    <3>1. \A a \in Open : a # DESKTOP_WINDOW => InFront(win_vis, a, DESKTOP_WINDOW)
      BY OrderFacts, DesktopIsLast
    <3> QED
      BY <1>4, <2>2, <3>1
  <2>4. \A j \in Open : InFront(Lowered(i), j, i) => win[j].kind = "menu"
    BY <1>2, <1>3, <1>9, <1>11, <2>3
  <2> QED
    BY <1>2, <2>1, <2>4
<1>12. CASE ~hands /\ ~IsTopped(i)
  <2>1. \A s \in DOMAIN win : win'[s].topped => s # i /\ IsTopped(s)
    BY <1>8, <1>12
  <2>2. \A j \in Open : InFront(Lowered(i), j, t) => InFront(win_vis, j, t)
    <3>1. InFront(win_vis, i, DESKTOP_WINDOW)
      BY <1>2, OrderFacts, DesktopIsLast
    <3> QED
      BY <1>3, <2>1, <3>1
  <2> QED
    BY <1>9, <2>1, <2>2
<1> QED
  BY <1>10, <1>11, <1>12

-----------------------------------------------------------------------------
(* The theorem *)

\* Every step keeps it.
LEMMA TopKept ==
  ASSUME Unmenued, Inv, TopInv, [Next]_vars
  PROVE  TopInv'
<1>1. CASE \E a \in Apid, kind \in Kind \ {"desktop"} : srv_wind_create(a, kind)
  BY <1>1, CreateTop
<1>2. CASE srv_wind_new
  BY <1>2, NewTop
<1>3. CASE TopDesktop
  BY <1>3, TopDesktopTop
<1>4. CASE \E i \in Id : srv_wind_delete(i)
  BY <1>4, DeleteTop DEF srv_wind_delete
<1>5. CASE \E i \in Id : srv_wind_close(i)
  BY <1>5, CloseTop
<1>6. CASE \E i \in Id : top_window(i)
  BY <1>6, TopTop
<1>7. CASE \E i \in Id : bottom_window(i)
  BY <1>7, BottomTop DEF Unmenued, Restrained
<1>8. CASE \E i \in Id, r \in Rects : srv_wind_open(i, r)
  BY <1>8, OpenTop DEF Unmenued
<1>9. CASE \E i \in Id, r \in Rects : changewinsize(i, r)
  BY <1>9, ChangeTop
<1>10. CASE \/ \E a \in Apid : srv_appl_exit(a)
            \/ \E i \in Id : Draw(i)
            \/ UNCHANGED vars
  BY <1>10 DEF srv_appl_exit, Draw, vars, TopInv
<1> QED
  BY <1>1, <1>2, <1>3, <1>4, <1>5, <1>6, <1>7, <1>8, <1>9, <1>10 DEF Next

\* At most one window is topped, and it is on the screen, when applications do
\* not open or top windows over a menu.
THEOREM ToppedCorrect == Unmenued /\ Spec => []OneTopped
<1>1. Init => TopInv
  BY DEF Init, TopInv, Led, Leads, NewWindow
<1>2. Inv /\ TopInv => OneTopped
  BY OrderFacts DEF TopInv, Led, Leads, OneTopped, IsTopped
<1> SUFFICES ASSUME Unmenued PROVE Spec => []OneTopped
  OBVIOUS
<1>3. Inv /\ [Next]_vars => Inv'
  BY InvariantKept DEF Unmenued
<1>4. Inv /\ TopInv /\ [Next]_vars => TopInv'
  BY TopKept
<1> QED
  BY <1>1, <1>2, <1>3, <1>4, InitKeeps, PTL DEF Spec

-----------------------------------------------------------------------------
(* What the screen shows *)

\* Besides what Restrained says: nobody moves a window that is not drawn yet.
Patient == Restrained /\ "move undrawn" \notin Liberty

\* The cells that are wrong and were not lost in a move.
Wrong == stale \ torn

\* StaleIsAsked cell by cell.
Repaired(w, windows, marked, asked) ==
  \A j \in windows : \A c :
    w[j].kind # "menu" /\ c \in w[j].rlist /\ c \in marked => c \in asked[j]

\* The property, and its form cell by cell that the proofs use.
LEMMA StaleCellByCell == Repaired(win, Open, Wrong, redraw) <=> StaleIsAsked
BY DEF Repaired, StaleIsAsked, Own, Wrong

\* Cells that change hands are all that becomes wrong.
LEMMA Soiled ==
  ASSUME NEW S, Soil(S)
  PROVE  Wrong' \subseteq Wrong \union S
BY DEF Soil, Wrong

\* A cell belongs to one open window, and this one covers it.
LEMMA RegionsAreApart ==
  ASSUME Inv
  PROVE  /\ Open \subseteq DOMAIN win /\ DOMAIN win \subseteq Id
         /\ \A j \in Open : Own(j) \subseteq AreaOf(j)
         /\ \A j, k \in Open : \A c : c \in Own(j) /\ c \in Own(k) => j = k
<1>1. Structure /\ Stack(win_vis, DOMAIN win) /\ Open = In(win_vis) /\ Open \subseteq DOMAIN win
  BY StackIsKept DEF Inv, Open, In
<1>2. DOMAIN win \subseteq Id
  BY <1>1 DEF Structure, TypeOK
<1>3. \A b \in Open : \A c : c \in Own(b) <=>
        /\ c \in AreaOf(b)
        /\ \A a \in Open : InFront(win_vis, a, b) => c \notin AreaOf(a)
  BY <1>1 DEF Inv, Regions, Own, AreaOf
<1>4. \A a, b \in Open : a # b => InFront(win_vis, a, b) \/ InFront(win_vis, b, a)
  BY <1>1, FrontIsTotal
<1> QED
  BY <1>1, <1>2, <1>3, <1>4

\* What is asked for when a window is taken from the screen.
LEMMA UncoverAsks ==
  ASSUME Inv, NEW i \in AppWindow \intersect Open, Uncover(i)
  PROVE  /\ Wrong' \subseteq Wrong \union Own(i)
         /\ \A j \in Open \ {i} :
              /\ redraw[j] \subseteq redraw'[j]
              /\ j \in Below(i) /\ win[j].kind # "menu"
                   => Share(Own(i), j, Below(i)) \subseteq redraw'[j]
<1> DEFINE gaining == {j \in Below(i) : Share(Own(i), j, Below(i)) # {}}
           asked == {j \in gaining : win[j].kind # "menu"}
<1>1. /\ redraw' = [Ask(asked, AreaOf(i)) EXCEPT ![i] = {}]
      /\ Soil(Own(i))
  BY DEF Uncover
<1>2. \A j \in Open : j \in Id
  BY RegionsAreApart
<1>3. \A j \in Open \ {i} :
        redraw'[j] = IF j \in asked THEN redraw[j] \union AreaOf(i) ELSE redraw[j]
  BY <1>1, <1>2 DEF Ask
<1>4. Own(i) \subseteq AreaOf(i)
  BY RegionsAreApart
<1>5. ASSUME NEW j \in Open \ {i}, j \in Below(i), win[j].kind # "menu"
      PROVE  Share(Own(i), j, Below(i)) \subseteq redraw'[j]
  <2>1. CASE Share(Own(i), j, Below(i)) = {}
    BY <2>1
  <2>2. CASE Share(Own(i), j, Below(i)) # {}
    <3>1. j \in asked
      BY <1>5, <2>2
    <3>2. Share(Own(i), j, Below(i)) \subseteq AreaOf(i)
      BY <1>4 DEF Share
    <3> QED
      BY <1>3, <3>1, <3>2
  <2> QED
    BY <2>1, <2>2
<1>6. \A j \in Open \ {i} : redraw[j] \subseteq redraw'[j]
  <2> HIDE DEF asked
  <2> QED BY <1>3
<1> QED
  BY <1>1, <1>5, <1>6, Soiled

\* The cells of a window that leaves the screen are asked for in the windows
\* that get them.
LEMMA RemovedRepaired ==
  ASSUME Inv, StaleIsAsked, NEW i \in AppWindow \intersect Open, Uncover(i),
         win_vis' = Without(i),
         \A j \in Open \ {i} : win'[j] = Closed(i)[j]
  PROVE  StaleIsAsked'
<1>1. Structure /\ Stack(win_vis, DOMAIN win) /\ i # DESKTOP_WINDOW
  BY StackIsKept DEF Inv, AppWindow
<1>2. Open' = Open \ {i}
  <2>1. In(Without(i)) = Open \ {i}
    BY <1>1, WithoutOrder
  <2> QED
    BY <2>1 DEF In, Open
<1>3. /\ Open \subseteq DOMAIN win
      /\ \A j \in Open : \A c : c \in Own(i) /\ c \in Own(j) => i = j
  BY RegionsAreApart
<1>4. /\ Wrong' \subseteq Wrong \union Own(i)
      /\ \A j \in Open \ {i} :
           /\ redraw[j] \subseteq redraw'[j]
           /\ j \in Below(i) /\ win[j].kind # "menu"
                => Share(Own(i), j, Below(i)) \subseteq redraw'[j]
  BY UncoverAsks
<1>5. Repaired(win, Open, Wrong, redraw)
  BY StaleCellByCell
<1>6. ASSUME NEW j \in Open \ {i}
      PROVE  /\ win'[j].kind = win[j].kind
             /\ win'[j].rlist = IF j \in Below(i)
                                THEN Own(j) \union Share(Own(i), j, Below(i)) ELSE Own(j)
  <2>1. win'[j] = Closed(i)[j] /\ win[j] \in WINSTRUCT /\ j \in DOMAIN win
    BY <1>1, <1>3 DEF Structure, TypeOK
  <2> QED
    BY <2>1 DEF Closed, WINSTRUCT, Own
<1>7. ASSUME NEW j \in Open \ {i}, NEW c,
             win'[j].kind # "menu", c \in win'[j].rlist, c \in Wrong'
      PROVE  c \in redraw'[j]
  <2>1. CASE c \in Own(j)
    <3>1. c \in Wrong
      BY <1>3, <1>4, <2>1, <1>7
    <3> QED
      BY <1>4, <1>5, <1>6, <1>7, <2>1, <3>1 DEF Repaired, Own
  <2>2. CASE c \notin Own(j)
    <3>1. j \in Below(i) /\ c \in Share(Own(i), j, Below(i))
      BY <1>6, <1>7, <2>2
    <3> QED
      BY <1>4, <1>6, <1>7, <3>1
  <2> QED
    BY <2>1, <2>2
<1>8. Repaired(win', Open', Wrong', redraw')
  BY <1>2, <1>7 DEF Repaired
<1> QED
  BY <1>8 DEF Repaired, StaleIsAsked, Own, Wrong

\* wind_delete of a window that is not open changes nothing on the screen.
LEMMA DeleteRepaired ==
  ASSUME Inv, StaleIsAsked, NEW i \in AppWindow, Delete(i)
  PROVE  StaleIsAsked'
<1>1. Open \subseteq DOMAIN win
  BY RegionsAreApart
<1>2. CASE i \in Open
  <2>1. win' = [j \in DOMAIN win \ {i} |-> Closed(i)[j]] /\ win_vis' = Without(i) /\ Uncover(i)
    BY <1>2 DEF Delete
  <2>2. \A j \in Open \ {i} : win'[j] = Closed(i)[j]
    BY <1>1, <2>1
  <2> QED
    BY <1>2, <2>1, <2>2, RemovedRepaired
<1>3. CASE i \notin Open
  <2>1. /\ win' = [j \in DOMAIN win \ {i} |-> win[j]]
        /\ UNCHANGED <<win_vis, screen>>
    BY <1>3 DEF Delete
  <2>2. Open' = Open
    BY <2>1 DEF Open
  <2>3. \A j \in Open : win'[j] = win[j]
    BY <1>1, <1>3, <2>1
  <2> QED
    BY <2>1, <2>2, <2>3 DEF StaleIsAsked, Own, screen
<1> QED
  BY <1>2, <1>3

\* The windows of an application that exits are its own.
LEMMA NewRepaired ==
  ASSUME Inv, StaleIsAsked, srv_wind_new
  PROVE  StaleIsAsked'
<1>1. CASE Owned(exiting) = {}
  BY <1>1 DEF srv_wind_new, StaleIsAsked, Own, Open, screen
<1>2. CASE Owned(exiting) # {}
  <2>1. exiting \in Apid
    BY DEF srv_wind_new, Inv, Structure, TypeOK
  <2>2. PICK i \in Owned(exiting) : Delete(i)
    BY <1>2 DEF srv_wind_new
  <2>3. i \in AppWindow
    BY <2>1, <2>2, AppsAssumption DEF Owned, AppWindow, Inv, Structure, Desk
  <2> QED
    BY <2>2, <2>3, DeleteRepaired
<1> QED
  BY <1>1, <1>2

\* A window that is made is not open.
LEMMA CreateRepaired ==
  ASSUME Inv, StaleIsAsked, NEW a, NEW kind, srv_wind_create(a, kind)
  PROVE  StaleIsAsked'
<1>1. PICK i \in Fresh :
        win' = [j \in DOMAIN win \union {i} |-> IF j = i THEN NewWindow(a, kind) ELSE win[j]]
  BY DEF srv_wind_create
<1>2. UNCHANGED <<win_vis, screen>>
  BY DEF srv_wind_create
<1>3. i \notin DOMAIN win
  BY DEF Fresh, Inv, Structure, IdentifiersAreKept, TypeOK
<1>4. Open' = Open /\ \A j \in Open : win'[j] = win[j]
  BY <1>1, <1>2, <1>3, RegionsAreApart DEF Open
<1> QED
  BY <1>2, <1>4 DEF StaleIsAsked, Own, screen

\* A window that comes up, from a place below or from nowhere: what it takes
\* from the windows below it is asked for.
LEMMA RaisedRepaired ==
  ASSUME Inv, StaleIsAsked, NEW i \in DOMAIN win, NEW A, NEW order,
         In(order) = Open \union {i}, win_vis' = order,
         Wrong' \subseteq Wrong \union Grabbed(i, A, order),
         Grabbed(i, A, order) \subseteq redraw'[i],
         \A j \in Open : redraw[j] \subseteq redraw'[j],
         win'[i].kind = win[i].kind,
         win'[i].rlist = Grabbed(i, A, order) \union (IF i \in Open THEN Own(i) ELSE {}),
         \A j \in Open \ {i} : /\ win'[j].kind = win[j].kind
                               /\ win'[j].rlist = LeftTo(j, i, A, order)
  PROVE  StaleIsAsked'
<1>1. Open' = Open \union {i}
  BY DEF In, Open
<1>2. Repaired(win, Open, Wrong, redraw)
  BY StaleCellByCell
<1>3. \A j, k \in Open : \A c : c \in Own(j) /\ c \in Own(k) => j = k
  BY RegionsAreApart
<1> DEFINE got == Grabbed(i, A, order)
<1>4. \A c \in got : c \in A /\ \E k \in Open : k \in Under(i, order) /\ c \in Own(k)
  BY DEF Grabbed, Under
<1>5. ASSUME NEW c, win[i].kind # "menu", c \in win'[i].rlist, c \in Wrong'
      PROVE  c \in redraw'[i]
  <2>1. CASE c \in got
    BY <2>1
  <2>2. CASE c \notin got
    <3>1. i \in Open /\ c \in Own(i) /\ c \in Wrong
      BY <1>5, <2>2
    <3> QED
      BY <1>2, <1>5, <3>1 DEF Repaired, Own
  <2> QED
    BY <2>1, <2>2
<1>6. ASSUME NEW j \in Open \ {i}, NEW c,
             win[j].kind # "menu", c \in win'[j].rlist, c \in Wrong'
      PROVE  c \in redraw'[j]
  <2>1. c \in Own(j) /\ (j \in Under(i, order) => c \notin A)
    BY <1>6 DEF LeftTo
  <2>2. c \notin got
    BY <1>3, <1>4, <2>1
  <2>3. c \in Wrong
    BY <1>6, <2>2
  <2> QED
    BY <1>2, <1>6, <2>1, <2>3 DEF Repaired, Own
<1>7. Repaired(win', Open', Wrong', redraw')
  <2> HIDE DEF got
  <2> QED BY <1>1, <1>5, <1>6 DEF Repaired
<1> QED
  BY <1>7 DEF Repaired, StaleIsAsked, Own, Wrong

\* A dialog in front is not the desktop.
LEMMA DialogIsNotDesktop ==
  ASSUME Inv, NEW order, order # <<>>, UnderDialog(order), Head(order) \in DOMAIN win
  PROVE  Head(order) # DESKTOP_WINDOW
BY DEF Inv, Structure, Desk, UnderDialog

\* wind_open asks for the whole window.
LEMMA OpenRepaired ==
  ASSUME Inv, StaleIsAsked, NEW i, NEW r, srv_wind_open(i, r)
  PROVE  StaleIsAsked'
<1> DEFINE order == Raised(i, win_vis)
           A == Area(r)
           got == Grabbed(i, A, order)
           tops == ~UnderDialog(win_vis) /\ win[i].kind # "menu"
<1>1. /\ i \in AppWindow \ Open
      /\ win_vis' = order
      /\ win' = [j \in DOMAIN win |->
           IF j = i THEN [win[j] EXCEPT !.topped = tops, !.totsize = r, !.rlist = got]
           ELSE [win[j] EXCEPT !.topped = @ /\ ~(tops /\ j = Front),
                               !.rlist = LeftTo(j, i, A, order)]]
      /\ redraw' = Ask({i}, A) /\ Soil(got)
  BY DEF srv_wind_open
<1>2. Structure /\ Stack(win_vis, DOMAIN win) /\ Open = In(win_vis)
      /\ i \in DOMAIN win /\ i \notin Open
  BY <1>1, StackIsKept DEF Inv, Open, In, AppWindow
<1>3. Open \subseteq DOMAIN win /\ DOMAIN win \subseteq Id
      /\ \A j \in DOMAIN win : win[j] \in WINSTRUCT
  BY <1>2, RegionsAreApart DEF Structure, TypeOK
<1>4. UnderDialog(win_vis) => Head(win_vis) # DESKTOP_WINDOW
  <2>1. win_vis # <<>> /\ Head(win_vis) \in DOMAIN win
    BY <1>2, <1>3, HeadIsFirst DEF Stack
  <2> QED
    BY <2>1, DialogIsNotDesktop
<1>5. In(order) = Open \union {i}
  BY <1>2, <1>4, RaisedOrder
<1>6. got \subseteq redraw'[i] /\ \A j \in Open : redraw[j] \subseteq redraw'[j]
  BY <1>1, <1>2, <1>3 DEF Ask, Grabbed
<1> HIDE DEF order, A, got, tops
<1>7. /\ win'[i].kind = win[i].kind /\ win'[i].rlist = got
      /\ \A j \in Open \ {i} : /\ win'[j].kind = win[j].kind
                               /\ win'[j].rlist = LeftTo(j, i, A, order)
  BY <1>1, <1>2, <1>3 DEF WINSTRUCT
<1>8. /\ Wrong' \subseteq Wrong \union Grabbed(i, A, order)
      /\ Grabbed(i, A, order) \subseteq redraw'[i]
      /\ win'[i].rlist = Grabbed(i, A, order) \union (IF i \in Open THEN Own(i) ELSE {})
  BY <1>1, <1>2, <1>6, <1>7, Soiled DEF got
<1>9. i \in DOMAIN win /\ win_vis' = order
  BY <1>1, <1>2
<1> QED
  BY <1>5, <1>6, <1>7, <1>8, <1>9, RaisedRepaired

\* The windows on the screen after one has come up.
LEMMA RaisedIn ==
  ASSUME NEW S, NEW order, Stack(order, S), NEW i \in S, i \notin In(order),
         UnderDialog(order) => Head(order) # DESKTOP_WINDOW
  PROVE  In(Raised(i, order)) = In(order) \union {i}
BY RaisedOrder

\* The order without a window, which then comes up again.
LEMMA RestIs ==
  ASSUME Stack(win_vis, DOMAIN win), NEW i \in DOMAIN win, i \in Open, i # DESKTOP_WINDOW
  PROVE  Stack(Without(i), DOMAIN win) /\ In(Without(i)) = Open \ {i}
<1>1. Stack(Without(i), DOMAIN win \ {i}) /\ In(Without(i)) = Open \ {i}
  BY WithoutOrder
<1>2. DOMAIN win \ {i} \subseteq DOMAIN win
  OBVIOUS
<1>3. Stack(Without(i), DOMAIN win)
  BY <1>1, <1>2, StackGrows
<1> QED
  BY <1>1, <1>3

\* The windows on the screen do not change when one of them comes up.
LEMMA ToppedIn ==
  ASSUME Inv, NEW i \in DOMAIN win, i \in Open, i # DESKTOP_WINDOW
  PROVE  In(Raised(i, Without(i))) = Open \union {i}
<1>1. PICK rest : rest = Without(i)
  OBVIOUS
<1>2. Stack(win_vis, DOMAIN win)
  BY StackIsKept DEF Inv
<1>3. Stack(rest, DOMAIN win) /\ In(rest) = Open \ {i}
  BY <1>1, <1>2, RestIs
<1>4. rest # <<>> /\ Head(rest) \in DOMAIN win
  BY <1>3, HeadIsFirst, RegionsAreApart DEF Stack
<1>5. UnderDialog(rest) => Head(rest) # DESKTOP_WINDOW
  BY <1>4, DialogIsNotDesktop
<1>6. i \notin In(rest)
  BY <1>3
<1>7. In(Raised(i, rest)) = In(rest) \union {i}
  BY <1>3, <1>5, <1>6, RaisedIn
<1> QED
  BY <1>1, <1>3, <1>7

\* Topping asks for what the window did not show.
LEMMA TopRepaired ==
  ASSUME Inv, StaleIsAsked, NEW i, top_window(i)
  PROVE  StaleIsAsked'
<1> DEFINE rest == Without(i)
           order == Raised(i, rest)
           A == AreaOf(i)
           got == Grabbed(i, A, order)
           tops == ~UnderDialog(rest) /\ ~IsTopped(i)
<1>1. /\ i \in AppWindow \intersect Open
      /\ win_vis' = order
      /\ win' = [j \in DOMAIN win |->
           IF j = i THEN [win[j] EXCEPT !.topped = @ \/ tops, !.rlist = @ \union got]
           ELSE [win[j] EXCEPT !.topped = @ /\ ~(tops /\ j = Head(rest)),
                               !.rlist = LeftTo(j, i, A, order)]]
      /\ redraw' = Ask({i}, got) /\ Soil(got)
  BY DEF top_window
<1>2. Structure /\ Stack(win_vis, DOMAIN win) /\ Open = In(win_vis)
      /\ i \in DOMAIN win /\ i \in Open /\ i # DESKTOP_WINDOW
  BY <1>1, StackIsKept DEF Inv, Open, In, AppWindow
<1>3. Open \subseteq DOMAIN win /\ DOMAIN win \subseteq Id
      /\ \A j \in DOMAIN win : win[j] \in WINSTRUCT
  BY <1>2, RegionsAreApart DEF Structure, TypeOK
<1>4. In(order) = Open \union {i}
  BY <1>2, ToppedIn
<1>5. got \subseteq redraw'[i] /\ \A j \in Open : redraw[j] \subseteq redraw'[j]
  <2> HIDE DEF got
  <2> QED BY <1>1, <1>2, <1>3 DEF Ask
<1> HIDE DEF rest, order, A, got, tops
<1>6. /\ win'[i].kind = win[i].kind /\ win'[i].rlist = Own(i) \union got
      /\ \A j \in Open \ {i} : /\ win'[j].kind = win[j].kind
                               /\ win'[j].rlist = LeftTo(j, i, A, order)
  BY <1>1, <1>2, <1>3 DEF WINSTRUCT, Own
<1>7. /\ Wrong' \subseteq Wrong \union Grabbed(i, A, order)
      /\ Grabbed(i, A, order) \subseteq redraw'[i]
      /\ win'[i].rlist = Grabbed(i, A, order) \union (IF i \in Open THEN Own(i) ELSE {})
  BY <1>1, <1>2, <1>5, <1>6, Soiled DEF got
<1>8. i \in DOMAIN win /\ win_vis' = order
  BY <1>1, <1>2
<1>9. PICK area, stack : area = A /\ stack = order
  OBVIOUS
<1>10. /\ In(stack) = Open \union {i} /\ win_vis' = stack
       /\ Wrong' \subseteq Wrong \union Grabbed(i, area, stack)
       /\ Grabbed(i, area, stack) \subseteq redraw'[i]
       /\ win'[i].rlist = Grabbed(i, area, stack) \union (IF i \in Open THEN Own(i) ELSE {})
       /\ \A j \in Open \ {i} : /\ win'[j].kind = win[j].kind
                                /\ win'[j].rlist = LeftTo(j, i, area, stack)
  BY <1>4, <1>6, <1>7, <1>8, <1>9
<1>11. win'[i].kind = win[i].kind /\ \A j \in Open : redraw[j] \subseteq redraw'[j]
  BY <1>5, <1>6
<1> QED
  BY <1>8, <1>10, <1>11, RaisedRepaired

\* Topping the desktop moves nothing.
LEMMA TopDesktopRepaired ==
  ASSUME Inv, StaleIsAsked, TopDesktop
  PROVE  StaleIsAsked'
<1>1. /\ win' = [win EXCEPT ![Front].topped = FALSE]
      /\ UNCHANGED <<win_vis, screen>>
  BY DEF TopDesktop
<1>2. \A j \in DOMAIN win : win[j] \in WINSTRUCT
  BY DEF Inv, Structure, TypeOK
<1>3. \A j \in Open : win'[j].kind = win[j].kind /\ win'[j].rlist = win[j].rlist
  BY <1>1, <1>2, RegionsAreApart DEF WINSTRUCT
<1> QED
  BY <1>1, <1>3 DEF StaleIsAsked, Own, Open, screen

\* A lowered window asks the windows it uncovers to draw.
LEMMA BottomRepaired ==
  ASSUME Inv, StaleIsAsked, NEW i, bottom_window(i)
  PROVE  StaleIsAsked'
<1> DEFINE given(j) == Share(Own(i), j, Passed(i))
           all == UNION {given(j) : j \in Passed(i)}
           hands == IsTopped(i) /\ win[Heir(i)].kind # "desktop"
<1>1. /\ i \in AppWindow \intersect Open
      /\ win_vis' = Lowered(i)
      /\ win' = [j \in DOMAIN win |->
           CASE j = i -> [win[j] EXCEPT !.topped = @ /\ ~hands, !.rlist = @ \ all]
             [] j \in Passed(i) -> [win[j] EXCEPT !.topped = @ \/ (hands /\ j = Heir(i)),
                                                  !.rlist = @ \union given(j)]
             [] OTHER -> win[j]]
      /\ redraw' = Ask({j \in Passed(i) : win[j].kind # "menu"}, AreaOf(i))
      /\ Soil(all)
  BY DEF bottom_window
<1>2. Structure /\ Stack(win_vis, DOMAIN win) /\ Open = In(win_vis)
      /\ i \in Open /\ i \in DOMAIN win /\ i # DESKTOP_WINDOW
  BY <1>1, StackIsKept DEF Inv, Open, In, AppWindow
<1>3. /\ Open \subseteq DOMAIN win /\ DOMAIN win \subseteq Id
      /\ Own(i) \subseteq AreaOf(i)
      /\ \A j \in Open : \A c : c \in Own(i) /\ c \in Own(j) => i = j
  BY <1>2, RegionsAreApart
<1>4. \A j \in DOMAIN win : win[j] \in WINSTRUCT
  BY <1>2 DEF Structure, TypeOK
<1>5. Open' = Open
  <2>1. In(Lowered(i)) = Open
    BY <1>2, LoweredOrder
  <2> QED
    BY <1>1, <2>1 DEF In, Open
<1>6. i \notin Passed(i)
  BY <1>2, FrontIsIn DEF Passed, Below, Under
<1>7. \A j : given(j) \subseteq Own(i)
  BY DEF Share
<1>8. all \subseteq Own(i)
  BY <1>7
<1>9. Repaired(win, Open, Wrong, redraw) /\ Wrong' \subseteq Wrong \union all
  BY <1>1, StaleCellByCell, Soiled
<1>10. \A j \in Open : redraw'[j] = IF j \in Passed(i) /\ win[j].kind # "menu"
                                    THEN redraw[j] \union AreaOf(i) ELSE redraw[j]
  BY <1>1, <1>3 DEF Ask
<1> HIDE DEF given, all, hands
<1>11. ASSUME NEW j \in Open
       PROVE  /\ win'[j].kind = win[j].kind
              /\ j = i => win'[j].rlist = Own(i) \ all
              /\ j \in Passed(i) => win'[j].rlist = Own(j) \union given(j)
              /\ j # i /\ j \notin Passed(i) => win'[j].rlist = Own(j)
  <2>1. j \in DOMAIN win /\ win[j] \in WINSTRUCT
    BY <1>3, <1>4
  <2> QED
    BY <1>1, <1>6, <2>1 DEF WINSTRUCT, Own
<1>12. ASSUME NEW j \in Open, NEW c,
              win'[j].kind # "menu", c \in win'[j].rlist, c \in Wrong'
       PROVE  c \in redraw'[j]
  <2>1. CASE c \in Own(j) /\ c \notin all
    <3>1. c \in Wrong /\ win[j].kind # "menu"
      BY <1>9, <1>11, <1>12, <2>1
    <3>2. c \in redraw[j]
      BY <1>9, <2>1, <3>1 DEF Repaired, Own
    <3> QED
      BY <1>10, <3>2
  <2>2. CASE j \in Passed(i) /\ c \in given(j)
    <3>1. c \in AreaOf(i)
      BY <1>3, <1>7, <2>2
    <3> QED
      BY <1>10, <1>11, <1>12, <2>2, <3>1
  <2>3. CASE c \in Own(j) /\ c \in all
    <3>1. j = i
      BY <1>3, <1>8, <2>3
    <3> QED
      BY <1>11, <1>12, <2>3, <3>1
  <2> QED
    BY <1>6, <1>11, <1>12, <2>1, <2>2, <2>3
<1>13. Repaired(win', Open', Wrong', redraw')
  BY <1>5, <1>12 DEF Repaired
<1> QED
  BY <1>13 DEF Repaired, StaleIsAsked, Own, Wrong

\* A cell has two coordinates.
LEMMA CellIs ==
  ASSUME NEW c \in Cell
  PROVE  c = <<c[1], c[2]>> /\ c[1] \in Int /\ c[2] \in Int
<1>1. \E x \in 0 .. Width - 1, y \in 0 .. Height - 1 : c = <<x, y>>
  BY DEF Cell
<1>2. PICK x \in 0 .. Width - 1, y \in 0 .. Height - 1 : c = <<x, y>>
  BY <1>1
<1>3. x \in Int /\ y \in Int
  BY ScreenAssumption
<1> QED
  BY <1>2, <1>3

\* What does not move is copied to where it is.
LEMMA FromSame ==
  ASSUME NEW c \in Cell, NEW old, NEW r \in Rects, old.x = r.x, old.y = r.y
  PROVE  From(c, old, r) = c
<1>1. r.x \in Int /\ r.y \in Int
  BY RectsAssumption
<1>2. c = <<c[1], c[2]>> /\ c[1] \in Int /\ c[2] \in Int
  BY CellIs
<1>3. c[1] - (r.x - old.x) = c[1] /\ c[2] - (r.y - old.y) = c[2]
  BY <1>1, <1>2
<1>4. From(c, old, r) = <<c[1], c[2]>>
  BY <1>3 DEF From
<1> QED
  BY <1>2, <1>4

\* A window that is moved shows what is copied as it was before.  It waits for
\* its owner to draw, so that all that is copied is right; a window that is
\* only made larger or smaller keeps its cells, and what was asked for.
LEMMA ChangeRepaired ==
  ASSUME Inv, StaleIsAsked, "move undrawn" \notin Liberty,
         NEW i, NEW r \in Rects, changewinsize(i, r)
  PROVE  StaleIsAsked'
<1> DEFINE old == win[i].totsize
           A == Area(r)
           left == Own(i) \ A
           new == (Own(i) \intersect A) \union (A \intersect UNION {Own(j) : j \in Below(i)})
           moved == {c \in new : From(c, old, r) \in Own(i)}
           given(j) == Share(left, j, Below(i))
           gaining == {j \in Below(i) : given(j) # {}}
<1>1. /\ i \in AppWindow \intersect Open
      /\ <<old.x, old.y>> = <<r.x, r.y>> \/ redraw[i] = {}
      /\ win' = [j \in DOMAIN win |->
           CASE j = i -> [win[j] EXCEPT !.totsize = r, !.rlist = new]
             [] j \in Below(i) -> [win[j] EXCEPT !.rlist = (@ \ A) \union given(j)]
             [] OTHER -> win[j]]
      /\ redraw' = [Ask(gaining, AreaOf(i))
                    EXCEPT ![i] = @ \union Strips(old, r) \union (new \ moved)]
      /\ \E lost \in SUBSET Exposed(moved, old, r) :
           /\ stale' = (stale \ new) \union left \union (new \ moved) \union lost
                         \union {c \in moved : From(c, old, r) \in stale}
           /\ torn' = (torn \ (left \union new)) \union lost
                        \union {c \in moved : From(c, old, r) \in torn}
      /\ UNCHANGED win_vis
  BY DEF changewinsize
<1>2. Structure /\ Stack(win_vis, DOMAIN win) /\ Open = In(win_vis)
      /\ i \in Open /\ i \in DOMAIN win
  BY <1>1, StackIsKept DEF Inv, Open, In, AppWindow
<1>3. /\ Open \subseteq DOMAIN win /\ DOMAIN win \subseteq Id
      /\ Own(i) \subseteq AreaOf(i)
      /\ \A j, k \in Open : \A c : c \in Own(j) /\ c \in Own(k) => j = k
  BY <1>2, RegionsAreApart
<1>4. \A j \in DOMAIN win : win[j] \in WINSTRUCT
  BY <1>2 DEF Structure, TypeOK
<1>5. Open' = Open
  BY <1>1 DEF Open
<1>6. i \notin Below(i) /\ Below(i) \subseteq Open
  BY <1>2, FrontIsIn DEF Below, Under
<1>7. /\ \A j : given(j) \subseteq left
      /\ left \subseteq Own(i) /\ new \subseteq A /\ moved \subseteq new
      /\ \A c \in left : c \notin A
      /\ \A c \in new : c \in Own(i) \/ \E k \in Below(i) : c \in Own(k)
      /\ \A c \in moved : From(c, old, r) \in Own(i)
      /\ \A j \in Below(i) : j \notin gaining => given(j) = {}
  BY DEF Share
<1>8. ASSUME NEW c \in moved, <<old.x, old.y>> = <<r.x, r.y>>
      PROVE  From(c, old, r) = c
  <2>1. c \in Cell
    BY <1>7 DEF Area
  <2> HIDE DEF old, moved
  <2>2. old.x = r.x /\ old.y = r.y
    BY <1>8
  <2> QED
    BY <2>1, <2>2, FromSame
<1>9. Repaired(win, Open, Wrong, redraw)
  BY StaleCellByCell
\* What is wrong afterwards, but for the copies that were lost.
<1>9a. Wrong' \subseteq (Wrong \ new) \union left \union (new \ moved)
                         \union {c \in moved : From(c, old, r) \in Wrong}
  BY <1>1 DEF Wrong
<1>10. /\ \A j \in Open \ {i} :
            redraw'[j] = IF j \in gaining THEN redraw[j] \union AreaOf(i) ELSE redraw[j]
       /\ redraw[i] \subseteq redraw'[i] /\ new \ moved \subseteq redraw'[i]
  <2>1. i \notin gaining /\ i \in Id
    BY <1>2, <1>3, <1>6
  <2> HIDE DEF gaining, new, moved, old
  <2> QED
    BY <1>1, <1>3, <2>1 DEF Ask
<1> HIDE DEF old, A, left, new, moved, given, gaining
<1>11. ASSUME NEW j \in Open
       PROVE  /\ win'[j].kind = win[j].kind
              /\ j = i => win'[j].rlist = new
              /\ j \in Below(i) => win'[j].rlist = (Own(j) \ A) \union given(j)
              /\ j # i /\ j \notin Below(i) => win'[j].rlist = Own(j)
  <2>1. j \in DOMAIN win /\ win[j] \in WINSTRUCT
    BY <1>3, <1>4
  <2> QED
    BY <1>1, <1>6, <2>1 DEF WINSTRUCT, Own
<1>12. ASSUME NEW c, win[i].kind # "menu", c \in new, c \in Wrong'
       PROVE  c \in redraw'[i]
  <2>1. CASE c \in new /\ c \notin moved
    BY <1>10, <2>1
  <2>2. CASE c \in moved
    <3>1. From(c, old, r) \in Wrong /\ From(c, old, r) \in Own(i)
      BY <1>9a, <1>7, <1>12, <2>2
    <3>2. From(c, old, r) \in redraw[i]
      BY <1>2, <1>9, <1>12, <3>1 DEF Repaired, Own
    <3>3. From(c, old, r) = c
      BY <1>1, <1>8, <2>2, <3>2
    <3> QED
      BY <1>10, <3>2, <3>3
  <2> QED
    BY <1>12, <2>1, <2>2
<1>13. ASSUME NEW j \in Open \ {i}, NEW c,
              win[j].kind # "menu", c \in win'[j].rlist, c \in Wrong'
       PROVE  c \in redraw'[j]
  <2>1. CASE j \in Below(i) /\ c \in given(j)
    <3>1. c \in AreaOf(i) /\ j \in gaining
      BY <1>3, <1>7, <2>1
    <3> QED
      BY <1>10, <3>1
  <2>2. CASE c \in Own(j) /\ (j \in Below(i) => c \notin A)
    <3>1. c \notin left
      BY <1>2, <1>3, <1>7, <2>2
    <3>2. c \notin new
      <4>1. SUFFICES ASSUME c \in new PROVE FALSE
        OBVIOUS
      <4>2. CASE c \in Own(i)
        BY <1>2, <1>3, <2>2, <4>2
      <4>3. CASE \E k \in Below(i) : c \in Own(k)
        <5>1. j \in Below(i)
          BY <1>3, <1>6, <2>2, <4>3
        <5> QED
          BY <1>7, <2>2, <4>1, <5>1
      <4> QED
        BY <1>7, <4>1, <4>2, <4>3
    <3>3. c \in Wrong
      BY <1>9a, <1>7, <1>13, <3>1, <3>2
    <3>4. c \in redraw[j]
      BY <1>9, <1>13, <2>2, <3>3 DEF Repaired, Own
    <3> QED
      BY <1>10, <3>4
  <2> QED
    BY <1>11, <1>13, <2>1, <2>2
<1>14. Repaired(win', Open', Wrong', redraw')
  BY <1>5, <1>11, <1>12, <1>13 DEF Repaired
<1> QED
  BY <1>14 DEF Repaired, StaleIsAsked, Own, Wrong

\* Who draws all that it was asked for leaves nothing that is not right.
LEMMA DrawRepaired ==
  ASSUME Inv, StaleIsAsked, NEW i, Draw(i)
  PROVE  StaleIsAsked'
<1>1. /\ redraw' = [redraw EXCEPT ![i] = {}]
      /\ Wrong' = Wrong \ (redraw[i] \intersect Own(i))
      /\ UNCHANGED <<win, win_vis>>
  BY DEF Draw, Wrong
<1>2. Open' = Open /\ Repaired(win, Open, Wrong, redraw)
  BY <1>1, StaleCellByCell DEF Open
<1>3. redraw \in [Id -> SUBSET Cell] /\ Open \subseteq Id
  BY RegionsAreApart DEF Inv, Structure, TypeOK
<1>4. ASSUME NEW j \in Open, NEW c,
             win[j].kind # "menu", c \in win[j].rlist, c \in Wrong'
      PROVE  c \in redraw'[j]
  <2>1. c \in redraw[j] /\ c \in Wrong
    BY <1>1, <1>2, <1>4 DEF Repaired
  <2>2. j # i
    BY <1>1, <1>4, <2>1 DEF Own
  <2> QED
    BY <1>1, <1>3, <2>1, <2>2
<1> QED
  BY <1>1, <1>2, <1>4 DEF StaleIsAsked, Own, Wrong

\* Every step keeps it.
LEMMA RepairedKept ==
  ASSUME Patient, Inv, StaleIsAsked, [Next]_vars
  PROVE  StaleIsAsked'
<1>1. CASE \E a \in Apid, kind \in Kind \ {"desktop"} : srv_wind_create(a, kind)
  BY <1>1, CreateRepaired
<1>2. CASE srv_wind_new
  BY <1>2, NewRepaired
<1>3. CASE TopDesktop
  BY <1>3, TopDesktopRepaired
<1>4. CASE \E i \in Id : srv_wind_delete(i)
  BY <1>4, DeleteRepaired DEF srv_wind_delete
<1>5. CASE \E i \in Id : srv_wind_close(i)
  <2>1. PICK i \in Id : /\ i \in AppWindow \intersect Open /\ Uncover(i)
                        /\ win_vis' = Without(i) /\ win' = Closed(i)
    BY <1>5 DEF srv_wind_close
  <2> QED
    BY <2>1, RemovedRepaired
<1>6. CASE \E i \in Id : top_window(i)
  BY <1>6, TopRepaired
<1>7. CASE \E i \in Id : bottom_window(i)
  BY <1>7, BottomRepaired
<1>8. CASE \E i \in Id, r \in Rects : srv_wind_open(i, r)
  BY <1>8, OpenRepaired
<1>9. CASE \E i \in Id, r \in Rects : changewinsize(i, r)
  BY <1>9, ChangeRepaired DEF Patient
<1>10. CASE \E i \in Id : Draw(i)
  BY <1>10, DrawRepaired
<1>11. CASE \/ \E a \in Apid : srv_appl_exit(a)
            \/ UNCHANGED vars
  BY <1>11 DEF srv_appl_exit, vars, screen, StaleIsAsked, Own, Open
<1> QED
  BY <1>1, <1>2, <1>3, <1>4, <1>5, <1>6, <1>7, <1>8, <1>9, <1>10, <1>11 DEF Next

\* A cell of the screen that does not show what belongs there is one that the
\* owner of its window has been asked to draw, or one whose copy was lost when
\* the window was moved up or down, as long as windows are not moved before they
\* are drawn: of all that changes hands nothing is forgotten.
THEOREM ScreenIsRepaired == Patient /\ Spec => []StaleIsAsked
<1>1. Init => StaleIsAsked
  BY DEF Init, StaleIsAsked
<1> SUFFICES ASSUME Patient PROVE Spec => []StaleIsAsked
  OBVIOUS
<1>2. Inv /\ [Next]_vars => Inv'
  BY InvariantKept DEF Patient
<1>3. Inv /\ StaleIsAsked /\ [Next]_vars => StaleIsAsked'
  BY RepairedKept
<1> QED
  BY <1>1, <1>2, <1>3, InitKeeps, PTL DEF Spec
=============================================================================
