-------------------------- MODULE TitleBarsProofs --------------------------
(***************************************************************************)
(* The title bars follow the server, for every number of applications,     *)
(* windows and messages, where none of the four things happens that        *)
(* Liberty allows.                                                         *)
(***************************************************************************)
EXTENDS TitleBars, FiniteSetTheorems, SequenceTheorems, WellFoundedInduction, TLAPS

-----------------------------------------------------------------------------
(* What messages say of a window.                                          *)

News == {"WM_NEWTOP", "WM_UNTOPPED"}
Redraw == {"WM_REDRAW", "WM_EREDRAW"}
Letter == [type : News \union Redraw, id : WinId, to : Apps]

\* No message says whether window i is topped.
Silent(q, i) == \A k \in DOMAIN q : ~(q[k].id = i /\ q[k].type \in News)

\* A message asks for the title of window i.
Draws(q, i) == \E k \in DOMAIN q : q[k].id = i /\ q[k].type \in Redraw

\* The last message that says whether window i is topped says v, and the title
\* is asked for after it.
Told(q, i, v) ==
  \E k, d \in DOMAIN q :
    /\ k < d
    /\ q[k].id = i /\ q[k].type = (IF v THEN "WM_NEWTOP" ELSE "WM_UNTOPPED")
    /\ q[d].id = i /\ q[d].type \in Redraw
    /\ \A l \in DOMAIN q : k < l => ~(q[l].id = i /\ q[l].type \in News)

\* The messages q make the title of window i that of a window which is topped or
\* not, as v says, when its structure says t and its title looks like l now.
Settles(q, i, v, t, l) ==
  \/ Told(q, i, v)
  \/ Silent(q, i) /\ (t <=> v) /\ (Draws(q, i) \/ (l <=> v))

\* The structure at place k is the newest one of window i.
Newest(s, k, i) ==
  k \in DOMAIN s /\ s[k].id = i /\ \A l \in DOMAIN s : l < k => s[l].id # i

-----------------------------------------------------------------------------
(* The invariant.                                                          *)

Structure == [id : WinId, tree : BOOLEAN, topped : BOOLEAN]
Once(s) == \A k, l \in DOMAIN s : s[k] = s[l] => k = l

\* The windows of the server; the last one of the order is the desktop.
WindowsAreTyped ==
  /\ DESKTOP_WINDOW \in DOMAIN win /\ DOMAIN win \subseteq WinId \union {DESKTOP_WINDOW}
  /\ \A i \in DOMAIN win :
       /\ win[i] \in [owner : Apps \union {Server}, kind : {"desktop", "normal", "dialog"},
                      topped : BOOLEAN]
       /\ win[i].kind = "desktop" <=> i = DESKTOP_WINDOW
       /\ win[i].owner = Server <=> i = DESKTOP_WINDOW
OrderIsKept ==
  /\ order \in Seq(DOMAIN win) /\ order # <<>> /\ Once(order)
  /\ order[Len(order)] = DESKTOP_WINDOW
LibraryIsTyped ==
  /\ letters \in [Apps -> Seq(Letter)]
  /\ windows \in [Apps -> Seq(Structure)]

\* Only the front window is topped.
Led == \A i \in Open : IsTopped(i) => i = Foremost

\* Messages about a window are with the application it belongs to.
LettersAreOwn ==
  \A a \in Apps : \A k \in DOMAIN letters[a] :
    letters[a][k].id \in DOMAIN win => win[letters[a][k].id].owner = a

\* The library has a structure for each window; and what it knows, and what it
\* is about to read, makes the title of an open window right.
TitlesSettle ==
  \A i \in DOMAIN win \ {DESKTOP_WINDOW} : \A a \in Apps :
    a = win[i].owner =>
      \E k \in DOMAIN windows[a] :
        /\ Newest(windows[a], k, i)
        /\ windows[a][k].tree <=> win[i].kind = "normal"
        /\ i \in Open /\ win[i].kind = "normal" =>
             Settles(letters[a], i, win[i].topped, windows[a][k].topped, i \in look)

TitlesInv ==
  /\ WindowsAreTyped /\ OrderIsKept /\ LibraryIsTyped
  /\ Led /\ LettersAreOwn /\ TitlesSettle

-----------------------------------------------------------------------------
(* The elements that are picked from a sequence.                           *)

\* A set of naturals has a least element.
LEMMA LeastExists ==
  ASSUME NEW S \in SUBSET Nat, S # {}
  PROVE  \E m \in S : \A n \in S : m <= n
<1>1. PICK m \in S : \A n \in S : <<n, m>> \notin OpToRel(<, Nat)
  BY WFMin, NatLessThanWellFounded, Zenon
<1>2. \A n \in S : ~ (n < m)
  BY <1>1, Zenon DEF OpToRel
<1> QED
  BY <1>2

\* How many of the places S are at n or before it.
Rank(S, n) == Cardinality({l \in S : l <= n})

\* The rank of a place is a number, and grows with each place of S.
LEMMA RankGrows ==
  ASSUME NEW N \in Nat, NEW S, \A l \in S : l \in 1 .. N
  PROVE  /\ \A n \in Nat : Rank(S, n) \in Nat /\ Rank(S, n) <= Cardinality(S)
         /\ Cardinality(S) \in Nat /\ Rank(S, 0) = 0 /\ Rank(S, N) = Cardinality(S)
         /\ \A n \in Nat \ {0} :
              Rank(S, n) = Rank(S, n - 1) + (IF n \in S THEN 1 ELSE 0)
         /\ \A m, n \in Nat : m <= n => Rank(S, m) <= Rank(S, n)
<1> DEFINE At(n) == {l \in S : l <= n}
<1>0. \A l \in S : l \in Nat /\ 1 <= l /\ l <= N
  OBVIOUS
<1>1. IsFiniteSet(S)
  <2>1. IsFiniteSet(1 .. N) /\ S \in SUBSET (1 .. N)
    BY FS_Interval
  <2> QED
    BY <2>1, FS_Subset
<1>2. \A n \in Nat : IsFiniteSet(At(n)) /\ Cardinality(At(n)) \in Nat
                     /\ Cardinality(At(n)) <= Cardinality(S)
  <2> TAKE n \in Nat
  <2>1. At(n) \in SUBSET S
    OBVIOUS
  <2> HIDE DEF At
  <2>2. IsFiniteSet(At(n)) /\ Cardinality(At(n)) <= Cardinality(S)
    BY <1>1, <2>1, FS_Subset
  <2> QED
    BY <2>2, FS_CardinalityType
<1>3. Cardinality(S) \in Nat
  BY <1>1, FS_CardinalityType
<1>4. At(0) = {} /\ At(N) = S
  <2>1. \A l : l \in At(N) <=> l \in S
    BY <1>0
  <2>2. At(N) = S
    BY <2>1
  <2> QED
    BY <1>0, <2>2
<1>5. \A n \in Nat \ {0} :
        Cardinality(At(n)) = Cardinality(At(n - 1)) + (IF n \in S THEN 1 ELSE 0)
  <2> TAKE n \in Nat \ {0}
  <2>1. n - 1 \in Nat /\ n \notin At(n - 1)
    OBVIOUS
  <2>2. CASE n \in S
    <3>3. \A l \in S : l <= n <=> l <= n - 1 \/ l = n
      BY <1>0
    <3>4. \A l : l \in At(n) <=> l \in At(n - 1) \cup {n}
      BY <2>2, <3>3
    <3>1. At(n) = At(n - 1) \cup {n}
      BY <3>4
    <3> HIDE DEF At
    <3>2. Cardinality(At(n - 1) \cup {n}) = Cardinality(At(n - 1)) + 1
      BY <1>2, <2>1, FS_AddElement
    <3> QED
      BY <2>2, <3>1, <3>2
  <2>3. CASE n \notin S
    <3>3. \A l : l \in At(n) <=> l \in At(n - 1)
      BY <1>0, <2>3
    <3>1. At(n) = At(n - 1)
      BY <3>3
    <3> HIDE DEF At
    <3> QED
      BY <1>2, <2>1, <2>3, <3>1
  <2> QED
    BY <2>2, <2>3
<1>6. \A m, n \in Nat : m <= n => Cardinality(At(m)) <= Cardinality(At(n))
  <2> SUFFICES ASSUME NEW m \in Nat, NEW n \in Nat, m <= n
               PROVE  Cardinality(At(m)) <= Cardinality(At(n))
    OBVIOUS
  <2>3. \A l : l \in At(m) => l \in At(n)
    BY <1>0
  <2>1. At(m) \in SUBSET At(n)
    BY <2>3
  <2> HIDE DEF At
  <2> QED
    BY <1>2, <2>1, FS_Subset
<1>7. Cardinality(At(0)) = 0
  BY <1>4, FS_EmptySet
<1> QED
  BY <1>2, <1>3, <1>4, <1>5, <1>6, <1>7 DEF Rank

\* For each number up to the size of S there is one place of S with that rank.
LEMMA RankIsPlace ==
  ASSUME NEW N \in Nat, NEW S, \A l \in S : l \in 1 .. N, NEW n \in 1 .. Cardinality(S)
  PROVE  \E k \in S : Rank(S, k) = n
<1> DEFINE T == {k \in 0 .. N : n <= Rank(S, k)}
<1>1. N \in T
  BY RankGrows
<1>0. T \in SUBSET Nat
  OBVIOUS
<1>2. PICK k \in T : \A l \in T : k <= l
  <2> HIDE DEF T
  <2> QED BY <1>0, <1>1, LeastExists
<1>3. k \in Nat /\ k # 0
  BY <1>2, RankGrows
<1>4. Rank(S, k - 1) \in Nat /\ Rank(S, k - 1) < n
  <2>1. k - 1 \in 0 .. N /\ k - 1 \notin T
    BY <1>2, <1>3
  <2>2. Rank(S, k - 1) \in Nat
    BY <2>1, RankGrows
  <2> QED
    BY <2>1, <2>2
<1>5. Rank(S, k) = Rank(S, k - 1) + (IF k \in S THEN 1 ELSE 0)
  BY <1>3, RankGrows
<1>6. Rank(S, k) \in Nat /\ n <= Rank(S, k)
  BY <1>2, <1>3, RankGrows
<1> QED
  BY <1>4, <1>5, <1>6

\* Picked() keeps the elements at the places S, and their order.
LEMMA PickedIs ==
  ASSUME NEW X, NEW s \in Seq(X), NEW S \in SUBSET DOMAIN s
  PROVE  /\ Picked(s, S) \in Seq(X)
         /\ \E f \in [DOMAIN Picked(s, S) -> S] :
              /\ \A n \in DOMAIN Picked(s, S) : Picked(s, S)[n] = s[f[n]]
              /\ \A m, n \in DOMAIN Picked(s, S) : m < n <=> f[m] < f[n]
              /\ \A k \in S : \E n \in DOMAIN Picked(s, S) : f[n] = k
<1> DEFINE c == Cardinality(S)
           Nth(n) == CHOOSE k \in S : Rank(S, k) = n
           f == [n \in 1 .. c |-> Nth(n)]
           P == Picked(s, S)
<1>1. Len(s) \in Nat /\ (\A l \in S : l \in 1 .. Len(s)) /\ \A l \in S : l \in Nat
  OBVIOUS
<1>2. c \in Nat
  BY <1>1, RankGrows
<1>3. \A n \in 1 .. c : Nth(n) \in S /\ Rank(S, Nth(n)) = n
  <2> TAKE n \in 1 .. c
  <2>1. \E k \in S : Rank(S, k) = n
    BY <1>1, RankIsPlace
  <2> QED
    BY <2>1
<1>4. P = [n \in 1 .. c |-> s[Nth(n)]]
  BY DEF Picked, Rank
<1>5. \A k \in S : Rank(S, k) \in 1 .. c
  <2> TAKE k \in S
  <2>1. k \in Nat \ {0}
    BY <1>1
  <2>2. Rank(S, k) = Rank(S, k - 1) + 1
    BY <1>1, <2>1, RankGrows
  <2>4. \A n \in Nat : Rank(S, n) \in Nat /\ Rank(S, n) <= c
    BY <1>1, RankGrows
  <2>3. Rank(S, k - 1) \in Nat /\ Rank(S, k) \in Nat /\ Rank(S, k) <= c
    BY <2>1, <2>4
  <2> QED
    BY <1>2, <2>2, <2>3
<1>6. \A k, l \in S : k < l => Rank(S, k) < Rank(S, l)
  <2> SUFFICES ASSUME NEW k \in S, NEW l \in S, k < l
               PROVE  Rank(S, k) < Rank(S, l)
    OBVIOUS
  <2>1. k \in Nat /\ l \in Nat \ {0} /\ l - 1 \in Nat /\ k <= l - 1
    BY <1>1
  <2>5. \A m, n \in Nat : m <= n => Rank(S, m) <= Rank(S, n)
    BY <1>1, RankGrows
  <2>2. Rank(S, k) <= Rank(S, l - 1)
    BY <2>1, <2>5
  <2>7. \A n \in Nat \ {0} : Rank(S, n) = Rank(S, n - 1) + (IF n \in S THEN 1 ELSE 0)
    BY <1>1, RankGrows
  <2>3. Rank(S, l) = Rank(S, l - 1) + 1
    BY <2>1, <2>7
  <2>6. \A n \in Nat : Rank(S, n) \in Nat
    BY <1>1, RankGrows
  <2>4. Rank(S, k) \in Nat /\ Rank(S, l - 1) \in Nat
    BY <2>1, <2>6
  <2> QED
    BY <2>2, <2>3, <2>4
<1> HIDE DEF Nth, c
<1>7. f \in [1 .. c -> S] /\ \A n \in 1 .. c : f[n] = Nth(n)
  BY <1>3
<1>8. \A k \in S : \E n \in 1 .. c : f[n] = k
  <2> TAKE k \in S
  <2>1. PICK n \in 1 .. c : n = Rank(S, k)
    BY <1>5
  <2>2. Nth(n) \in S /\ Rank(S, Nth(n)) = n
    BY <1>3
  <2>3. Nth(n) = k
    BY <1>1, <1>2, <1>6, <2>1, <2>2
  <2> QED
    BY <1>7, <2>3
<1>9. \A m, n \in 1 .. c : m < n <=> f[m] < f[n]
  <2> TAKE m, n \in 1 .. c
  <2>1. f[m] \in S /\ f[n] \in S /\ Rank(S, f[m]) = m /\ Rank(S, f[n]) = n
    BY <1>3, <1>7
  <2>2. f[m] \in Nat /\ f[n] \in Nat
    BY <1>1, <2>1
  <2> QED
    BY <1>2, <1>6, <2>1, <2>2
<1>10. P \in Seq(X) /\ DOMAIN P = 1 .. c
  BY <1>1, <1>2, <1>3, <1>4
<1>11. \A n \in DOMAIN P : P[n] = s[f[n]]
  BY <1>4, <1>7, <1>10
<1> HIDE DEF f, P
<1> QED
  <2>1. f \in [DOMAIN P -> S]
    BY <1>7, <1>10
  <2>2. \A m, n \in DOMAIN P : m < n <=> f[m] < f[n]
    BY <1>9, <1>10
  <2>3. \A k \in S : \E n \in DOMAIN P : f[n] = k
    BY <1>8, <1>10
  <2> QED
    BY <1>10, <1>11, <2>1, <2>2, <2>3 DEF P

\* find_window_struct() finds the newest structure of a window.
LEMMA FindIs ==
  ASSUME NEW a \in Apps, windows[a] \in Seq(Structure), NEW i
  PROVE  \/ find_window_struct(a, i) = 0 /\ \A k \in DOMAIN windows[a] : windows[a][k].id # i
         \/ Newest(windows[a], find_window_struct(a, i), i)
<1> DEFINE I == {k \in 1 .. Len(windows[a]) : windows[a][k].id = i}
<1>1. find_window_struct(a, i) = IF I # {} THEN Min(I) ELSE 0
  BY DEF find_window_struct, SelectInSeq
<1>2. DOMAIN windows[a] = 1 .. Len(windows[a]) /\ Len(windows[a]) \in Nat
  OBVIOUS
<1>3. CASE I = {}
  BY <1>1, <1>2, <1>3
<1>4. CASE I # {}
  <2>1. I \in SUBSET Nat
    BY <1>2
  <2>2. \E m \in I : \A n \in I : m <= n
    <3> HIDE DEF I
    <3> QED BY <1>4, <2>1, LeastExists
  <2>3. Min(I) \in I /\ \A n \in I : Min(I) <= n
    <3> HIDE DEF I
    <3> QED BY <2>2 DEF Min
  <2>4. PICK m : m = find_window_struct(a, i)
    OBVIOUS
  <2>5. m \in I /\ \A n \in I : m <= n
    <3> HIDE DEF I
    <3> QED BY <1>1, <1>4, <2>3, <2>4
  <2>6. \A l \in DOMAIN windows[a] : l < m => windows[a][l].id # i
    <3> SUFFICES ASSUME NEW l \in DOMAIN windows[a], l < m, windows[a][l].id = i
                 PROVE  FALSE
      OBVIOUS
    <3>1. l \in I
      BY <1>2
    <3> QED
      BY <1>2, <2>5, <3>1
  <2> QED
    BY <1>2, <2>4, <2>5, <2>6 DEF Newest
<1> QED
  BY <1>3, <1>4

-----------------------------------------------------------------------------
(* What sequences of messages say.                                         *)

\* Messages the server may send: about its windows, to their owners.
Message == [type : News \union Redraw, id : DOMAIN win, to : Apps \union {Server}]
AreNotes(q) == q \in Seq(Message) /\ \A k \in DOMAIN q : q[k].to = win[q[k].id].owner

\* The elements of a sequence that is put together of two.
LEMMA JoinIs ==
  ASSUME NEW X, NEW p \in Seq(X), NEW q \in Seq(X)
  PROVE  /\ p \o q \in Seq(X) /\ Len(p) \in Nat /\ Len(q) \in Nat
         /\ DOMAIN p = 1 .. Len(p) /\ DOMAIN q = 1 .. Len(q)
         /\ DOMAIN (p \o q) = 1 .. Len(p) + Len(q)
         /\ \A k \in DOMAIN p : k \in DOMAIN (p \o q) /\ (p \o q)[k] = p[k]
         /\ \A k \in DOMAIN q : /\ Len(p) + k \in DOMAIN (p \o q)
                                /\ (p \o q)[Len(p) + k] = q[k]
         /\ \A k \in DOMAIN (p \o q) :
              \/ k \in DOMAIN p
              \/ k > Len(p) /\ k - Len(p) \in DOMAIN q /\ (p \o q)[k] = q[k - Len(p)]
OBVIOUS

\* Two sequences of messages are silent about a window if each is.
LEMMA JoinSilent ==
  ASSUME NEW X, NEW p \in Seq(X), NEW q \in Seq(X), NEW i
  PROVE  Silent(p \o q, i) <=> Silent(p, i) /\ Silent(q, i)
<1>1. PICK r : r = p \o q
  OBVIOUS
<1>2. /\ \A k \in DOMAIN p : k \in DOMAIN r /\ r[k] = p[k]
      /\ \A k \in DOMAIN q : Len(p) + k \in DOMAIN r /\ r[Len(p) + k] = q[k]
      /\ \A k \in DOMAIN r :
           \/ k \in DOMAIN p
           \/ k > Len(p) /\ k - Len(p) \in DOMAIN q /\ r[k] = q[k - Len(p)]
  BY <1>1, JoinIs
<1>3. Silent(r, i) => Silent(p, i) /\ Silent(q, i)
  BY <1>2 DEF Silent
<1>4. Silent(p, i) /\ Silent(q, i) => Silent(r, i)
  BY <1>2 DEF Silent
<1> QED
  BY <1>1, <1>3, <1>4

\* They ask for the title of a window if one of them does.
LEMMA JoinDraws ==
  ASSUME NEW X, NEW p \in Seq(X), NEW q \in Seq(X), NEW i
  PROVE  Draws(p \o q, i) <=> Draws(p, i) \/ Draws(q, i)
<1>1. PICK r : r = p \o q
  OBVIOUS
<1>2. /\ \A k \in DOMAIN p : k \in DOMAIN r /\ r[k] = p[k]
      /\ \A k \in DOMAIN q : Len(p) + k \in DOMAIN r /\ r[Len(p) + k] = q[k]
      /\ \A k \in DOMAIN r :
           \/ k \in DOMAIN p
           \/ k > Len(p) /\ k - Len(p) \in DOMAIN q /\ r[k] = q[k - Len(p)]
  BY <1>1, JoinIs
<1>3. Draws(r, i) => Draws(p, i) \/ Draws(q, i)
  BY <1>2 DEF Draws
<1>4. Draws(p, i) \/ Draws(q, i) => Draws(r, i)
  BY <1>2 DEF Draws
<1> QED
  BY <1>1, <1>3, <1>4

\* What the second of two sequences tells is told.
LEMMA ToldLast ==
  ASSUME NEW X, NEW p \in Seq(X), NEW q \in Seq(X), NEW i, NEW v, Told(q, i, v)
  PROVE  Told(p \o q, i, v)
<1>1. PICK r : r = p \o q
  OBVIOUS
<1>2. PICK n : n = Len(p)
  OBVIOUS
<1>3. /\ n \in Nat /\ DOMAIN q \subseteq Nat /\ DOMAIN r \subseteq Nat
      /\ \A k \in DOMAIN p : k <= n
      /\ \A k \in DOMAIN q : n + k \in DOMAIN r /\ r[n + k] = q[k]
      /\ \A k \in DOMAIN r :
           \/ k \in DOMAIN p
           \/ k > n /\ k - n \in DOMAIN q /\ r[k] = q[k - n]
  BY <1>1, <1>2, JoinIs
<1>4. PICK k \in DOMAIN q, d \in DOMAIN q :
        /\ k < d
        /\ q[k].id = i /\ q[k].type = (IF v THEN "WM_NEWTOP" ELSE "WM_UNTOPPED")
        /\ q[d].id = i /\ q[d].type \in Redraw
        /\ \A l \in DOMAIN q : k < l => ~(q[l].id = i /\ q[l].type \in News)
  BY DEF Told
<1>5. PICK K, D : K = n + k /\ D = n + d
  OBVIOUS
<1>6. K \in DOMAIN r /\ D \in DOMAIN r /\ r[K] = q[k] /\ r[D] = q[d] /\ K < D
  BY <1>3, <1>4, <1>5
<1>7. \A l \in DOMAIN r : K < l => ~(r[l].id = i /\ r[l].type \in News)
  <2> SUFFICES ASSUME NEW l \in DOMAIN r, K < l
               PROVE  ~(r[l].id = i /\ r[l].type \in News)
    OBVIOUS
  <2>1. l - n \in DOMAIN q /\ r[l] = q[l - n] /\ k < l - n
    BY <1>3, <1>5
  <2> QED
    BY <1>4, <2>1
<1> QED
  BY <1>1, <1>4, <1>6, <1>7 DEF Told

\* What the first of two tells is told if the second is silent.
LEMMA ToldFirst ==
  ASSUME NEW X, NEW p \in Seq(X), NEW q \in Seq(X), NEW i, NEW v,
         Told(p, i, v), Silent(q, i)
  PROVE  Told(p \o q, i, v)
<1>1. PICK r : r = p \o q
  OBVIOUS
<1>2. PICK n : n = Len(p)
  OBVIOUS
<1>3. /\ \A k \in DOMAIN p : k \in DOMAIN r /\ r[k] = p[k]
      /\ \A k \in DOMAIN r :
           \/ k \in DOMAIN p
           \/ k > n /\ k - n \in DOMAIN q /\ r[k] = q[k - n]
  BY <1>1, <1>2, JoinIs
<1>4. PICK k \in DOMAIN p, d \in DOMAIN p :
        /\ k < d
        /\ p[k].id = i /\ p[k].type = (IF v THEN "WM_NEWTOP" ELSE "WM_UNTOPPED")
        /\ p[d].id = i /\ p[d].type \in Redraw
        /\ \A l \in DOMAIN p : k < l => ~(p[l].id = i /\ p[l].type \in News)
  BY DEF Told
<1>5. k \in DOMAIN r /\ d \in DOMAIN r /\ r[k] = p[k] /\ r[d] = p[d]
  BY <1>3
<1>6. \A l \in DOMAIN r : k < l => ~(r[l].id = i /\ r[l].type \in News)
  BY <1>3, <1>4 DEF Silent
<1> QED
  BY <1>1, <1>4, <1>5, <1>6 DEF Told

\* Messages that settle a title do so together with others that are silent.
LEMMA SettlesFirst ==
  ASSUME NEW X, NEW p \in Seq(X), NEW q \in Seq(X), NEW i, NEW v, NEW t, NEW l,
         Settles(p, i, v, t, l), Silent(q, i)
  PROVE  Settles(p \o q, i, v, t, l)
<1>1. CASE Told(p, i, v)
  BY <1>1, ToldFirst DEF Settles
<1>2. CASE Silent(p, i) /\ (t <=> v) /\ (Draws(p, i) \/ (l <=> v))
  BY <1>2, JoinSilent, JoinDraws DEF Settles
<1> QED
  BY <1>1, <1>2 DEF Settles

\* One message.
LEMMA NoteIs ==
  ASSUME NEW i \in DOMAIN win, win[i].owner \in Apps \union {Server},
         NEW type \in News \union Redraw
  PROVE  /\ AreNotes(Note(type, i)) /\ Note(type, i) \in Seq(Message)
         /\ \A j : j # i => Silent(Note(type, i), j)
         /\ type \in Redraw => Silent(Note(type, i), i)
         /\ type \in Redraw => Draws(Note(type, i), i)
<1>1. PICK q : q = Note(type, i)
  OBVIOUS
<1>2. PICK m : m = [type |-> type, id |-> i, to |-> win[i].owner]
  OBVIOUS
<1>3. q = <<m>>
  BY <1>1, <1>2 DEF Note
<1>4. m \in Message /\ m.to = win[m.id].owner /\ m.id = i /\ m.type = type
  BY <1>2 DEF Message
<1>5. q \in Seq(Message) /\ DOMAIN q = {1} /\ q[1] = m
  BY <1>3, <1>4
<1>6. AreNotes(q)
  BY <1>4, <1>5 DEF AreNotes
<1>7. type \in Redraw => type \notin News
  BY DEF Redraw, News
<1> QED
  BY <1>1, <1>4, <1>5, <1>6, <1>7 DEF Silent, Draws

\* The messages of two sequences of one.
LEMMA TwoAre ==
  ASSUME NEW X, NEW p \in Seq(X), NEW q \in Seq(X), Len(p) = 1, Len(q) = 1
  PROVE  /\ p \o q \in Seq(X) /\ Len(p \o q) = 2
         /\ (p \o q)[1] = p[1] /\ (p \o q)[2] = q[1]
<1>1. PICK r : r = p \o q
  OBVIOUS
<1>2. r \in Seq(X) /\ Len(r) = 2
  BY <1>1, ConcatProperties
<1>3. \A k \in 1 .. 2 : r[k] = IF k <= Len(p) THEN p[k] ELSE q[k - Len(p)]
  BY <1>1, ConcatProperties
<1> QED
  BY <1>1, <1>2, <1>3

\* A window is told whether it is topped, and asked for its title.
LEMMA TellIs ==
  ASSUME NEW i \in DOMAIN win, win[i].owner \in Apps \union {Server}, NEW v \in BOOLEAN,
         NEW type \in Redraw, NEW q,
         q = Note(IF v THEN "WM_NEWTOP" ELSE "WM_UNTOPPED", i) \o Note(type, i)
  PROVE  AreNotes(q) /\ Told(q, i, v) /\ \A j : j # i => Silent(q, j)
<1>1. PICK w : w = IF v THEN "WM_NEWTOP" ELSE "WM_UNTOPPED"
  OBVIOUS
<1>2. PICK m : m = [type |-> w, id |-> i, to |-> win[i].owner]
  OBVIOUS
<1>3. PICK r : r = [type |-> type, id |-> i, to |-> win[i].owner]
  OBVIOUS
<1>4. m \in Message /\ m.to = win[m.id].owner /\ m.id = i /\ m.type = w
  BY <1>1, <1>2 DEF Message, News
<1>5. r \in Message /\ r.to = win[r.id].owner /\ r.id = i /\ r.type = type
  BY <1>3 DEF Message
<1>6. PICK x, y : x = <<m>> /\ y = <<r>>
  OBVIOUS
<1>7. q \in Seq(Message) /\ DOMAIN q = {1, 2} /\ q[1] = m /\ q[2] = r
  <2>1. q = x \o y
    BY <1>1, <1>2, <1>3, <1>6 DEF Note
  <2>2. x \in Seq(Message) /\ Len(x) = 1 /\ x[1] = m
    BY <1>4, <1>6
  <2>3. y \in Seq(Message) /\ Len(y) = 1 /\ y[1] = r
    BY <1>5, <1>6
  <2>5. PICK X : X = Message
    OBVIOUS
  <2>6. x \in Seq(X) /\ y \in Seq(X) /\ Len(x) = 1 /\ Len(y) = 1
    BY <2>2, <2>3, <2>5
  <2>7. /\ x \o y \in Seq(X) /\ Len(x \o y) = 2
        /\ (x \o y)[1] = x[1] /\ (x \o y)[2] = y[1]
    BY <2>6, TwoAre, SMTT(60)
  <2>4. q \in Seq(Message) /\ Len(q) = 2 /\ q[1] = x[1] /\ q[2] = y[1]
    BY <2>1, <2>5, <2>7
  <2> QED
    BY <2>2, <2>3, <2>4
<1>8. AreNotes(q)
  BY <1>4, <1>5, <1>7 DEF AreNotes
<1>9. type \notin News
  BY DEF Redraw, News
<1>10. Told(q, i, v)
  <2>1. 1 \in DOMAIN q /\ 2 \in DOMAIN q /\ 1 < 2
    BY <1>7
  <2>2. \A k \in DOMAIN q : 1 < k => ~(q[k].id = i /\ q[k].type \in News)
    BY <1>5, <1>7, <1>9
  <2>3. q[1].id = i /\ q[1].type = (IF v THEN "WM_NEWTOP" ELSE "WM_UNTOPPED")
    BY <1>1, <1>4, <1>7
  <2>4. q[2].id = i /\ q[2].type \in Redraw
    BY <1>5, <1>7
  <2> QED
    BY <2>1, <2>2, <2>3, <2>4 DEF Told
<1> QED
  BY <1>4, <1>5, <1>7, <1>8, <1>10 DEF Silent

\* Messages of two sequences.
LEMMA NotesJoin ==
  ASSUME NEW p, NEW q, AreNotes(p), AreNotes(q)
  PROVE  AreNotes(p \o q)
<1>1. PICK r : r = p \o q
  OBVIOUS
<1>2. p \in Seq(Message) /\ q \in Seq(Message)
  BY DEF AreNotes
<1>3. /\ r \in Seq(Message)
      /\ \A k \in DOMAIN p : k \in DOMAIN r /\ r[k] = p[k]
      /\ \A k \in DOMAIN r :
           \/ k \in DOMAIN p
           \/ k > Len(p) /\ k - Len(p) \in DOMAIN q /\ r[k] = q[k - Len(p)]
  BY <1>1, <1>2, JoinIs
<1> QED
  BY <1>1, <1>3 DEF AreNotes

\* No messages.
LEMMA NoNotes == AreNotes(<<>>) /\ \A i : Silent(<<>>, i)
BY DEF AreNotes, Silent

\* The windows that show more of themselves are asked to draw it, nothing else.
LEMMA RedrawsAre ==
  ASSUME WindowsAreTyped, NEW ids \in Seq(DOMAIN win)
  PROVE  AreNotes(Redraws(ids)) /\ \A i : Silent(Redraws(ids), i)
<1>1. PICK S : S = {k \in DOMAIN ids : Kind(ids[k]) # "menu"}
  OBVIOUS
<1>2. PICK told : told = Picked(ids, S)
  OBVIOUS
<1>3. told \in Seq(DOMAIN win)
  BY <1>1, <1>2, PickedIs
<1>4. PICK q : q = Redraws(ids)
  OBVIOUS
<1>5. q = [k \in DOMAIN told |-> Note("WM_REDRAW", told[k])[1]]
  BY <1>1, <1>2, <1>4 DEF Redraws
<1>6. \A k \in DOMAIN told : LET m == Note("WM_REDRAW", told[k])[1] IN
        m \in Message /\ m.to = win[m.id].owner /\ m.type = "WM_REDRAW"
  <2> TAKE k \in DOMAIN told
  <2>1. PICK i : i = told[k]
    OBVIOUS
  <2>2. i \in DOMAIN win /\ win[i].owner \in Apps \union {Server}
    BY <1>3, <2>1 DEF WindowsAreTyped
  <2>3. PICK m : m = [type |-> "WM_REDRAW", id |-> i, to |-> win[i].owner]
    OBVIOUS
  <2>4. m \in Message /\ m.to = win[m.id].owner /\ m.type = "WM_REDRAW"
    BY <2>2, <2>3 DEF Message, Redraw
  <2>5. Note("WM_REDRAW", told[k])[1] = m
    BY <2>1, <2>3 DEF Note
  <2> QED
    BY <2>4, <2>5
<1>7. DOMAIN q = 1 .. Len(told) /\ Len(told) \in Nat
  BY <1>3, <1>5
<1>8. q \in Seq(Message)
  BY <1>3, <1>5, <1>6
<1>9. \A k \in DOMAIN q : q[k].to = win[q[k].id].owner /\ q[k].type = "WM_REDRAW"
  BY <1>5, <1>6
<1> QED
  BY <1>4, <1>8, <1>9 DEF AreNotes, Silent, News

-----------------------------------------------------------------------------
(* The order of the windows.                                               *)

\* An order of windows of S, each once and the desktop last.
Stacked(o, S) ==
  o \in Seq(S) /\ o # <<>> /\ Once(o) /\ o[Len(o)] = DESKTOP_WINDOW

\* Where an open window is, and which windows are behind it.
LEMMA PositionIs ==
  ASSUME OrderIsKept, NEW i \in Open
  PROVE  /\ Position(i) \in 1 .. Len(order) /\ order[Position(i)] = i
         /\ Len(order) \in Nat /\ \A k \in 1 .. Len(order) : order[k] = i => k = Position(i)
         /\ i # DESKTOP_WINDOW => Position(i) # Len(order)
         /\ i = Foremost <=> Position(i) = 1
         /\ Foremost = order[1] /\ Foremost \in Open /\ Open \subseteq DOMAIN win
<1>1. DOMAIN order = 1 .. Len(order) /\ Len(order) \in Nat /\ Len(order) # 0
  BY DEF OrderIsKept
<1>2. PICK k \in 1 .. Len(order) : order[k] = i
  BY <1>1 DEF Open, ToSet
<1>3. Position(i) \in 1 .. Len(order) /\ order[Position(i)] = i
  BY <1>1, <1>2 DEF Position
<1>4. \A l \in 1 .. Len(order) : order[l] = i => l = Position(i)
  BY <1>1, <1>3 DEF OrderIsKept, Once
<1>5. Foremost = order[1]
  BY DEF Foremost, OrderIsKept
<1>6. Open \subseteq DOMAIN win /\ order[1] \in Open
  BY <1>1 DEF Open, ToSet, OrderIsKept
<1>7. i # DESKTOP_WINDOW => Position(i) # Len(order)
  BY <1>3 DEF OrderIsKept
<1>8. i = Foremost <=> Position(i) = 1
  BY <1>1, <1>3, <1>4, <1>5
<1> QED
  BY <1>1, <1>3, <1>4, <1>5, <1>6, <1>7, <1>8

\* The order without a window.
LEMMA OthersAre ==
  ASSUME OrderIsKept, NEW i \in Open, i # DESKTOP_WINDOW
  PROVE  /\ Stacked(Others(i), DOMAIN win \ {i})
         /\ ToSet(Others(i)) = Open \ {i}
         /\ Len(Others(i)) = Len(order) - 1
         /\ Head(Others(i)) = IF i = Foremost THEN order[2] ELSE Foremost
<1> DEFINE p == Position(i)
           n == Len(order)
           w == Others(i)
<1>1. /\ n \in Nat /\ p \in 1 .. n /\ p # n /\ order[p] = i
      /\ \A k \in 1 .. n : order[k] = i => k = p
      /\ i = Foremost <=> p = 1
      /\ Foremost = order[1]
  BY PositionIs
<1>2. order \in [1 .. n -> DOMAIN win] /\ order[n] = DESKTOP_WINDOW
  BY DEF OrderIsKept
<1>3. \A k, l \in 1 .. n : order[k] = order[l] => k = l
  BY <1>2 DEF OrderIsKept, Once
<1>4. w = [k \in 1 .. n - 1 |-> order[IF k < p THEN k ELSE k + 1]]
  BY DEF Others
<1>5. Open = {order[k] : k \in 1 .. n}
  BY <1>2 DEF Open, ToSet
<1> HIDE DEF p, n, w
<1>6. n - 1 \in Nat /\ n - 1 # 0
  BY <1>1
<1>7. \A k \in 1 .. n - 1 :
        (IF k < p THEN k ELSE k + 1) \in 1 .. n /\ (IF k < p THEN k ELSE k + 1) # p
  BY <1>1, <1>6
<1>8. \A k \in 1 .. n - 1 : w[k] = order[IF k < p THEN k ELSE k + 1]
  BY <1>4
<1>9. \A k \in 1 .. n - 1 : w[k] \in DOMAIN win \ {i}
  BY <1>1, <1>2, <1>7, <1>8
<1>10. w \in [1 .. n - 1 -> DOMAIN win \ {i}]
  BY <1>4, <1>8, <1>9
<1>11. w \in Seq(DOMAIN win \ {i}) /\ Len(w) = n - 1 /\ DOMAIN w = 1 .. n - 1 /\ w # <<>>
  <2>1. PICK m : m = n - 1
    OBVIOUS
  <2>2. m \in Nat /\ m # 0 /\ w \in [1 .. m -> DOMAIN win \ {i}]
    BY <1>6, <1>10, <2>1
  <2>3. w \in Seq(DOMAIN win \ {i}) /\ Len(w) = m /\ DOMAIN w = 1 .. m
    BY <2>2
  <2> QED
    BY <2>1, <2>2, <2>3
<1>12. Once(w)
  <2> SUFFICES ASSUME NEW k \in 1 .. n - 1, NEW l \in 1 .. n - 1, w[k] = w[l]
               PROVE  k = l
    BY <1>11 DEF Once
  <2>1. (IF k < p THEN k ELSE k + 1) = (IF l < p THEN l ELSE l + 1)
    BY <1>3, <1>7, <1>8
  <2> QED
    BY <1>1, <2>1
<1>13. w[Len(w)] = DESKTOP_WINDOW
  BY <1>1, <1>2, <1>6, <1>8, <1>11
<1>14. ToSet(w) = Open \ {i}
  <2>1. \A j : j \in ToSet(w) => j \in Open \ {i}
    BY <1>1, <1>5, <1>7, <1>8, <1>11 DEF ToSet
  <2>2. ASSUME NEW j \in Open \ {i}
        PROVE  j \in ToSet(w)
    <3>1. PICK k \in 1 .. n : order[k] = j /\ k # p
      BY <1>1, <1>5, <2>2
    <3>2. PICK l : l = IF k < p THEN k ELSE k - 1
      OBVIOUS
    <3>3. l \in 1 .. n - 1 /\ k = IF l < p THEN l ELSE l + 1
      BY <1>1, <3>1, <3>2
    <3>4. w[l] = j
      BY <1>8, <3>1, <3>3
    <3> QED
      BY <1>11, <3>3, <3>4 DEF ToSet
  <2> QED
    BY <2>1, <2>2
<1>15. Head(w) = IF i = Foremost THEN order[2] ELSE Foremost
  <2>1. Head(w) = w[1] /\ 1 \in 1 .. n - 1
    BY <1>6, <1>11
  <2>2. w[1] = order[IF 1 < p THEN 1 ELSE 2]
    BY <1>8, <2>1
  <2> QED
    BY <1>1, <2>1, <2>2
<1> QED
  BY <1>11, <1>12, <1>13, <1>14, <1>15 DEF Stacked, w, n

\* A window comes into an order of others, not behind the desktop.
LEMMA InsertIs ==
  ASSUME NEW S, NEW i \in S, NEW T \in SUBSET S, NEW o, Stacked(o, T), i \notin ToSet(o),
         NEW p \in 1 .. Len(o), NEW r, r = InsertAt(o, p, i)
  PROVE  /\ Stacked(r, S) /\ ToSet(r) = ToSet(o) \union {i}
         /\ Head(r) = IF p = 1 THEN i ELSE Head(o)
<1> DEFINE n == Len(o)
<1>1. n \in Nat /\ o \in [1 .. n -> T] /\ o \in Seq(T) /\ DOMAIN o = 1 .. n /\ p \in 1 .. n
  BY DEF Stacked
<1>2. PICK a, b, c : a = SubSeq(o, 1, p - 1) /\ b = <<i>> /\ c = SubSeq(o, p, n)
  OBVIOUS
<1>3. r = a \o b \o c
  BY <1>2 DEF InsertAt
<1> HIDE DEF n
<1>4. a \in Seq(S) /\ Len(a) = p - 1 /\ \A k \in 1 .. p - 1 : a[k] = o[k]
  <2>1. p - 1 \in Int /\ 1 \in Int /\ \A k \in 1 .. p - 1 : o[k] \in S
    BY <1>1
  <2>2. a \in Seq(S)
    BY <1>2, <2>1, SubSeqProperties
  <2>3. Len(a) = IF 1 <= p - 1 THEN p - 1 - 1 + 1 ELSE 0
    BY <1>2, <2>1, SubSeqProperties
  <2>4. \A k \in 1 .. p - 1 - 1 + 1 : a[k] = o[1 + k - 1]
    BY <1>2, <2>1, SubSeqProperties
  <2> QED
    BY <1>1, <2>2, <2>3, <2>4
<1>5. b \in Seq(S) /\ Len(b) = 1 /\ b[1] = i
  BY <1>2
<1>6. c \in Seq(S) /\ Len(c) = n - p + 1 /\ \A k \in 1 .. n - p + 1 : c[k] = o[p + k - 1]
  <2>1. p \in Int /\ n \in Int /\ \A k \in p .. n : o[k] \in S
    BY <1>1
  <2>2. c \in Seq(S)
    BY <1>2, <2>1, SubSeqProperties
  <2>3. Len(c) = IF p <= n THEN n - p + 1 ELSE 0
    BY <1>2, <2>1, SubSeqProperties
  <2>4. \A k \in 1 .. n - p + 1 : c[k] = o[p + k - 1]
    BY <1>2, <2>1, SubSeqProperties
  <2> QED
    BY <1>1, <2>2, <2>3, <2>4
<1>7. PICK d : d = a \o b
  OBVIOUS
<1>8. d \in Seq(S) /\ Len(d) = p /\ \A k \in 1 .. p : d[k] = IF k < p THEN o[k] ELSE i
  <2>1. a \in Seq(S) /\ b \in Seq(S)
    BY <1>4, <1>5
  <2>2. d \in Seq(S) /\ Len(d) = Len(a) + Len(b)
    BY <1>7, <2>1, ConcatProperties
  <2>3. \A k \in 1 .. Len(a) + Len(b) : d[k] = IF k <= Len(a) THEN a[k] ELSE b[k - Len(a)]
    BY <1>7, <2>1, ConcatProperties
  <2>4. Len(d) = p
    BY <1>1, <1>4, <1>5, <2>2
  <2>5. ASSUME NEW k \in 1 .. p
        PROVE  d[k] = IF k < p THEN o[k] ELSE i
    <3>1. d[k] = IF k <= p - 1 THEN a[k] ELSE b[k - (p - 1)]
      BY <1>1, <1>4, <1>5, <2>3
    <3> QED
      BY <1>1, <1>4, <1>5, <3>1
  <2> QED
    BY <2>2, <2>4, <2>5
<1>9. /\ r \in Seq(S) /\ Len(r) = n + 1
      /\ \A k \in 1 .. n + 1 : r[k] = IF k < p THEN o[k] ELSE IF k = p THEN i ELSE o[k - 1]
  <2>4. d \in Seq(S) /\ c \in Seq(S) /\ r = d \o c
    BY <1>3, <1>6, <1>7, <1>8
  <2>5. r \in Seq(S) /\ Len(r) = Len(d) + Len(c)
    BY <2>4, ConcatProperties
  <2>6. \A k \in 1 .. Len(d) + Len(c) : r[k] = IF k <= Len(d) THEN d[k] ELSE c[k - Len(d)]
    BY <2>4, ConcatProperties
  <2>7. Len(r) = p + (n - p + 1)
    BY <1>6, <1>8, <2>5
  <2>8. p + (n - p + 1) = n + 1
    BY <1>1
  <2>1. r \in Seq(S) /\ Len(r) = n + 1
    BY <2>5, <2>7, <2>8
  <2>2. \A k \in 1 .. n + 1 : r[k] = IF k <= p THEN d[k] ELSE c[k - p]
    BY <1>1, <1>6, <1>8, <2>6
  <2>3. \A k \in 1 .. n + 1 : k > p => c[k - p] = o[k - 1]
    <3> SUFFICES ASSUME NEW k \in 1 .. n + 1, k > p
                 PROVE  c[k - p] = o[k - 1]
      OBVIOUS
    <3>1. PICK m : m = k - p
      OBVIOUS
    <3>2. m \in 1 .. n - p + 1 /\ p + m - 1 = k - 1
      BY <1>1, <3>1
    <3> QED
      BY <1>6, <3>1, <3>2
  <2> QED
    BY <1>1, <1>8, <2>1, <2>2, <2>3
<1>10. DOMAIN r = 1 .. n + 1 /\ n + 1 \in Nat
  BY <1>1, <1>9
<1>11. \A k \in 1 .. n : o[k] # i
  BY <1>1 DEF ToSet
<1>12. \A k, l \in 1 .. n : o[k] = o[l] => k = l
  BY <1>1 DEF Stacked, Once
<1>13. Once(r)
  <2> SUFFICES ASSUME NEW k \in 1 .. n + 1, NEW l \in 1 .. n + 1, r[k] = r[l]
               PROVE  k = l
    BY <1>10 DEF Once
  <2>1. \A m \in 1 .. n + 1 :
          \/ m < p /\ m \in 1 .. n /\ r[m] = o[m]
          \/ m = p /\ r[m] = i
          \/ m > p /\ m - 1 \in 1 .. n /\ r[m] = o[m - 1]
    BY <1>1, <1>9
  <2>2. CASE k < p
    BY <1>1, <1>11, <1>12, <2>1, <2>2
  <2>3. CASE k = p
    BY <1>1, <1>11, <1>12, <2>1, <2>3
  <2>4. CASE k > p
    BY <1>1, <1>11, <1>12, <2>1, <2>4
  <2> QED
    BY <1>1, <2>2, <2>3, <2>4
<1>14. r[Len(r)] = DESKTOP_WINDOW /\ r # <<>>
  <2>1. o[n] = DESKTOP_WINDOW
    BY DEF Stacked, n
  <2>2. r[n + 1] = o[n]
    BY <1>1, <1>9
  <2> QED
    BY <1>1, <1>9, <2>1, <2>2
<1>15. ToSet(r) = ToSet(o) \union {i}
  <2>1. \A j : j \in ToSet(r) => j \in ToSet(o) \union {i}
    <3> SUFFICES ASSUME NEW k \in 1 .. n + 1, r[k] # i
                 PROVE  r[k] \in ToSet(o)
      BY <1>10 DEF ToSet
    <3>1. \/ k \in 1 .. n /\ r[k] = o[k]
          \/ k - 1 \in 1 .. n /\ r[k] = o[k - 1]
      BY <1>1, <1>9
    <3> QED
      BY <1>1, <3>1 DEF ToSet
  <2>2. i \in ToSet(r)
    BY <1>1, <1>9, <1>10 DEF ToSet
  <2>3. ASSUME NEW j \in ToSet(o)
        PROVE  j \in ToSet(r)
    <3>1. PICK k \in 1 .. n : o[k] = j
      BY <1>1 DEF ToSet
    <3>2. k < p => k \in 1 .. n + 1 /\ r[k] = j
      BY <1>1, <1>9, <3>1
    <3>3. ~(k < p) => k + 1 \in 1 .. n + 1 /\ r[k + 1] = j
      <4> SUFFICES ASSUME ~(k < p)
                   PROVE  k + 1 \in 1 .. n + 1 /\ r[k + 1] = j
        OBVIOUS
      <4>1. PICK l : l = k + 1
        OBVIOUS
      <4>2. l \in 1 .. n + 1 /\ ~(l < p) /\ l # p /\ l - 1 = k
        BY <1>1, <4>1
      <4> QED
        BY <1>9, <3>1, <4>1, <4>2
    <3> QED
      BY <1>10, <3>2, <3>3 DEF ToSet
  <2> QED
    BY <2>1, <2>2, <2>3
<1>16. Head(r) = IF p = 1 THEN i ELSE Head(o)
  <2>1. Head(r) = r[1] /\ Head(o) = o[1]
    BY <1>1, <1>9
  <2> QED
    BY <1>1, <1>9, <2>1
<1> QED
  BY <1>9, <1>13, <1>14, <1>15, <1>16 DEF Stacked

\* A window comes to the front.
LEMMA FirstIs ==
  ASSUME NEW S, NEW i \in S, NEW T \in SUBSET S, NEW o, Stacked(o, T), i \notin ToSet(o)
  PROVE  /\ Stacked(<<i>> \o o, S) /\ ToSet(<<i>> \o o) = ToSet(o) \union {i}
         /\ Head(<<i>> \o o) = i
<1>1. PICK r : r = <<i>> \o o
  OBVIOUS
<1>2. PICK n : n = Len(o)
  OBVIOUS
<1>3. n \in Nat \ {0} /\ DOMAIN o = 1 .. n /\ o \in Seq(S) /\ o[n] = DESKTOP_WINDOW
  BY <1>2 DEF Stacked
<1>4. /\ r \in Seq(S) /\ Len(r) = n + 1 /\ r # <<>> /\ r[1] = i
      /\ \A k \in 1 .. n : r[k + 1] = o[k]
  BY <1>1, <1>2, <1>3
<1>5. DOMAIN r = 1 .. n + 1 /\ Head(r) = i
  BY <1>3, <1>4
<1>6. \A k \in 1 .. n + 1 : k = 1 \/ (k - 1 \in 1 .. n /\ r[k] = o[k - 1])
  BY <1>3, <1>4
<1>7. \A k \in 1 .. n : o[k] # i /\ k + 1 \in 1 .. n + 1
  BY <1>3 DEF ToSet
<1>8. Once(r)
  <2>1. \A k, l \in 1 .. n : o[k] = o[l] => k = l
    BY <1>3 DEF Stacked, Once
  <2> QED
    BY <1>3, <1>4, <1>5, <1>6, <1>7, <2>1 DEF Once
<1>9. ToSet(r) = ToSet(o) \union {i}
  <2>1. \A j : j \in ToSet(r) => j \in ToSet(o) \union {i}
    BY <1>3, <1>4, <1>5, <1>6 DEF ToSet
  <2>2. i \in ToSet(r)
    BY <1>3, <1>4, <1>5 DEF ToSet
  <2>3. ASSUME NEW j \in ToSet(o)
        PROVE  j \in ToSet(r)
    <3>1. PICK k \in 1 .. n : o[k] = j
      BY <1>3 DEF ToSet
    <3> QED
      BY <1>4, <1>5, <1>7, <3>1 DEF ToSet
  <2> QED
    BY <2>1, <2>2, <2>3
<1>10. r[Len(r)] = DESKTOP_WINDOW
  BY <1>3, <1>4
<1> QED
  BY <1>1, <1>4, <1>5, <1>8, <1>9, <1>10 DEF Stacked

\* The windows behind one that is open, the next of them first.
LEMMA BehindIs ==
  ASSUME OrderIsKept, NEW i \in Open, i # DESKTOP_WINDOW
  PROVE  /\ Behind(i) \in Seq(DOMAIN win) /\ Behind(i) # <<>>
         /\ Head(Behind(i)) = order[Position(i) + 1]
         /\ Head(Behind(i)) \in Open \ {i}
         /\ i = Foremost => Head(Behind(i)) = order[2]
<1> DEFINE p == Position(i)
           n == Len(order)
           b == Behind(i)
<1>1. /\ n \in Nat /\ p \in 1 .. n /\ p # n /\ order[p] = i
      /\ \A k \in 1 .. n : order[k] = i => k = p
      /\ i = Foremost <=> p = 1
  BY PositionIs
<1>2. order \in [1 .. n -> DOMAIN win] /\ DOMAIN order = 1 .. n
  BY DEF OrderIsKept
<1>3. b = SubSeq(order, p + 1, n)
  BY DEF Behind
<1> HIDE DEF p, n, b
<1>4. p + 1 \in Int /\ n \in Int /\ (\A k \in p + 1 .. n : order[k] \in DOMAIN win)
      /\ p + 1 \in 1 .. n
  BY <1>1, <1>2
<1>5. b \in Seq(DOMAIN win)
  BY <1>3, <1>4, SubSeqProperties
<1>6. Len(b) = IF p + 1 <= n THEN n - (p + 1) + 1 ELSE 0
  BY <1>3, <1>4, SubSeqProperties
<1>7. \A k \in 1 .. n - (p + 1) + 1 : b[k] = order[p + 1 + k - 1]
  BY <1>3, <1>4, SubSeqProperties
<1>8. Len(b) = n - p /\ b[1] = order[p + 1]
  BY <1>1, <1>6, <1>7
<1>9. b # <<>> /\ Head(b) = order[p + 1]
  BY <1>1, <1>5, <1>8
<1>10. order[p + 1] \in Open \ {i}
  BY <1>1, <1>2, <1>4 DEF Open, ToSet
<1> QED
  BY <1>1, <1>5, <1>9, <1>10 DEF b, p

-----------------------------------------------------------------------------
(* What the server sends keeps the titles right.                           *)

\* The messages of a step are right about window j, which is topped or not after
\* it, as v says: they tell so; or they are silent and nothing changed; or they
\* ask for the title of a window that nobody knows to have been topped.
Announced(notes, j, v) ==
  \/ Told(notes, j, v)
  \/ j \in Open /\ (v <=> IsTopped(j)) /\ Silent(notes, j)
  \/ /\ ~v /\ Silent(notes, j) /\ Draws(notes, j)
     /\ \A a \in Apps :
          /\ \A k \in DOMAIN windows[a] : windows[a][k].id = j => ~windows[a][k].topped
          /\ \A k \in DOMAIN letters[a] : letters[a][k].id # j

\* The messages `new' are those of `notes' that go to application a.
Share(notes, new, a) ==
  /\ \A k \in DOMAIN new : \E n \in DOMAIN notes : new[k] = notes[n]
  /\ \A k \in DOMAIN new : new[k].to = a
  /\ \A j \in DOMAIN win : win[j].owner = a =>
       /\ Silent(notes, j) => Silent(new, j)
       /\ Draws(notes, j) => Draws(new, j)
       /\ \A v \in BOOLEAN : Told(notes, j, v) => Told(new, j, v)

\* An application gets the messages about its own windows, in their order.
LEMMA SendIs ==
  ASSUME TitlesInv, NEW notes, AreNotes(notes), Send(notes), NEW a \in Apps
  PROVE  \E new \in Seq(Letter) : letters'[a] = letters[a] \o new /\ Share(notes, new, a)
<1>1. PICK S : S = {k \in DOMAIN notes : notes[k].to = a}
  OBVIOUS
<1>2. PICK new : new = Picked(notes, S)
  OBVIOUS
<1>3. notes \in Seq(Message) /\ \A k \in DOMAIN notes : notes[k].to = win[notes[k].id].owner
  BY DEF AreNotes
<1>4. S \in SUBSET DOMAIN notes
  BY <1>1
<1>5. PICK f \in [DOMAIN new -> S] :
        /\ \A n \in DOMAIN new : new[n] = notes[f[n]]
        /\ \A m, n \in DOMAIN new : m < n <=> f[m] < f[n]
        /\ \A k \in S : \E n \in DOMAIN new : f[n] = k
  BY <1>2, <1>3, <1>4, PickedIs
<1>6. new \in Seq(Message)
  BY <1>2, <1>3, <1>4, PickedIs
<1>7. \A k \in DOMAIN new : f[k] \in DOMAIN notes /\ new[k] = notes[f[k]] /\ new[k].to = a
  BY <1>1, <1>5
<1>8. new \in Seq(Letter)
  <2>1. \A k \in DOMAIN new : new[k] \in Letter
    <3> TAKE k \in DOMAIN new
    <3>1. new[k] \in Message /\ new[k].to = win[new[k].id].owner /\ new[k].to = a
      BY <1>3, <1>6, <1>7
    <3>2. new[k].id \in DOMAIN win /\ win[new[k].id].owner # Server
      BY <3>1, ServerAssumption DEF Message
    <3>3. new[k].id \in WinId
      BY <3>2 DEF TitlesInv, WindowsAreTyped
    <3> QED
      BY <3>1, <3>3 DEF Message, Letter
  <2> QED
    BY <1>6, <2>1
<1>9. letters'[a] = letters[a] \o new
  BY <1>1, <1>2 DEF Send
<1>10. \A j \in DOMAIN win : Silent(notes, j) => Silent(new, j)
  BY <1>7 DEF Silent
<1>11. \A j \in DOMAIN win : win[j].owner = a =>
         \A k \in DOMAIN notes : notes[k].id = j => k \in S
  BY <1>1, <1>3
<1>12. ASSUME NEW j \in DOMAIN win, win[j].owner = a, Draws(notes, j)
       PROVE  Draws(new, j)
  <2>1. PICK k \in DOMAIN notes : notes[k].id = j /\ notes[k].type \in Redraw
    BY <1>12 DEF Draws
  <2>2. PICK n \in DOMAIN new : f[n] = k
    BY <1>5, <1>11, <1>12, <2>1
  <2> QED
    BY <1>7, <2>1, <2>2 DEF Draws
<1>13. ASSUME NEW j \in DOMAIN win, win[j].owner = a, NEW v \in BOOLEAN, Told(notes, j, v)
       PROVE  Told(new, j, v)
  <2>1. PICK k \in DOMAIN notes, d \in DOMAIN notes :
          /\ k < d
          /\ notes[k].id = j /\ notes[k].type = (IF v THEN "WM_NEWTOP" ELSE "WM_UNTOPPED")
          /\ notes[d].id = j /\ notes[d].type \in Redraw
          /\ \A l \in DOMAIN notes : k < l => ~(notes[l].id = j /\ notes[l].type \in News)
    BY <1>13 DEF Told
  <2>2. PICK m \in DOMAIN new : f[m] = k
    BY <1>5, <1>11, <1>13, <2>1
  <2>3. PICK e \in DOMAIN new : f[e] = d
    BY <1>5, <1>11, <1>13, <2>1
  <2>4. m < e
    BY <1>5, <2>1, <2>2, <2>3
  <2>5. \A l \in DOMAIN new : m < l => ~(new[l].id = j /\ new[l].type \in News)
    BY <1>5, <1>7, <2>1, <2>2
  <2>6. new[m] = notes[k] /\ new[e] = notes[d]
    BY <1>7, <2>2, <2>3
  <2> QED
    BY <2>1, <2>4, <2>5, <2>6 DEF Told
<1>14. Share(notes, new, a)
  BY <1>7, <1>10, <1>12, <1>13 DEF Share
<1> QED
  BY <1>8, <1>9, <1>14

\* What a window was known for and what is announced of it settle its title.
LEMMA AnnouncedSettles ==
  ASSUME NEW X, NEW q \in Seq(X), NEW new \in Seq(X), NEW j, NEW v \in BOOLEAN,
         NEW w \in BOOLEAN, NEW t \in BOOLEAN, NEW l \in BOOLEAN,
         \/ Told(new, j, v)
         \/ (v <=> w) /\ Silent(new, j) /\ Settles(q, j, w, t, l)
         \/ ~v /\ ~t /\ Silent(new, j) /\ Draws(new, j) /\ \A k \in DOMAIN q : q[k].id # j
  PROVE  Settles(q \o new, j, v, t, l)
<1>1. CASE Told(new, j, v)
  BY <1>1, ToldLast DEF Settles
<1>2. CASE (v <=> w) /\ Silent(new, j) /\ Settles(q, j, w, t, l)
  <2>1. v = w
    BY <1>2
  <2> QED
    BY <1>2, <2>1, SettlesFirst
<1>3. CASE ~v /\ ~t /\ Silent(new, j) /\ Draws(new, j) /\ \A k \in DOMAIN q : q[k].id # j
  <2>1. Silent(q, j)
    BY <1>3 DEF Silent
  <2> QED
    BY <1>3, <2>1, JoinSilent, JoinDraws DEF Settles
<1> QED
  BY <1>1, <1>2, <1>3

\* The invariant after a step of the server that announces what it does.
LEMMA SendKeeps ==
  ASSUME TitlesInv, NEW notes, AreNotes(notes), Send(notes),
         windows' = windows, look' = look,
         WindowsAreTyped', OrderIsKept', Led', DOMAIN win' \subseteq DOMAIN win,
         \A j \in DOMAIN win' : win'[j].owner = win[j].owner /\ win'[j].kind = win[j].kind,
         \A j \in Open' \ {DESKTOP_WINDOW} :
           win[j].kind = "normal" => Announced(notes, j, win'[j].topped)
  PROVE  TitlesInv'
<1>1. /\ letters \in [Apps -> Seq(Letter)] /\ windows \in [Apps -> Seq(Structure)]
      /\ \A i \in DOMAIN win : win[i].topped \in BOOLEAN
      /\ \A i \in DOMAIN win' : win'[i].topped \in BOOLEAN
  BY DEF TitlesInv, LibraryIsTyped, WindowsAreTyped
<1>2. LibraryIsTyped'
  <2>1. \A a \in Apps : letters'[a] \in Seq(Letter)
    <3> TAKE a \in Apps
    <3>1. PICK new \in Seq(Letter) : letters'[a] = letters[a] \o new /\ Share(notes, new, a)
      BY SendIs
    <3>2. letters[a] \in Seq(Letter)
      BY <1>1
    <3> QED
      BY <3>1, <3>2, ConcatProperties
  <2>2. letters' = [a \in Apps |-> letters'[a]]
    BY DEF Send
  <2>3. letters' \in [Apps -> Seq(Letter)]
    BY <2>1, <2>2
  <2> QED
    BY <1>1, <2>3 DEF LibraryIsTyped
<1>3. LettersAreOwn'
  <2> SUFFICES ASSUME NEW a \in Apps, NEW k \in DOMAIN letters'[a],
                      letters'[a][k].id \in DOMAIN win'
               PROVE  win'[letters'[a][k].id].owner = a
    BY DEF LettersAreOwn
  <2>1. PICK new \in Seq(Letter) : letters'[a] = letters[a] \o new /\ Share(notes, new, a)
    BY SendIs
  <2>2. PICK q : q = letters[a]
    OBVIOUS
  <2>3. q \in Seq(Letter)
    BY <1>1, <2>2
  <2>4. PICK r : r = letters'[a]
    OBVIOUS
  <2>5. \/ k \in DOMAIN q /\ r[k] = q[k]
        \/ k - Len(q) \in DOMAIN new /\ r[k] = new[k - Len(q)]
    BY <2>1, <2>2, <2>3, <2>4, JoinIs
  <2>6. r[k].id \in DOMAIN win /\ win'[r[k].id].owner = win[r[k].id].owner
    BY <2>4
  <2>7. CASE k \in DOMAIN q /\ r[k] = q[k]
    BY <2>2, <2>4, <2>6, <2>7 DEF TitlesInv, LettersAreOwn
  <2>8. CASE k - Len(q) \in DOMAIN new /\ r[k] = new[k - Len(q)]
    <3>1. PICK n \in DOMAIN notes : r[k] = notes[n]
      BY <2>1, <2>8 DEF Share
    <3>2. r[k].to = win[r[k].id].owner
      BY <3>1 DEF AreNotes
    <3> QED
      BY <2>1, <2>4, <2>6, <2>8, <3>2 DEF Share
  <2> QED
    BY <2>5, <2>7, <2>8
<1>4. TitlesSettle'
  <2> SUFFICES ASSUME NEW j \in DOMAIN win' \ {DESKTOP_WINDOW}, NEW a \in Apps,
                      a = win'[j].owner
               PROVE  \E k \in DOMAIN windows'[a] :
                        /\ Newest(windows'[a], k, j)
                        /\ windows'[a][k].tree <=> win'[j].kind = "normal"
                        /\ j \in Open' /\ win'[j].kind = "normal" =>
                             Settles(letters'[a], j, win'[j].topped, windows'[a][k].topped,
                                     j \in look')
    BY DEF TitlesSettle
  <2>1. j \in DOMAIN win \ {DESKTOP_WINDOW} /\ a = win[j].owner /\ win'[j].kind = win[j].kind
    OBVIOUS
  <2>2. PICK k \in DOMAIN windows[a] :
          /\ Newest(windows[a], k, j)
          /\ windows[a][k].tree <=> win[j].kind = "normal"
          /\ j \in Open /\ win[j].kind = "normal" =>
               Settles(letters[a], j, win[j].topped, windows[a][k].topped, j \in look)
    BY <2>1 DEF TitlesInv, TitlesSettle
  <2>3. ASSUME j \in Open', win'[j].kind = "normal"
        PROVE  Settles(letters'[a], j, win'[j].topped, windows[a][k].topped, j \in look)
    <3>10. PICK new \in Seq(Letter) : letters'[a] = letters[a] \o new /\ Share(notes, new, a)
      BY SendIs
    <3>1. /\ letters'[a] = letters[a] \o new
          /\ Silent(notes, j) => Silent(new, j)
          /\ Draws(notes, j) => Draws(new, j)
          /\ \A v \in BOOLEAN : Told(notes, j, v) => Told(new, j, v)
      BY <2>1, <3>10 DEF Share
    <3>2. PICK q, v, w, t, l :
            q = letters[a] /\ v = win'[j].topped /\ w = win[j].topped
            /\ t = windows[a][k].topped /\ l = (j \in look)
      OBVIOUS
    <3>3. q \in Seq(Letter) /\ v \in BOOLEAN /\ w \in BOOLEAN /\ l \in BOOLEAN
      BY <1>1, <2>1, <3>2
    <3>4. t \in BOOLEAN
      <4>1. windows[a] \in Seq(Structure)
        BY <1>1
      <4>2. windows[a][k] \in Structure
        BY <4>1
      <4> QED
        BY <3>2, <4>2 DEF Structure
    <3>5. Announced(notes, j, v)
      BY <2>1, <2>3, <3>2
    <3>6. CASE Told(notes, j, v)
      <4>1. Told(new, j, v)
        BY <3>1, <3>3, <3>6
      <4>2. Settles(q \o new, j, v, t, l)
        BY <3>3, <3>4, <4>1, AnnouncedSettles
      <4> QED
        BY <3>1, <3>2, <4>2
    <3>7. CASE j \in Open /\ (v <=> IsTopped(j)) /\ Silent(notes, j)
      <4>1. (v <=> w) /\ Silent(new, j)
        BY <3>1, <3>2, <3>7 DEF IsTopped
      <4>2. Settles(q, j, w, t, l)
        BY <2>1, <2>2, <2>3, <3>2, <3>7
      <4>3. Settles(q \o new, j, v, t, l)
        BY <3>3, <3>4, <4>1, <4>2, AnnouncedSettles
      <4> QED
        BY <3>1, <3>2, <4>3
    <3>8. CASE /\ ~v /\ Silent(notes, j) /\ Draws(notes, j)
               /\ \A b \in Apps :
                    /\ \A n \in DOMAIN windows[b] : windows[b][n].id = j => ~windows[b][n].topped
                    /\ \A n \in DOMAIN letters[b] : letters[b][n].id # j
      <4>1. ~v /\ Silent(new, j) /\ Draws(new, j)
        BY <3>1, <3>8
      <4>2. windows[a][k].id = j
        BY <2>2 DEF Newest
      <4>3. ~t /\ \A n \in DOMAIN q : q[n].id # j
        BY <3>2, <3>8, <4>2
      <4>4. Settles(q \o new, j, v, t, l)
        BY <3>3, <3>4, <4>1, <4>3, AnnouncedSettles
      <4> QED
        BY <3>1, <3>2, <4>4
    <3> QED
      BY <3>5, <3>6, <3>7, <3>8 DEF Announced
  <2> QED
    BY <2>1, <2>2, <2>3
<1> QED
  BY <1>2, <1>3, <1>4 DEF TitlesInv

\* The invariant after a step of the server: D are its windows then, t says which
\* of them are topped, and o is their order.
LEMMA ServerStep ==
  ASSUME TitlesInv, NEW D \in SUBSET DOMAIN win, DESKTOP_WINDOW \in D, NEW t \in [D -> BOOLEAN],
         DOMAIN win' = D, \A j \in D : win'[j] = [win[j] EXCEPT !.topped = t[j]],
         NEW o, order' = o, Stacked(o, D),
         NEW notes, AreNotes(notes), Send(notes), windows' = windows, look' = look,
         \A j \in ToSet(o) : t[j] => j = Head(o),
         \A j \in ToSet(o) \ {DESKTOP_WINDOW} :
           win[j].kind = "normal" => Announced(notes, j, t[j])
  PROVE  TitlesInv'
<1>1. /\ DOMAIN win \subseteq WinId \union {DESKTOP_WINDOW}
      /\ \A i \in DOMAIN win :
           /\ win[i] \in [owner : Apps \union {Server}, kind : {"desktop", "normal", "dialog"},
                          topped : BOOLEAN]
           /\ win[i].kind = "desktop" <=> i = DESKTOP_WINDOW
           /\ win[i].owner = Server <=> i = DESKTOP_WINDOW
  BY DEF TitlesInv, WindowsAreTyped
<1>4. \A j \in D :
        /\ win'[j] \in [owner : Apps \union {Server}, kind : {"desktop", "normal", "dialog"},
                        topped : BOOLEAN]
        /\ win'[j].owner = win[j].owner /\ win'[j].kind = win[j].kind /\ win'[j].topped = t[j]
  BY <1>1
<1>5. WindowsAreTyped'
  BY <1>1, <1>4 DEF WindowsAreTyped, DESKTOP_WINDOW
<1>6. OrderIsKept'
  BY DEF OrderIsKept, Stacked, DESKTOP_WINDOW
<1>7. Open' = ToSet(o) /\ ToSet(o) \subseteq D
  BY DEF Open, Stacked, ToSet
<1>8. Led'
  <2> SUFFICES ASSUME NEW i \in ToSet(o), win'[i].topped
               PROVE  i = Head(o)
    BY <1>7 DEF Led, IsTopped, Foremost
  <2>1. t[i]
    BY <1>4, <1>7
  <2> QED
    BY <2>1
<1>9. \A j \in Open' \ {DESKTOP_WINDOW} :
        win[j].kind = "normal" => Announced(notes, j, win'[j].topped)
  <2> SUFFICES ASSUME NEW j \in ToSet(o) \ {DESKTOP_WINDOW}, win[j].kind = "normal"
               PROVE  Announced(notes, j, win'[j].topped)
    BY <1>7
  <2>1. win'[j].topped = t[j]
    BY <1>4, <1>7
  <2> QED
    BY <2>1
<1> QED
  BY <1>4, <1>5, <1>6, <1>8, <1>9, SendKeeps

\* What two sequences of messages say together.
LEMMA TogetherSay ==
  ASSUME NEW p, NEW q, AreNotes(p), AreNotes(q)
  PROVE  /\ AreNotes(p \o q)
         /\ \A i : Silent(p, i) /\ Silent(q, i) => Silent(p \o q, i)
         /\ \A i, v : Told(q, i, v) => Told(p \o q, i, v)
         /\ \A i, v : Told(p, i, v) /\ Silent(q, i) => Told(p \o q, i, v)
<1>1. PICK X : X = Message
  OBVIOUS
<1>2. p \in Seq(X) /\ q \in Seq(X)
  BY <1>1 DEF AreNotes
<1>3. \A i : Silent(p, i) /\ Silent(q, i) => Silent(p \o q, i)
  BY <1>2, JoinSilent
<1>4. \A i, v : Told(q, i, v) => Told(p \o q, i, v)
  BY <1>2, ToldLast
<1>5. \A i, v : Told(p, i, v) /\ Silent(q, i) => Told(p \o q, i, v)
  BY <1>2, ToldFirst
<1> QED
  BY <1>3, <1>4, <1>5, NotesJoin

\* A window that is topped no more, and one that is now.
LEMMA UntopIs ==
  ASSUME WindowsAreTyped, NEW i \in DOMAIN win
  PROVE  /\ AreNotes(Untop(i)) /\ Told(Untop(i), i, FALSE)
         /\ AreNotes(Newtop(i)) /\ Told(Newtop(i), i, TRUE)
         /\ \A j : j # i => Silent(Untop(i), j) /\ Silent(Newtop(i), j)
<1>1. win[i].owner \in Apps \union {Server}
  BY DEF WindowsAreTyped
<1>2. PICK q : q = Untop(i)
  OBVIOUS
<1>3. q = Note(IF FALSE THEN "WM_NEWTOP" ELSE "WM_UNTOPPED", i) \o Note("WM_EREDRAW", i)
  BY <1>2 DEF Untop
<1>4. AreNotes(q) /\ Told(q, i, FALSE) /\ \A j : j # i => Silent(q, j)
  BY <1>1, <1>3, TellIs DEF Redraw
<1>5. PICK r : r = Newtop(i)
  OBVIOUS
<1>6. r = Note(IF TRUE THEN "WM_NEWTOP" ELSE "WM_UNTOPPED", i) \o Note("WM_EREDRAW", i)
  BY <1>5 DEF Newtop
<1>7. AreNotes(r) /\ Told(r, i, TRUE) /\ \A j : j # i => Silent(r, j)
  BY <1>1, <1>6, TellIs DEF Redraw
<1>8. AreNotes(Untop(i)) /\ Told(Untop(i), i, FALSE)
  BY <1>2, <1>4
<1>9. AreNotes(Newtop(i)) /\ Told(Newtop(i), i, TRUE)
  BY <1>5, <1>7
<1>10. \A j : j # i => Silent(Untop(i), j) /\ Silent(Newtop(i), j)
  <2> TAKE j
  <2>1. j # i => Silent(q, j) /\ Silent(r, j)
    BY <1>4, <1>7
  <2> QED
    BY <1>2, <1>5, <2>1
<1> QED
  BY <1>8, <1>9, <1>10

\* An order of some windows is one of more.
LEMMA StackedGrows ==
  ASSUME NEW S, NEW T \in SUBSET S, NEW o, Stacked(o, T)
  PROVE  /\ Stacked(o, S) /\ Head(o) = o[1] /\ o[1] \in ToSet(o)
         /\ Len(o) \in Nat \ {0} /\ ToSet(o) \subseteq S
         /\ Head(o) # DESKTOP_WINDOW => Len(o) >= 2
<1>1. o \in Seq(S) /\ o \in Seq(T) /\ o # <<>> /\ o[Len(o)] = DESKTOP_WINDOW
  BY DEF Stacked
<1>2. Len(o) \in Nat \ {0} /\ DOMAIN o = 1 .. Len(o) /\ Head(o) = o[1]
  BY <1>1
<1>3. ToSet(o) \subseteq S /\ o[1] \in ToSet(o)
  BY <1>1, <1>2 DEF ToSet
<1>4. Head(o) # DESKTOP_WINDOW => Len(o) >= 2
  BY <1>1, <1>2
<1> QED
  BY <1>1, <1>2, <1>3, <1>4 DEF Stacked

\* What holds of the order and the windows in every state of the invariant.
LEMMA StateIs ==
  ASSUME TitlesInv
  PROVE  /\ WindowsAreTyped /\ OrderIsKept /\ Stacked(order, DOMAIN win)
         /\ Open = ToSet(order) /\ Open \subseteq DOMAIN win /\ Foremost \in Open
         /\ \A i \in DOMAIN win : win[i].topped \in BOOLEAN /\ Kind(i) # "menu"
         /\ \A i \in DOMAIN win : win[i] = [win[i] EXCEPT !.topped = win[i].topped]
         /\ \A i \in Open : win[i].topped => i = Foremost
         /\ DESKTOP_WINDOW \in DOMAIN win /\ Kind(DESKTOP_WINDOW) = "desktop"
<1>1. WindowsAreTyped /\ OrderIsKept /\ Led
  BY DEF TitlesInv
<1>2. Stacked(order, DOMAIN win) /\ Open = ToSet(order)
  BY <1>1 DEF OrderIsKept, Stacked, Open
<1>3. Open \subseteq DOMAIN win /\ Foremost \in Open
  <2>1. Head(order) = order[1] /\ order[1] \in ToSet(order) /\ ToSet(order) \subseteq DOMAIN win
    BY <1>2, StackedGrows
  <2> QED
    BY <1>2, <2>1 DEF Foremost
<1>4. \A i \in DOMAIN win : win[i].topped \in BOOLEAN /\ Kind(i) # "menu"
  BY <1>1 DEF WindowsAreTyped, Kind
<1>5. \A i \in DOMAIN win : win[i] = [win[i] EXCEPT !.topped = win[i].topped]
  BY <1>1 DEF WindowsAreTyped
<1>6. \A i \in Open : win[i].topped => i = Foremost
  BY <1>1 DEF Led, IsTopped
<1>7. DESKTOP_WINDOW \in DOMAIN win /\ Kind(DESKTOP_WINDOW) = "desktop"
  BY <1>1 DEF WindowsAreTyped, Kind
<1> QED
  BY <1>1, <1>2, <1>3, <1>4, <1>5, <1>6, <1>7

-----------------------------------------------------------------------------
(* The steps.                                                              *)

\* A window opens in front of the others.
LEMMA OpenInFrontKeeps ==
  ASSUME TitlesInv, NEW i \in DOMAIN win \ Open, OpenInFront(i),
         windows' = windows, look' = look
  PROVE  TitlesInv'
<1> DEFINE D == DOMAIN win
           f == Foremost
           t == [j \in D |-> IF j = i THEN TRUE ELSE IF j = f THEN FALSE ELSE win[j].topped]
           own == Note("WM_NEWTOP", i) \o Note("WM_REDRAW", i)
           first == IF Kind(i) = "dialog" THEN <<>> ELSE own
           notes == first \o Untop(f)
<1>1. /\ WindowsAreTyped /\ Stacked(order, D) /\ Open = ToSet(order) /\ Open \subseteq D
      /\ f \in Open /\ DESKTOP_WINDOW \in D /\ DESKTOP_WINDOW \in Open
      /\ \A j \in D : win[j].topped \in BOOLEAN /\ Kind(j) # "menu"
      /\ \A j \in D : win[j] = [win[j] EXCEPT !.topped = win[j].topped]
      /\ \A j \in Open : win[j].topped => j = f
  <2>1. DESKTOP_WINDOW \in ToSet(order)
    BY DEF TitlesInv, OrderIsKept, ToSet
  <2> QED
    BY <2>1, StateIs
<1>2. t \in [D -> BOOLEAN]
  BY <1>1
<1>3. DOMAIN win' = D /\ \A j \in D : win'[j] = [win[j] EXCEPT !.topped = t[j]]
  <2>1. win' = [win EXCEPT ![i].topped = TRUE, ![f].topped = FALSE] /\ i # f
    BY <1>1 DEF OpenInFront
  <2>2. \A j \in D : win'[j] = IF j = i THEN [win[j] EXCEPT !.topped = TRUE]
                              ELSE IF j = f THEN [win[j] EXCEPT !.topped = FALSE]
                              ELSE win[j]
    BY <1>1, <2>1
  <2> QED
    BY <1>1, <2>1, <2>2
<1>4. PICK o : o = order'
  OBVIOUS
<1>5. o = <<i>> \o order
  BY <1>4 DEF OpenInFront
<1>6. Stacked(o, D) /\ ToSet(o) = Open \union {i} /\ Head(o) = i
  BY <1>1, <1>5, FirstIs
<1>7. Send(notes)
  BY <1>1 DEF OpenInFront
<1>8. AreNotes(own) /\ Told(own, i, TRUE) /\ \A j : j # i => Silent(own, j)
  <2>1. PICK q : q = own
    OBVIOUS
  <2>2. q = Note(IF TRUE THEN "WM_NEWTOP" ELSE "WM_UNTOPPED", i) \o Note("WM_REDRAW", i)
    BY <2>1
  <2>3. win[i].owner \in Apps \union {Server}
    BY <1>1 DEF WindowsAreTyped
  <2>4. AreNotes(q) /\ Told(q, i, TRUE) /\ \A j : j # i => Silent(q, j)
    BY <2>2, <2>3, TellIs DEF Redraw
  <2> QED
    BY <2>1, <2>4
<1> HIDE DEF own
<1>9. AreNotes(first) /\ (Kind(i) # "dialog" => Told(first, i, TRUE))
      /\ \A j : j # i => Silent(first, j)
  BY <1>8, NoNotes
<1>10. AreNotes(Untop(f)) /\ Told(Untop(f), f, FALSE) /\ \A j : j # f => Silent(Untop(f), j)
  BY <1>1, UntopIs
<1> HIDE DEF first
<1>11. AreNotes(notes)
  BY <1>9, <1>10, TogetherSay
<1>12. ASSUME NEW j \in ToSet(o) \ {DESKTOP_WINDOW}, win[j].kind = "normal"
       PROVE  Announced(notes, j, t[j])
  <2>1. CASE j = i
    <3>1. Told(first, i, TRUE) /\ Silent(Untop(f), i)
      BY <1>1, <1>9, <1>10, <1>12, <2>1 DEF Kind
    <3>2. Told(notes, i, TRUE)
      BY <1>9, <1>10, <3>1, TogetherSay
    <3>3. t[i] = TRUE
      OBVIOUS
    <3> QED
      BY <2>1, <3>2, <3>3 DEF Announced
  <2>2. CASE j = f
    <3>1. Told(notes, f, FALSE)
      BY <1>9, <1>10, TogetherSay
    <3>2. t[f] = FALSE
      BY <1>1
    <3> QED
      BY <2>2, <3>1, <3>2 DEF Announced
  <2>3. CASE j # i /\ j # f
    <3>1. Silent(notes, j)
      BY <1>9, <1>10, <2>3, TogetherSay
    <3>2. t[j] = win[j].topped /\ j \in Open
      BY <1>1, <1>6, <1>12, <2>3
    <3> QED
      BY <3>1, <3>2 DEF Announced, IsTopped
  <2> QED
    BY <2>1, <2>2, <2>3
<1>13. \A j \in ToSet(o) : t[j] => j = Head(o)
  BY <1>1, <1>6
<1> HIDE DEF D, t, notes
<1> QED
  BY <1>1, <1>2, <1>3, <1>4, <1>6, <1>7, <1>11, <1>12, <1>13, ServerStep DEF D

\* A window opens under a dialog.
LEMMA OpenUnderKeeps ==
  ASSUME TitlesInv, Liberty = {}, NEW i \in DOMAIN win \ Open, OpenUnder(i),
         windows' = windows, look' = look
  PROVE  TitlesInv'
<1> DEFINE D == DOMAIN win
           t == [j \in D |-> IF j = i THEN FALSE ELSE win[j].topped]
           notes == IF Kind(i) = "dialog" THEN <<>> ELSE Note("WM_REDRAW", i)
<1>1. /\ WindowsAreTyped /\ Stacked(order, D) /\ Open = ToSet(order) /\ Open \subseteq D
      /\ Foremost \in Open /\ DESKTOP_WINDOW \in D /\ Kind(DESKTOP_WINDOW) = "desktop"
      /\ \A j \in D : win[j].topped \in BOOLEAN
      /\ \A j \in D : win[j] = [win[j] EXCEPT !.topped = win[j].topped]
      /\ \A j \in Open : win[j].topped => j = Foremost
  BY StateIs
<1>2. t \in [D -> BOOLEAN]
  BY <1>1
<1>3. DOMAIN win' = D /\ \A j \in D : win'[j] = [win[j] EXCEPT !.topped = t[j]]
  <2>1. win' = [win EXCEPT ![i].topped = FALSE]
    BY DEF OpenUnder
  <2>2. \A j \in D : win'[j] = IF j = i THEN [win[j] EXCEPT !.topped = FALSE] ELSE win[j]
    BY <1>1, <2>1
  <2> QED
    BY <1>1, <2>1, <2>2
<1>4. PICK o : o = order'
  OBVIOUS
<1>5. 2 \in 1 .. Len(order)
  <2>1. Head(order) # DESKTOP_WINDOW
    BY <1>1 DEF OpenUnder, Foremost
  <2> QED
    BY <1>1, <2>1, StackedGrows
<1>6. Stacked(o, D) /\ ToSet(o) = Open \union {i} /\ Head(o) = Foremost
  <2>1. o = InsertAt(order, 2, i)
    BY <1>4 DEF OpenUnder
  <2> QED
    BY <1>1, <1>5, <2>1, InsertIs DEF Foremost
<1>7. Send(notes)
  BY DEF OpenUnder
<1>8. /\ AreNotes(notes) /\ \A j : Silent(notes, j)
      /\ Kind(i) # "dialog" => Draws(notes, i)
  <2>1. win[i].owner \in Apps \union {Server}
    BY <1>1 DEF WindowsAreTyped
  <2>2. /\ AreNotes(Note("WM_REDRAW", i)) /\ Draws(Note("WM_REDRAW", i), i)
        /\ \A j : Silent(Note("WM_REDRAW", i), j)
    BY <2>1, NoteIs DEF Redraw
  <2> QED
    BY <2>2, NoNotes
<1>9. ASSUME NEW j \in ToSet(o) \ {DESKTOP_WINDOW}, win[j].kind = "normal"
      PROVE  Announced(notes, j, t[j])
  <2>1. CASE j = i
    <3>1. \A a \in Apps :
            /\ \A k \in DOMAIN windows[a] : windows[a][k].id = i => ~windows[a][k].topped
            /\ \A k \in DOMAIN letters[a] : letters[a][k].id # i
      BY DEF OpenUnder, MayOpenUnder
    <3>2. ~t[i] /\ Draws(notes, i) /\ Silent(notes, i)
      BY <1>8, <1>9, <2>1 DEF Kind
    <3> QED
      BY <2>1, <3>1, <3>2 DEF Announced
  <2>2. CASE j # i
    <3>1. t[j] = win[j].topped /\ j \in Open
      BY <1>1, <1>6, <1>9, <2>2
    <3> QED
      BY <1>8, <3>1 DEF Announced, IsTopped
  <2> QED
    BY <2>1, <2>2
<1>10. \A j \in ToSet(o) : t[j] => j = Head(o)
  BY <1>1, <1>6
<1> HIDE DEF D, t, notes
<1> QED
  BY <1>1, <1>2, <1>3, <1>4, <1>6, <1>7, <1>8, <1>9, <1>10, ServerStep DEF D

\* A window closes, and D are the windows that are left.
LEMMA CloseKeeps ==
  ASSUME TitlesInv, NEW i \in Open \ {DESKTOP_WINDOW}, Close(i),
         NEW D \in SUBSET DOMAIN win, DOMAIN win \ {i} \subseteq D,
         win' = [j \in D |-> Handed(i)[j]],
         windows' = windows, look' = look
  PROVE  TitlesInv'
<1> DEFINE h == Head(Behind(i))
           t == [j \in D |-> IF IsTopped(i) THEN j # i /\ (win[j].topped \/ j = h)
                             ELSE win[j].topped]
           more == Redraws(Behind(i))
           new == IF IsTopped(i) THEN Newtop(h) ELSE <<>>
           notes == more \o new
<1>1. /\ WindowsAreTyped /\ OrderIsKept /\ Open = ToSet(order) /\ Open \subseteq DOMAIN win
      /\ DESKTOP_WINDOW \in D
      /\ \A j \in DOMAIN win : win[j].topped \in BOOLEAN
      /\ \A j \in DOMAIN win : win[j] = [win[j] EXCEPT !.topped = win[j].topped]
      /\ \A j \in Open : win[j].topped => j = Foremost
  BY StateIs
<1>2. t \in [D -> BOOLEAN]
  BY <1>1 DEF IsTopped
<1>3. DOMAIN win' = D /\ \A j \in D : win'[j] = [win[j] EXCEPT !.topped = t[j]]
  <2>1. \A j \in DOMAIN win : Handed(i)[j] =
          [win[j] EXCEPT !.topped = IF IsTopped(i) THEN j # i /\ (win[j].topped \/ j = h)
                                    ELSE win[j].topped]
    BY DEF Handed
  <2> HIDE DEF h
  <2>2. DOMAIN win' = D /\ \A j \in D : win'[j] = Handed(i)[j]
    OBVIOUS
  <2> QED
    BY <2>1, <2>2
<1>4. PICK o : o = order'
  OBVIOUS
<1>5. /\ o = Others(i) /\ Stacked(o, DOMAIN win \ {i}) /\ ToSet(o) = Open \ {i}
      /\ Head(o) = IF i = Foremost THEN order[2] ELSE Foremost
  BY <1>1, <1>4, OthersAre DEF Close
<1>6. Stacked(o, D)
  <2>1. DOMAIN win \ {i} \in SUBSET D
    OBVIOUS
  <2> QED
    BY <1>5, <2>1, StackedGrows
<1>7. /\ Behind(i) \in Seq(DOMAIN win) /\ h \in Open \ {i} /\ h \in DOMAIN win
      /\ i = Foremost => h = order[2]
  BY <1>1, BehindIs
<1>8. Send(notes)
  BY DEF Close
<1> HIDE DEF h
<1>9. AreNotes(more) /\ \A j : Silent(more, j)
  BY <1>1, <1>7, RedrawsAre
<1>10. /\ AreNotes(new)
       /\ IsTopped(i) => Told(new, h, TRUE)
       /\ \A j : j # h \/ ~IsTopped(i) => Silent(new, j)
  BY <1>1, <1>7, UntopIs, NoNotes
<1> HIDE DEF more, new
<1>11. AreNotes(notes)
  BY <1>9, <1>10, TogetherSay
<1>12. ASSUME NEW j \in ToSet(o) \ {DESKTOP_WINDOW}, win[j].kind = "normal"
       PROVE  Announced(notes, j, t[j])
  <2>0. j \in Open /\ j # i /\ j \in D /\ win[j].topped \in BOOLEAN
    BY <1>1, <1>5, <1>12
  <2>1. CASE j = h /\ IsTopped(i)
    <3>1. Told(notes, h, TRUE)
      BY <1>9, <1>10, <2>1, TogetherSay
    <3>2. t[h] = TRUE
      BY <2>0, <2>1
    <3> QED
      BY <2>1, <3>1, <3>2 DEF Announced
  <2>2. CASE j # h \/ ~IsTopped(i)
    <3>1. Silent(notes, j)
      BY <1>9, <1>10, <2>2, TogetherSay
    <3>2. t[j] <=> win[j].topped
      BY <2>0, <2>2
    <3> QED
      BY <2>0, <3>1, <3>2 DEF Announced, IsTopped
  <2> QED
    BY <2>1, <2>2
<1>13. \A j \in ToSet(o) : t[j] => j = Head(o)
  <2> SUFFICES ASSUME NEW j \in ToSet(o), t[j]
               PROVE  j = Head(o)
    OBVIOUS
  <2>1. j \in Open /\ j # i /\ j \in D
    BY <1>1, <1>5
  <2>2. CASE IsTopped(i)
    <3>1. i = Foremost /\ ~win[j].topped
      BY <1>1, <2>1, <2>2 DEF IsTopped
    <3>2. j = h
      BY <2>1, <2>2, <3>1
    <3> QED
      BY <1>5, <1>7, <3>1, <3>2
  <2>3. CASE ~IsTopped(i)
    <3>1. win[j].topped
      BY <2>1, <2>3
    <3>2. j = Foremost
      BY <1>1, <2>1, <3>1
    <3> QED
      BY <1>5, <2>1, <3>2
  <2> QED
    BY <2>2, <2>3
<1> HIDE DEF t, notes
<1>14. \A j \in ToSet(o) \ {DESKTOP_WINDOW} :
         win[j].kind = "normal" => Announced(notes, j, t[j])
  BY <1>12
<1>15. /\ D \in SUBSET DOMAIN win /\ DESKTOP_WINDOW \in D /\ t \in [D -> BOOLEAN]
       /\ DOMAIN win' = D /\ \A j \in D : win'[j] = [win[j] EXCEPT !.topped = t[j]]
       /\ order' = o /\ Stacked(o, D)
       /\ AreNotes(notes) /\ Send(notes) /\ windows' = windows /\ look' = look
  BY <1>1, <1>2, <1>3, <1>4, <1>6, <1>8, <1>11
<1> QED
  BY <1>13, <1>14, <1>15, ServerStep

\* WF_TOP of the desktop.
LEMMA TopDesktopKeeps ==
  ASSUME TitlesInv, TopDesktop
  PROVE  TitlesInv'
<1> DEFINE D == DOMAIN win
           f == Foremost
           t == [j \in D |-> IF j = f THEN FALSE ELSE win[j].topped]
           notes == Untop(f)
<1>1. /\ WindowsAreTyped /\ Stacked(order, D) /\ Open = ToSet(order) /\ Open \subseteq D
      /\ f \in Open /\ DESKTOP_WINDOW \in D
      /\ \A j \in D : win[j].topped \in BOOLEAN
      /\ \A j \in D : win[j] = [win[j] EXCEPT !.topped = win[j].topped]
      /\ \A j \in Open : win[j].topped => j = f
  BY StateIs
<1>2. t \in [D -> BOOLEAN]
  BY <1>1
<1>3. DOMAIN win' = D /\ \A j \in D : win'[j] = [win[j] EXCEPT !.topped = t[j]]
  <2>1. win' = [win EXCEPT ![f].topped = FALSE]
    BY DEF TopDesktop
  <2>2. \A j \in D : win'[j] = IF j = f THEN [win[j] EXCEPT !.topped = FALSE] ELSE win[j]
    BY <1>1, <2>1
  <2> QED
    BY <1>1, <2>1, <2>2
<1>4. PICK o : o = order
  OBVIOUS
<1>5. Send(notes) /\ order' = o /\ windows' = windows /\ look' = look
  BY <1>4 DEF TopDesktop
<1>6. AreNotes(notes) /\ Told(notes, f, FALSE) /\ \A j : j # f => Silent(notes, j)
  BY <1>1, UntopIs
<1> HIDE DEF notes
<1>7. ASSUME NEW j \in ToSet(o) \ {DESKTOP_WINDOW}, win[j].kind = "normal"
      PROVE  Announced(notes, j, t[j])
  <2>1. CASE j = f
    <3>1. t[f] = FALSE
      BY <1>1
    <3> QED
      BY <1>6, <2>1, <3>1 DEF Announced
  <2>2. CASE j # f
    <3>1. t[j] = win[j].topped /\ j \in Open
      BY <1>1, <1>4, <1>7, <2>2
    <3> QED
      BY <1>6, <2>2, <3>1 DEF Announced, IsTopped
  <2> QED
    BY <2>1, <2>2
<1>8. \A j \in ToSet(o) : t[j] => j = Head(o)
  BY <1>1, <1>4
<1> HIDE DEF D, t
<1> QED
  BY <1>1, <1>2, <1>3, <1>4, <1>5, <1>6, <1>7, <1>8, ServerStep DEF D

\* A window comes to the top, or under the dialog that is there.
LEMMA TopKeeps ==
  ASSUME TitlesInv, Liberty = {}, NEW i, top_window(i)
  PROVE  TitlesInv'
<1> DEFINE D == DOMAIN win
           rest == Others(i)
           old == Head(rest)
           tops == Kind(old) # "dialog" /\ ~IsTopped(i)
           t == [j \in D |-> IF tops /\ j = i THEN TRUE
                             ELSE IF tops /\ j = old THEN FALSE ELSE win[j].topped]
           first == IF Kind(old) = "dialog" THEN <<>> ELSE Untop(old)
           second == IF tops THEN Newtop(i) ELSE <<>>
           notes == first \o second
<1>1. /\ WindowsAreTyped /\ OrderIsKept /\ Open = ToSet(order) /\ Open \subseteq D
      /\ Foremost \in Open /\ DESKTOP_WINDOW \in D /\ Kind(DESKTOP_WINDOW) = "desktop"
      /\ \A j \in D : win[j].topped \in BOOLEAN
      /\ \A j \in D : win[j] = [win[j] EXCEPT !.topped = win[j].topped]
      /\ \A j \in Open : win[j].topped => j = Foremost
  BY StateIs
<1>2. i \in Open /\ i # DESKTOP_WINDOW /\ ~(i = Foremost /\ Kind(old) = "dialog")
  BY DEF top_window, MayGoUnder
<1>3. /\ Stacked(rest, D \ {i}) /\ ToSet(rest) = Open \ {i}
      /\ i # Foremost => old = Foremost
  BY <1>1, <1>2, OthersAre
<1>4. old \in Open /\ old # i /\ (Kind(old) = "dialog" => 2 \in 1 .. Len(rest))
  <2>1. D \ {i} \in SUBSET D
    OBVIOUS
  <2>2. Head(rest) = rest[1] /\ rest[1] \in ToSet(rest) /\ Len(rest) \in Nat \ {0}
        /\ (Head(rest) # DESKTOP_WINDOW => Len(rest) >= 2)
    <3> HIDE DEF D, rest
    <3> QED BY <1>3, <2>1, StackedGrows
  <2>3. Kind(old) = "dialog" => old # DESKTOP_WINDOW
    BY <1>1
  <2> QED
    BY <1>3, <2>2, <2>3
<1>5. PICK o : o = order'
  OBVIOUS
<1>6. /\ o = IF Kind(old) = "dialog" THEN InsertAt(rest, 2, i) ELSE <<i>> \o rest
      /\ Send(notes) /\ windows' = windows /\ look' = look
      /\ win' = IF tops THEN [win EXCEPT ![i].topped = TRUE, ![old].topped = FALSE] ELSE win
  BY <1>5 DEF top_window
<1>7. /\ Stacked(o, D) /\ ToSet(o) = Open
      /\ Head(o) = IF Kind(old) = "dialog" THEN old ELSE i
  <2>0. PICK r : r = rest
    OBVIOUS
  <2>1. /\ i \in D /\ D \ {i} \in SUBSET D /\ i \notin ToSet(r) /\ ToSet(r) \union {i} = Open
        /\ Stacked(r, D \ {i}) /\ old = Head(r) /\ (Kind(old) = "dialog" => 2 \in 1 .. Len(r))
    BY <1>1, <1>2, <1>3, <1>4, <2>0
  <2> HIDE DEF D
  <2>2. CASE Kind(old) = "dialog"
    <3>1. o = InsertAt(r, 2, i) /\ 2 \in 1 .. Len(r)
      BY <1>6, <2>0, <2>1, <2>2
    <3>2. Stacked(o, D) /\ ToSet(o) = ToSet(r) \union {i} /\ Head(o) = Head(r)
      <4> HIDE DEF old
      <4> QED BY <2>1, <3>1, InsertIs
    <3> QED
      BY <2>1, <2>2, <3>2
  <2>3. CASE Kind(old) # "dialog"
    <3>1. o = <<i>> \o r
      BY <1>6, <2>0, <2>3
    <3>2. Stacked(o, D) /\ ToSet(o) = ToSet(r) \union {i} /\ Head(o) = i
      <4> HIDE DEF old
      <4> QED BY <2>1, <3>1, FirstIs
    <3> QED
      BY <2>1, <2>3, <3>2
  <2> QED
    BY <2>2, <2>3
<1> HIDE DEF rest, old
<1>8. t \in [D -> BOOLEAN]
  BY <1>1
<1>9. DOMAIN win' = D /\ \A j \in D : win'[j] = [win[j] EXCEPT !.topped = t[j]]
  <2>1. CASE tops
    <3>1. win' = [win EXCEPT ![i].topped = TRUE, ![old].topped = FALSE]
      BY <1>6, <2>1
    <3>2. \A j \in D : win'[j] = IF j = i THEN [win[j] EXCEPT !.topped = TRUE]
                                ELSE IF j = old THEN [win[j] EXCEPT !.topped = FALSE]
                                ELSE win[j]
      BY <1>1, <1>2, <1>4, <3>1
    <3>3. \A j \in D : t[j] = IF j = i THEN TRUE ELSE IF j = old THEN FALSE ELSE win[j].topped
      BY <2>1
    <3> HIDE DEF t
    <3> QED
      BY <1>1, <3>1, <3>2, <3>3
  <2>2. CASE ~tops
    <3>1. win' = win
      BY <1>6, <2>2
    <3>2. \A j \in D : t[j] = win[j].topped
      BY <2>2
    <3> HIDE DEF t
    <3> QED
      BY <1>1, <3>1, <3>2
  <2> QED
    BY <2>1, <2>2
<1>10. /\ AreNotes(first)
       /\ Kind(old) # "dialog" => Told(first, old, FALSE)
       /\ \A j : j # old \/ Kind(old) = "dialog" => Silent(first, j)
  BY <1>1, <1>4, UntopIs, NoNotes
<1>11. /\ AreNotes(second)
       /\ tops => Told(second, i, TRUE)
       /\ \A j : j # i \/ ~tops => Silent(second, j)
  <2> HIDE DEF tops
  <2> QED BY <1>1, <1>2, UntopIs, NoNotes
<1> HIDE DEF first, second
<1>12. AreNotes(notes)
  BY <1>10, <1>11, TogetherSay
<1>13. ASSUME NEW j \in ToSet(o) \ {DESKTOP_WINDOW}, win[j].kind = "normal"
       PROVE  Announced(notes, j, t[j])
  <2>0. j \in Open /\ j \in D /\ win[j].topped \in BOOLEAN
    BY <1>1, <1>7, <1>13
  <2>1. CASE j = i /\ tops
    <3>1. Told(notes, j, TRUE)
      BY <1>10, <1>11, <2>1, TogetherSay
    <3>2. t[j] = TRUE
      BY <2>0, <2>1
    <3> QED
      BY <3>1, <3>2 DEF Announced
  <2>2. CASE j = old /\ Kind(old) # "dialog"
    <3>1. Told(notes, j, FALSE)
      BY <1>4, <1>10, <1>11, <2>2, TogetherSay
    <3>2. CASE tops
      <4>1. t[j] = FALSE
        BY <1>4, <2>0, <2>2, <3>2
      <4> QED
        BY <3>1, <4>1 DEF Announced
    <3>3. CASE ~tops
      <4>1. i = Foremost
        BY <1>1, <1>2, <2>2, <3>3 DEF IsTopped
      <4>2. ~win[j].topped
        BY <1>1, <1>4, <2>0, <2>2, <4>1
      <4>3. t[j] = FALSE
        BY <2>0, <3>3, <4>2
      <4> QED
        BY <3>1, <4>3 DEF Announced
    <3> QED
      BY <3>2, <3>3
  <2>3. CASE ~(j = i /\ tops) /\ ~(j = old /\ Kind(old) # "dialog")
    <3>1. Silent(first, j) /\ Silent(second, j)
      BY <1>10, <1>11, <2>3
    <3>2. Silent(notes, j)
      BY <1>10, <1>11, <3>1, TogetherSay
    <3>3. t[j] = win[j].topped
      BY <2>0, <2>3
    <3> QED
      BY <2>0, <3>2, <3>3 DEF Announced, IsTopped
  <2> QED
    BY <2>1, <2>2, <2>3
<1>14. \A j \in ToSet(o) : t[j] => j = Head(o)
  <2> SUFFICES ASSUME NEW j \in ToSet(o), t[j]
               PROVE  j = Head(o)
    OBVIOUS
  <2>1. j \in Open /\ j \in D
    BY <1>1, <1>7
  <2>2. CASE tops
    <3>1. j = i \/ (j # old /\ win[j].topped)
      BY <2>1, <2>2
    <3>2. CASE j = i
      BY <1>7, <2>2, <3>2
    <3>3. CASE j # i /\ j # old /\ win[j].topped
      <4>1. j = Foremost
        BY <1>1, <2>1, <3>3
      <4> QED
        BY <1>3, <3>3, <4>1
    <3> QED
      BY <3>1, <3>2, <3>3
  <2>3. CASE ~tops
    <3>1. win[j].topped
      BY <2>1, <2>3
    <3>2. j = Foremost
      BY <1>1, <2>1, <3>1
    <3>3. CASE Kind(old) = "dialog"
      BY <1>2, <1>3, <1>7, <3>2, <3>3
    <3>4. CASE Kind(old) # "dialog"
      <4>1. i = Foremost
        BY <1>1, <1>2, <2>3, <3>4 DEF IsTopped
      <4> QED
        BY <1>7, <3>2, <3>4, <4>1
    <3> QED
      BY <3>3, <3>4
  <2> QED
    BY <2>2, <2>3
<1> HIDE DEF D, t, notes
<1>15. \A j \in ToSet(o) \ {DESKTOP_WINDOW} :
         win[j].kind = "normal" => Announced(notes, j, t[j])
  BY <1>13
<1>16. /\ D \in SUBSET DOMAIN win /\ DESKTOP_WINDOW \in D /\ t \in [D -> BOOLEAN]
       /\ DOMAIN win' = D /\ \A j \in D : win'[j] = [win[j] EXCEPT !.topped = t[j]]
       /\ order' = o /\ Stacked(o, D)
       /\ AreNotes(notes) /\ Send(notes) /\ windows' = windows /\ look' = look
  BY <1>1, <1>5, <1>6, <1>7, <1>8, <1>9, <1>12 DEF D
<1> HIDE DEF D
<1> QED
  BY <1>14, <1>15, <1>16, ServerStep

\* A window goes to the bottom, right before the desktop.
LEMMA BottomKeeps ==
  ASSUME TitlesInv, NEW i, bottom_window(i)
  PROVE  TitlesInv'
<1> DEFINE D == DOMAIN win
           h == Head(Behind(i))
           hands == IsTopped(i) /\ h # DESKTOP_WINDOW
           t == [j \in D |-> IF hands /\ j = i THEN FALSE
                             ELSE IF hands /\ j = h THEN TRUE ELSE win[j].topped]
           more == Redraws(Front(Behind(i)))
           new == IF hands THEN Newtop(h) \o Untop(i) ELSE <<>>
           notes == more \o new
<1>1. /\ WindowsAreTyped /\ OrderIsKept /\ Open = ToSet(order) /\ Open \subseteq D
      /\ Foremost \in Open /\ DESKTOP_WINDOW \in D
      /\ \A j \in D : win[j].topped \in BOOLEAN /\ Kind(j) # "menu"
      /\ \A j \in D : win[j] = [win[j] EXCEPT !.topped = win[j].topped]
      /\ \A j \in Open : win[j].topped => j = Foremost
  BY StateIs
<1>2. i \in Open /\ i # DESKTOP_WINDOW
  BY DEF bottom_window
<1>3. /\ Behind(i) \in Seq(D) /\ Behind(i) # <<>> /\ h \in Open \ {i}
      /\ h = order[Position(i) + 1]
  BY <1>1, <1>2, BehindIs
<1>4. /\ Stacked(Others(i), D \ {i}) /\ ToSet(Others(i)) = Open \ {i}
      /\ Len(Others(i)) = Len(order) - 1
      /\ Head(Others(i)) = IF i = Foremost THEN order[2] ELSE Foremost
  BY <1>1, <1>2, OthersAre
<1>5. Kind(h) # "menu"
  BY <1>1, <1>3
<1>6. /\ order' = InsertAt(Others(i), Len(order) - 1, i)
      /\ win' = IF hands THEN [win EXCEPT ![h].topped = TRUE, ![i].topped = FALSE] ELSE win
      /\ Send(notes) /\ windows' = windows /\ look' = look
  BY <1>5 DEF bottom_window
<1>7. /\ Position(i) \in 1 .. Len(order) /\ Position(i) # Len(order) /\ Len(order) \in Nat
      /\ i = Foremost <=> Position(i) = 1
      /\ order[Len(order)] = DESKTOP_WINDOW
  <2>1. order[Len(order)] = DESKTOP_WINDOW
    BY <1>1 DEF OrderIsKept
  <2> QED
    BY <1>1, <1>2, <2>1, PositionIs
<1> HIDE DEF h
<1>8. /\ i = Foremost => h = order[2]
      /\ i = Foremost /\ h # DESKTOP_WINDOW => Len(order) - 1 # 1
      /\ i # Foremost => Len(order) - 1 # 1
  BY <1>3, <1>7
<1>9. PICK o : o = order'
  OBVIOUS
<1>10. /\ Stacked(o, D) /\ ToSet(o) = Open
       /\ Head(o) = IF Len(order) - 1 = 1 THEN i ELSE Head(Others(i))
  <2>1. PICK p, r : p = Len(order) - 1 /\ r = Others(i)
    OBVIOUS
  <2>2. /\ i \in D /\ D \ {i} \in SUBSET D /\ i \notin ToSet(r) /\ ToSet(r) \union {i} = Open
        /\ Stacked(r, D \ {i}) /\ p \in 1 .. Len(r) /\ o = InsertAt(r, p, i)
    BY <1>1, <1>2, <1>4, <1>6, <1>7, <1>9, <2>1
  <2>3. Stacked(o, D) /\ ToSet(o) = ToSet(r) \union {i} /\ Head(o) = IF p = 1 THEN i ELSE Head(r)
    <3> HIDE DEF D
    <3> QED BY <2>2, InsertIs
  <2> QED
    BY <2>1, <2>2, <2>3
<1>11. t \in [D -> BOOLEAN]
  BY <1>1
<1>12. DOMAIN win' = D /\ \A j \in D : win'[j] = [win[j] EXCEPT !.topped = t[j]]
  <2>1. CASE hands
    <3>1. win' = [win EXCEPT ![h].topped = TRUE, ![i].topped = FALSE]
      BY <1>6, <2>1
    <3>2. \A j \in D : win'[j] = IF j = i THEN [win[j] EXCEPT !.topped = FALSE]
                                ELSE IF j = h THEN [win[j] EXCEPT !.topped = TRUE]
                                ELSE win[j]
      BY <1>1, <1>2, <1>3, <3>1
    <3>3. \A j \in D : t[j] = IF j = i THEN FALSE ELSE IF j = h THEN TRUE ELSE win[j].topped
      BY <2>1
    <3> HIDE DEF t
    <3> QED
      BY <1>1, <3>1, <3>2, <3>3
  <2>2. CASE ~hands
    <3>1. win' = win
      BY <1>6, <2>2
    <3>2. \A j \in D : t[j] = win[j].topped
      BY <2>2
    <3> HIDE DEF t
    <3> QED
      BY <1>1, <3>1, <3>2
  <2> QED
    BY <2>1, <2>2
<1>13. AreNotes(more) /\ \A j : Silent(more, j)
  <2>1. PICK b, n : b = Behind(i) /\ n = Len(b)
    OBVIOUS
  <2>2. n - 1 \in Int /\ 1 \in Int /\ \A k \in 1 .. n - 1 : b[k] \in D
    BY <1>3, <2>1
  <2>3. SubSeq(b, 1, n - 1) \in Seq(D)
    BY <2>2, SubSeqProperties
  <2>4. Front(Behind(i)) \in Seq(D)
    BY <2>1, <2>3 DEF Front
  <2> QED
    BY <1>1, <2>4, RedrawsAre
<1>14. /\ AreNotes(new)
       /\ hands => Told(new, h, TRUE) /\ Told(new, i, FALSE)
       /\ \A j : (j # h /\ j # i) \/ ~hands => Silent(new, j)
  <2> HIDE DEF hands
  <2>1. /\ AreNotes(Newtop(h)) /\ Told(Newtop(h), h, TRUE)
        /\ \A j : j # h => Silent(Newtop(h), j)
    BY <1>1, <1>3, UntopIs
  <2>2. /\ AreNotes(Untop(i)) /\ Told(Untop(i), i, FALSE)
        /\ \A j : j # i => Silent(Untop(i), j)
    BY <1>1, <1>2, UntopIs
  <2>3. PICK both : both = Newtop(h) \o Untop(i)
    OBVIOUS
  <2>4. /\ AreNotes(both) /\ Told(both, h, TRUE) /\ Told(both, i, FALSE)
        /\ \A j : j # h /\ j # i => Silent(both, j)
    <3>1. PICK p, q : p = Newtop(h) /\ q = Untop(i)
      OBVIOUS
    <3>2. /\ AreNotes(p) /\ AreNotes(q) /\ Told(p, h, TRUE) /\ Told(q, i, FALSE) /\ Silent(q, h)
          /\ \A j : j # h /\ j # i => Silent(p, j) /\ Silent(q, j)
      <4>1. AreNotes(p) /\ Told(p, h, TRUE) /\ \A j : j # h => Silent(p, j)
        BY <2>1, <3>1
      <4>2. AreNotes(q) /\ Told(q, i, FALSE) /\ \A j : j # i => Silent(q, j)
        BY <2>2, <3>1
      <4>3. Silent(q, h)
        BY <1>3, <4>2
      <4>4. \A j : j # h /\ j # i => Silent(p, j) /\ Silent(q, j)
        <5> TAKE j
        <5> QED BY <4>1, <4>2
      <4> QED
        BY <4>1, <4>2, <4>3, <4>4, Zenon
    <3>3. both = p \o q
      BY <2>3, <3>1
    <3>4. AreNotes(both)
      BY <3>2, <3>3, TogetherSay
    <3>5. Told(both, h, TRUE)
      BY <3>2, <3>3, TogetherSay
    <3>6. Told(both, i, FALSE)
      BY <3>2, <3>3, TogetherSay
    <3>7. \A j : j # h /\ j # i => Silent(both, j)
      BY <3>2, <3>3, TogetherSay
    <3> QED
      BY <3>4, <3>5, <3>6, <3>7
  <2> QED
    BY <2>3, <2>4, NoNotes
<1> HIDE DEF more, new
<1>15. AreNotes(notes)
  BY <1>13, <1>14, TogetherSay
<1>16. ASSUME NEW j \in ToSet(o) \ {DESKTOP_WINDOW}, win[j].kind = "normal"
       PROVE  Announced(notes, j, t[j])
  <2>0. j \in Open /\ j \in D /\ win[j].topped \in BOOLEAN
    BY <1>1, <1>10, <1>16
  <2>1. CASE j = h /\ hands
    <3>1. Told(notes, j, TRUE)
      BY <1>13, <1>14, <2>1, TogetherSay
    <3>2. t[j] = TRUE
      BY <1>3, <2>0, <2>1
    <3> QED
      BY <3>1, <3>2 DEF Announced
  <2>2. CASE j = i /\ hands
    <3>1. Told(notes, j, FALSE)
      BY <1>13, <1>14, <2>2, TogetherSay
    <3>2. t[j] = FALSE
      BY <2>0, <2>2
    <3> QED
      BY <3>1, <3>2 DEF Announced
  <2>3. CASE (j # h /\ j # i) \/ ~hands
    <3>1. Silent(notes, j)
      BY <1>13, <1>14, <2>3, TogetherSay
    <3>2. t[j] = win[j].topped
      BY <2>0, <2>3
    <3> QED
      BY <2>0, <3>1, <3>2 DEF Announced, IsTopped
  <2> QED
    BY <2>1, <2>2, <2>3
<1>17. \A j \in ToSet(o) : t[j] => j = Head(o)
  <2> SUFFICES ASSUME NEW j \in ToSet(o), t[j]
               PROVE  j = Head(o)
    OBVIOUS
  <2>1. j \in Open /\ j \in D
    BY <1>1, <1>10
  <2>2. CASE hands
    <3>1. i = Foremost /\ Head(o) = h
      BY <1>1, <1>2, <1>4, <1>8, <1>10, <2>2 DEF IsTopped
    <3>2. j # i
      BY <2>1, <2>2
    <3>3. j = h \/ win[j].topped
      BY <2>1, <2>2, <3>2
    <3> QED
      BY <1>1, <2>1, <3>1, <3>2, <3>3
  <2>3. CASE ~hands
    <3>1. win[j].topped
      BY <2>1, <2>3
    <3>2. j = Foremost
      BY <1>1, <2>1, <3>1
    <3>3. CASE i = Foremost
      <4>1. h = DESKTOP_WINDOW /\ h = order[2]
        BY <1>8, <2>3, <3>1, <3>2, <3>3 DEF IsTopped
      <4>2. Len(order) - 1 = 1
        <5>1. Len(order) = 2
          <6>1. PICK n : n = Len(order)
            OBVIOUS
          <6>2. n \in Nat /\ n # 1 /\ n # 0 /\ order[n] = order[2]
            BY <1>7, <3>3, <4>1, <6>1
          <6>3. DOMAIN order = 1 .. n
            BY <1>1, <6>1 DEF OrderIsKept
          <6>4. 2 \in DOMAIN order /\ n \in DOMAIN order
            BY <6>2, <6>3
          <6> QED
            BY <1>1, <6>1, <6>2, <6>4 DEF OrderIsKept, Once
        <5> QED
          BY <5>1
      <4> QED
        BY <1>10, <3>2, <3>3, <4>2
    <3>4. CASE i # Foremost
      BY <1>4, <1>8, <1>10, <3>2, <3>4
    <3> QED
      BY <3>3, <3>4
  <2> QED
    BY <2>2, <2>3
<1> HIDE DEF D, t, notes
<1>18. \A j \in ToSet(o) \ {DESKTOP_WINDOW} :
         win[j].kind = "normal" => Announced(notes, j, t[j])
  BY <1>16
<1>19. /\ D \in SUBSET DOMAIN win /\ DESKTOP_WINDOW \in D /\ t \in [D -> BOOLEAN]
       /\ DOMAIN win' = D /\ \A j \in D : win'[j] = [win[j] EXCEPT !.topped = t[j]]
       /\ order' = o /\ Stacked(o, D)
       /\ AreNotes(notes) /\ Send(notes) /\ windows' = windows /\ look' = look
  BY <1>1, <1>6, <1>9, <1>10, <1>11, <1>12, <1>15 DEF D
<1> HIDE DEF D
<1> QED
  BY <1>17, <1>18, <1>19, ServerStep

\* A new window: no message is about it, and its structure is the newest.
LEMMA CreateKeeps ==
  ASSUME TitlesInv, Liberty = {}, NEW a \in Apps, NEW i \in WinId, NEW kind \in Kinds,
         Wind_do_create(a, i, kind)
  PROVE  TitlesInv'
<1>1. /\ WindowsAreTyped /\ OrderIsKept /\ LibraryIsTyped /\ Led /\ LettersAreOwn
      /\ TitlesSettle /\ Open \subseteq DOMAIN win
  BY StateIs DEF TitlesInv
<1>2. /\ i \notin DOMAIN win /\ i # DESKTOP_WINDOW /\ kind \in {"normal", "dialog"}
      /\ \A b \in Apps : \A k \in DOMAIN letters[b] : letters[b][k].id # i
      /\ order' = order /\ letters' = letters /\ look' = look \ {i}
      /\ windows' = [windows EXCEPT ![a] = <<Struct(i, kind)>> \o @]
  BY WinIdAssumption DEF Wind_do_create, MayReuse, Kinds, DESKTOP_WINDOW
<1>3. /\ DOMAIN win' = DOMAIN win \union {i}
      /\ win'[i] = [owner |-> a, kind |-> kind, topped |-> FALSE]
      /\ \A j \in DOMAIN win : j # i /\ win'[j] = win[j]
  BY <1>2 DEF Wind_do_create
<1>4. WindowsAreTyped'
  <2>1. /\ DESKTOP_WINDOW \in DOMAIN win /\ DOMAIN win \subseteq WinId \union {DESKTOP_WINDOW}
        /\ \A j \in DOMAIN win :
             /\ win[j] \in [owner : Apps \union {Server}, kind : {"desktop", "normal", "dialog"},
                            topped : BOOLEAN]
             /\ win[j].kind = "desktop" <=> j = DESKTOP_WINDOW
             /\ win[j].owner = Server <=> j = DESKTOP_WINDOW
    BY <1>1 DEF WindowsAreTyped
  <2>2. /\ win'[i] \in [owner : Apps \union {Server}, kind : {"desktop", "normal", "dialog"},
                        topped : BOOLEAN]
        /\ win'[i].kind # "desktop" /\ win'[i].owner # Server
    BY <1>2, <1>3, ServerAssumption
  <2> QED
    BY <1>2, <1>3, <2>1, <2>2 DEF WindowsAreTyped, DESKTOP_WINDOW
<1>5. OrderIsKept'
  <2>1. order \in Seq(DOMAIN win \union {i})
    BY <1>1 DEF OrderIsKept
  <2> QED
    BY <1>1, <1>2, <1>3, <2>1 DEF OrderIsKept, DESKTOP_WINDOW
<1>6. PICK s : s = <<Struct(i, kind)>>
  OBVIOUS
<1>7. s \in Seq(Structure) /\ Len(s) = 1 /\ s[1].id = i /\ (s[1].tree <=> kind = "normal")
  <2>1. PICK r : r = Struct(i, kind)
    OBVIOUS
  <2>2. r \in Structure /\ r.id = i /\ (r.tree <=> kind = "normal")
    BY <2>1 DEF Struct, Structure
  <2> QED
    BY <1>6, <2>1, <2>2
<1>8. PICK q, r : q = windows[a] /\ r = s \o q
  OBVIOUS
<1>9. q \in Seq(Structure) /\ windows \in [Apps -> Seq(Structure)]
  BY <1>1, <1>8 DEF LibraryIsTyped
<1>10. /\ r \in Seq(Structure) /\ 1 \in DOMAIN r /\ r[1] = s[1]
       /\ \A k \in DOMAIN q : 1 + k \in DOMAIN r /\ r[1 + k] = q[k]
       /\ \A k \in DOMAIN r : k = 1 \/ (k - 1 \in DOMAIN q /\ r[k] = q[k - 1])
  <2>1. DOMAIN s = 1 .. 1 /\ 1 \in DOMAIN s
    BY <1>7
  <2>2. PICK X : X = Structure
    OBVIOUS
  <2>3. s \in Seq(X) /\ q \in Seq(X) /\ r = s \o q
    BY <1>7, <1>8, <1>9, <2>2
  <2>4. r \in Seq(X)
    BY <2>3, JoinIs
  <2>5. \A k \in DOMAIN s : k \in DOMAIN r /\ r[k] = s[k]
    BY <2>3, JoinIs
  <2>6. \A k \in DOMAIN q : Len(s) + k \in DOMAIN r /\ r[Len(s) + k] = q[k]
    BY <2>3, JoinIs
  <2>7. \A k \in DOMAIN r :
          \/ k \in DOMAIN s
          \/ k > Len(s) /\ k - Len(s) \in DOMAIN q /\ r[k] = q[k - Len(s)]
    BY <2>3, JoinIs
  <2>8. \A k \in DOMAIN r : k = 1 \/ (k - 1 \in DOMAIN q /\ r[k] = q[k - 1])
    BY <1>7, <2>1, <2>7
  <2> QED
    BY <1>7, <2>1, <2>2, <2>4, <2>5, <2>6, <2>8
<1>11. windows' = [windows EXCEPT ![a] = r]
  BY <1>2, <1>6, <1>8
<1>12. windows' \in [Apps -> Seq(Structure)] /\ windows'[a] = r
       /\ \A b \in Apps : b # a => windows'[b] = windows[b]
  BY <1>9, <1>10, <1>11
<1>13. LibraryIsTyped'
  BY <1>1, <1>2, <1>12 DEF LibraryIsTyped
<1>14. Led'
  BY <1>1, <1>2, <1>3 DEF Led, Open, IsTopped, Foremost
<1>15. LettersAreOwn'
  BY <1>1, <1>2, <1>3 DEF LettersAreOwn
<1>16. TitlesSettle'
  <2> SUFFICES ASSUME NEW j \in DOMAIN win' \ {DESKTOP_WINDOW}, NEW b \in Apps,
                      b = win'[j].owner
               PROVE  \E k \in DOMAIN windows'[b] :
                        /\ Newest(windows'[b], k, j)
                        /\ windows'[b][k].tree <=> win'[j].kind = "normal"
                        /\ j \in Open' /\ win'[j].kind = "normal" =>
                             Settles(letters'[b], j, win'[j].topped, windows'[b][k].topped,
                                     j \in look')
    BY DEF TitlesSettle, DESKTOP_WINDOW
  <2>0. Open' = Open
    BY <1>2 DEF Open
  <2>1. CASE j = i
    <3>1. b = a /\ i \notin Open' /\ (s[1].tree <=> win'[i].kind = "normal")
      <4>1. b = a
        BY <1>3, <2>1
      <4>2. i \notin Open'
        BY <1>1, <1>2, <2>0
      <4>3. s[1].tree <=> win'[i].kind = "normal"
        BY <1>3, <1>7
      <4> QED
        BY <4>1, <4>2, <4>3
    <3>2. Newest(r, 1, i)
      BY <1>7, <1>10 DEF Newest
    <3> QED
      BY <1>10, <1>12, <2>1, <3>1, <3>2
  <2>2. CASE j # i
    <3>1. j \in DOMAIN win \ {DESKTOP_WINDOW} /\ win'[j] = win[j] /\ b = win[j].owner
          /\ (j \in look' <=> j \in look)
      BY <1>2, <1>3, <2>2
    <3>2. PICK k \in DOMAIN windows[b] :
            /\ Newest(windows[b], k, j)
            /\ windows[b][k].tree <=> win[j].kind = "normal"
            /\ j \in Open /\ win[j].kind = "normal" =>
                 Settles(letters[b], j, win[j].topped, windows[b][k].topped, j \in look)
      BY <1>1, <3>1 DEF TitlesSettle
    <3>3. j \in Open' /\ win'[j].kind = "normal" =>
            Settles(letters'[b], j, win'[j].topped, windows[b][k].topped, j \in look')
      BY <1>2, <2>0, <3>1, <3>2 DEF Settles
    <3>4. CASE b = a
      <4>1. PICK l : l = 1 + k
        OBVIOUS
      <4>2. k \in DOMAIN q /\ k \in Nat /\ l \in DOMAIN r /\ r[l] = q[k]
        BY <1>8, <1>9, <1>10, <3>2, <3>4, <4>1
      <4>3. Newest(r, l, j)
        <5>1. r[l].id = j
          BY <1>8, <3>2, <3>4, <4>2 DEF Newest
        <5>2. ASSUME NEW m \in DOMAIN r, m < l
              PROVE  r[m].id # j
          <6>1. CASE m = 1
            BY <1>7, <1>10, <2>2, <6>1
          <6>2. CASE m - 1 \in DOMAIN q /\ r[m] = q[m - 1]
            <7>1. m - 1 < k
              BY <1>10, <4>1, <4>2, <5>2
            <7> QED
              BY <1>8, <3>2, <3>4, <6>2, <7>1 DEF Newest
          <6> QED
            BY <1>10, <6>1, <6>2
        <5> QED
          BY <4>2, <5>1, <5>2 DEF Newest
      <4>4. windows'[b] = r /\ windows[b][k] = r[l]
        BY <1>8, <1>12, <3>4, <4>2
      <4>5. r[l].tree <=> win'[j].kind = "normal"
        BY <3>1, <3>2, <4>4
      <4>6. j \in Open' /\ win'[j].kind = "normal" =>
              Settles(letters'[b], j, win'[j].topped, r[l].topped, j \in look')
        BY <3>3, <4>4
      <4> QED
        BY <4>2, <4>3, <4>4, <4>5, <4>6
    <3>5. CASE b # a
      BY <1>12, <3>1, <3>2, <3>3, <3>5
    <3> QED
      BY <3>4, <3>5
  <2> QED
    BY <2>1, <2>2
<1> QED
  BY <1>4, <1>5, <1>13, <1>14, <1>15, <1>16 DEF TitlesInv

\* What is left of messages when the first of them is read.
LEMMA TailSays ==
  ASSUME NEW X, NEW q \in Seq(X), q # <<>>, NEW j
  PROVE  /\ \A v : Told(q, j, v) /\ ~(q[1].id = j /\ q[1].type \in News) => Told(Tail(q), j, v)
         /\ Silent(q, j) => Silent(Tail(q), j)
         /\ Draws(q, j) /\ ~(q[1].id = j /\ q[1].type \in Redraw) => Draws(Tail(q), j)
         /\ \A v : Told(q, j, v) /\ q[1].id = j /\ q[1].type \in News =>
              \/ Told(Tail(q), j, v)
              \/ /\ q[1].type = (IF v THEN "WM_NEWTOP" ELSE "WM_UNTOPPED")
                 /\ Silent(Tail(q), j) /\ Draws(Tail(q), j)
<1>1. PICK n : n = Len(q)
  OBVIOUS
<1>2. PICK r : r = Tail(q)
  OBVIOUS
<1>3. /\ n \in Nat \ {0} /\ DOMAIN q = 1 .. n /\ 1 \in DOMAIN q /\ DOMAIN r = 1 .. n - 1
      /\ \A k \in 1 .. n - 1 : r[k] = q[k + 1]
  BY <1>1, <1>2, HeadTailProperties
<1>4. \A k \in DOMAIN q : k = 1 \/ (k - 1 \in DOMAIN r /\ r[k - 1] = q[k])
  <2> SUFFICES ASSUME NEW k \in DOMAIN q, k # 1
               PROVE  k - 1 \in DOMAIN r /\ r[k - 1] = q[k]
    OBVIOUS
  <2>1. PICK l : l = k - 1
    OBVIOUS
  <2>2. l \in 1 .. n - 1 /\ l + 1 = k
    BY <1>3, <2>1
  <2> QED
    BY <1>3, <2>1, <2>2
<1>5. \A k \in DOMAIN r : k + 1 \in DOMAIN q /\ r[k] = q[k + 1]
  BY <1>3
<1>6. Silent(q, j) => Silent(r, j)
  BY <1>5 DEF Silent
<1>7. Draws(q, j) /\ ~(q[1].id = j /\ q[1].type \in Redraw) => Draws(r, j)
  BY <1>4 DEF Draws
<1>8. ASSUME NEW v, Told(q, j, v)
      PROVE  \/ Told(r, j, v)
             \/ /\ q[1].id = j /\ q[1].type = (IF v THEN "WM_NEWTOP" ELSE "WM_UNTOPPED")
                /\ Silent(r, j) /\ Draws(r, j)
  <2>1. PICK k \in DOMAIN q, d \in DOMAIN q :
          /\ k < d
          /\ q[k].id = j /\ q[k].type = (IF v THEN "WM_NEWTOP" ELSE "WM_UNTOPPED")
          /\ q[d].id = j /\ q[d].type \in Redraw
          /\ \A l \in DOMAIN q : k < l => ~(q[l].id = j /\ q[l].type \in News)
    BY <1>8 DEF Told
  <2>2. PICK e : e = d - 1
    OBVIOUS
  <2>3. e \in DOMAIN r /\ r[e] = q[d]
    BY <1>3, <1>4, <2>1, <2>2
  <2>4. CASE k = 1
    <3>1. Silent(r, j)
      BY <1>3, <1>5, <2>1, <2>4 DEF Silent
    <3>2. Draws(r, j)
      BY <2>1, <2>3 DEF Draws
    <3> QED
      BY <2>1, <2>4, <3>1, <3>2
  <2>5. CASE k # 1
    <3>1. PICK m : m = k - 1
      OBVIOUS
    <3>2. m \in DOMAIN r /\ r[m] = q[k] /\ m < e
      BY <1>3, <1>4, <2>1, <2>2, <2>5, <3>1
    <3>3. \A l \in DOMAIN r : m < l => ~(r[l].id = j /\ r[l].type \in News)
      BY <1>3, <1>5, <2>1, <3>1
    <3> QED
      BY <2>1, <2>3, <3>2, <3>3 DEF Told
  <2> QED
    BY <2>4, <2>5
<1>9. \A v : (IF v THEN "WM_NEWTOP" ELSE "WM_UNTOPPED") \in News
  BY DEF News
<1> QED
  BY <1>2, <1>6, <1>7, <1>8, <1>9

\* An application reads a message.
LEMMA EvntKeeps ==
  ASSUME TitlesInv, NEW a \in Apps, Evnt_do_multi(a)
  PROVE  TitlesInv'
<1>1. /\ WindowsAreTyped /\ OrderIsKept /\ LibraryIsTyped /\ Led /\ LettersAreOwn
      /\ TitlesSettle /\ Open \subseteq DOMAIN win
  BY StateIs DEF TitlesInv
<1>2. PICK q, m : q = letters[a] /\ m = Head(q)
  OBVIOUS
<1>3. /\ q # <<>> /\ letters' = [letters EXCEPT ![a] = Tail(q)] /\ win' = win /\ order' = order
      /\ Wind_newtop(a, m) \/ Wind_redraw_elements(a, m)
  BY <1>2 DEF Evnt_do_multi
<1>4. letters \in [Apps -> Seq(Letter)] /\ windows \in [Apps -> Seq(Structure)]
  BY <1>1 DEF LibraryIsTyped
<1>5. q \in Seq(Letter) /\ m = q[1] /\ 1 \in DOMAIN q /\ Tail(q) \in Seq(Letter)
  BY <1>2, <1>3, <1>4
<1>6. PICK w, k0 : w = windows[a] /\ k0 = find_window_struct(a, m.id)
  OBVIOUS
<1>7. w \in Seq(Structure)
  BY <1>4, <1>6
<1>8. \/ k0 = 0 /\ \A k \in DOMAIN w : w[k].id # m.id
      \/ k0 # 0 /\ Newest(w, k0, m.id)
  <2>1. 0 \notin DOMAIN w
    BY <1>7
  <2>2. \/ k0 = 0 /\ \A k \in DOMAIN w : w[k].id # m.id
        \/ Newest(w, k0, m.id)
    BY <1>6, <1>7, FindIs
  <2> QED
    BY <2>1, <2>2 DEF Newest
<1>9. PICK news : news = (m.type = "WM_NEWTOP")
  OBVIOUS
<1>10. PICK x : x = windows'[a]
  OBVIOUS
<1>11. /\ windows' \in [Apps -> Seq(Structure)] /\ \A b \in Apps : b # a => windows'[b] = windows[b]
       /\ DOMAIN x = DOMAIN w
       /\ \A k \in DOMAIN w :
            /\ x[k].id = w[k].id /\ x[k].tree = w[k].tree
            /\ x[k].topped = IF m.type \in News /\ k = k0 THEN news ELSE w[k].topped
  <2>1. CASE windows' = windows /\ (m.type \notin News \/ k0 = 0)
    <3>1. 0 \notin DOMAIN w
      BY <1>7
    <3> QED
      BY <1>4, <1>6, <1>10, <2>1, <3>1
  <2>2. CASE windows' = [windows EXCEPT ![a][k0].topped = news] /\ m.type \in News /\ k0 # 0
    <3>1. k0 \in DOMAIN w /\ w[k0] \in Structure /\ news \in BOOLEAN
      BY <1>7, <1>8, <1>9, <2>2 DEF Newest
    <3>2. PICK e : e = [w[k0] EXCEPT !.topped = news]
      OBVIOUS
    <3>3. e \in Structure /\ e.id = w[k0].id /\ e.tree = w[k0].tree /\ e.topped = news
      BY <3>1, <3>2 DEF Structure
    <3>4. x = [w EXCEPT ![k0] = e]
      BY <1>4, <1>6, <1>10, <2>2, <3>2
    <3>5. x \in Seq(Structure) /\ DOMAIN x = DOMAIN w
          /\ \A k \in DOMAIN w : x[k] = IF k = k0 THEN e ELSE w[k]
      BY <1>7, <3>1, <3>3, <3>4
    <3>6. windows' = [windows EXCEPT ![a] = x]
      BY <1>4, <1>6, <1>10, <2>2
    <3>7. /\ windows' \in [Apps -> Seq(Structure)]
          /\ \A b \in Apps : b # a => windows'[b] = windows[b]
      BY <1>4, <3>5, <3>6
    <3> QED
      BY <2>2, <3>3, <3>5, <3>7
  <2> QED
    BY <1>3, <1>6, <1>9, <2>1, <2>2 DEF Wind_newtop, Wind_redraw_elements, News
<1>12. /\ letters' \in [Apps -> Seq(Letter)] /\ letters'[a] = Tail(q)
       /\ \A b \in Apps : b # a => letters'[b] = letters[b]
  BY <1>3, <1>4, <1>5
<1>13. \A j : j # m.id => (j \in look' <=> j \in look)
  BY <1>3 DEF Wind_newtop, Wind_redraw_elements
<1>14. LettersAreOwn'
  <2> SUFFICES ASSUME NEW b \in Apps, NEW k \in DOMAIN letters'[b],
                      letters'[b][k].id \in DOMAIN win
               PROVE  win[letters'[b][k].id].owner = b
    BY <1>3 DEF LettersAreOwn
  <2>1. CASE b # a
    BY <1>1, <1>12, <2>1 DEF LettersAreOwn
  <2>2. CASE b = a
    <3>1. PICK l : l = k + 1
      OBVIOUS
    <3>2. l \in DOMAIN q /\ Tail(q)[k] = q[l]
      BY <1>3, <1>5, <1>12, <2>2, <3>1, HeadTailProperties
    <3> QED
      BY <1>1, <1>2, <1>12, <2>2, <3>2 DEF LettersAreOwn
  <2> QED
    BY <2>1, <2>2
<1>15. TitlesSettle'
  <2> SUFFICES ASSUME NEW j \in DOMAIN win \ {DESKTOP_WINDOW}, NEW b \in Apps, b = win[j].owner
               PROVE  \E k \in DOMAIN windows'[b] :
                        /\ Newest(windows'[b], k, j)
                        /\ windows'[b][k].tree <=> win[j].kind = "normal"
                        /\ j \in Open /\ win[j].kind = "normal" =>
                             Settles(letters'[b], j, win[j].topped, windows'[b][k].topped,
                                     j \in look')
    BY <1>3 DEF TitlesSettle, DESKTOP_WINDOW, Open
  <2>1. PICK k \in DOMAIN windows[b] :
          /\ Newest(windows[b], k, j)
          /\ windows[b][k].tree <=> win[j].kind = "normal"
          /\ j \in Open /\ win[j].kind = "normal" =>
               Settles(letters[b], j, win[j].topped, windows[b][k].topped, j \in look)
    BY <1>1 DEF TitlesSettle
  <2>2. CASE b # a
    <3>1. j # m.id
      BY <1>1, <1>2, <1>5, <2>2 DEF LettersAreOwn
    <3>2. j \in Open /\ win[j].kind = "normal" =>
            Settles(letters'[b], j, win[j].topped, windows'[b][k].topped, j \in look')
      BY <1>11, <1>12, <1>13, <2>1, <2>2, <3>1 DEF Settles
    <3> QED
      BY <1>11, <2>1, <2>2, <3>2
  <2>3. CASE b = a
    <3>1. k \in DOMAIN w /\ Newest(w, k, j) /\ (w[k].tree <=> win[j].kind = "normal")
      BY <1>6, <2>1, <2>3
    <3>2. Newest(x, k, j) /\ (x[k].tree <=> win[j].kind = "normal")
      BY <1>11, <3>1 DEF Newest
    <3>3. k0 = k <=> m.id = j
      <4>1. m.id = j => k0 = k
        <5> SUFFICES ASSUME m.id = j
                     PROVE  k0 = k
          OBVIOUS
        <5>1. Newest(w, k0, j)
          BY <1>8, <3>1 DEF Newest
        <5> QED
          BY <1>7, <3>1, <5>1 DEF Newest
      <4>2. k0 = k => m.id = j
        <5>1. k # 0
          BY <1>7, <3>1
        <5> QED
          BY <1>8, <3>1, <5>1 DEF Newest
      <4> QED
        BY <4>1, <4>2
    <3>4. ASSUME j \in Open, win[j].kind = "normal"
          PROVE  Settles(Tail(q), j, win[j].topped, x[k].topped, j \in look')
      <4>0. Settles(q, j, win[j].topped, w[k].topped, j \in look)
        BY <1>2, <1>6, <2>1, <2>3, <3>4
      <4>1. CASE m.type \in News /\ m.id = j
        <5>1. ~Silent(q, j)
          BY <1>5, <4>1 DEF Silent
        <5>2. Told(q, j, win[j].topped)
          BY <4>0, <5>1 DEF Settles
        <5>3. \/ Told(Tail(q), j, win[j].topped)
              \/ /\ m.type = (IF win[j].topped THEN "WM_NEWTOP" ELSE "WM_UNTOPPED")
                 /\ Silent(Tail(q), j) /\ Draws(Tail(q), j)
          BY <1>3, <1>5, <4>1, <5>2, TailSays
        <5>4. x[k].topped = (m.type = "WM_NEWTOP")
          BY <1>9, <1>11, <3>1, <3>3, <4>1
        <5> QED
          BY <5>3, <5>4 DEF Settles
      <4>2. CASE m.id # j
        <5>1. x[k].topped = w[k].topped /\ (j \in look' <=> j \in look)
          BY <1>11, <1>13, <3>1, <3>3, <4>2
        <5>2. /\ Told(q, j, win[j].topped) => Told(Tail(q), j, win[j].topped)
              /\ Silent(q, j) => Silent(Tail(q), j)
              /\ Draws(q, j) => Draws(Tail(q), j)
          BY <1>3, <1>5, <4>2, TailSays
        <5> QED
          BY <4>0, <5>1, <5>2 DEF Settles
      <4>3. CASE m.type \notin News /\ m.id = j
        <5>1. /\ Told(q, j, win[j].topped) => Told(Tail(q), j, win[j].topped)
              /\ Silent(q, j) => Silent(Tail(q), j)
          BY <1>3, <1>5, <4>3, TailSays
        <5>2. x[k].topped = w[k].topped /\ w[k].tree /\ k0 # 0 /\ k0 = k
          BY <1>7, <1>11, <3>1, <3>3, <3>4, <4>3
        <5>3. look' = IF w[k].topped THEN look \union {j} ELSE look \ {j}
          <6>1. Wind_redraw_elements(a, m)
            BY <1>3, <4>3 DEF Wind_newtop, News
          <6> QED
            BY <1>6, <3>4, <4>3, <5>2, <6>1 DEF Wind_redraw_elements
        <5>4. j \in look' <=> w[k].topped
          BY <5>3
        <5> QED
          BY <4>0, <5>1, <5>2, <5>4 DEF Settles
      <4> QED
        BY <4>1, <4>2, <4>3
    <3>5. windows'[b] = x /\ letters'[b] = Tail(q) /\ k \in DOMAIN x
      BY <1>10, <1>11, <1>12, <2>3, <3>1
    <3>6. j \in Open /\ win[j].kind = "normal" =>
            Settles(letters'[b], j, win[j].topped, x[k].topped, j \in look')
      BY <3>4, <3>5
    <3> QED
      BY <3>2, <3>5, <3>6
  <2> QED
    BY <2>2, <2>3
<1>16. WindowsAreTyped' /\ OrderIsKept' /\ Led'
  BY <1>1, <1>3 DEF WindowsAreTyped, OrderIsKept, Led, Open, IsTopped, Foremost, DESKTOP_WINDOW
<1>17. LibraryIsTyped'
  BY <1>11, <1>12 DEF LibraryIsTyped
<1> QED
  BY <1>14, <1>15, <1>16, <1>17 DEF TitlesInv

\* A window that is not open is deleted.
LEMMA DeleteClosedKeeps ==
  ASSUME TitlesInv, NEW i \in DOMAIN win \ {DESKTOP_WINDOW}, i \notin Open,
         win' = [j \in DOMAIN win \ {i} |-> win[j]], UNCHANGED <<order, letters, windows, look>>
  PROVE  TitlesInv'
<1>1. /\ WindowsAreTyped /\ OrderIsKept /\ LibraryIsTyped /\ Led /\ LettersAreOwn
      /\ TitlesSettle /\ Open \subseteq DOMAIN win
  BY StateIs DEF TitlesInv
<1>2. DOMAIN win' = DOMAIN win \ {i} /\ \A j \in DOMAIN win \ {i} : win'[j] = win[j]
  OBVIOUS
<1>3. WindowsAreTyped'
  BY <1>1, <1>2 DEF WindowsAreTyped, DESKTOP_WINDOW
<1>4. OrderIsKept'
  <2>1. PICK n : n = Len(order)
    OBVIOUS
  <2>2. /\ order \in [1 .. n -> DOMAIN win] /\ n \in Nat
        /\ \A k \in 1 .. n : order[k] \in Open
    BY <1>1, <2>1 DEF OrderIsKept, Open, ToSet
  <2>3. \A k \in 1 .. n : order[k] \in DOMAIN win \ {i}
    BY <2>2
  <2>4. order \in [1 .. n -> DOMAIN win \ {i}]
    BY <2>2, <2>3
  <2>5. order \in Seq(DOMAIN win \ {i})
    BY <2>2, <2>4
  <2> QED
    BY <1>1, <1>2, <2>5 DEF OrderIsKept, DESKTOP_WINDOW
<1>5. LibraryIsTyped'
  BY <1>1 DEF LibraryIsTyped
<1>6. Led'
  BY <1>1, <1>2 DEF Led, Open, IsTopped, Foremost
<1>7. LettersAreOwn'
  BY <1>1, <1>2 DEF LettersAreOwn
<1>8. TitlesSettle'
  BY <1>1, <1>2 DEF TitlesSettle, Open, DESKTOP_WINDOW
<1> QED
  BY <1>3, <1>4, <1>5, <1>6, <1>7, <1>8 DEF TitlesInv

-----------------------------------------------------------------------------
(* The theorem.                                                            *)

\* Nothing is wrong at first.
LEMMA TitlesInvInit == TitlesInit => TitlesInv
<1> SUFFICES ASSUME TitlesInit
             PROVE  TitlesInv
  OBVIOUS
<1>1. /\ DOMAIN win = {0} /\ order = <<0>>
      /\ win[0] = [owner |-> Server, kind |-> "desktop", topped |-> FALSE]
  BY DEF TitlesInit, DESKTOP_WINDOW
<1>2. order \in Seq({0}) /\ Len(order) = 1 /\ order[1] = 0 /\ DOMAIN order = {1}
  BY <1>1
<1>3. WindowsAreTyped
  <2>1. win[0] \in [owner : Apps \union {Server}, kind : {"desktop", "normal", "dialog"},
                    topped : BOOLEAN]
    BY <1>1
  <2>2. \A i \in DOMAIN win : i = 0
    BY <1>1
  <2>3. win[0].owner = Server /\ win[0].kind = "desktop"
    BY <1>1
  <2>4. 0 \in DOMAIN win /\ DOMAIN win \subseteq WinId \union {0}
    BY <1>1
  <2> HIDE <1>1
  <2> QED
    BY <2>1, <2>2, <2>3, <2>4, Zenon DEF WindowsAreTyped, DESKTOP_WINDOW
<1>4. OrderIsKept
  BY <1>1, <1>2 DEF OrderIsKept, Once, DESKTOP_WINDOW
<1>5. LibraryIsTyped
  BY DEF TitlesInit, LibraryIsTyped
<1>6. Led
  BY <1>1, <1>2 DEF Led, Open, ToSet, IsTopped
<1>7. LettersAreOwn
  <2>1. \A a \in Apps : DOMAIN letters[a] = {}
    BY DEF TitlesInit
  <2> QED
    BY <2>1 DEF LettersAreOwn
<1>8. TitlesSettle
  BY <1>1 DEF TitlesSettle, DESKTOP_WINDOW
<1> QED
  BY <1>3, <1>4, <1>5, <1>6, <1>7, <1>8 DEF TitlesInv

\* Each step keeps it, where none of the four things happens.
LEMMA TitlesInvNext ==
  ASSUME TitlesInv, Liberty = {}, [TitlesNext]_titleVars
  PROVE  TitlesInv'
<1>1. CASE UNCHANGED titleVars
  BY <1>1 DEF titleVars, TitlesInv, WindowsAreTyped, OrderIsKept, LibraryIsTyped, Led,
              LettersAreOwn, TitlesSettle, Open, IsTopped, Foremost, DESKTOP_WINDOW
<1>2. ASSUME NEW a \in Apps, Evnt_do_multi(a)
      PROVE  TitlesInv'
  BY <1>2, EvntKeeps
<1>3. ASSUME NEW a \in Apps, NEW i \in WinId, NEW kind \in Kinds, Wind_do_create(a, i, kind)
      PROVE  TitlesInv'
  BY <1>3, CreateKeeps
<1>4. ASSUME NEW i \in WinId, srv_wind_open(i)
      PROVE  TitlesInv'
  <2>1. i \in DOMAIN win \ Open /\ windows' = windows /\ look' = look
    BY <1>4 DEF srv_wind_open
  <2>2. CASE OpenInFront(i)
    BY <2>1, <2>2, OpenInFrontKeeps
  <2>3. CASE OpenUnder(i)
    BY <2>1, <2>3, OpenUnderKeeps
  <2> QED
    BY <1>4, <2>2, <2>3 DEF srv_wind_open
<1>5. ASSUME NEW i \in WinId, srv_wind_close(i)
      PROVE  TitlesInv'
  <2>1. /\ i \in Open \ {DESKTOP_WINDOW} /\ Close(i) /\ windows' = windows /\ look' = look
        /\ win' = Handed(i)
    BY <1>5 DEF srv_wind_close
  <2>2. win' = [j \in DOMAIN win |-> Handed(i)[j]]
    BY <2>1 DEF Handed
  <2>3. DOMAIN win \in SUBSET DOMAIN win /\ DOMAIN win \ {i} \subseteq DOMAIN win
    OBVIOUS
  <2> QED
    BY <2>1, <2>2, <2>3, CloseKeeps
<1>6. ASSUME NEW i \in WinId, srv_wind_delete(i)
      PROVE  TitlesInv'
  <2>1. i \in DOMAIN win \ {DESKTOP_WINDOW} /\ windows' = windows /\ look' = look
    BY <1>6 DEF srv_wind_delete
  <2>2. CASE i \in Open
    <3>1. Close(i) /\ win' = [j \in DOMAIN win \ {i} |-> Handed(i)[j]]
      BY <1>6, <2>2 DEF srv_wind_delete
    <3>2. DOMAIN win \ {i} \in SUBSET DOMAIN win
      OBVIOUS
    <3> QED
      BY <2>1, <2>2, <3>1, <3>2, CloseKeeps
  <2>3. CASE i \notin Open
    BY <1>6, <2>1, <2>3, DeleteClosedKeeps DEF srv_wind_delete
  <2> QED
    BY <2>2, <2>3
<1>7. ASSUME NEW i \in WinId, top_window(i)
      PROVE  TitlesInv'
  BY <1>7, TopKeeps
<1>8. ASSUME NEW i \in WinId, bottom_window(i)
      PROVE  TitlesInv'
  BY <1>8, BottomKeeps
<1>9. CASE TopDesktop
  BY <1>9, TopDesktopKeeps
<1> QED
  BY <1>1, <1>2, <1>3, <1>4, <1>5, <1>6, <1>7, <1>8, <1>9 DEF TitlesNext

\* What the invariant says of an application that has read its messages.
LEMMA TitlesInvImplies == TitlesInv => TitlesFollowTheTop
<1> SUFFICES ASSUME TitlesInv, NEW i \in Open \ {DESKTOP_WINDOW}, Kind(i) = "normal",
                    letters[win[i].owner] = <<>>
             PROVE  i \in look <=> IsTopped(i)
  BY DEF TitlesFollowTheTop
<1>1. i \in DOMAIN win \ {DESKTOP_WINDOW} /\ WindowsAreTyped
  BY StateIs
<1>2. win[i].owner \in Apps
  BY <1>1 DEF WindowsAreTyped
<1>3. PICK k \in DOMAIN windows[win[i].owner] :
        Settles(letters[win[i].owner], i, win[i].topped, windows[win[i].owner][k].topped,
                i \in look)
  BY <1>1, <1>2 DEF TitlesInv, TitlesSettle, Kind
<1>4. DOMAIN letters[win[i].owner] = {}
  OBVIOUS
<1> QED
  BY <1>3, <1>4 DEF Settles, Told, Draws, IsTopped

(***************************************************************************)
(* The title bars follow the server: where none of the four things that    *)
(* Liberty names happens, the windows of an application that has read its  *)
(* messages look topped if and only if they are, whatever was opened,      *)
(* closed, topped and deleted before.                                      *)
(***************************************************************************)
THEOREM TitlesAreRight ==
  ASSUME Liberty = {}
  PROVE  TitlesSpec => []TitlesFollowTheTop
<1>1. TitlesInv /\ [TitlesNext]_titleVars => TitlesInv'
  BY TitlesInvNext
<1> QED
  BY <1>1, TitlesInvInit, TitlesInvImplies, PTL DEF TitlesSpec
=============================================================================
