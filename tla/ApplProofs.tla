----------------------------- MODULE ApplProofs -----------------------------
(***************************************************************************)
(* The tables of the applications agree, the desktop has its owner and the *)
(* owners are told, for every number of ids, processes, titles and         *)
(* messages.                                                               *)
(***************************************************************************)
EXTENDS Appl, WellFoundedInduction, TLAPS

-----------------------------------------------------------------------------
(* Lists of ids.                                                           *)

\* a comes before b in a list.
Before(list, a, b) ==
  \E n \in DOMAIN list : list[n] = b /\ \E k \in 1 .. n - 1 : list[k] = a

\* A set of naturals has a least element.
LEMMA LeastExists ==
  ASSUME NEW S \in SUBSET Nat, S # {}
  PROVE  \E m \in S : \A n \in S : m <= n
<1>1. PICK m \in S : \A n \in S : <<n, m>> \notin OpToRel(<, Nat)
  BY WFMin, NatLessThanWellFounded, Zenon
<1>2. \A n \in S : ~ (n < m)
  BY <1>1, Zenon DEF OpToRel
<1>3. \A n \in S : m <= n
  BY <1>2
<1> QED
  BY <1>3

\* Where an entry that is in a list is.
LEMMA PlaceIs ==
  ASSUME NEW list, NEW i, In(i, list)
  PROVE  Place(i, list) \in DOMAIN list /\ list[Place(i, list)] = i
BY DEF In, Place

\* What is left when an entry is taken out: the others, in their order.
LEMMA WithoutIs ==
  ASSUME NEW list \in Seq(Id), NEW i, Distinct(list)
  PROVE  /\ Without(list, i) \in Seq(Id)
         /\ Distinct(Without(list, i))
         /\ \A j : In(j, Without(list, i)) <=> In(j, list) /\ j # i
         /\ \A a, b : Before(Without(list, i), a, b)
                        <=> Before(list, a, b) /\ a # i /\ b # i
         /\ In(i, list) => Len(Without(list, i)) = Len(list) - 1
<1>1. CASE ~In(i, list)
  <2>1. Without(list, i) = list
    BY <1>1 DEF Without
  <2>2. \A a, b : Before(list, a, b) => In(a, list) /\ In(b, list)
    BY DEF Before, In
  <2> QED
    BY <1>1, <2>1, <2>2
<1>2. CASE In(i, list)
  <2>1. PICK p : p = Place(i, list)
    OBVIOUS
  <2>2. PICK r : r = Without(list, i)
    OBVIOUS
  <2>3. p \in 1 .. Len(list) /\ list[p] = i /\ Len(list) \in Nat
    BY <1>2, <2>1, PlaceIs
  <2>4. r = [n \in 1 .. Len(list) - 1 |-> list[IF n < p THEN n ELSE n + 1]]
    BY <1>2, <2>1, <2>2 DEF Without
  <2>13. \A n \in 1 .. Len(list) - 1 : r[n] = list[IF n < p THEN n ELSE n + 1]
    BY <2>4
  <2>5. r \in Seq(Id) /\ Len(r) = Len(list) - 1 /\ DOMAIN r = 1 .. Len(list) - 1
    BY <2>3, <2>4
  <2>6. \A n \in DOMAIN list : list[n] = i <=> n = p
    BY <2>3 DEF Distinct
  <2>7. Distinct(r)
    BY <2>3, <2>4, <2>5 DEF Distinct
  <2>8. \A n \in DOMAIN list : n # p =>
          \E k \in DOMAIN r : r[k] = list[n] /\ k = IF n < p THEN n ELSE n - 1
    <3> SUFFICES ASSUME NEW n \in DOMAIN list, n # p
                 PROVE  \E k \in DOMAIN r : r[k] = list[n] /\ k = IF n < p THEN n ELSE n - 1
      OBVIOUS
    <3>1. CASE n < p
      <4>1. n \in DOMAIN r /\ r[n] = list[n]
        BY <2>3, <2>4, <2>5, <3>1
      <4> QED
        BY <3>1, <4>1
    <3>2. CASE n > p
      <4>1. PICK k : k = n - 1
        OBVIOUS
      <4>2. k \in DOMAIN r /\ ~(k < p) /\ k + 1 = n
        BY <2>3, <2>5, <3>2, <4>1
      <4>3. r[k] = list[k + 1]
        BY <2>5, <2>13, <4>2
      <4>4. r[k] = list[n] /\ k = IF n < p THEN n ELSE n - 1
        BY <2>3, <3>2, <4>1, <4>2, <4>3
      <4> QED
        BY <4>2, <4>4
    <3> QED
      BY <2>3, <3>1, <3>2
  <2>9. \A k \in DOMAIN r :
          \E n \in DOMAIN list : n # p /\ r[k] = list[n] /\ n = IF k < p THEN k ELSE k + 1
    BY <2>3, <2>4, <2>5
  <2>10. \A j : In(j, r) <=> In(j, list) /\ j # i
    BY <2>6, <2>8, <2>9 DEF In
  <2>11. \A a, b : Before(r, a, b) => Before(list, a, b) /\ a # i /\ b # i
    <3> SUFFICES ASSUME NEW b, NEW m \in DOMAIN r, r[m] = b, NEW l \in 1 .. m - 1
                 PROVE  Before(list, r[l], b) /\ r[l] # i /\ b # i
      BY DEF Before
    <3>1. l \in DOMAIN r
      BY <2>3, <2>5
    <3>2. PICK n \in DOMAIN list : n # p /\ r[m] = list[n] /\ n = IF m < p THEN m ELSE m + 1
      BY <2>9
    <3>3. PICK k \in DOMAIN list : k # p /\ r[l] = list[k] /\ k = IF l < p THEN l ELSE l + 1
      BY <2>9, <3>1
    <3>4. k \in 1 .. n - 1
      BY <2>3, <2>5, <3>2, <3>3
    <3> QED
      BY <2>6, <3>2, <3>3, <3>4 DEF Before
  <2>12. \A a, b : Before(list, a, b) /\ a # i /\ b # i => Before(r, a, b)
    <3> SUFFICES ASSUME NEW b, NEW n \in DOMAIN list, list[n] = b, NEW k \in 1 .. n - 1,
                        list[k] # i, b # i
                 PROVE  Before(r, list[k], b)
      BY DEF Before
    <3>1. k \in DOMAIN list /\ k # p /\ n # p
      BY <2>3
    <3>2. PICK m \in DOMAIN r : r[m] = list[n] /\ m = IF n < p THEN n ELSE n - 1
      BY <2>8, <3>1
    <3>3. PICK l \in DOMAIN r : r[l] = list[k] /\ l = IF k < p THEN k ELSE k - 1
      BY <2>8, <3>1
    <3>4. l \in 1 .. m - 1
      BY <2>3, <2>5, <3>1, <3>2, <3>3
    <3> QED
      BY <3>2, <3>3, <3>4 DEF Before
  <2> QED
    BY <2>2, <2>5, <2>7, <2>10, <2>11, <2>12
<1> QED
  BY <1>1, <1>2

\* A new first entry.
LEMMA FirstIs ==
  ASSUME NEW list \in Seq(Id), NEW i \in Id, Distinct(list), ~In(i, list)
  PROVE  /\ <<i>> \o list \in Seq(Id) /\ <<i>> \o list # <<>>
         /\ Distinct(<<i>> \o list)
         /\ \A j : In(j, <<i>> \o list) <=> j = i \/ In(j, list)
         /\ \A a, b : Before(<<i>> \o list, a, b)
                        <=> Before(list, a, b) \/ (a = i /\ In(b, list))
<1>1. PICK r : r = <<i>> \o list
  OBVIOUS
<1>2. /\ r \in Seq(Id) /\ Len(r) = Len(list) + 1 /\ DOMAIN r = 1 .. Len(list) + 1
      /\ r # <<>> /\ Len(list) \in Nat /\ DOMAIN list = 1 .. Len(list)
  BY <1>1
<1>3. r[1] = i /\ \A n \in DOMAIN list : r[n + 1] = list[n]
  BY <1>1
<1>4. \A n \in DOMAIN r : n = 1 \/ (n - 1 \in DOMAIN list /\ r[n] = list[n - 1])
  BY <1>2, <1>3
<1>5. Distinct(r)
  BY <1>2, <1>3, <1>4 DEF Distinct, In
<1>6. \A j : In(j, r) <=> j = i \/ In(j, list)
  <2>1. \A n \in DOMAIN list : n + 1 \in DOMAIN r
    BY <1>2
  <2>2. 1 \in DOMAIN r
    BY <1>2
  <2> QED
    BY <1>3, <1>4, <2>1, <2>2 DEF In
<1>7. \A a, b : Before(r, a, b) => Before(list, a, b) \/ (a = i /\ In(b, list))
  <2> SUFFICES ASSUME NEW n \in DOMAIN r, NEW k \in 1 .. n - 1
               PROVE  Before(list, r[k], r[n]) \/ (r[k] = i /\ In(r[n], list))
    BY DEF Before
  <2>1. n # 1 /\ n - 1 \in DOMAIN list /\ r[n] = list[n - 1] /\ k \in DOMAIN r
    BY <1>2, <1>4
  <2>2. CASE k = 1
    BY <1>3, <2>1, <2>2 DEF In
  <2>3. CASE k # 1
    <3>1. k - 1 \in 1 .. (n - 1) - 1 /\ r[k] = list[k - 1]
      BY <1>2, <1>4, <2>1, <2>3
    <3> QED
      BY <2>1, <3>1 DEF Before
  <2> QED
    BY <2>2, <2>3
<1>8. \A a, b : Before(list, a, b) => Before(r, a, b)
  <2> SUFFICES ASSUME NEW n \in DOMAIN list, NEW k \in 1 .. n - 1
               PROVE  Before(r, list[k], list[n])
    BY DEF Before
  <2>1. n + 1 \in DOMAIN r /\ k + 1 \in 1 .. (n + 1) - 1 /\ k \in DOMAIN list
    BY <1>2
  <2> QED
    BY <1>3, <2>1 DEF Before
<1>9. \A b : In(b, list) => Before(r, i, b)
  <2> SUFFICES ASSUME NEW n \in DOMAIN list PROVE Before(r, i, list[n])
    BY DEF In
  <2>1. n + 1 \in DOMAIN r /\ 1 \in 1 .. (n + 1) - 1
    BY <1>2
  <2> QED
    BY <1>3, <2>1 DEF Before
<1> QED
  BY <1>1, <1>2, <1>5, <1>6, <1>7, <1>8, <1>9

\* x is the first one of a list that has a feature.
IsFirst(list, has, x) ==
  In(x, list) /\ has[x] /\ \A j : Before(list, j, x) => ~has[j]

\* FirstWith() finds it, or there is none.
LEMMA FirstWithFound ==
  ASSUME NEW list \in Seq(Id), Distinct(list), NEW has, NEW other
  PROVE  \/ /\ IsFirst(list, has, FirstWith(list, has, other))
            /\ FirstWith(list, has, other) \in Id
         \/ /\ \A j : In(j, list) => ~has[j]
            /\ FirstWith(list, has, other) = other
<1> DEFINE T == {k \in DOMAIN list : has[list[k]]}
           First(k) == has[list[k]] /\ \A n \in DOMAIN list : n < k => ~has[list[n]]
<1>1. CASE T = {}
  BY <1>1 DEF FirstWith, In
<1>2. CASE T # {}
  <2>1. T \in SUBSET Nat
    OBVIOUS
  <2>2. PICK k \in T : \A n \in T : k <= n
    <3> HIDE DEF T
    <3> QED BY <1>2, <2>1, LeastExists
  <2>3. k \in DOMAIN list /\ First(k)
    BY <2>2
  <2>4. PICK m : m = CHOOSE l \in DOMAIN list : First(l)
    OBVIOUS
  <2>5. m \in DOMAIN list /\ First(m)
    BY <2>3, <2>4
  <2>6. FirstWith(list, has, other) = list[m]
    BY <2>3, <2>4 DEF FirstWith
  <2>7. \A j : Before(list, j, list[m]) => ~has[j]
    <3> SUFFICES ASSUME NEW n \in DOMAIN list, list[n] = list[m], NEW l \in 1 .. n - 1
                 PROVE  ~has[list[l]]
      BY DEF Before
    <3>1. n = m
      BY <2>5 DEF Distinct
    <3>2. l \in DOMAIN list /\ l < m
      BY <2>5, <3>1
    <3> QED
      BY <2>5, <3>2
  <2>8. list[m] \in Id /\ In(list[m], list) /\ has[list[m]]
    BY <2>5 DEF In
  <2> HIDE DEF First, T
  <2> QED
    BY <2>6, <2>7, <2>8 DEF IsFirst
<1> QED
  BY <1>1, <1>2

\* There is one first one.
LEMMA FirstWithIs ==
  ASSUME NEW list \in Seq(Id), Distinct(list), NEW has, NEW other, NEW x,
         IsFirst(list, has, x)
  PROVE  FirstWith(list, has, other) = x
<1> DEFINE y == FirstWith(list, has, other)
<1>1. IsFirst(list, has, y)
  BY FirstWithFound DEF IsFirst
<1> HIDE DEF y
<1>2. x = y \/ Before(list, x, y) \/ Before(list, y, x)
  <2>1. PICK k, n \in DOMAIN list : list[k] = x /\ list[n] = y
    BY <1>1 DEF IsFirst, In
  <2>2. k < n => k \in 1 .. n - 1
    OBVIOUS
  <2>3. n < k => n \in 1 .. k - 1
    OBVIOUS
  <2>4. k = n \/ k < n \/ n < k
    OBVIOUS
  <2> QED
    BY <2>1, <2>2, <2>3, <2>4 DEF Before
<1>3. x = y
  BY <1>1, <1>2 DEF IsFirst
<1> QED
  BY <1>3 DEF y

\* Two lists whose entries with the feature are the same, in the same order,
\* have the same first one.
LEMMA SameFirst ==
  ASSUME NEW list \in Seq(Id), Distinct(list), NEW has,
         NEW list2 \in Seq(Id), Distinct(list2), NEW has2, NEW other,
         \A j \in Id : In(j, list) /\ has[j] <=> In(j, list2) /\ has2[j],
         \A a, b \in Id : has[a] /\ has[b] => (Before(list, a, b) <=> Before(list2, a, b))
  PROVE  FirstWith(list, has, other) = FirstWith(list2, has2, other)
<1> DEFINE x == FirstWith(list, has, other)
<1>1. CASE IsFirst(list, has, x) /\ x \in Id
  <2>1. IsFirst(list2, has2, x)
    <3>1. \A j : Before(list2, j, x) => j \in Id /\ In(j, list2)
      BY DEF Before, In
    <3> HIDE DEF x
    <3> QED
      BY <1>1, <3>1 DEF IsFirst
  <2> HIDE DEF x
  <2>2. FirstWith(list2, has2, other) = x
    BY <2>1, FirstWithIs
  <2> QED
    BY <2>2 DEF x
<1>2. CASE (\A j : In(j, list) => ~has[j]) /\ x = other
  <2>1. \A j : In(j, list2) => j \in Id
    BY DEF In
  <2>2. \A j : In(j, list2) => ~has2[j]
    BY <1>2, <2>1
  <2>3. FirstWith(list2, has2, other) = other
    BY <2>2, FirstWithFound DEF IsFirst
  <2> QED
    BY <1>2, <2>3
<1> QED
  BY <1>1, <1>2, FirstWithFound

\* The order of those that are in the list is what counts.
LEMMA SameFirstListed ==
  ASSUME NEW list \in Seq(Id), Distinct(list), NEW has,
         NEW list2 \in Seq(Id), Distinct(list2), NEW has2, NEW other,
         \A j \in Id : In(j, list) /\ has[j] <=> In(j, list2) /\ has2[j],
         \A a, b \in Id : In(a, list) /\ In(b, list) /\ has[a] /\ has[b]
                            => (Before(list, a, b) <=> Before(list2, a, b))
  PROVE  FirstWith(list, has, other) = FirstWith(list2, has2, other)
<1>1. PICK f : f = [j \in Id |-> In(j, list) /\ has[j]]
  OBVIOUS
<1>2. \A j \in Id : f[j] <=> In(j, list) /\ has[j]
  BY <1>1
<1>3. \A j \in Id : In(j, list) /\ f[j] <=> In(j, list) /\ has[j]
  BY <1>2
<1>4. \A j \in Id : In(j, list) /\ f[j] <=> In(j, list2) /\ has2[j]
  BY <1>2
<1>5. \A a, b \in Id : f[a] /\ f[b] => (Before(list, a, b) <=> Before(list2, a, b))
  BY <1>2
<1>6. FirstWith(list, f, other) = FirstWith(list, has, other)
  BY <1>3, SameFirst
<1>7. FirstWith(list, f, other) = FirstWith(list2, has2, other)
  BY <1>4, <1>5, SameFirst
<1> QED
  BY <1>6, <1>7

-----------------------------------------------------------------------------
(* Titles, messages and ids.                                               *)

AP_INFO == [live : BOOLEAN, pid : Pid \cup {NoPid}, handle : Pid \cup {NoPid},
            deskbg : BOOLEAN, menu : BOOLEAN,
            type : {"application", "accessory"}, name : Title]

\* One field of an entry is set.
LEMMA FieldIsSet ==
  ASSUME NEW info \in [Id -> AP_INFO], NEW i \in Id, NEW b \in BOOLEAN
  PROVE  /\ [info EXCEPT ![i].live = b] \in [Id -> AP_INFO]
         /\ [info EXCEPT ![i].menu = b] \in [Id -> AP_INFO]
         /\ [info EXCEPT ![i].deskbg = b] \in [Id -> AP_INFO]
         /\ \A t \in Title : [info EXCEPT ![i].name = t] \in [Id -> AP_INFO]
         /\ \A p \in Pid : [info EXCEPT ![i].handle = p] \in [Id -> AP_INFO]
<1>1. info[i] \in AP_INFO
  OBVIOUS
<1>2. [info[i] EXCEPT !.live = b] \in AP_INFO
  BY <1>1 DEF AP_INFO
<1>3. [info[i] EXCEPT !.menu = b] \in AP_INFO
  BY <1>1 DEF AP_INFO
<1>4. [info[i] EXCEPT !.deskbg = b] \in AP_INFO
  BY <1>1 DEF AP_INFO
<1>5. \A t \in Title : [info[i] EXCEPT !.name = t] \in AP_INFO
  BY <1>1 DEF AP_INFO
<1>6. \A p \in Pid : [info[i] EXCEPT !.handle = p] \in AP_INFO
  BY <1>1 DEF AP_INFO
<1> QED
  BY <1>2, <1>3, <1>4, <1>5, <1>6

\* Names can be compared.
LEMMA NamesAreRanks ==
  ASSUME NEW info \in [Id -> AP_INFO]
  PROVE  \A j \in Id : info[j].name \in Nat
<1>1. \A j \in Id : info[j].name \in Title
  BY DEF AP_INFO
<1> QED
  BY <1>1, TitleAssumption

SortedBy(list, info) ==
  \A k, n \in DOMAIN list : k < n => info[list[k]].name <= info[list[n]].name

\* A list is in order if of two entries the one before is not greater.
LEMMA SortedIs ==
  ASSUME NEW list \in Seq(Id), NEW info
  PROVE  SortedBy(list, info) <=> \A a, b : Before(list, a, b) => info[a].name <= info[b].name
<1>1. ASSUME SortedBy(list, info), NEW n \in DOMAIN list, NEW k \in 1 .. n - 1
      PROVE  info[list[k]].name <= info[list[n]].name
  BY <1>1 DEF SortedBy
<1>2. ASSUME \A a, b : Before(list, a, b) => info[a].name <= info[b].name,
             NEW k \in DOMAIN list, NEW n \in DOMAIN list, k < n
      PROVE  info[list[k]].name <= info[list[n]].name
  <2>1. k \in 1 .. n - 1
    BY <1>2
  <2>2. Before(list, list[k], list[n])
    BY <2>1 DEF Before
  <2> QED
    BY <1>2, <2>2
<1> QED
  BY <1>1, <1>2 DEF Before, SortedBy

\* There is a place before the first greater title, or at the end.
LEMMA GreaterIs ==
  ASSUME NEW list \in Seq(Id), NEW info \in [Id -> AP_INFO], NEW t \in Title
  PROVE  LET g == Greater(list, info, t) IN
         /\ g \in 1 .. Len(list) + 1
         /\ \A k \in 1 .. g - 1 : info[list[k]].name <= t
         /\ g <= Len(list) => info[list[g]].name > t
<1> DEFINE T == {n \in 1 .. Len(list) + 1 : n <= Len(list) => info[list[n]].name > t}
           P(n) == /\ \A k \in 1 .. n - 1 : info[list[k]].name <= t
                   /\ n <= Len(list) => info[list[n]].name > t
<1>1. Len(list) \in Nat /\ t \in Nat /\ \A n \in 1 .. Len(list) : info[list[n]].name \in Nat
  BY NamesAreRanks, TitleAssumption
<1>2. T \in SUBSET Nat /\ Len(list) + 1 \in T
  BY <1>1
<1>3. PICK m \in T : \A n \in T : m <= n
  <2> HIDE DEF T
  <2> QED BY <1>2, LeastExists
<1>4. m \in 1 .. Len(list) + 1 /\ P(m)
  BY <1>1, <1>3
<1> HIDE DEF P
<1>5. PICK g : g = CHOOSE n \in 1 .. Len(list) + 1 : P(n)
  OBVIOUS
<1>6. g \in 1 .. Len(list) + 1 /\ P(g)
  BY <1>4, <1>5
<1>7. Greater(list, info, t) = g
  BY <1>5 DEF Greater, P
<1> QED
  BY <1>6, <1>7 DEF P

\* A title is entered once, and the list stays in order.
LEMMA InsertedIs ==
  ASSUME NEW list \in Seq(Id), Distinct(list), NEW i \in Id, NEW t \in Title,
         NEW info \in [Id -> AP_INFO], SortedBy(list, info),
         NEW info2 \in [Id -> AP_INFO], info2[i].name = t,
         \A j \in Id : j # i => info2[j].name = info[j].name
  PROVE  /\ Inserted(list, info, i, t) \in Seq(Id)
         /\ Distinct(Inserted(list, info, i, t))
         /\ \A j : In(j, Inserted(list, info, i, t)) <=> In(j, list) \/ j = i
         /\ SortedBy(Inserted(list, info, i, t), info2)
<1>1. PICK r : r = Without(list, i)
  OBVIOUS
<1>2. /\ r \in Seq(Id) /\ Distinct(r)
      /\ \A j : In(j, r) <=> In(j, list) /\ j # i
      /\ \A a, b : Before(r, a, b) <=> Before(list, a, b) /\ a # i /\ b # i
  BY <1>1, WithoutIs
<1>3. PICK g : g = Greater(r, info, t)
  OBVIOUS
<1>4. PICK u : u = Inserted(list, info, i, t)
  OBVIOUS
<1>5. /\ g \in 1 .. Len(r) + 1
      /\ \A k \in 1 .. g - 1 : info[r[k]].name <= t
      /\ g <= Len(r) => info[r[g]].name > t
  BY <1>2, <1>3, GreaterIs
<1>6. Len(r) \in Nat /\ DOMAIN r = 1 .. Len(r)
  BY <1>2
<1>7. u = SubSeq(r, 1, g - 1) \o <<i>> \o SubSeq(r, g, Len(r))
  BY <1>1, <1>3, <1>4 DEF Inserted, InsertAt
<1>8. PICK v, w : v = SubSeq(r, 1, g - 1) /\ w = SubSeq(r, g, Len(r))
  OBVIOUS
<1>9. /\ v \in Seq(Id) /\ Len(v) = g - 1
      /\ \A k \in 1 .. g - 1 : v[k] = r[k]
  BY <1>2, <1>5, <1>6, <1>8
<1>10. /\ w \in Seq(Id) /\ Len(w) = Len(r) + 1 - g
       /\ \A k \in 1 .. Len(r) + 1 - g : w[k] = r[g + k - 1]
  BY <1>2, <1>5, <1>6, <1>8
<1>11. u = (v \o <<i>>) \o w
  BY <1>7, <1>8
<1>23. PICK x : x = v \o <<i>>
  OBVIOUS
<1>24. /\ x \in Seq(Id) /\ Len(x) = g
       /\ \A k \in 1 .. g - 1 : x[k] = r[k]
       /\ x[g] = i
  BY <1>5, <1>6, <1>9, <1>23
<1>25. u = x \o w
  BY <1>11, <1>23
<1>12. /\ u \in Seq(Id) /\ Len(u) = Len(r) + 1 /\ DOMAIN u = 1 .. Len(r) + 1
  <2>1. u \in Seq(Id)
    BY <1>10, <1>24, <1>25
  <2>2. Len(u) = Len(x) + Len(w)
    BY <1>10, <1>24, <1>25
  <2>3. Len(u) = Len(r) + 1
    BY <2>2, <1>5, <1>6, <1>10, <1>24
  <2> QED
    BY <2>1, <2>3
<1>26. /\ \A k \in 1 .. g : u[k] = x[k]
       /\ \A k \in g + 1 .. Len(r) + 1 : u[k] = w[k - g]
  BY <1>5, <1>6, <1>10, <1>24, <1>25
<1>13. /\ \A k \in 1 .. g - 1 : u[k] = r[k]
       /\ u[g] = i
       /\ \A k \in g + 1 .. Len(r) + 1 : u[k] = r[k - 1]
  <2>1. \A k \in g + 1 .. Len(r) + 1 : k - g \in 1 .. Len(r) + 1 - g /\ g + (k - g) - 1 = k - 1
    BY <1>5, <1>6
  <2>2. \A k \in g + 1 .. Len(r) + 1 : u[k] = r[k - 1]
    BY <1>10, <1>26, <2>1
  <2> QED
    BY <1>5, <1>6, <1>24, <1>26, <2>2
<1>14. \A k \in DOMAIN r : r[k] # i
  BY <1>2 DEF In
<1>15. \A k \in DOMAIN u :
         \/ k < g /\ k \in DOMAIN r /\ u[k] = r[k]
         \/ k = g /\ u[k] = i
         \/ k > g /\ k - 1 \in DOMAIN r /\ u[k] = r[k - 1]
  BY <1>5, <1>6, <1>12, <1>13
<1>16. Distinct(u)
  BY <1>2, <1>5, <1>6, <1>12, <1>14, <1>15 DEF Distinct
<1>17. \A j : In(j, u) <=> In(j, list) \/ j = i
  <2>1. \A j : In(j, u) => In(j, r) \/ j = i
    BY <1>15 DEF In
  <2>2. In(i, u)
    BY <1>5, <1>6, <1>12, <1>13 DEF In
  <2>3. \A k \in DOMAIN r : In(r[k], u)
    <3> SUFFICES ASSUME NEW k \in DOMAIN r PROVE In(r[k], u)
      OBVIOUS
    <3>1. CASE k < g
      <4>1. k \in 1 .. g - 1 /\ k \in DOMAIN u
        BY <3>1, <1>5, <1>6, <1>12
      <4> QED
        BY <1>13, <4>1 DEF In
    <3>2. CASE k >= g
      <4>1. PICK n : n = k + 1
        OBVIOUS
      <4>2. n \in g + 1 .. Len(r) + 1 /\ n - 1 = k
        BY <3>2, <1>5, <1>6, <4>1
      <4>3. u[n] = r[k] /\ n \in DOMAIN u
        BY <1>5, <1>6, <1>12, <1>13, <4>2
      <4> QED
        BY <4>3 DEF In
    <3> QED
      BY <1>5, <1>6, <3>1, <3>2
  <2>4. \A j : In(j, r) => In(j, u)
    BY <2>3 DEF In
  <2> QED
    BY <1>2, <2>1, <2>2, <2>4
<1>18. SortedBy(r, info)
  BY <1>2, SortedIs
<1>19. \A k \in DOMAIN r : r[k] \in Id /\ info[r[k]].name \in Nat /\ info2[r[k]].name = info[r[k]].name
  BY <1>2, <1>14, NamesAreRanks
<1>20. t \in Nat /\ info2[i].name = t
  BY TitleAssumption
<1>21. \A k \in DOMAIN r : /\ k < g => info[r[k]].name <= t
                           /\ k >= g => info[r[k]].name >= t
  <2> SUFFICES ASSUME NEW k \in DOMAIN r
               PROVE  /\ k < g => info[r[k]].name <= t
                      /\ k >= g => info[r[k]].name >= t
    OBVIOUS
  <2>1. CASE k < g
    BY <2>1, <1>5, <1>6
  <2>2. CASE k >= g
    <3>1. g \in DOMAIN r /\ info[r[g]].name > t
      BY <2>2, <1>5, <1>6
    <3>2. k = g \/ info[r[g]].name <= info[r[k]].name
      BY <2>2, <3>1, <1>6, <1>18 DEF SortedBy
    <3> QED
      BY <2>2, <3>1, <3>2, <1>5, <1>6, <1>19, <1>20
  <2> QED
    BY <2>1, <2>2, <1>5, <1>6
<1>22. SortedBy(u, info2)
  <2> SUFFICES ASSUME NEW k \in DOMAIN u, NEW n \in DOMAIN u, k < n
               PROVE  info2[u[k]].name <= info2[u[n]].name
    BY DEF SortedBy
  <2>1. \A a, b \in DOMAIN r : a < b => info[r[a]].name <= info[r[b]].name
    BY <1>18 DEF SortedBy
  <2>2. k \in Nat /\ n \in Nat /\ g \in Nat
    BY <1>5, <1>6, <1>12
  <2>3. CASE n < g
    BY <2>1, <2>2, <2>3, <1>15, <1>19
  <2>4. CASE n = g
    BY <2>2, <2>4, <1>15, <1>19, <1>20, <1>21
  <2>5. CASE n > g /\ k < g
    <3>1. k \in DOMAIN r /\ u[k] = r[k] /\ n - 1 \in DOMAIN r /\ u[n] = r[n - 1] /\ k < n - 1
      BY <2>2, <2>5, <1>15
    <3> QED
      BY <2>1, <3>1, <1>19
  <2>6. CASE n > g /\ k = g
    <3>1. u[k] = i /\ n - 1 \in DOMAIN r /\ u[n] = r[n - 1] /\ n - 1 >= g
      BY <2>2, <2>6, <1>15
    <3> QED
      BY <3>1, <1>19, <1>20, <1>21
  <2>7. CASE n > g /\ k > g
    <3>1. k - 1 \in DOMAIN r /\ u[k] = r[k - 1] /\ n - 1 \in DOMAIN r /\ u[n] = r[n - 1] /\ k - 1 < n - 1
      BY <2>2, <2>7, <1>15
    <3> QED
      BY <2>1, <3>1, <1>19
  <2> QED
    BY <2>2, <2>3, <2>4, <2>5, <2>6, <2>7
<1> QED
  BY <1>4, <1>12, <1>16, <1>17, <1>22

\* A message is counted once, or dropped; who is there gets it, unless the
\* buffer is full.
LEMMA DeliverIs ==
  ASSUME NEW box \in [Id -> 0 .. MaxMail], NEW i \in Id \cup {NoId},
         NEW list \in Seq(Id), NEW info
  PROVE  /\ Deliver(box, i, list, info) \in [Id -> 0 .. MaxMail]
         /\ \A j \in Id : Deliver(box, i, list, info)[j] >= box[j]
         /\ i \in Id /\ info[i].live =>
              Deliver(box, i, list, info)[i] = MaxMail \/ Deliver(box, i, list, info)[i] > box[i]
<1> DEFINE to == IF i # NoId THEN i ELSE IF list = <<>> THEN NoId ELSE Head(list)
           new == Deliver(box, i, list, info)
<1>1. MaxMail \in Nat /\ \A j \in Id : box[j] \in 0 .. MaxMail
  BY BoundAssumption
<1>2. NoId \notin Id
  BY BoundAssumption DEF Id, NoId
<1>3. to \in Id \cup {NoId} /\ (i \in Id => to = i)
  BY <1>2
<1>4. new = IF to # NoId /\ info[to].live /\ box[to] < MaxMail
            THEN [box EXCEPT ![to] = @ + 1] ELSE box
  BY DEF Deliver
<1> HIDE DEF to, new
<1>5. new \in [Id -> 0 .. MaxMail] /\ \A j \in Id : new[j] >= box[j]
  BY <1>1, <1>3, <1>4
<1>6. ASSUME i \in Id, info[i].live PROVE new[i] = MaxMail \/ new[i] > box[i]
  BY <1>1, <1>2, <1>3, <1>4, <1>6
<1> QED
  BY <1>5, <1>6 DEF new

\* The search for a free id finds one.
LEMMA NextFreeIs ==
  ASSUME Free # {}, next_ap \in Id
  PROVE  NextFree \in Id /\ ~apps[NextFree].live
<1> DEFINE T == {Distance(i) : i \in Free}
<1>1. \A i \in Id : Distance(i) \in Nat
  BY BoundAssumption DEF Id, Distance
<1>2. T \in SUBSET Nat /\ T # {}
  BY <1>1 DEF Free
<1>3. PICK m \in T : \A n \in T : m <= n
  <2> HIDE DEF T
  <2> QED BY <1>2, LeastExists
<1>4. \E i \in Free : \A j \in Free : Distance(i) <= Distance(j)
  BY <1>3
<1>5. NextFree \in Free
  BY <1>4 DEF NextFree
<1> QED
  BY <1>5 DEF Free

-----------------------------------------------------------------------------
(* The inductive invariant.                                                *)

TypeOK ==
  /\ ap_pri \in Seq(Id) /\ ap_resvd \in Seq(Id)
  /\ applmenu \in Seq(Id) /\ accmenu \in Seq(Id)
  /\ apps \in [Id -> AP_INFO] /\ next_ap \in Id
  /\ mail \in [Id -> 0 .. MaxMail]
  /\ deskowner \in Id \cup {NoId} /\ bar \in BOOLEAN
  /\ proc \in [Pid -> {"new", "up", "gone"}]
  /\ known \in [Pid -> Id \cup {NoId}]
  /\ launcher \in [Pid -> Pid \cup {NoPid}]
  /\ lost \in SUBSET Pid
  /\ status \in {"up", "closing", "down"} /\ strayed \in BOOLEAN

Nobody(p) == \A i \in Id : apps[i].live => apps[i].pid # p

\* Entries belong to processes; an application that has been entered knows its
\* id; a process that is new has no entry, and with the semaphore neither has
\* one that has been started and waits for its reservation.
EntriesHaveProcesses ==
  /\ \A i \in Id : apps[i].live => apps[i].pid \in Pid
  /\ \A i \in Id : In(i, ap_pri) => known[apps[i].pid] # NoId
  /\ \A p \in Pid : proc[p] = "new" => known[p] = NoId /\ launcher[p] = NoPid /\ Nobody(p)
  /\ Semaphore =>
       \A p \in Pid : launcher[p] # NoPid /\ proc[launcher[p]] # "gone" => Nobody(p)

\* The entry of a program that has not come yet has no desktop and no menu.
ReservedIsBlank ==
  ~strayed => \A i \in Id : In(i, ap_resvd) /\ known[apps[i].pid] = NoId
                              => ~apps[i].deskbg /\ ~apps[i].menu

IInv ==
  /\ TypeOK /\ EntriesAreTheIds /\ MenusListTheLiving
  /\ EntriesHaveProcesses /\ OneIdPerProcess
  /\ ReservedIsBlank /\ DesktopHasItsOwner

-----------------------------------------------------------------------------
(* What a step leaves alone.                                               *)

\* The lists of entries hold the same ids.
LEMMA EntriesKept ==
  ASSUME EntriesAreTheIds, Distinct(ap_pri'), UNCHANGED ap_resvd,
         \A j : In(j, ap_pri') <=> In(j, ap_pri),
         \A j \in Id : apps'[j].live <=> apps[j].live
  PROVE  EntriesAreTheIds'
BY DEF EntriesAreTheIds, Distinct

\* The same applications are there, with their types and names.
LEMMA MenusKept ==
  ASSUME MenusListTheLiving, TypeOK, UNCHANGED menus,
         \A j \in Id : In(j, ap_pri') <=> In(j, ap_pri),
         \A j \in Id : In(j, ap_pri) =>
           apps'[j].type = apps[j].type /\ apps'[j].name = apps[j].name
  PROVE  MenusListTheLiving'
<1>1. UNCHANGED <<applmenu, accmenu>> /\ applmenu \in Seq(Id) /\ accmenu \in Seq(Id)
  BY DEF menus, TypeOK
<1>2. \A j : In(j, applmenu) \/ In(j, accmenu) => j \in Id /\ In(j, ap_pri)
  BY <1>1 DEF MenusListTheLiving, In
<1>3. \A k \in DOMAIN applmenu : apps'[applmenu[k]].name = apps[applmenu[k]].name
  BY <1>2 DEF In
<1>4. \A k \in DOMAIN accmenu : apps'[accmenu[k]].name = apps[accmenu[k]].name
  BY <1>2 DEF In
<1>5. Sorted(applmenu)' /\ Sorted(accmenu)'
  BY <1>1, <1>3, <1>4 DEF MenusListTheLiving, Sorted
<1>6. /\ \A i \in Id : In(i, applmenu) <=> In(i, ap_pri') /\ apps'[i].type = "application"
      /\ \A i \in Id : In(i, accmenu) => In(i, ap_pri') /\ apps'[i].type = "accessory"
  BY DEF MenusListTheLiving
<1>7. Distinct(applmenu)' /\ Distinct(accmenu)'
  BY <1>1 DEF MenusListTheLiving, Distinct
<1> QED
  BY <1>1, <1>5, <1>6, <1>7 DEF MenusListTheLiving

\* No entry is new, and no process either.
LEMMA ProcessesKept ==
  ASSUME EntriesHaveProcesses, OneIdPerProcess,
         \A j \in Id : apps'[j].live => apps[j].live,
         \A j \in Id : apps'[j].pid = apps[j].pid,
         \A j : In(j, ap_pri') => In(j, ap_pri),
         UNCHANGED <<known, launcher>>,
         \A p \in Pid : proc'[p] = proc[p] \/ proc'[p] = "gone",
         launcher \in [Pid -> Pid \cup {NoPid}]
  PROVE  EntriesHaveProcesses' /\ OneIdPerProcess'
<1>1. \A p \in Pid : Nobody(p) => Nobody(p)'
  BY DEF Nobody
<1>2. \A p \in Pid : proc'[p] = "new" => proc[p] = "new"
  OBVIOUS
<1>3. \A p \in Pid : launcher[p] # NoPid /\ proc'[launcher[p]] # "gone"
                       => proc[launcher[p]] # "gone"
  OBVIOUS
<1>4. \A i \in Id : apps'[i].live => apps'[i].pid \in Pid
  BY DEF EntriesHaveProcesses
<1>5. \A i \in Id : In(i, ap_pri') => known'[apps'[i].pid] # NoId
  BY DEF EntriesHaveProcesses
<1>6. \A p \in Pid : proc'[p] = "new" => known'[p] = NoId /\ launcher'[p] = NoPid /\ Nobody(p)'
  BY <1>1, <1>2 DEF EntriesHaveProcesses
<1>7. Semaphore =>
        \A p \in Pid : launcher'[p] # NoPid /\ proc'[launcher'[p]] # "gone" => Nobody(p)'
  BY <1>1, <1>3 DEF EntriesHaveProcesses
<1>8. OneIdPerProcess'
  BY DEF OneIdPerProcess
<1> QED
  BY <1>4, <1>5, <1>6, <1>7, <1>8 DEF EntriesHaveProcesses

\* HasDesk() and HasMenu() at an id.
LEMMA Features ==
  ASSUME NEW info, NEW i \in Id
  PROVE  HasDesk(info)[i] = info[i].deskbg /\ HasMenu(info)[i] = info[i].menu
BY DEF HasDesk, HasMenu

\* The owner of the desktop is an id.
LEMMA OwnerType ==
  ASSUME NEW list \in Seq(Id), Distinct(list), NEW info
  PROVE  /\ get_desktop_owner_id(list, info) \in Id
         /\ get_deskbg_owner(list, info) \in Id \cup {NoId}
         /\ get_top_menu_owner(list, info) \in Id \cup {NoId}
<1>1. 0 \in Id
  BY BoundAssumption DEF Id
<1> QED
  BY <1>1, FirstWithFound DEF get_desktop_owner_id, get_deskbg_owner, get_top_menu_owner

\* Messages only: the tables say what they said.
LEMMA TablesKept ==
  ASSUME IInv, UNCHANGED <<lists, menus, wins, known, launcher>>,
         mail' \in [Id -> 0 .. MaxMail],
         proc' \in [Pid -> {"new", "up", "gone"}],
         \A p \in Pid : proc'[p] = proc[p] \/ proc'[p] = "gone",
         lost' \in SUBSET Pid, status' \in {"up", "closing", "down"},
         strayed' \in BOOLEAN, strayed => strayed'
  PROVE  IInv'
<1>1. UNCHANGED <<ap_pri, ap_resvd, apps, next_ap, applmenu, accmenu, deskowner, bar, known, launcher>>
  BY DEF lists, menus, wins
<1>2. TypeOK'
  BY <1>1 DEF IInv, TypeOK
<1>3. EntriesAreTheIds' /\ MenusListTheLiving'
  BY <1>1 DEF IInv, EntriesAreTheIds, MenusListTheLiving, Sorted
<1>4. EntriesHaveProcesses' /\ OneIdPerProcess'
  BY <1>1, ProcessesKept DEF IInv, TypeOK
<1>5. ReservedIsBlank' /\ DesktopHasItsOwner'
  BY <1>1 DEF IInv, ReservedIsBlank, DesktopHasItsOwner
<1> QED
  BY <1>2, <1>3, <1>4, <1>5 DEF IInv

-----------------------------------------------------------------------------
(* srv_appl_exit().                                                        *)

\* What is left after an exit.
LEMMA ExitFacts ==
  ASSUME IInv, NEW i \in Id, Exit(i)
  PROVE  /\ ap_pri' = Without(ap_pri, i)
         /\ apps' \in [Id -> AP_INFO]
         /\ \A j \in Id : /\ apps'[j].pid = apps[j].pid /\ apps'[j].handle = apps[j].handle
                          /\ apps'[j].deskbg = apps[j].deskbg
                          /\ apps'[j].type = apps[j].type /\ apps'[j].name = apps[j].name
         /\ \A j \in Id : apps'[j].menu => apps[j].menu
         /\ \A j \in Id : j # i => apps'[j] = apps[j]
         /\ apps'[i].live => apps[i].live /\ ~In(i, ap_pri)
         /\ apps[i].live /\ ~In(i, ap_pri) => apps'[i].live
         /\ apps[i].live => ~apps'[i].menu
<1>1. apps \in [Id -> AP_INFO]
  BY DEF IInv, TypeOK
<1>2. PICK info : info = menu_bar_remove(apps, i)
  OBVIOUS
<1>3. /\ ap_pri' = Without(ap_pri, i)
      /\ apps' = IF In(i, ap_pri) THEN [info EXCEPT ![i].live = FALSE] ELSE info
  BY <1>2 DEF Exit, apinfofree
<1>4. info = IF apps[i].live THEN [apps EXCEPT ![i].menu = FALSE] ELSE apps
  BY <1>2 DEF menu_bar_remove
<1>5. info \in [Id -> AP_INFO] /\ apps' \in [Id -> AP_INFO]
  <2>2. ASSUME NEW f \in [Id -> AP_INFO]
        PROVE  /\ [f EXCEPT ![i].live = FALSE] \in [Id -> AP_INFO]
               /\ [f EXCEPT ![i].menu = FALSE] \in [Id -> AP_INFO]
    BY FieldIsSet
  <2>3. info \in [Id -> AP_INFO]
    BY <1>1, <1>4, <2>2
  <2> QED
    BY <1>3, <2>2, <2>3
<1>6. \A j \in Id : j # i => apps'[j] = apps[j]
  BY <1>1, <1>3, <1>4
<1>7. /\ apps'[i].pid = apps[i].pid /\ apps'[i].handle = apps[i].handle
      /\ apps'[i].deskbg = apps[i].deskbg
      /\ apps'[i].type = apps[i].type /\ apps'[i].name = apps[i].name
  BY <1>1, <1>3, <1>4 DEF AP_INFO
<1>8. /\ apps'[i].menu => apps[i].menu
      /\ apps[i].live => ~apps'[i].menu
  BY <1>1, <1>3, <1>4 DEF AP_INFO
<1>9. /\ apps'[i].live => apps[i].live /\ ~In(i, ap_pri)
      /\ apps[i].live /\ ~In(i, ap_pri) => apps'[i].live
  <2>1. In(i, ap_pri) => apps[i].live
    BY DEF IInv, EntriesAreTheIds
  <2> QED
    BY <2>1, <1>1, <1>3, <1>4 DEF AP_INFO
<1> QED
  BY <1>3, <1>5, <1>6, <1>7, <1>8, <1>9

\* An exit, by itself, by a kill, by a lost connection or at the shutdown.
LEMMA ExitStep ==
  ASSUME IInv, NEW i \in Id, Exit(i),
         UNCHANGED <<known, launcher>>,
         proc' \in [Pid -> {"new", "up", "gone"}],
         \A p \in Pid : proc'[p] = proc[p] \/ proc'[p] = "gone",
         lost' \in SUBSET Pid, status' \in {"up", "closing", "down"},
         strayed' \in BOOLEAN, strayed => strayed'
  PROVE  IInv'
<1>1. /\ ap_pri \in Seq(Id) /\ applmenu \in Seq(Id) /\ accmenu \in Seq(Id) /\ ap_resvd \in Seq(Id)
      /\ Distinct(ap_pri) /\ Distinct(applmenu) /\ Distinct(accmenu)
  BY DEF IInv, TypeOK, EntriesAreTheIds, MenusListTheLiving
<1>2. /\ ap_pri' \in Seq(Id) /\ Distinct(ap_pri')
      /\ \A j : In(j, ap_pri') <=> In(j, ap_pri) /\ j # i
      /\ \A a, b : Before(ap_pri', a, b) <=> Before(ap_pri, a, b) /\ a # i /\ b # i
  BY <1>1, ExitFacts, WithoutIs
<1>3. /\ applmenu' \in Seq(Id) /\ Distinct(applmenu')
      /\ \A j : In(j, applmenu') <=> In(j, applmenu) /\ j # i
      /\ \A a, b : Before(applmenu', a, b) <=> Before(applmenu, a, b) /\ a # i /\ b # i
  BY <1>1, WithoutIs DEF Exit, unregister_menu
<1>4. /\ accmenu' \in Seq(Id) /\ Distinct(accmenu')
      /\ \A j : In(j, accmenu') <=> In(j, accmenu) /\ j # i
      /\ \A a, b : Before(accmenu', a, b) <=> Before(accmenu, a, b) /\ a # i /\ b # i
  BY <1>1, WithoutIs DEF Exit, unregister_menu
<1>5. /\ apps' \in [Id -> AP_INFO]
      /\ \A j \in Id : /\ apps'[j].pid = apps[j].pid /\ apps'[j].handle = apps[j].handle
                       /\ apps'[j].deskbg = apps[j].deskbg
                       /\ apps'[j].type = apps[j].type /\ apps'[j].name = apps[j].name
      /\ \A j \in Id : apps'[j].menu => apps[j].menu
      /\ \A j \in Id : j # i => apps'[j] = apps[j]
      /\ apps'[i].live => apps[i].live /\ ~In(i, ap_pri)
      /\ apps[i].live /\ ~In(i, ap_pri) => apps'[i].live
  BY ExitFacts
<1>6. /\ UNCHANGED <<ap_resvd, next_ap>>
      /\ deskowner' = IF deskowner = i THEN NoId ELSE deskowner
      /\ bar' = (bar /\ i # 0)
  BY DEF Exit, srv_wind_new
<1>7. TypeOK'
  <2>1. menu_bar_remove(apps, i) = menu_bar_remove(apps, i)
        /\ get_top_menu_owner(ap_pri, menu_bar_remove(apps, i)) \in Id \cup {NoId}
    BY <1>1, OwnerType
  <2>2. mail' \in [Id -> 0 .. MaxMail]
    BY <1>1, <2>1, DeliverIs DEF Exit, redraw_menu_bar, IInv, TypeOK
  <2> QED
    BY <1>2, <1>3, <1>4, <1>5, <1>6, <2>2 DEF IInv, TypeOK
<1>8. EntriesAreTheIds'
  <2>1. \A j \in Id : ~(In(j, ap_pri') /\ In(j, ap_resvd))
    BY <1>2 DEF IInv, EntriesAreTheIds
  <2>2. \A j \in Id : apps'[j].live <=> In(j, ap_pri') \/ In(j, ap_resvd)
    BY <1>2, <1>5 DEF IInv, EntriesAreTheIds
  <2>3. Distinct(ap_resvd)
    BY DEF IInv, EntriesAreTheIds
  <2> QED
    BY <1>2, <1>6, <2>1, <2>2, <2>3 DEF EntriesAreTheIds
<1>9. MenusListTheLiving'
  <2>1. \A a, b : Before(applmenu, a, b) \/ Before(accmenu, a, b) => a \in Id /\ b \in Id
    BY <1>1 DEF Before
  <2>2. SortedBy(applmenu, apps) /\ SortedBy(accmenu, apps)
    BY DEF IInv, MenusListTheLiving, Sorted, SortedBy
  <2>3. \A a, b : Before(applmenu', a, b) => apps'[a].name <= apps'[b].name
    BY <1>1, <1>3, <1>5, <2>1, <2>2, SortedIs
  <2>4. \A a, b : Before(accmenu', a, b) => apps'[a].name <= apps'[b].name
    BY <1>1, <1>4, <1>5, <2>1, <2>2, SortedIs
  <2>5. SortedBy(applmenu', apps') /\ SortedBy(accmenu', apps')
    BY <1>3, <1>4, <2>3, <2>4, SortedIs
  <2>6. Sorted(applmenu)' /\ Sorted(accmenu)'
    BY <2>5 DEF Sorted, SortedBy
  <2>7. \A j \in Id : In(j, applmenu') <=> In(j, ap_pri') /\ apps'[j].type = "application"
    BY <1>2, <1>3, <1>5 DEF IInv, MenusListTheLiving
  <2>8. \A j \in Id : In(j, accmenu') => In(j, ap_pri') /\ apps'[j].type = "accessory"
    BY <1>2, <1>4, <1>5 DEF IInv, MenusListTheLiving
  <2> QED
    BY <1>3, <1>4, <2>6, <2>7, <2>8 DEF MenusListTheLiving
<1>10. EntriesHaveProcesses' /\ OneIdPerProcess'
  <2>1. \A j \in Id : apps'[j].live => apps[j].live
    BY <1>5
  <2> QED
    BY <1>2, <1>5, <2>1, ProcessesKept DEF IInv, TypeOK
<1>11. ReservedIsBlank'
  BY <1>5, <1>6 DEF IInv, ReservedIsBlank
<1>12. DesktopHasItsOwner'
  <2> SUFFICES ASSUME deskowner # NoId, deskowner # i, ~strayed'
               PROVE  deskowner = get_desktop_owner_id(ap_pri', apps')
    BY <1>6 DEF DesktopHasItsOwner
  <2>1. deskowner = FirstWith(ap_pri, HasDesk(apps), 0)
    BY DEF IInv, TypeOK, DesktopHasItsOwner, get_desktop_owner_id
  <2>2. \A j \in Id : HasDesk(apps')[j] = HasDesk(apps)[j]
    BY <1>5, Features
  <2>3. \A a, b : Before(ap_pri', a, b) => a \in Id
    BY <1>2 DEF Before
  <2>4. CASE IsFirst(ap_pri, HasDesk(apps), deskowner) /\ deskowner \in Id
    <3>1. IsFirst(ap_pri', HasDesk(apps'), deskowner)
      BY <1>2, <2>2, <2>3, <2>4 DEF IsFirst
    <3> QED
      BY <1>2, <3>1, FirstWithIs DEF get_desktop_owner_id
  <2>5. CASE (\A j : In(j, ap_pri) => ~HasDesk(apps)[j]) /\ deskowner = 0
    <3>1. \A j : In(j, ap_pri') => j \in Id
      BY <1>2 DEF In
    <3>2. \A j : In(j, ap_pri') => ~HasDesk(apps')[j]
      BY <1>2, <2>2, <2>5, <3>1
    <3>3. FirstWith(ap_pri', HasDesk(apps'), 0) = 0
      BY <1>2, <3>2, FirstWithFound DEF IsFirst
    <3> QED
      BY <2>5, <3>3 DEF get_desktop_owner_id
  <2> QED
    BY <1>1, <2>1, <2>4, <2>5, FirstWithFound
<1> QED
  BY <1>7, <1>8, <1>9, <1>10, <1>11, <1>12 DEF IInv

-----------------------------------------------------------------------------
(* Titles are entered.                                                     *)

\* Registered() gives an application its name and its place.
LEMMA RegisteredIs ==
  ASSUME NEW info \in [Id -> AP_INFO], NEW i \in Id, NEW t \in Title,
         applmenu \in Seq(Id), accmenu \in Seq(Id), Distinct(applmenu), Distinct(accmenu),
         SortedBy(applmenu, info), SortedBy(accmenu, info),
         info[i].type = "application" => ~In(i, accmenu),
         info[i].type = "accessory" => ~In(i, applmenu),
         Registered(info, i, t)
  PROVE  /\ apps' \in [Id -> AP_INFO]
         /\ \A j \in Id : j # i => apps'[j] = info[j]
         /\ apps'[i].live = info[i].live /\ apps'[i].pid = info[i].pid
         /\ apps'[i].deskbg = info[i].deskbg /\ apps'[i].menu = info[i].menu
         /\ apps'[i].type = info[i].type
         /\ applmenu' \in Seq(Id) /\ accmenu' \in Seq(Id)
         /\ Distinct(applmenu') /\ Distinct(accmenu')
         /\ SortedBy(applmenu', apps') /\ SortedBy(accmenu', apps')
         /\ \A j \in Id : In(j, applmenu')
              <=> In(j, applmenu) \/ (j = i /\ info[i].type = "application")
         /\ \A j \in Id : In(j, accmenu')
              <=> In(j, accmenu) \/ (j = i /\ info[i].type = "accessory")
<1>1. apps' = [info EXCEPT ![i].name = t]
  BY DEF Registered
<1>2. apps' \in [Id -> AP_INFO]
  BY <1>1, FieldIsSet
<1>3. /\ \A j \in Id : j # i => apps'[j] = info[j]
      /\ apps'[i].live = info[i].live /\ apps'[i].pid = info[i].pid
      /\ apps'[i].deskbg = info[i].deskbg /\ apps'[i].menu = info[i].menu
      /\ apps'[i].type = info[i].type /\ apps'[i].name = t
  <2>1. info[i] \in AP_INFO
    OBVIOUS
  <2> QED
    BY <1>1, <2>1 DEF AP_INFO
<1>4. info[i].type \in {"application", "accessory"}
  <2>1. info[i] \in AP_INFO
    OBVIOUS
  <2> QED
    BY <2>1 DEF AP_INFO
<1>5. ASSUME NEW list \in Seq(Id), SortedBy(list, info), ~In(i, list)
      PROVE  SortedBy(list, apps')
  <2>1. \A k \in DOMAIN list : list[k] \in Id /\ list[k] # i
    BY <1>5 DEF In
  <2> QED
    BY <1>3, <1>5, <2>1 DEF SortedBy
<1>6. CASE info[i].type = "accessory"
  <2>1. accmenu' = Inserted(accmenu, info, i, t) /\ applmenu' = applmenu
    BY <1>6 DEF Registered
  <2>2. /\ accmenu' \in Seq(Id) /\ Distinct(accmenu') /\ SortedBy(accmenu', apps')
        /\ \A j : In(j, accmenu') <=> In(j, accmenu) \/ j = i
    BY <1>2, <1>3, <2>1, InsertedIs
  <2>3. SortedBy(applmenu', apps')
    BY <1>5, <1>6, <2>1
  <2> QED
    BY <1>2, <1>3, <1>6, <2>1, <2>2, <2>3
<1>7. CASE info[i].type = "application"
  <2>1. applmenu' = Inserted(applmenu, info, i, t) /\ accmenu' = accmenu
    BY <1>7 DEF Registered
  <2>2. /\ applmenu' \in Seq(Id) /\ Distinct(applmenu') /\ SortedBy(applmenu', apps')
        /\ \A j : In(j, applmenu') <=> In(j, applmenu) \/ j = i
    BY <1>2, <1>3, <2>1, InsertedIs
  <2>3. SortedBy(accmenu', apps')
    BY <1>5, <1>7, <2>1
  <2> QED
    BY <1>2, <1>3, <1>7, <2>1, <2>2, <2>3
<1> QED
  BY <1>4, <1>6, <1>7

\* What the menu bar's lists are by the invariant.
LEMMA MenuFacts ==
  ASSUME IInv
  PROVE  /\ applmenu \in Seq(Id) /\ accmenu \in Seq(Id)
         /\ Distinct(applmenu) /\ Distinct(accmenu)
         /\ SortedBy(applmenu, apps) /\ SortedBy(accmenu, apps)
         /\ \A j \in Id : In(j, applmenu) <=> In(j, ap_pri) /\ apps[j].type = "application"
         /\ \A j \in Id : In(j, accmenu) => In(j, ap_pri) /\ apps[j].type = "accessory"
BY DEF IInv, TypeOK, MenusListTheLiving, Sorted, SortedBy

\* An application that is there is registered again, under another name.
LEMMA RegisterStep ==
  ASSUME IInv, NEW i \in Id, NEW t \in Title, In(i, ap_pri), Registered(apps, i, t),
         UNCHANGED <<ap_pri, ap_resvd, next_ap, mail, wins, procs, status>>,
         strayed' \in BOOLEAN, strayed => strayed'
  PROVE  IInv'
<1>1. UNCHANGED <<ap_pri, ap_resvd, next_ap, mail, deskowner, bar, proc, known, launcher, lost, status>>
  BY DEF wins, procs
<1>2. apps \in [Id -> AP_INFO]
  BY DEF IInv, TypeOK
<1>3. /\ apps[i].type = "application" => ~In(i, accmenu)
      /\ apps[i].type = "accessory" => ~In(i, applmenu)
  BY MenuFacts
<1>4. /\ apps' \in [Id -> AP_INFO]
      /\ \A j \in Id : j # i => apps'[j] = apps[j]
      /\ apps'[i].live = apps[i].live /\ apps'[i].pid = apps[i].pid
      /\ apps'[i].deskbg = apps[i].deskbg /\ apps'[i].menu = apps[i].menu
      /\ apps'[i].type = apps[i].type
      /\ applmenu' \in Seq(Id) /\ accmenu' \in Seq(Id)
      /\ Distinct(applmenu') /\ Distinct(accmenu')
      /\ SortedBy(applmenu', apps') /\ SortedBy(accmenu', apps')
      /\ \A j \in Id : In(j, applmenu')
           <=> In(j, applmenu) \/ (j = i /\ apps[i].type = "application")
      /\ \A j \in Id : In(j, accmenu')
           <=> In(j, accmenu) \/ (j = i /\ apps[i].type = "accessory")
  BY <1>2, <1>3, MenuFacts, RegisteredIs
<1>5. \A j \in Id : /\ apps'[j].live = apps[j].live /\ apps'[j].pid = apps[j].pid
                    /\ apps'[j].deskbg = apps[j].deskbg /\ apps'[j].menu = apps[j].menu
                    /\ apps'[j].type = apps[j].type
  BY <1>4
<1>6. TypeOK'
  BY <1>1, <1>4 DEF IInv, TypeOK
<1>7. EntriesAreTheIds'
  BY <1>1, <1>5, EntriesKept DEF IInv, EntriesAreTheIds
<1>8. MenusListTheLiving'
  <2>1. Sorted(applmenu)' /\ Sorted(accmenu)'
    BY <1>4 DEF Sorted, SortedBy
  <2>2. \A j \in Id : In(j, applmenu') <=> In(j, ap_pri') /\ apps'[j].type = "application"
    BY <1>1, <1>4, <1>5, MenuFacts
  <2>3. \A j \in Id : In(j, accmenu') => In(j, ap_pri') /\ apps'[j].type = "accessory"
    BY <1>1, <1>4, <1>5, MenuFacts
  <2> QED
    BY <1>4, <2>1, <2>2, <2>3 DEF MenusListTheLiving
<1>9. EntriesHaveProcesses' /\ OneIdPerProcess'
  BY <1>1, <1>5, ProcessesKept DEF IInv, TypeOK
<1>10. ReservedIsBlank'
  BY <1>1, <1>5 DEF IInv, ReservedIsBlank
<1>11. DesktopHasItsOwner'
  <2>1. HasDesk(apps') = HasDesk(apps)
    BY <1>5 DEF HasDesk
  <2> QED
    BY <1>1, <2>1 DEF IInv, DesktopHasItsOwner, get_desktop_owner_id
<1> QED
  BY <1>6, <1>7, <1>8, <1>9, <1>10, <1>11 DEF IInv

-----------------------------------------------------------------------------
(* srv_appl_reserve() and srv_appl_init().                                 *)

\* A new entry is blank.
LEMMA NewInfoIs ==
  ASSUME IInv, Free # {}, NEW p \in Pid, NEW h \in Pid \cup {NoPid},
         NEW type \in {"application", "accessory"}
  PROVE  LET new == NewInfo(p, h, type) IN
         /\ new \in AP_INFO
         /\ new.live /\ new.pid = p /\ ~new.deskbg /\ ~new.menu /\ new.type = type
<1>1. apps[NextFree] \in AP_INFO
  BY NextFreeIs DEF IInv, TypeOK
<1>2. apps[NextFree].name \in Title
  BY <1>1 DEF AP_INFO
<1> QED
  BY <1>2 DEF NewInfo, AP_INFO

\* An entry outside the list of applications makes no first one.
LEMMA OutsideIsNotFirst ==
  ASSUME NEW list \in Seq(Id), Distinct(list), NEW info, NEW info2, NEW n \in Id, ~In(n, list),
         \A j \in Id : j # n => info2[j] = info[j], NEW other
  PROVE  /\ FirstWith(list, HasDesk(info2), other) = FirstWith(list, HasDesk(info), other)
         /\ FirstWith(list, HasMenu(info2), other) = FirstWith(list, HasMenu(info), other)
<1>1. \A j \in Id : In(j, list) =>
        /\ HasDesk(info2)[j] = HasDesk(info)[j] /\ HasMenu(info2)[j] = HasMenu(info)[j]
  BY Features
<1> DEFINE d == HasDesk(info)
           e == HasDesk(info2)
           u == HasMenu(info)
           v == HasMenu(info2)
<1>2. \A j \in Id : In(j, list) /\ d[j] <=> In(j, list) /\ e[j]
  BY <1>1
<1>3. \A j \in Id : In(j, list) /\ u[j] <=> In(j, list) /\ v[j]
  BY <1>1
<1>4. FirstWith(list, d, other) = FirstWith(list, e, other)
  <2> HIDE DEF d, e
  <2> QED BY <1>2, SameFirst
<1>5. FirstWith(list, u, other) = FirstWith(list, v, other)
  <2> HIDE DEF u, v
  <2> QED BY <1>3, SameFirst
<1> QED
  BY <1>4, <1>5

\* shel_write() reserves an id for the program that has been started.
LEMMA ReserveStep ==
  ASSUME IInv, NEW child \in Pid, NEW type \in {"application", "accessory"},
         Appl_reserve(child, type)
  PROVE  IInv'
<1>1. /\ launcher[child] # NoPid /\ proc[launcher[child]] = "up"
      /\ launcher' = [launcher EXCEPT ![child] = NoPid]
      /\ UNCHANGED <<ap_pri, applmenu, accmenu, deskowner, bar, proc, known, lost, status, strayed>>
      /\ Free # {}
  BY DEF Appl_reserve, srv_appl_reserve, menus, wins
<1>2. PICK n : n = NextFree
  OBVIOUS
<1>3. n \in Id /\ ~apps[n].live
  BY <1>1, <1>2, NextFreeIs DEF IInv, TypeOK
<1>4. PICK new : new = NewInfo(child, NoPid, type)
  OBVIOUS
<1>5. /\ new \in AP_INFO /\ new.live /\ new.pid = child
      /\ ~new.deskbg /\ ~new.menu /\ new.type = type
  BY <1>1, <1>4, NewInfoIs
<1>6. /\ apps' = [apps EXCEPT ![n] = new]
      /\ ap_resvd' = <<n>> \o ap_resvd
      /\ next_ap' = n
      /\ mail' = [mail EXCEPT ![n] = 0]
  BY <1>2, <1>4 DEF Appl_reserve, srv_appl_reserve
<1>7. ~In(n, ap_pri) /\ ~In(n, ap_resvd) /\ ap_resvd \in Seq(Id) /\ Distinct(ap_resvd)
  BY <1>3 DEF IInv, TypeOK, EntriesAreTheIds
<1>8. /\ ap_resvd' \in Seq(Id) /\ Distinct(ap_resvd')
      /\ \A j : In(j, ap_resvd') <=> j = n \/ In(j, ap_resvd)
  BY <1>3, <1>6, <1>7, FirstIs
<1>9. /\ apps' \in [Id -> AP_INFO]
      /\ \A j \in Id : j # n => apps'[j] = apps[j]
      /\ apps'[n] = new
  BY <1>3, <1>5, <1>6 DEF IInv, TypeOK
<1>10. TypeOK'
  <2>3. 0 \in 0 .. MaxMail /\ mail \in [Id -> 0 .. MaxMail]
    BY BoundAssumption DEF IInv, TypeOK
  <2>1. mail' \in [Id -> 0 .. MaxMail]
    BY <1>6, <2>3
  <2>2. launcher' \in [Pid -> Pid \cup {NoPid}]
    BY <1>1 DEF IInv, TypeOK
  <2> QED
    BY <1>1, <1>3, <1>6, <1>8, <1>9, <2>1, <2>2 DEF IInv, TypeOK
<1>11. EntriesAreTheIds'
  <2>1. \A j \in Id : apps'[j].live <=> In(j, ap_pri') \/ In(j, ap_resvd')
    BY <1>1, <1>5, <1>8, <1>9 DEF IInv, EntriesAreTheIds
  <2>2. \A j \in Id : ~(In(j, ap_pri') /\ In(j, ap_resvd'))
    BY <1>1, <1>7, <1>8 DEF IInv, EntriesAreTheIds
  <2> QED
    BY <1>1, <1>8, <2>1, <2>2 DEF IInv, EntriesAreTheIds
<1>12. MenusListTheLiving'
  <2>1. \A j \in Id : In(j, ap_pri) =>
           apps'[j].type = apps[j].type /\ apps'[j].name = apps[j].name
    BY <1>7, <1>9
  <2> QED
    BY <1>1, <2>1, MenusKept DEF IInv, menus
<1>13. EntriesHaveProcesses' /\ OneIdPerProcess'
  <2>1. Semaphore => Nobody(child)
    BY <1>1 DEF IInv, EntriesHaveProcesses
  <2>2. proc[child] # "new"
    BY <1>1 DEF IInv, EntriesHaveProcesses
  <2>3. \A p \in Pid : p # child => (Nobody(p) => Nobody(p)')
    BY <1>5, <1>9 DEF Nobody
  <2>4. \A i \in Id : apps'[i].live => apps'[i].pid \in Pid
    BY <1>5, <1>9 DEF IInv, EntriesHaveProcesses
  <2>5. \A i \in Id : In(i, ap_pri') => known'[apps'[i].pid] # NoId
    BY <1>1, <1>7, <1>9 DEF IInv, EntriesHaveProcesses
  <2>6. \A p \in Pid : proc'[p] = "new" => known'[p] = NoId /\ launcher'[p] = NoPid /\ Nobody(p)'
    BY <1>1, <2>2, <2>3 DEF IInv, EntriesHaveProcesses, TypeOK
  <2>7. Semaphore =>
          \A p \in Pid : launcher'[p] # NoPid /\ proc'[launcher'[p]] # "gone" => Nobody(p)'
    BY <1>1, <2>3 DEF IInv, EntriesHaveProcesses, TypeOK
  <2>8. OneIdPerProcess'
    BY <1>5, <1>9, <2>1 DEF IInv, OneIdPerProcess, Nobody
  <2> QED
    BY <2>4, <2>5, <2>6, <2>7, <2>8 DEF EntriesHaveProcesses
<1>14. ReservedIsBlank'
  BY <1>1, <1>5, <1>8, <1>9 DEF IInv, ReservedIsBlank
<1>15. DesktopHasItsOwner'
  <2>2. ap_pri \in Seq(Id) /\ Distinct(ap_pri)
    BY DEF IInv, TypeOK, EntriesAreTheIds
  <2>3. FirstWith(ap_pri, HasDesk(apps'), 0) = FirstWith(ap_pri, HasDesk(apps), 0)
    BY <1>3, <1>7, <1>9, <2>2, OutsideIsNotFirst
  <2>1. get_desktop_owner_id(ap_pri, apps') = get_desktop_owner_id(ap_pri, apps)
    BY <2>3 DEF get_desktop_owner_id
  <2> QED
    BY <1>1, <2>1 DEF IInv, DesktopHasItsOwner
<1> QED
  BY <1>10, <1>11, <1>12, <1>13, <1>14, <1>15 DEF IInv

\* Of two entries one of which is before the other, both are in the list.
LEMMA BeforeIsIn ==
  ASSUME NEW list \in Seq(Id), NEW a, NEW b, Before(list, a, b)
  PROVE  In(a, list) /\ In(b, list)
<1>1. PICK n \in DOMAIN list : list[n] = b /\ \E k \in 1 .. n - 1 : list[k] = a
  BY DEF Before
<1>2. \A k \in 1 .. n - 1 : k \in DOMAIN list
  OBVIOUS
<1> QED
  BY <1>1, <1>2 DEF In

\* A new first entry without the feature makes no first one.
LEMMA NewcomerIsNotFirst ==
  ASSUME NEW list \in Seq(Id), Distinct(list), NEW i \in Id, ~In(i, list),
         NEW d, NEW e, ~e[i], \A j \in Id : j # i => (e[j] <=> d[j]), NEW other
  PROVE  FirstWith(<<i>> \o list, e, other) = FirstWith(list, d, other)
<1>1. PICK new : new = <<i>> \o list
  OBVIOUS
<1>2. /\ new \in Seq(Id) /\ Distinct(new)
      /\ \A j : In(j, new) <=> j = i \/ In(j, list)
      /\ \A a, b : Before(new, a, b) <=> Before(list, a, b) \/ (a = i /\ In(b, list))
  BY <1>1, FirstIs
<1>3. \A j \in Id : In(j, new) /\ e[j] <=> In(j, list) /\ d[j]
  BY <1>2
<1>4. \A a, b \in Id : e[a] /\ e[b] => (Before(new, a, b) <=> Before(list, a, b))
  BY <1>2
<1>5. FirstWith(new, e, other) = FirstWith(list, d, other)
  BY <1>2, <1>3, <1>4, SameFirst
<1> QED
  BY <1>1, <1>5

\* A new first entry without a desktop background is not the first one with it.
LEMMA DeskOfNewcomer ==
  ASSUME NEW list \in Seq(Id), Distinct(list), NEW i \in Id, ~In(i, list),
         NEW info, NEW info2, ~info2[i].deskbg,
         \A j \in Id : j # i => info2[j] = info[j], NEW other
  PROVE  FirstWith(<<i>> \o list, HasDesk(info2), other) = FirstWith(list, HasDesk(info), other)
<1>1. PICK d, e : d = HasDesk(info) /\ e = HasDesk(info2)
  OBVIOUS
<1>2. \A j \in Id : (d[j] <=> info[j].deskbg) /\ (e[j] <=> info2[j].deskbg)
  BY <1>1, Features
<1>3. FirstWith(<<i>> \o list, e, other) = FirstWith(list, d, other)
  BY <1>2, NewcomerIsNotFirst
<1> QED
  BY <1>1, <1>3

\* A new first entry without a menu is not the first one with it.
LEMMA MenuOfNewcomer ==
  ASSUME NEW list \in Seq(Id), Distinct(list), NEW i \in Id, ~In(i, list),
         NEW info, NEW info2, ~info2[i].menu,
         \A j \in Id : j # i => info2[j] = info[j], NEW other
  PROVE  FirstWith(<<i>> \o list, HasMenu(info2), other) = FirstWith(list, HasMenu(info), other)
<1>1. PICK d, e : d = HasMenu(info) /\ e = HasMenu(info2)
  OBVIOUS
<1>2. \A j \in Id : (d[j] <=> info[j].menu) /\ (e[j] <=> info2[j].menu)
  BY <1>1, Features
<1>3. FirstWith(<<i>> \o list, e, other) = FirstWith(list, d, other)
  BY <1>2, NewcomerIsNotFirst
<1> QED
  BY <1>1, <1>3

\* What Enter() makes of the entry and of the menu bar's lists.
Entered(i, info) ==
  /\ apps' \in [Id -> AP_INFO]
  /\ \A j \in Id : j # i => apps'[j] = apps[j]
  /\ apps'[i].live = info[i].live /\ apps'[i].pid = info[i].pid
  /\ apps'[i].deskbg = info[i].deskbg /\ apps'[i].menu = info[i].menu
  /\ apps'[i].type = info[i].type
  /\ applmenu' \in Seq(Id) /\ accmenu' \in Seq(Id)
  /\ Distinct(applmenu') /\ Distinct(accmenu')
  /\ SortedBy(applmenu', apps') /\ SortedBy(accmenu', apps')
  /\ \A j \in Id : In(j, applmenu')
       <=> In(j, applmenu) \/ (j = i /\ info[i].type = "application")
  /\ \A j \in Id : In(j, accmenu') => In(j, accmenu)
  /\ info[i].type \in {"application", "accessory"}
  /\ ~In(i, applmenu) /\ ~In(i, accmenu)

\* srv_appl_init() keeps to what Entered() says.
LEMMA EnterFacts ==
  ASSUME IInv, NEW p \in Pid, NEW i \in Id, NEW info \in [Id -> AP_INFO], ~In(i, ap_pri),
         \A j \in Id : j # i => info[j] = apps[j],
         Enter(p, i, info)
  PROVE  Entered(i, info)
<1>1. /\ info[i].type \in {"application", "accessory"}
      /\ ~In(i, applmenu) /\ ~In(i, accmenu)
  <2>1. info[i] \in AP_INFO
    OBVIOUS
  <2> QED
    BY <2>1, MenuFacts DEF AP_INFO
<1>2. SortedBy(applmenu, info) /\ SortedBy(accmenu, info)
  <2>1. \A k \in DOMAIN applmenu : applmenu[k] \in Id /\ applmenu[k] # i
    BY <1>1, MenuFacts DEF In
  <2>2. \A k \in DOMAIN accmenu : accmenu[k] \in Id /\ accmenu[k] # i
    BY <1>1, MenuFacts DEF In
  <2> QED
    BY <2>1, <2>2, MenuFacts DEF SortedBy
<1>3. CASE info[i].type = "application"
  <2>1. PICK t \in Title : Registered(info, i, t)
    BY <1>3 DEF Enter
  <2>2. /\ applmenu \in Seq(Id) /\ accmenu \in Seq(Id)
        /\ Distinct(applmenu) /\ Distinct(accmenu)
        /\ info[i].type = "application" => ~In(i, accmenu)
        /\ info[i].type = "accessory" => ~In(i, applmenu)
    BY <1>1, MenuFacts
  <2>3. /\ apps' \in [Id -> AP_INFO]
        /\ \A j \in Id : j # i => apps'[j] = info[j]
        /\ apps'[i].live = info[i].live /\ apps'[i].pid = info[i].pid
        /\ apps'[i].deskbg = info[i].deskbg /\ apps'[i].menu = info[i].menu
        /\ apps'[i].type = info[i].type
        /\ applmenu' \in Seq(Id) /\ accmenu' \in Seq(Id)
        /\ Distinct(applmenu') /\ Distinct(accmenu')
        /\ SortedBy(applmenu', apps') /\ SortedBy(accmenu', apps')
        /\ \A j \in Id : In(j, applmenu')
             <=> In(j, applmenu) \/ (j = i /\ info[i].type = "application")
        /\ \A j \in Id : In(j, accmenu')
             <=> In(j, accmenu) \/ (j = i /\ info[i].type = "accessory")
    BY <1>2, <2>1, <2>2, RegisteredIs
  <2> QED
    BY <1>1, <1>3, <2>3 DEF Entered
<1>4. CASE info[i].type = "accessory"
  <2>1. apps' = info /\ applmenu' = applmenu /\ accmenu' = accmenu
    BY <1>4 DEF Enter, menus
  <2> QED
    BY <1>1, <1>2, <1>4, <2>1, MenuFacts DEF Entered
<1> QED
  BY <1>1, <1>3, <1>4

\* An application enters, with an entry of its own that is in no list of
\* applications yet, and becomes the first one.
LEMMA EnterStep ==
  ASSUME IInv, NEW p \in Pid, NEW i \in Id, NEW info \in [Id -> AP_INFO],
         proc[p] # "gone", known[p] = NoId, Semaphore => ~Locked,
         info[i].live, info[i].pid = p, ~In(i, ap_pri),
         ~strayed => ~info[i].deskbg /\ ~info[i].menu,
         \A j \in Id : j # i => info[j] = apps[j],
         Semaphore => \A j \in Id : j # i => (apps[j].live => apps[j].pid # p),
         ap_resvd' \in Seq(Id), Distinct(ap_resvd'),
         \A j : In(j, ap_resvd') <=> In(j, ap_resvd) /\ j # i,
         next_ap' \in Id, mail' \in [Id -> 0 .. MaxMail],
         Enter(p, i, info),
         UNCHANGED <<wins, launcher, lost, status, strayed>>
  PROVE  IInv'
<1>1. /\ ap_pri' = <<i>> \o ap_pri
      /\ proc' = [proc EXCEPT ![p] = "up"]
      /\ known' = [known EXCEPT ![p] = i]
      /\ UNCHANGED <<deskowner, bar, launcher, lost, status, strayed>>
  BY DEF Enter, wins
<1>2. /\ ap_pri' \in Seq(Id) /\ Distinct(ap_pri')
      /\ \A j : In(j, ap_pri') <=> j = i \/ In(j, ap_pri)
      /\ \A a, b : Before(ap_pri', a, b) <=> Before(ap_pri, a, b) \/ (a = i /\ In(b, ap_pri))
  BY <1>1, FirstIs DEF IInv, TypeOK, EntriesAreTheIds
<1>4. Entered(i, info)
  BY EnterFacts
<1>3. /\ info[i].type \in {"application", "accessory"}
      /\ ~In(i, applmenu) /\ ~In(i, accmenu)
  BY <1>4 DEF Entered
<1>5. /\ apps' \in [Id -> AP_INFO]
      /\ \A j \in Id : j # i => apps'[j] = apps[j]
      /\ apps'[i].live = info[i].live /\ apps'[i].pid = info[i].pid
      /\ apps'[i].deskbg = info[i].deskbg /\ apps'[i].menu = info[i].menu
      /\ apps'[i].type = info[i].type
      /\ applmenu' \in Seq(Id) /\ accmenu' \in Seq(Id)
      /\ Distinct(applmenu') /\ Distinct(accmenu')
      /\ SortedBy(applmenu', apps') /\ SortedBy(accmenu', apps')
      /\ \A j \in Id : In(j, applmenu')
           <=> In(j, applmenu) \/ (j = i /\ info[i].type = "application")
      /\ \A j \in Id : In(j, accmenu') => In(j, accmenu)
  BY <1>4 DEF Entered
<1>6. TypeOK'
  BY <1>1, <1>2, <1>5 DEF IInv, TypeOK
<1>7. EntriesAreTheIds'
  <2>1. \A j \in Id : apps'[j].live <=> In(j, ap_pri') \/ In(j, ap_resvd')
    BY <1>2, <1>5 DEF IInv, EntriesAreTheIds
  <2>2. \A j \in Id : ~(In(j, ap_pri') /\ In(j, ap_resvd'))
    BY <1>2 DEF IInv, EntriesAreTheIds
  <2> QED
    BY <1>2, <2>1, <2>2 DEF EntriesAreTheIds
<1>8. MenusListTheLiving'
  <2>1. Sorted(applmenu)' /\ Sorted(accmenu)'
    BY <1>5 DEF Sorted, SortedBy
  <2>4. \A j \in Id : j # i => apps'[j].type = apps[j].type
    BY <1>5
  <2>5. /\ \A j \in Id : In(j, applmenu) <=> In(j, ap_pri) /\ apps[j].type = "application"
        /\ \A j \in Id : In(j, accmenu) => In(j, ap_pri) /\ apps[j].type = "accessory"
    BY MenuFacts
  <2>2. ASSUME NEW j \in Id
        PROVE  In(j, applmenu') <=> In(j, ap_pri') /\ apps'[j].type = "application"
    <3>1. CASE j = i
      BY <1>2, <1>3, <1>5, <3>1
    <3>2. CASE j # i
      BY <1>2, <1>5, <2>4, <2>5, <3>2
    <3> QED
      BY <3>1, <3>2
  <2>3. ASSUME NEW j \in Id, In(j, accmenu')
        PROVE  In(j, ap_pri') /\ apps'[j].type = "accessory"
    BY <1>2, <1>3, <1>5, <2>3, <2>4, <2>5
  <2> QED
    BY <1>5, <2>1, <2>2, <2>3 DEF MenusListTheLiving
<1>9. EntriesHaveProcesses' /\ OneIdPerProcess'
  <2>1. \A q \in Pid : q # p => (Nobody(q) => Nobody(q)')
    BY <1>5 DEF Nobody
  <2>2. i # NoId
    BY BoundAssumption DEF Id, NoId
  <2>3. known'[p] # NoId /\ \A q \in Pid : known'[q] = known[q] \/ known'[q] # NoId
    BY <1>1, <2>2 DEF IInv, TypeOK
  <2>4. \A j \in Id : apps'[j].live => apps'[j].pid \in Pid
    BY <1>5 DEF IInv, EntriesHaveProcesses
  <2>5. \A j \in Id : In(j, ap_pri') => known'[apps'[j].pid] # NoId
    <3>1. \A j \in Id : In(j, ap_pri) => j # i /\ apps[j].pid \in Pid /\ known[apps[j].pid] # NoId
      BY DEF IInv, EntriesHaveProcesses, EntriesAreTheIds
    <3> QED
      BY <1>2, <1>5, <2>3, <3>1
  <2>6. \A q \in Pid : proc'[q] = "new" => known'[q] = NoId /\ launcher'[q] = NoPid /\ Nobody(q)'
    BY <1>1, <2>1 DEF IInv, EntriesHaveProcesses, TypeOK
  <2>7. Semaphore =>
          \A q \in Pid : launcher'[q] # NoPid /\ proc'[launcher'[q]] # "gone" => Nobody(q)'
    <3> SUFFICES ASSUME Semaphore, NEW q \in Pid, launcher[q] # NoPid, proc'[launcher[q]] # "gone"
                 PROVE  FALSE
      BY <1>1
    <3>1. launcher[q] \in Pid
      BY DEF IInv, TypeOK
    <3>2. proc[launcher[q]] # "gone"
      BY <1>1, <3>1 DEF IInv, TypeOK
    <3> QED
      BY <3>2 DEF Locked
  <2>8. OneIdPerProcess'
    <3> SUFFICES ASSUME Semaphore, NEW j \in Id, NEW k \in Id, apps'[j].live, apps'[k].live,
                        apps'[j].pid = apps'[k].pid
                 PROVE  j = k
      BY DEF OneIdPerProcess
    <3>1. CASE j # i /\ k # i
      BY <1>5, <3>1 DEF IInv, OneIdPerProcess
    <3>2. CASE j = i
      BY <1>5, <3>2
    <3>3. CASE k = i
      BY <1>5, <3>3
    <3> QED
      BY <3>1, <3>2, <3>3
  <2> QED
    BY <2>4, <2>5, <2>6, <2>7, <2>8 DEF EntriesHaveProcesses
<1>10. ReservedIsBlank'
  <2> SUFFICES ASSUME ~strayed, NEW j \in Id, In(j, ap_resvd'), known'[apps'[j].pid] = NoId
               PROVE  ~apps'[j].deskbg /\ ~apps'[j].menu
    BY <1>1 DEF ReservedIsBlank
  <2>1. j # i /\ In(j, ap_resvd) /\ apps'[j] = apps[j]
    BY <1>5
  <2>2. apps[j].pid \in Pid
    BY <2>1 DEF IInv, EntriesAreTheIds, EntriesHaveProcesses
  <2>3. i # NoId
    BY BoundAssumption DEF Id, NoId
  <2>4. known[apps[j].pid] = NoId
    BY <1>1, <2>1, <2>2, <2>3 DEF IInv, TypeOK
  <2> QED
    BY <2>1, <2>4 DEF IInv, ReservedIsBlank
<1>11. DesktopHasItsOwner'
  <2> SUFFICES ASSUME deskowner # NoId, ~strayed
               PROVE  deskowner = get_desktop_owner_id(ap_pri', apps')
    BY <1>1 DEF DesktopHasItsOwner
  <2>1. ap_pri \in Seq(Id) /\ Distinct(ap_pri)
    BY DEF IInv, TypeOK, EntriesAreTheIds
  <2>2. PICK info1, info2 : info1 = apps /\ info2 = apps'
    OBVIOUS
  <2>3. ~info2[i].deskbg /\ \A j \in Id : j # i => info2[j] = info1[j]
    BY <1>5, <2>2
  <2>4. FirstWith(<<i>> \o ap_pri, HasDesk(info2), 0) = FirstWith(ap_pri, HasDesk(info1), 0)
    BY <2>1, <2>3, DeskOfNewcomer
  <2> QED
    BY <1>1, <2>2, <2>4 DEF IInv, DesktopHasItsOwner, get_desktop_owner_id
<1> QED
  BY <1>6, <1>7, <1>8, <1>9, <1>10, <1>11 DEF IInv

\* appl_init() with an id that has been reserved, or with a new one: who enters
\* is in no list of applications, has no other entry and a blank one.
Enters(p, i, info) ==
  /\ i \in Id /\ info \in [Id -> AP_INFO]
  /\ info[i].live /\ info[i].pid = p /\ ~In(i, ap_pri)
  /\ ~strayed => ~info[i].deskbg /\ ~info[i].menu
  /\ \A j \in Id : j # i => info[j] = apps[j]
  /\ Semaphore => \A j \in Id : j # i => (apps[j].live => apps[j].pid # p)
  /\ ap_resvd' \in Seq(Id) /\ Distinct(ap_resvd')
  /\ \A j : In(j, ap_resvd') <=> In(j, ap_resvd) /\ j # i
  /\ next_ap' \in Id /\ mail' \in [Id -> 0 .. MaxMail]
  /\ Enter(p, i, info)

\* A process that calls appl_init() takes a reserved id, or a free one.
LEMMA InitEnters ==
  ASSUME IInv, NEW p \in Pid, Appl_init(p)
  PROVE  \E i, info : Enters(p, i, info)
<1>1. /\ proc[p] # "gone" /\ known[p] = NoId /\ (Semaphore => ~Locked)
      /\ srv_appl_init(p)
      /\ UNCHANGED <<wins, launcher, lost, status, strayed>>
  BY DEF Appl_init, srv_appl_init
<1>2. apps \in [Id -> AP_INFO] /\ ap_resvd \in Seq(Id) /\ Distinct(ap_resvd)
      /\ next_ap \in Id /\ mail \in [Id -> 0 .. MaxMail]
  BY DEF IInv, TypeOK, EntriesAreTheIds
<1>3. \A j \in Id : In(j, ap_pri) => apps[j].pid # p
  BY <1>1 DEF IInv, EntriesHaveProcesses
<1>4. CASE Reserved(p) # {}
  <2>1. PICK i : i = FirstReserved(p)
    OBVIOUS
  <2>2. In(i, ap_resvd) /\ i \in Id /\ apps[i].pid = p
    <3> DEFINE has == [j \in Id |-> apps[j].pid = p]
    <3>1. \E j : In(j, ap_resvd) /\ has[j]
      BY <1>4 DEF Reserved
    <3>2. \A j \in Id : has[j] => apps[j].pid = p
      OBVIOUS
    <3>3. i = FirstWith(ap_resvd, has, NoId)
      BY <2>1 DEF FirstReserved
    <3> HIDE DEF has
    <3> QED
      BY <1>2, <3>1, <3>2, <3>3, FirstWithFound DEF IsFirst
  <2>3. PICK info : info = [apps EXCEPT ![i].handle = p]
    OBVIOUS
  <2>4. info \in [Id -> AP_INFO] /\ \A j \in Id : j # i => info[j] = apps[j]
    BY <1>2, <2>2, <2>3, FieldIsSet
  <2>5. /\ info[i].live = apps[i].live /\ info[i].pid = apps[i].pid
        /\ info[i].deskbg = apps[i].deskbg /\ info[i].menu = apps[i].menu
    <3>1. apps[i] \in AP_INFO
      BY <1>2, <2>2
    <3> QED
      BY <1>2, <2>2, <2>3, <3>1 DEF AP_INFO
  <2>6. \/ /\ ap_resvd' = Without(ap_resvd, i)
           /\ Enter(p, i, info)
           /\ UNCHANGED <<next_ap, mail>>
        \/ Reserved(p) = {}
    BY <1>1, <2>1, <2>3 DEF srv_appl_init
  <2>7. /\ ap_resvd' \in Seq(Id) /\ Distinct(ap_resvd')
        /\ \A j : In(j, ap_resvd') <=> In(j, ap_resvd) /\ j # i
    BY <1>2, <1>4, <2>6, WithoutIs
  <2>8. apps[i].live /\ ~In(i, ap_pri)
    BY <2>2 DEF IInv, EntriesAreTheIds
  <2>9. Semaphore => \A j \in Id : j # i => (apps[j].live => apps[j].pid # p)
    BY <2>2, <2>8 DEF IInv, OneIdPerProcess
  <2>10. ~strayed => ~info[i].deskbg /\ ~info[i].menu
    BY <1>1, <2>2, <2>5 DEF IInv, ReservedIsBlank
  <2> QED
    BY <1>1, <1>2, <1>4, <2>2, <2>4, <2>5, <2>6, <2>7, <2>8, <2>9, <2>10 DEF Enters
<1>5. CASE Reserved(p) = {}
  <2>1. PICK i, new : i = NextFree /\ new = NewInfo(p, p, "application")
    OBVIOUS
  <2>2. PICK info : info = [apps EXCEPT ![i] = new]
    OBVIOUS
  <2>3. /\ Free # {} /\ Enter(p, i, info) /\ next_ap' = i
        /\ mail' = [mail EXCEPT ![i] = 0] /\ ap_resvd' = ap_resvd
    BY <1>1, <1>5, <2>1, <2>2 DEF srv_appl_init
  <2>4. i \in Id /\ ~apps[i].live
    BY <1>2, <2>1, <2>3, NextFreeIs
  <2>5. new \in AP_INFO /\ new.live /\ new.pid = p /\ ~new.deskbg /\ ~new.menu
    BY <2>1, <2>3, NewInfoIs
  <2>6. info \in [Id -> AP_INFO] /\ info[i] = new /\ \A j \in Id : j # i => info[j] = apps[j]
    BY <1>2, <2>2, <2>4, <2>5
  <2>7. ~In(i, ap_pri) /\ ~In(i, ap_resvd)
    BY <2>4 DEF IInv, EntriesAreTheIds
  <2>8. Semaphore => \A j \in Id : j # i => (apps[j].live => apps[j].pid # p)
    BY <1>3, <1>5 DEF IInv, EntriesAreTheIds, Reserved
  <2>9. mail' \in [Id -> 0 .. MaxMail]
    <3>1. 0 \in 0 .. MaxMail
      BY BoundAssumption
    <3> QED
      BY <1>2, <2>3, <3>1
  <2> QED
    BY <1>1, <1>2, <2>3, <2>4, <2>5, <2>6, <2>7, <2>8, <2>9 DEF Enters
<1> QED
  BY <1>4, <1>5

\* appl_init().
LEMMA InitStep ==
  ASSUME IInv, NEW p \in Pid, Appl_init(p)
  PROVE  IInv'
<1>1. PICK i, info : Enters(p, i, info)
  BY InitEnters
<1>2. /\ proc[p] # "gone" /\ known[p] = NoId /\ (Semaphore => ~Locked)
      /\ UNCHANGED <<wins, launcher, lost, status, strayed>>
  BY DEF Appl_init, srv_appl_init
<1> QED
  BY <1>1, <1>2, EnterStep DEF Enters

-----------------------------------------------------------------------------
(* The calls of an application.                                            *)

\* Who calls is a process that knows an id.
LEMMA CallerIs ==
  ASSUME IInv, NEW p \in Pid, Call(p)
  PROVE  /\ known[p] \in Id /\ proc[p] = "up" /\ status = "up"
         /\ strayed' \in BOOLEAN /\ (strayed => strayed')
         /\ ~strayed' => apps[known[p]].live /\ apps[known[p]].pid = p
<1>1. known[p] \in Id \cup {NoId} /\ strayed \in BOOLEAN
  BY DEF IInv, TypeOK
<1>2. apps[known[p]] \in AP_INFO \/ known[p] = NoId
  BY <1>1 DEF IInv, TypeOK
<1> QED
  BY <1>1, <1>2 DEF Call, Caller, Own

\* wind_set() with WF_NEWDESK: the owner is looked for again.
LEMMA DesktopStep ==
  ASSUME IInv, NEW p \in Pid, NEW state \in BOOLEAN, set_desktop_background(p, state)
  PROVE  IInv'
<1>1. PICK i : i = known[p]
  OBVIOUS
<1>2. PICK info : info = [apps EXCEPT ![i].deskbg = state]
  OBVIOUS
<1>3. Call(p)
  BY DEF set_desktop_background
<1>4. /\ i \in Id /\ strayed' \in BOOLEAN /\ (strayed => strayed')
      /\ ~strayed' => apps[i].pid = p
  BY <1>1, <1>3, CallerIs
<1>5. /\ apps' = info
      /\ deskowner' = IF deskowner = NoId THEN NoId ELSE get_desktop_owner_id(ap_pri, info)
      /\ mail' = IF i \in {get_deskbg_owner(ap_pri, apps), get_deskbg_owner(ap_pri, info)}
                 THEN update_desktop_background(mail, ap_pri, info) ELSE mail
      /\ UNCHANGED <<ap_pri, ap_resvd, next_ap, applmenu, accmenu, bar, proc, known, launcher, lost, status>>
  BY <1>1, <1>2 DEF set_desktop_background, update_desktop_owner, menus, procs
<1>6. apps \in [Id -> AP_INFO] /\ apps[i] \in AP_INFO
  BY <1>4 DEF IInv, TypeOK
<1>7. /\ info \in [Id -> AP_INFO]
      /\ \A j \in Id : j # i => info[j] = apps[j]
      /\ info[i].live = apps[i].live /\ info[i].pid = apps[i].pid
      /\ info[i].menu = apps[i].menu
      /\ info[i].type = apps[i].type /\ info[i].name = apps[i].name
  <2>1. info \in [Id -> AP_INFO]
    BY <1>2, <1>4, <1>6, FieldIsSet
  <2> QED
    BY <1>2, <1>4, <1>6, <2>1 DEF AP_INFO
<1>8. ap_pri \in Seq(Id) /\ Distinct(ap_pri)
  BY DEF IInv, TypeOK, EntriesAreTheIds
<1>9. TypeOK'
  <2>1. get_desktop_owner_id(ap_pri, info) \in Id
    BY <1>8, OwnerType
  <2>2. mail \in [Id -> 0 .. MaxMail]
    BY DEF IInv, TypeOK
  <2>3. update_desktop_background(mail, ap_pri, info) \in [Id -> 0 .. MaxMail]
    BY <1>8, <2>1, <2>2, DeliverIs DEF update_desktop_background
  <2> QED
    BY <1>4, <1>5, <1>7, <2>1, <2>2, <2>3 DEF IInv, TypeOK
<1>10. /\ \A j \in Id : apps'[j].live = apps[j].live /\ apps'[j].pid = apps[j].pid
       /\ \A j \in Id : apps'[j].type = apps[j].type /\ apps'[j].name = apps[j].name
  BY <1>5, <1>7
<1>11. EntriesAreTheIds'
  BY <1>5, <1>8, <1>10, EntriesKept DEF IInv
<1>12. MenusListTheLiving'
  BY <1>5, <1>10, MenusKept DEF IInv, menus
<1>13. EntriesHaveProcesses' /\ OneIdPerProcess'
  BY <1>5, <1>10, ProcessesKept DEF IInv, TypeOK
<1>14. ReservedIsBlank'
  <2> SUFFICES ASSUME ~strayed', NEW j \in Id, In(j, ap_resvd), known[apps[j].pid] = NoId
               PROVE  ~apps'[j].deskbg /\ ~apps'[j].menu
    BY <1>5, <1>10 DEF ReservedIsBlank
  <2>1. i # NoId
    BY <1>4, BoundAssumption DEF Id, NoId
  <2>2. j # i
    BY <1>1, <1>4, <2>1
  <2> QED
    BY <1>4, <1>5, <1>7, <2>2 DEF IInv, ReservedIsBlank
<1>15. DesktopHasItsOwner'
  BY <1>5 DEF DesktopHasItsOwner
<1> QED
  BY <1>9, <1>11, <1>12, <1>13, <1>14, <1>15 DEF IInv

\* menu_bar(): an application that is there shows its menu or hides it.
LEMMA MenuBarStep ==
  ASSUME IInv, NEW p \in Pid, NEW state \in BOOLEAN, srv_menu_bar(p, state)
  PROVE  IInv'
<1>1. PICK i : i = known[p]
  OBVIOUS
<1>2. PICK info : info = IF apps[i].live THEN [apps EXCEPT ![i].menu = state] ELSE apps
  OBVIOUS
<1>3. Call(p)
  BY DEF srv_menu_bar
<1>4. /\ i \in Id /\ strayed' \in BOOLEAN /\ (strayed => strayed')
      /\ ~strayed' => apps[i].pid = p
  BY <1>1, <1>3, CallerIs
<1>5. /\ apps' = info
      /\ mail' = IF state /\ get_top_menu_owner(ap_pri, info) # i THEN mail
                 ELSE redraw_menu_bar(mail, ap_pri, info)
      /\ UNCHANGED <<ap_pri, ap_resvd, next_ap, applmenu, accmenu, deskowner, bar,
                     proc, known, launcher, lost, status>>
  BY <1>1, <1>2 DEF srv_menu_bar, menus, procs, wins
<1>6. apps \in [Id -> AP_INFO] /\ apps[i] \in AP_INFO
  BY <1>4 DEF IInv, TypeOK
<1>7. /\ info \in [Id -> AP_INFO]
      /\ \A j \in Id : j # i => info[j] = apps[j]
      /\ info[i].live = apps[i].live /\ info[i].pid = apps[i].pid
      /\ info[i].deskbg = apps[i].deskbg
      /\ info[i].type = apps[i].type /\ info[i].name = apps[i].name
  <2>1. info \in [Id -> AP_INFO]
    BY <1>2, <1>4, <1>6, FieldIsSet
  <2> QED
    BY <1>2, <1>4, <1>6, <2>1 DEF AP_INFO
<1>8. ap_pri \in Seq(Id) /\ Distinct(ap_pri)
  BY DEF IInv, TypeOK, EntriesAreTheIds
<1>9. TypeOK'
  <2>1. get_top_menu_owner(ap_pri, info) \in Id \cup {NoId}
    BY <1>8, OwnerType
  <2>2. mail \in [Id -> 0 .. MaxMail]
    BY DEF IInv, TypeOK
  <2>3. redraw_menu_bar(mail, ap_pri, info) \in [Id -> 0 .. MaxMail]
    BY <1>8, <2>1, <2>2, DeliverIs DEF redraw_menu_bar
  <2> QED
    BY <1>4, <1>5, <1>7, <2>2, <2>3 DEF IInv, TypeOK
<1>10. /\ \A j \in Id : apps'[j].live = apps[j].live /\ apps'[j].pid = apps[j].pid
       /\ \A j \in Id : apps'[j].type = apps[j].type /\ apps'[j].name = apps[j].name
       /\ \A j \in Id : apps'[j].deskbg = apps[j].deskbg
  BY <1>5, <1>7
<1>11. EntriesAreTheIds'
  BY <1>5, <1>8, <1>10, EntriesKept DEF IInv
<1>12. MenusListTheLiving'
  BY <1>5, <1>10, MenusKept DEF IInv, menus
<1>13. EntriesHaveProcesses' /\ OneIdPerProcess'
  BY <1>5, <1>10, ProcessesKept DEF IInv, TypeOK
<1>14. ReservedIsBlank'
  <2> SUFFICES ASSUME ~strayed', NEW j \in Id, In(j, ap_resvd), known[apps[j].pid] = NoId
               PROVE  ~apps'[j].deskbg /\ ~apps'[j].menu
    BY <1>5, <1>10 DEF ReservedIsBlank
  <2>1. i # NoId
    BY <1>4, BoundAssumption DEF Id, NoId
  <2>2. j # i
    BY <1>1, <1>4, <2>1
  <2> QED
    BY <1>4, <1>5, <1>7, <2>2 DEF IInv, ReservedIsBlank
<1>15. DesktopHasItsOwner'
  <2>1. HasDesk(apps') = HasDesk(apps)
    BY <1>10 DEF HasDesk
  <2> QED
    BY <1>4, <1>5, <2>1 DEF IInv, DesktopHasItsOwner, get_desktop_owner_id
<1> QED
  BY <1>9, <1>11, <1>12, <1>13, <1>14, <1>15 DEF IInv

-----------------------------------------------------------------------------
(* top_appl().                                                             *)

\* The list with an application moved to the top.
Topped(list, i) == IF In(i, list) THEN <<i>> \o Without(list, i) ELSE list

\* The same applications, and those that are not moved in the same order.
LEMMA ToppedIs ==
  ASSUME NEW list \in Seq(Id), Distinct(list), NEW i \in Id
  PROVE  /\ Topped(list, i) \in Seq(Id) /\ Distinct(Topped(list, i))
         /\ \A j : In(j, Topped(list, i)) <=> In(j, list)
         /\ \A a, b : b # i => (Before(Topped(list, i), a, b)
                                  <=> (Before(list, a, b) /\ a # i) \/ (a = i /\ In(i, list) /\ In(b, list)))
         /\ \A a : In(i, list) => ~Before(Topped(list, i), a, i)
         /\ list # <<>> => Topped(list, i) # <<>>
<1>1. PICK rest, new : rest = Without(list, i) /\ new = Topped(list, i)
  OBVIOUS
<1>2. /\ rest \in Seq(Id) /\ Distinct(rest)
      /\ \A j : In(j, rest) <=> In(j, list) /\ j # i
      /\ \A a, b : Before(rest, a, b) <=> Before(list, a, b) /\ a # i /\ b # i
  BY <1>1, WithoutIs
<1>3. CASE In(i, list)
  <2>1. new = <<i>> \o rest
    BY <1>1, <1>3 DEF Topped
  <2>2. ~In(i, rest)
    BY <1>2
  <2>3. /\ new \in Seq(Id) /\ new # <<>> /\ Distinct(new)
        /\ \A j : In(j, new) <=> j = i \/ In(j, rest)
        /\ \A a, b : Before(new, a, b) <=> Before(rest, a, b) \/ (a = i /\ In(b, rest))
    BY <1>2, <2>1, <2>2, FirstIs
  <2> QED
    BY <1>1, <1>2, <1>3, <2>3
<1>4. CASE ~In(i, list)
  <2>1. new = list
    BY <1>1, <1>4 DEF Topped
  <2>2. \A a, b : Before(list, a, b) => In(a, list) /\ In(b, list)
    BY BeforeIsIn
  <2> QED
    BY <1>1, <1>4, <2>1, <2>2
<1> QED
  BY <1>3, <1>4

\* An application without the feature, or behind no one who has it, makes no
\* other one the first when it is moved to the top.
LEMMA ToppedKeepsFirst ==
  ASSUME NEW list \in Seq(Id), Distinct(list), NEW i \in Id, NEW has, NEW other,
         ~(/\ In(i, list) /\ has[i]
           /\ \E k \in DOMAIN list : has[list[k]] /\ \A n \in 1 .. k : list[n] # i)
  PROVE  FirstWith(Topped(list, i), has, other) = FirstWith(list, has, other)
<1>1. PICK new : new = Topped(list, i)
  OBVIOUS
<1>2. /\ new \in Seq(Id) /\ Distinct(new)
      /\ \A j : In(j, new) <=> In(j, list)
      /\ \A a, b : b # i => (Before(new, a, b)
                               <=> (Before(list, a, b) /\ a # i) \/ (a = i /\ In(i, list) /\ In(b, list)))
      /\ \A a : In(i, list) => ~Before(new, a, i)
  BY <1>1, ToppedIs
<1>3. CASE ~In(i, list)
  BY <1>3 DEF Topped
<1>4. CASE In(i, list) /\ ~has[i]
  <2>1. \A j \in Id : In(j, new) /\ has[j] <=> In(j, list) /\ has[j]
    BY <1>2
  <2>2. \A a, b \in Id : has[a] /\ has[b] => (Before(new, a, b) <=> Before(list, a, b))
    BY <1>2, <1>4
  <2> QED
    BY <1>1, <1>2, <2>1, <2>2, SameFirst
<1>5. CASE In(i, list) /\ has[i]
  <2>1. \A j : Before(list, j, i) => ~has[j]
    <3> SUFFICES ASSUME NEW n \in DOMAIN list, list[n] = i, NEW k \in 1 .. n - 1, has[list[k]]
                 PROVE  FALSE
      BY DEF Before
    <3>1. k \in DOMAIN list /\ k < n
      OBVIOUS
    <3>2. PICK m \in 1 .. k : list[m] = i
      BY <1>5, <3>1
    <3>3. m \in DOMAIN list
      BY <3>1
    <3> QED
      BY <3>1, <3>2, <3>3 DEF Distinct
  <2>2. IsFirst(list, has, i)
    BY <1>5, <2>1 DEF IsFirst
  <2>3. IsFirst(new, has, i)
    BY <1>2, <1>5 DEF IsFirst
  <2>4. FirstWith(list, has, other) = i
    BY <2>2, FirstWithIs
  <2>5. FirstWith(new, has, other) = i
    BY <1>2, <2>3, FirstWithIs
  <2> QED
    BY <1>1, <2>4, <2>5
<1> QED
  BY <1>3, <1>4, <1>5

\* What top_appl() does, with its list named.
LEMMA TopFacts ==
  ASSUME IInv, NEW i \in Id, top_appl(i)
  PROVE  /\ ap_pri' = Topped(ap_pri, i) /\ ap_pri # <<>>
         /\ UNCHANGED <<ap_resvd, apps, next_ap, applmenu, accmenu, bar>>
         /\ deskowner' \in {deskowner, update_desktop_owner(ap_pri', apps)}
         /\ \/ deskowner' = update_desktop_owner(ap_pri', apps)
            \/ get_desktop_owner_id(ap_pri', apps) = get_desktop_owner_id(ap_pri, apps)
<1>1. /\ ap_pri' = Topped(ap_pri, i) /\ ap_pri # <<>>
      /\ UNCHANGED <<ap_resvd, apps, next_ap, applmenu, accmenu, bar>>
      /\ deskowner' \in {deskowner, update_desktop_owner(ap_pri', apps)}
  BY DEF top_appl, Topped, menus
<1>2. PICK list : list = Topped(ap_pri, i)
  OBVIOUS
<1>3. ap_pri \in Seq(Id) /\ Distinct(ap_pri) /\ Len(ap_pri) \in Nat
  BY DEF IInv, TypeOK, EntriesAreTheIds
<1>4. CASE In(i, ap_pri) /\ apps[i].deskbg /\ Passed(i) /\ Head(ap_pri) # i
  <2>1. deskowner' = update_desktop_owner(ap_pri', apps)
    BY <1>1, <1>4 DEF top_appl, Topped
  <2> QED
    BY <1>1, <2>1
<1>5. CASE ~(In(i, ap_pri) /\ apps[i].deskbg /\ Passed(i))
  <2>1. PICK d : d = HasDesk(apps)
    OBVIOUS
  <2>2. \A j \in Id : d[j] <=> apps[j].deskbg
    BY <2>1, Features
  <2>3. ~(/\ In(i, ap_pri) /\ d[i]
          /\ \E k \in DOMAIN ap_pri : d[ap_pri[k]] /\ \A n \in 1 .. k : ap_pri[n] # i)
    BY <1>3, <1>5, <2>2 DEF Passed
  <2>4. \A other : FirstWith(Topped(ap_pri, i), d, other) = FirstWith(ap_pri, d, other)
    BY <1>3, <2>3, ToppedKeepsFirst
  <2> QED
    BY <1>1, <2>1, <2>4 DEF get_desktop_owner_id
<1>6. CASE Head(ap_pri) = i
  <2>1. ap_pri[1] = i /\ 1 \in DOMAIN ap_pri
    BY <1>1, <1>3, <1>6
  <2>2. ~Passed(i)
    BY <1>3, <2>1 DEF Passed
  <2> QED
    BY <1>5, <2>2
<1> QED
  BY <1>4, <1>5, <1>6

\* An application is topped.
LEMMA TopStep ==
  ASSUME IInv, NEW i \in Id, top_appl(i), UNCHANGED <<procs, status>>,
         strayed' \in BOOLEAN, strayed => strayed'
  PROVE  IInv'
<1>1. /\ ap_pri' = Topped(ap_pri, i) /\ ap_pri # <<>>
      /\ UNCHANGED <<ap_resvd, apps, next_ap, applmenu, accmenu, bar>>
      /\ deskowner' \in {deskowner, update_desktop_owner(ap_pri', apps)}
      /\ \/ deskowner' = update_desktop_owner(ap_pri', apps)
         \/ get_desktop_owner_id(ap_pri', apps) = get_desktop_owner_id(ap_pri, apps)
  BY TopFacts
<1>2. UNCHANGED <<proc, known, launcher, lost, status>>
  BY DEF procs
<1>3. ap_pri \in Seq(Id) /\ Distinct(ap_pri) /\ mail \in [Id -> 0 .. MaxMail]
      /\ deskowner \in Id \cup {NoId}
  BY DEF IInv, TypeOK, EntriesAreTheIds
<1>4. PICK list : list = Topped(ap_pri, i)
  OBVIOUS
<1>5. list \in Seq(Id) /\ Distinct(list) /\ \A j : In(j, list) <=> In(j, ap_pri)
  BY <1>3, <1>4, ToppedIs
<1>6. /\ get_desktop_owner_id(list, apps) \in Id
      /\ get_top_menu_owner(list, apps) \in Id \cup {NoId}
  BY <1>5, OwnerType
<1>7. TypeOK'
  <2>1. \A box \in [Id -> 0 .. MaxMail] :
          /\ redraw_menu_bar(box, list, apps) \in [Id -> 0 .. MaxMail]
          /\ update_desktop_background(box, list, apps) \in [Id -> 0 .. MaxMail]
    BY <1>5, <1>6, DeliverIs DEF redraw_menu_bar, update_desktop_background
  <2>2. \/ mail' = mail
        \/ mail' = redraw_menu_bar(mail, list, apps)
        \/ mail' = redraw_menu_bar(update_desktop_background(mail, list, apps), list, apps)
    BY <1>4 DEF top_appl, Topped
  <2>3. mail' \in [Id -> 0 .. MaxMail]
    BY <1>3, <2>1, <2>2
  <2>4. deskowner' \in Id \cup {NoId}
    BY <1>1, <1>3, <1>4, <1>6 DEF update_desktop_owner
  <2> QED
    BY <1>1, <1>2, <1>4, <1>5, <2>3, <2>4 DEF IInv, TypeOK
<1>8. EntriesAreTheIds'
  BY <1>1, <1>4, <1>5, EntriesKept DEF IInv
<1>9. MenusListTheLiving'
  BY <1>1, <1>4, <1>5, MenusKept DEF IInv, menus
<1>10. EntriesHaveProcesses' /\ OneIdPerProcess'
  BY <1>1, <1>2, <1>4, <1>5, ProcessesKept DEF IInv, TypeOK
<1>11. ReservedIsBlank'
  BY <1>1, <1>2 DEF IInv, ReservedIsBlank
<1>12. DesktopHasItsOwner'
  <2> SUFFICES ASSUME deskowner' # NoId, ~strayed
               PROVE  deskowner' = get_desktop_owner_id(ap_pri', apps)
    BY <1>1 DEF DesktopHasItsOwner
  <2>1. deskowner # NoId
    BY <1>1 DEF update_desktop_owner
  <2>2. deskowner = get_desktop_owner_id(ap_pri, apps)
    BY <2>1 DEF IInv, DesktopHasItsOwner
  <2> QED
    BY <1>1, <2>1, <2>2 DEF update_desktop_owner
<1> QED
  BY <1>7, <1>8, <1>9, <1>10, <1>11, <1>12 DEF IInv

-----------------------------------------------------------------------------
(* Messages, processes, the shutdown.                                      *)

\* appl_write() and the reading of a message.
LEMMA MailStep ==
  ASSUME IInv, NEW p \in Pid, ReadMessage(p) \/ \E i \in Id : Appl_write(p, i)
  PROVE  IInv'
<1>1. Call(p) /\ UNCHANGED <<lists, menus, wins, procs, status>>
  BY DEF ReadMessage, Appl_write
<1>2. strayed' \in BOOLEAN /\ (strayed => strayed') /\ known[p] \in Id
  BY <1>1, CallerIs
<1>3. /\ mail \in [Id -> 0 .. MaxMail] /\ ap_pri \in Seq(Id) /\ MaxMail \in Nat
      /\ proc \in [Pid -> {"new", "up", "gone"}] /\ lost \in SUBSET Pid
      /\ status \in {"up", "closing", "down"}
  BY BoundAssumption DEF IInv, TypeOK
<1>4. mail' \in [Id -> 0 .. MaxMail]
  <2>1. CASE ReadMessage(p)
    <3>1. mail[known[p]] - 1 \in 0 .. MaxMail
      BY <1>2, <1>3, <2>1 DEF ReadMessage
    <3> QED
      BY <1>3, <2>1, <3>1 DEF ReadMessage
  <2>2. CASE \E i \in Id : Appl_write(p, i)
    BY <1>3, <2>2, DeliverIs DEF Appl_write
  <2> QED
    BY <2>1, <2>2
<1>5. UNCHANGED <<lists, menus, wins, known, launcher>> /\ UNCHANGED <<proc, lost, status>>
  BY <1>1 DEF procs
<1> QED
  BY <1>2, <1>3, <1>4, <1>5, TablesKept

\* A program is started: it is not new any longer, and has no entry.
LEMMA StartStep ==
  ASSUME IInv, NEW p \in Pid, NEW child \in Pid, Shel_write(p, child)
  PROVE  IInv'
<1>1. /\ proc[p] = "up" /\ proc[child] = "new"
      /\ proc' = [proc EXCEPT ![child] = "up"]
      /\ launcher' = [launcher EXCEPT ![child] = p]
      /\ UNCHANGED <<ap_pri, ap_resvd, apps, next_ap, applmenu, accmenu, mail, deskowner, bar,
                     known, lost, status, strayed>>
      /\ Semaphore => ~Locked
  BY DEF Shel_write, Caller, lists, menus, wins
<1>2. TypeOK'
  <2>1. proc' \in [Pid -> {"new", "up", "gone"}] /\ launcher' \in [Pid -> Pid \cup {NoPid}]
    BY <1>1 DEF IInv, TypeOK
  <2> QED
    BY <1>1, <2>1 DEF IInv, TypeOK
<1>3. EntriesAreTheIds' /\ MenusListTheLiving' /\ OneIdPerProcess'
  BY <1>1 DEF IInv, EntriesAreTheIds, MenusListTheLiving, OneIdPerProcess, Sorted
<1>4. ReservedIsBlank' /\ DesktopHasItsOwner'
  BY <1>1 DEF IInv, ReservedIsBlank, DesktopHasItsOwner
<1>5. EntriesHaveProcesses'
  <2>1. \A q \in Pid : Nobody(q)' = Nobody(q)
    BY <1>1 DEF Nobody
  <2>2. /\ \A i \in Id : apps'[i].live => apps'[i].pid \in Pid
        /\ \A i \in Id : In(i, ap_pri') => known'[apps'[i].pid] # NoId
    BY <1>1 DEF IInv, EntriesHaveProcesses
  <2>3. \A q \in Pid : proc'[q] = "new" => known'[q] = NoId /\ launcher'[q] = NoPid /\ Nobody(q)'
    BY <1>1, <2>1 DEF IInv, EntriesHaveProcesses, TypeOK
  <2>4. ASSUME Semaphore, NEW q \in Pid, launcher'[q] # NoPid, proc'[launcher'[q]] # "gone"
        PROVE  Nobody(q)'
    <3>1. CASE q = child
      BY <1>1, <2>1, <3>1 DEF IInv, EntriesHaveProcesses
    <3>2. CASE q # child
      <4>1. launcher[q] # NoPid /\ launcher[q] \in Pid
        BY <1>1, <2>4, <3>2 DEF IInv, TypeOK
      <4>2. proc[launcher[q]] # "gone"
        BY <1>1, <2>4, <3>2, <4>1 DEF IInv, TypeOK
      <4> QED
        BY <1>1, <2>4, <4>1, <4>2 DEF Locked
    <3> QED
      BY <3>1, <3>2
  <2> QED
    BY <2>2, <2>3, <2>4 DEF EntriesHaveProcesses
<1> QED
  BY <1>2, <1>3, <1>4, <1>5 DEF IInv

\* A process ends, or the server is told to stop.
LEMMA EndStep ==
  ASSUME IInv, Srv_stop \/ \E p \in Pid : ProcessEnds(p)
  PROVE  IInv'
<1>1. UNCHANGED <<lists, menus, wins, known, launcher>> /\ UNCHANGED <<mail, strayed>>
  BY DEF Srv_stop, ProcessEnds, procs
<1>2. /\ mail \in [Id -> 0 .. MaxMail] /\ strayed \in BOOLEAN
      /\ proc \in [Pid -> {"new", "up", "gone"}] /\ lost \in SUBSET Pid
      /\ status \in {"up", "closing", "down"}
  BY DEF IInv, TypeOK
<1>3. /\ proc' \in [Pid -> {"new", "up", "gone"}]
      /\ \A p \in Pid : proc'[p] = proc[p] \/ proc'[p] = "gone"
      /\ lost' \in SUBSET Pid /\ status' \in {"up", "closing", "down"}
  <2>1. CASE Srv_stop
    BY <1>2, <2>1 DEF Srv_stop, procs
  <2>2. CASE \E p \in Pid : ProcessEnds(p)
    BY <1>2, <2>2 DEF ProcessEnds
  <2> QED
    BY <2>1, <2>2
<1> QED
  BY <1>1, <1>2, <1>3, TablesKept

\* Pkill() ends the process of an entry.
LEMMA PkillIs ==
  ASSUME IInv, NEW i \in Id, apps[i].live, Pkill(i)
  PROVE  /\ UNCHANGED <<known, launcher>>
         /\ proc' \in [Pid -> {"new", "up", "gone"}]
         /\ \A p \in Pid : proc'[p] = proc[p] \/ proc'[p] = "gone"
         /\ lost' \in SUBSET Pid
<1>1. apps[i].pid \in Pid
  BY DEF IInv, EntriesHaveProcesses
<1>2. proc \in [Pid -> {"new", "up", "gone"}] /\ lost \in SUBSET Pid
  BY DEF IInv, TypeOK
<1> QED
  BY <1>1, <1>2 DEF Pkill

\* The first application is an id, and its entry is in use.
LEMMA HeadIs ==
  ASSUME IInv, ap_pri # <<>>
  PROVE  /\ Head(ap_pri) \in Id /\ Last(ap_pri) \in Id
         /\ In(Head(ap_pri), ap_pri) /\ apps[Head(ap_pri)].live
<1>1. ap_pri \in Seq(Id)
  BY DEF IInv, TypeOK
<1>2. 1 \in DOMAIN ap_pri /\ Len(ap_pri) \in DOMAIN ap_pri /\ Head(ap_pri) = ap_pri[1]
  BY <1>1
<1>3. Head(ap_pri) \in Id /\ Last(ap_pri) \in Id /\ In(Head(ap_pri), ap_pri)
  BY <1>1, <1>2 DEF In, Last
<1> QED
  BY <1>3 DEF IInv, EntriesAreTheIds

\* A connection is lost: the first application that used it exits.
LEMMA LostStep ==
  ASSUME IInv, NEW p \in Pid, ConnLost(p)
  PROVE  IInv'
<1>1. PICK i : i = FirstWith(ap_pri, [j \in Id |-> apps[j].handle = p], NoId)
  OBVIOUS
<1>2. /\ lost' = lost \ {p}
      /\ IF i # NoId THEN Exit(i) ELSE UNCHANGED <<lists, menus, mail, wins>>
      /\ UNCHANGED <<proc, known, launcher, status, strayed>>
  BY <1>1 DEF ConnLost
<1>3. i \in Id \cup {NoId}
  <2>1. ap_pri \in Seq(Id) /\ Distinct(ap_pri)
    BY DEF IInv, TypeOK, EntriesAreTheIds
  <2> DEFINE has == [j \in Id |-> apps[j].handle = p]
  <2>2. i = FirstWith(ap_pri, has, NoId)
    BY <1>1
  <2> HIDE DEF has
  <2> QED
    BY <2>1, <2>2, FirstWithFound
<1>4. /\ mail \in [Id -> 0 .. MaxMail] /\ strayed \in BOOLEAN
      /\ proc \in [Pid -> {"new", "up", "gone"}] /\ lost' \in SUBSET Pid
      /\ status \in {"up", "closing", "down"}
  BY <1>2 DEF IInv, TypeOK
<1>5. CASE i # NoId
  BY <1>2, <1>3, <1>4, <1>5, ExitStep
<1>6. CASE i = NoId
  BY <1>2, <1>4, <1>6, TablesKept
<1> QED
  BY <1>5, <1>6

\* A round of the loop of Srv_exit_module().
LEMMA ShutdownStep ==
  ASSUME IInv, Srv_exit_module
  PROVE  IInv'
<1>1. /\ mail \in [Id -> 0 .. MaxMail] /\ strayed \in BOOLEAN /\ strayed' = strayed
      /\ proc \in [Pid -> {"new", "up", "gone"}] /\ lost \in SUBSET Pid
      /\ status \in {"up", "closing", "down"}
  BY DEF IInv, TypeOK, Srv_exit_module
<1>2. CASE ap_pri = <<>>
  <2>1. /\ status' = "down" /\ UNCHANGED <<lists, menus, wins, known, launcher>>
        /\ UNCHANGED <<mail, proc, lost>>
    BY <1>2 DEF Srv_exit_module, procs
  <2> QED
    BY <1>1, <2>1, TablesKept
<1>3. CASE ap_pri # <<>>
  <2>1. PICK i : i = Head(ap_pri)
    OBVIOUS
  <2>2. Pkill(i) /\ Exit(i) /\ status' = status
    BY <1>3, <2>1 DEF Srv_exit_module
  <2>3. i \in Id /\ apps[i].live
    BY <1>3, <2>1, HeadIs
  <2> QED
    BY <1>1, <2>2, <2>3, PkillIs, ExitStep
<1> QED
  BY <1>2, <1>3

\* An application exits, or is killed.
LEMMA LeaveStep ==
  ASSUME IInv, NEW p \in Pid, Appl_exit(p) \/ \E i \in Id : Kill(p, i)
  PROVE  IInv'
<1>1. Call(p) /\ status' = status
  BY DEF Appl_exit, Kill
<1>2. strayed' \in BOOLEAN /\ (strayed => strayed') /\ known[p] \in Id
  BY <1>1, CallerIs
<1>3. /\ proc \in [Pid -> {"new", "up", "gone"}] /\ lost \in SUBSET Pid
      /\ status \in {"up", "closing", "down"}
  BY DEF IInv, TypeOK
<1>4. CASE Appl_exit(p)
  <2>1. Exit(known[p]) /\ UNCHANGED <<proc, known, launcher, lost>>
    BY <1>4 DEF Appl_exit, procs
  <2>2. PICK i : i = known[p]
    OBVIOUS
  <2>3. Exit(i) /\ i \in Id
    BY <1>2, <2>1, <2>2
  <2> QED
    BY <1>1, <1>2, <1>3, <2>1, <2>3, ExitStep
<1>5. CASE \E i \in Id : Kill(p, i)
  <2>1. PICK i \in Id : Kill(p, i)
    BY <1>5
  <2>2. apps[i].live /\ Pkill(i) /\ Exit(i)
    BY <2>1 DEF Kill
  <2> QED
    BY <1>1, <1>2, <1>3, <2>2, PkillIs, ExitStep
<1> QED
  BY <1>4, <1>5

-----------------------------------------------------------------------------
\* The invariant holds at the start.
LEMMA InvInit == Init => IInv
<1> SUFFICES ASSUME Init PROVE IInv
  OBVIOUS
<1>1. 0 \in Id /\ 0 \in 0 .. MaxMail
  BY BoundAssumption DEF Id
<1>2. \A f : ~In(f, <<>>)
  BY DEF In
<1>3. \A i \in Id : ~apps[i].live
  BY DEF Init
<1>4. TypeOK
  <2>1. (CHOOSE t \in Title : TRUE) \in Title
    BY TitleAssumption
  <2>2. apps \in [Id -> AP_INFO]
    BY <2>1 DEF Init, AP_INFO
  <2>3. ap_pri \in Seq(Id) /\ ap_resvd \in Seq(Id) /\ applmenu \in Seq(Id) /\ accmenu \in Seq(Id)
    BY DEF Init
  <2>4. /\ mail \in [Id -> 0 .. MaxMail] /\ next_ap \in Id /\ deskowner \in Id \cup {NoId}
        /\ bar \in BOOLEAN /\ status \in {"up", "closing", "down"} /\ strayed \in BOOLEAN
    BY <1>1 DEF Init
  <2>5. /\ proc \in [Pid -> {"new", "up", "gone"}] /\ known \in [Pid -> Id \cup {NoId}]
        /\ launcher \in [Pid -> Pid \cup {NoPid}] /\ lost \in SUBSET Pid
    BY DEF Init
  <2> QED
    BY <2>2, <2>3, <2>4, <2>5 DEF TypeOK
<1>5. EntriesAreTheIds /\ MenusListTheLiving
  BY <1>2, <1>3 DEF Init, EntriesAreTheIds, MenusListTheLiving, Distinct, Sorted
<1>6. EntriesHaveProcesses /\ OneIdPerProcess /\ ReservedIsBlank
  BY <1>2, <1>3 DEF Init, EntriesHaveProcesses, OneIdPerProcess, ReservedIsBlank, Nobody
<1>7. DesktopHasItsOwner
  <2>1. ap_pri = <<>> /\ deskowner = 0
    BY DEF Init
  <2>2. FirstWith(<<>>, HasDesk(apps), 0) = 0
    BY DEF FirstWith
  <2> QED
    BY <2>1, <2>2 DEF DesktopHasItsOwner, get_desktop_owner_id
<1> QED
  BY <1>4, <1>5, <1>6, <1>7 DEF IInv

\* Every step keeps it.
LEMMA InvStep == IInv /\ [Next]_vars => IInv'
<1> SUFFICES ASSUME IInv, [Next]_vars PROVE IInv'
  OBVIOUS
<1>1. CASE UNCHANGED vars
  <2>1. UNCHANGED <<ap_pri, ap_resvd, apps, next_ap, applmenu, accmenu, mail, deskowner, bar,
                    proc, known, launcher, lost, status, strayed>>
    BY <1>1 DEF vars, lists, menus, wins, procs
  <2>2. TypeOK'
    BY <2>1 DEF IInv, TypeOK
  <2>3. UNCHANGED <<lists, menus, wins, known, launcher>>
    BY <2>1 DEF lists, menus, wins
  <2> QED
    BY <2>1, <2>2, <2>3, TablesKept DEF TypeOK
<1>2. ASSUME NEW p \in Pid,
             \/ Appl_init(p) \/ Appl_exit(p) \/ ReadMessage(p) \/ ProcessEnds(p) \/ ConnLost(p)
      PROVE  IInv'
  BY <1>2, InitStep, LeaveStep, MailStep, EndStep, LostStep
<1>3. ASSUME NEW p \in Pid, TopNext(p)
      PROVE  IInv'
  <2>1. PICK i : i = Last(ap_pri)
    OBVIOUS
  <2>2. top_appl(i) /\ UNCHANGED <<procs, status>> /\ ap_pri # <<>> /\ Call(p)
    BY <1>3, <2>1 DEF TopNext, top_appl
  <2> QED
    BY <2>1, <2>2, HeadIs, CallerIs, TopStep
<1>4. ASSUME NEW p \in Pid, NEW child \in Pid, Shel_write(p, child)
      PROVE  IInv'
  BY <1>4, StartStep
<1>5. ASSUME NEW p \in Pid, NEW type \in {"application", "accessory"}, Appl_reserve(p, type)
      PROVE  IInv'
  BY <1>5, ReserveStep
<1>6. ASSUME NEW p \in Pid, NEW state \in BOOLEAN,
             set_desktop_background(p, state) \/ srv_menu_bar(p, state)
      PROVE  IInv'
  BY <1>6, DesktopStep, MenuBarStep
<1>7. ASSUME NEW p \in Pid, NEW t \in Title, srv_menu_register(p, t)
      PROVE  IInv'
  <2>1. PICK i : i = known[p]
    OBVIOUS
  <2>2. /\ Call(p) /\ In(i, ap_pri) /\ Registered(apps, i, t)
        /\ UNCHANGED <<ap_pri, ap_resvd, next_ap, mail, wins, procs, status>>
    BY <1>7, <2>1 DEF srv_menu_register
  <2> QED
    BY <2>1, <2>2, CallerIs, RegisterStep
<1>8. ASSUME NEW p \in Pid, NEW i \in Id, Top(p, i)
      PROVE  IInv'
  BY <1>8, CallerIs, TopStep DEF Top
<1>9. ASSUME NEW p \in Pid, NEW i \in Id, Kill(p, i) \/ Appl_write(p, i)
      PROVE  IInv'
  BY <1>9, LeaveStep, MailStep
<1>10. CASE Srv_stop \/ Srv_exit_module
  BY <1>10, EndStep, ShutdownStep
<1> QED
  BY <1>1, <1>2, <1>3, <1>4, <1>5, <1>6, <1>7, <1>8, <1>9, <1>10 DEF Next

-----------------------------------------------------------------------------
(* The owners hear of it.                                                  *)

\* Nobody comes into the menu bar or the desktop.
Quiet ==
  /\ deskowner' \in {deskowner, NoId}
  /\ get_top_menu_owner(ap_pri', apps') = get_top_menu_owner(ap_pri, apps)

\* Then nobody needs to be told.
LEMMA QuietIsFine == Quiet => NewOwnersHear
BY DEF Quiet, NewOwnersHear

\* The menus and the list are the same.
LEMMA MenusAreQuiet ==
  ASSUME UNCHANGED ap_pri, \A j \in Id : apps'[j].menu = apps[j].menu
  PROVE  get_top_menu_owner(ap_pri', apps') = get_top_menu_owner(ap_pri, apps)
<1>1. HasMenu(apps') = HasMenu(apps)
  BY DEF HasMenu
<1> QED
  BY <1>1 DEF get_top_menu_owner

\* A redraw of the menu bar reaches who owns it then, and takes no message
\* away.
LEMMA RedrawIs ==
  ASSUME NEW box \in [Id -> 0 .. MaxMail], NEW list \in Seq(Id), Distinct(list), NEW info
  PROVE  /\ redraw_menu_bar(box, list, info) \in [Id -> 0 .. MaxMail]
         /\ \A j \in Id : redraw_menu_bar(box, list, info)[j] >= box[j]
         /\ \A owner \in Id :
              bar /\ owner = get_top_menu_owner(list, info) /\ info[owner].live =>
                \/ redraw_menu_bar(box, list, info)[owner] = MaxMail
                \/ redraw_menu_bar(box, list, info)[owner] > box[owner]
<1>1. PICK owner : owner = get_top_menu_owner(list, info)
  OBVIOUS
<1>2. owner \in Id \cup {NoId}
  BY <1>1, OwnerType
<1>3. PICK new : new = Deliver(box, owner, list, info)
  OBVIOUS
<1>4. /\ new \in [Id -> 0 .. MaxMail] /\ \A j \in Id : new[j] >= box[j]
      /\ owner \in Id /\ info[owner].live => new[owner] = MaxMail \/ new[owner] > box[owner]
  BY <1>2, <1>3, DeliverIs
<1>5. redraw_menu_bar(box, list, info) = IF bar THEN new ELSE box
  BY <1>1, <1>3 DEF redraw_menu_bar
<1>6. \A j \in Id : box[j] >= box[j]
  BY BoundAssumption
<1> QED
  BY <1>1, <1>4, <1>5, <1>6

\* An exit: who comes into the menu bar is sent a message, and the desktop is
\* gone or stays with its owner.
LEMMA ExitTells ==
  ASSUME IInv, NEW i \in Id, Exit(i)
  PROVE  NewOwnersHear
<1>1. PICK info : info = menu_bar_remove(apps, i)
  OBVIOUS
<1>2. /\ mail' = redraw_menu_bar(mail, ap_pri, info)
      /\ ap_pri' = Without(ap_pri, i)
      /\ deskowner' \in {deskowner, NoId}
      /\ apps' = IF In(i, ap_pri) THEN [info EXCEPT ![i].live = FALSE] ELSE info
  BY <1>1 DEF Exit, srv_wind_new, apinfofree
<1>3. /\ ap_pri \in Seq(Id) /\ Distinct(ap_pri) /\ mail \in [Id -> 0 .. MaxMail]
      /\ apps \in [Id -> AP_INFO]
      /\ \A j \in Id : In(j, ap_pri) => apps[j].live
  BY DEF IInv, TypeOK, EntriesAreTheIds
<1>4. PICK list : list = Without(ap_pri, i)
  OBVIOUS
<1>5. /\ list \in Seq(Id) /\ Distinct(list)
      /\ \A j : In(j, list) <=> In(j, ap_pri) /\ j # i
      /\ \A a, b : Before(list, a, b) <=> Before(ap_pri, a, b) /\ a # i /\ b # i
  BY <1>3, <1>4, WithoutIs
<1>6. /\ \A j \in Id : j # i => info[j] = apps[j] /\ apps'[j] = apps[j]
      /\ apps[i].live => ~info[i].menu
  BY <1>1, <1>2, <1>3 DEF menu_bar_remove, AP_INFO
<1>7. PICK d, e : d = HasMenu(info) /\ e = HasMenu(apps')
  OBVIOUS
<1>8. \A j \in Id : (d[j] <=> info[j].menu) /\ (e[j] <=> apps'[j].menu)
  BY <1>7, Features
<1>9. \A j \in Id : In(j, ap_pri) /\ d[j] <=> In(j, list) /\ e[j]
  BY <1>3, <1>5, <1>6, <1>8
<1>10. \A a, b \in Id : In(a, ap_pri) /\ In(b, ap_pri) /\ d[a] /\ d[b]
                          => (Before(ap_pri, a, b) <=> Before(list, a, b))
  BY <1>3, <1>5, <1>6, <1>8
<1>11. get_top_menu_owner(list, apps') = get_top_menu_owner(ap_pri, info)
  <2>1. ap_pri \in Seq(Id) /\ Distinct(ap_pri) /\ list \in Seq(Id) /\ Distinct(list)
    BY <1>3, <1>5
  <2>2. FirstWith(ap_pri, d, NoId) = FirstWith(list, e, NoId)
    BY <1>9, <1>10, <2>1, SameFirstListed
  <2> QED
    BY <1>7, <2>2 DEF get_top_menu_owner
<1>12. ASSUME NEW owner \in Id, bar, owner = get_top_menu_owner(list, apps'), apps'[owner].live
       PROVE  mail'[owner] = MaxMail \/ mail'[owner] > mail[owner]
  <2>1. info[owner].live
    <3>1. CASE owner # i
      BY <1>6, <1>12, <3>1
    <3>2. CASE owner = i
      BY <1>1, <1>2, <1>3, <1>12, <3>2 DEF menu_bar_remove, AP_INFO
    <3> QED
      BY <3>1, <3>2
  <2> QED
    BY <1>2, <1>3, <1>11, <1>12, <2>1, RedrawIs
<1>13. get_top_menu_owner(list, apps') \in Id \cup {NoId}
  BY <1>5, OwnerType
<1> QED
  BY <1>2, <1>4, <1>12, <1>13 DEF NewOwnersHear, Told

\* Two features that differ at one application only, which is the first one
\* with neither, have the same first one.
LEMMA OneChange ==
  ASSUME NEW list \in Seq(Id), Distinct(list), NEW i \in Id, NEW d, NEW e,
         \A j \in Id : j # i => (d[j] <=> e[j]),
         FirstWith(list, d, NoId) # i, FirstWith(list, e, NoId) # i, NEW other
  PROVE  FirstWith(list, d, other) = FirstWith(list, e, other)
<1>1. PICK x, y : x = FirstWith(list, d, NoId) /\ y = FirstWith(list, e, NoId)
  OBVIOUS
<1>2. /\ (IsFirst(list, d, x) /\ x \in Id) \/ ((\A j : In(j, list) => ~d[j]) /\ x = NoId)
      /\ (IsFirst(list, e, y) /\ y \in Id) \/ ((\A j : In(j, list) => ~e[j]) /\ y = NoId)
  BY <1>1, FirstWithFound
<1>3. x # i /\ y # i
  BY <1>1
<1>4. \A j : In(j, list) => j \in Id
  BY DEF In
<1>5. \A a, b \in Id : In(a, list) /\ In(b, list) => a = b \/ Before(list, a, b) \/ Before(list, b, a)
  <2> SUFFICES ASSUME NEW k \in DOMAIN list, NEW n \in DOMAIN list
               PROVE  \/ list[k] = list[n] \/ Before(list, list[k], list[n])
                      \/ Before(list, list[n], list[k])
    BY DEF In
  <2>1. (k < n => k \in 1 .. n - 1) /\ (n < k => n \in 1 .. k - 1) /\ (k = n \/ k < n \/ n < k)
    OBVIOUS
  <2> QED
    BY <2>1 DEF Before
<1>6. CASE IsFirst(list, d, x) /\ x \in Id
  <2>1. In(x, list) /\ e[x]
    BY <1>3, <1>6 DEF IsFirst
  <2>2. IsFirst(list, e, y) /\ y \in Id /\ d[y]
    <3>1. IsFirst(list, e, y) /\ y \in Id
      BY <1>2, <2>1
    <3> QED
      BY <1>3, <3>1 DEF IsFirst
  <2>3. ~Before(list, x, y) /\ ~Before(list, y, x)
    BY <1>6, <2>1, <2>2 DEF IsFirst
  <2>4. x = y
    BY <1>5, <1>6, <2>1, <2>2, <2>3 DEF IsFirst
  <2>5. FirstWith(list, d, other) = x /\ FirstWith(list, e, other) = x
    BY <1>6, <2>2, <2>4, FirstWithIs
  <2> QED
    BY <2>5
<1>7. CASE \A j : In(j, list) => ~d[j]
  <2>1. ~IsFirst(list, e, y)
    BY <1>3, <1>4, <1>7 DEF IsFirst
  <2>2. \A j : In(j, list) => ~e[j]
    BY <1>2, <2>1
  <2>3. FirstWith(list, d, other) = other
    BY <1>7, FirstWithFound DEF IsFirst
  <2>4. FirstWith(list, e, other) = other
    BY <2>2, FirstWithFound DEF IsFirst
  <2> QED
    BY <2>3, <2>4
<1> QED
  BY <1>2, <1>6, <1>7

\* wind_set() with WF_NEWDESK: the desktop changes hands only when the caller
\* comes to it or leaves it.
LEMMA DesktopTells ==
  ASSUME IInv, NEW p \in Pid, NEW state \in BOOLEAN, set_desktop_background(p, state)
  PROVE  NewOwnersHear
<1>1. PICK i, info : i = known[p] /\ info = [apps EXCEPT ![i].deskbg = state]
  OBVIOUS
<1>2. i \in Id /\ (strayed => strayed')
  BY <1>1, CallerIs DEF set_desktop_background
<1>3. /\ apps' = info /\ ap_pri' = ap_pri
      /\ deskowner' = IF deskowner = NoId THEN NoId ELSE get_desktop_owner_id(ap_pri, info)
      /\ mail' = IF i \in {get_deskbg_owner(ap_pri, apps), get_deskbg_owner(ap_pri, info)}
                 THEN update_desktop_background(mail, ap_pri, info) ELSE mail
  BY <1>1 DEF set_desktop_background, update_desktop_owner
<1>4. /\ ap_pri \in Seq(Id) /\ Distinct(ap_pri) /\ mail \in [Id -> 0 .. MaxMail]
      /\ apps \in [Id -> AP_INFO] /\ apps[i] \in AP_INFO
  BY <1>2 DEF IInv, TypeOK, EntriesAreTheIds
<1>5. \A j \in Id : info[j].menu = apps[j].menu /\ (j # i => info[j] = apps[j])
  BY <1>1, <1>2, <1>4 DEF AP_INFO
<1>6. get_top_menu_owner(ap_pri', apps') = get_top_menu_owner(ap_pri, apps)
  BY <1>3, <1>5, MenusAreQuiet
<1>7. PICK d, e : d = HasDesk(apps) /\ e = HasDesk(info)
  OBVIOUS
<1>8. \A j \in Id : j # i => (d[j] <=> e[j])
  BY <1>5, <1>7, Features
<1>9. PICK x, y : x = FirstWith(ap_pri, d, NoId) /\ y = FirstWith(ap_pri, e, NoId)
  OBVIOUS
<1>10. ap_pri \in Seq(Id) /\ Distinct(ap_pri)
  BY <1>4
<1>11. x # i /\ y # i => FirstWith(ap_pri, d, 0) = FirstWith(ap_pri, e, 0)
  BY <1>2, <1>8, <1>9, <1>10, OneChange
<1>12. ASSUME ~strayed', deskowner' # deskowner, deskowner' # NoId
       PROVE  Told(deskowner')
  <2>1. PICK owner : owner = deskowner'
    OBVIOUS
  <2>2. deskowner # NoId /\ owner = FirstWith(ap_pri, e, 0) /\ owner = get_desktop_owner_id(ap_pri, info)
    BY <1>3, <1>7, <1>12, <2>1 DEF get_desktop_owner_id
  <2>3. deskowner = FirstWith(ap_pri, d, 0)
    BY <1>2, <1>7, <1>12, <2>2 DEF IInv, DesktopHasItsOwner, get_desktop_owner_id
  <2>4. x = i \/ y = i
    BY <1>11, <1>12, <2>1, <2>2, <2>3
  <2>5. mail' = Deliver(mail, owner, ap_pri, info)
    BY <1>3, <1>7, <1>9, <2>2, <2>4 DEF get_deskbg_owner, update_desktop_background
  <2>6. owner \in Id
    BY <1>10, <2>2, OwnerType
  <2>7. info[owner].live => mail'[owner] = MaxMail \/ mail'[owner] > mail[owner]
    BY <1>4, <2>5, <2>6, DeliverIs
  <2> QED
    BY <1>3, <2>1, <2>7 DEF Told
<1> QED
  BY <1>6, <1>12 DEF NewOwnersHear

\* menu_bar(): the menu bar changes hands only when the caller comes to it or
\* leaves it.
LEMMA MenuBarTells ==
  ASSUME IInv, NEW p \in Pid, NEW state \in BOOLEAN, srv_menu_bar(p, state)
  PROVE  NewOwnersHear
<1>1. PICK i, info : /\ i = known[p]
                     /\ info = IF apps[i].live THEN [apps EXCEPT ![i].menu = state] ELSE apps
  OBVIOUS
<1>2. i \in Id
  BY <1>1, CallerIs DEF srv_menu_bar
<1>3. /\ apps' = info /\ ap_pri' = ap_pri /\ deskowner' = deskowner
      /\ mail' = IF state /\ get_top_menu_owner(ap_pri, info) # i THEN mail
                 ELSE redraw_menu_bar(mail, ap_pri, info)
  BY <1>1 DEF srv_menu_bar, wins
<1>4. /\ ap_pri \in Seq(Id) /\ Distinct(ap_pri) /\ mail \in [Id -> 0 .. MaxMail]
      /\ apps \in [Id -> AP_INFO] /\ apps[i] \in AP_INFO
  BY <1>2 DEF IInv, TypeOK, EntriesAreTheIds
<1>5. /\ \A j \in Id : j # i => info[j] = apps[j]
      /\ info[i].menu = state \/ info = apps
      /\ apps[i].menu \in BOOLEAN
  BY <1>1, <1>2, <1>4 DEF AP_INFO
<1>6. PICK d, e : d = HasMenu(apps) /\ e = HasMenu(info)
  OBVIOUS
<1>7. /\ \A j \in Id : (d[j] <=> apps[j].menu) /\ (e[j] <=> info[j].menu)
      /\ \A j \in Id : j # i => (d[j] <=> e[j])
  BY <1>5, <1>6, Features
<1>8. PICK x, y : x = FirstWith(ap_pri, d, NoId) /\ y = FirstWith(ap_pri, e, NoId)
  OBVIOUS
<1>9. x = get_top_menu_owner(ap_pri, apps) /\ y = get_top_menu_owner(ap_pri, info)
  BY <1>6, <1>8 DEF get_top_menu_owner
<1>10. CASE state /\ y # i
  <2>1. CASE x # i
    <3>1. ap_pri \in Seq(Id) /\ Distinct(ap_pri) /\ NoId = NoId
      BY <1>4
    <3>2. x = y
      BY <1>2, <1>7, <1>8, <1>10, <2>1, <3>1, OneChange
    <3> QED
      BY <1>3, <1>9, <3>2, QuietIsFine DEF Quiet
  <2>2. CASE x = i
    <3>1. d[i]
      <4>1. ap_pri \in Seq(Id) /\ Distinct(ap_pri) /\ i # NoId
        BY <1>2, <1>4, BoundAssumption DEF Id, NoId
      <4>2. PICK f : f = FirstWith(ap_pri, d, NoId)
        OBVIOUS
      <4>3. IsFirst(ap_pri, d, f) \/ f = NoId
        BY <4>1, <4>2, FirstWithFound
      <4> QED
        BY <1>8, <2>2, <4>1, <4>2, <4>3 DEF IsFirst
    <3>2. \A j \in Id : info[j].menu = apps[j].menu
      BY <1>2, <1>5, <1>7, <1>10, <3>1
    <3>3. get_top_menu_owner(ap_pri', apps') = get_top_menu_owner(ap_pri, apps)
      BY <1>3, <3>2, MenusAreQuiet
    <3> QED
      BY <1>3, <3>3, QuietIsFine DEF Quiet
  <2> QED
    BY <2>1, <2>2
<1>11. CASE ~(state /\ y # i)
  <2>1. mail' = redraw_menu_bar(mail, ap_pri, info)
    BY <1>3, <1>9, <1>11
  <2>2. y \in Id \cup {NoId}
    BY <1>4, <1>9, OwnerType
  <2>3. ASSUME y \in Id, bar, info[y].live
        PROVE  mail'[y] = MaxMail \/ mail'[y] > mail[y]
    BY <1>4, <1>9, <2>1, <2>3, RedrawIs
  <2> QED
    BY <1>3, <1>9, <2>2, <2>3 DEF NewOwnersHear, Told
<1> QED
  BY <1>10, <1>11

\* An application that enters is blank: nobody comes into anything.
LEMMA InitIsQuiet ==
  ASSUME IInv, NEW p \in Pid, Appl_init(p)
  PROVE  NewOwnersHear
<1>1. PICK i, info : Enters(p, i, info)
  BY InitEnters
<1>2. UNCHANGED <<deskowner, strayed>>
  BY DEF Appl_init, srv_appl_init, wins
<1>3. /\ i \in Id /\ info \in [Id -> AP_INFO] /\ ~In(i, ap_pri)
      /\ ~strayed => ~info[i].menu
      /\ \A j \in Id : j # i => info[j] = apps[j]
      /\ Enter(p, i, info)
  BY <1>1 DEF Enters
<1>4. Entered(i, info)
  BY <1>3, EnterFacts
<1>5. ap_pri' = <<i>> \o ap_pri
  BY <1>3 DEF Enter
<1>6. ASSUME ~strayed'
      PROVE  get_top_menu_owner(ap_pri', apps') = get_top_menu_owner(ap_pri, apps)
  <2>1. PICK info1, info2 : info1 = apps /\ info2 = apps'
    OBVIOUS
  <2>2. ~info2[i].menu /\ \A j \in Id : j # i => info2[j] = info1[j]
    BY <1>2, <1>3, <1>4, <1>6, <2>1 DEF Entered
  <2>3. ap_pri \in Seq(Id) /\ Distinct(ap_pri)
    BY DEF IInv, TypeOK, EntriesAreTheIds
  <2>4. FirstWith(<<i>> \o ap_pri, HasMenu(info2), NoId) = FirstWith(ap_pri, HasMenu(info1), NoId)
    BY <1>3, <2>2, <2>3, MenuOfNewcomer
  <2> QED
    BY <1>5, <2>1, <2>4 DEF get_top_menu_owner
<1> QED
  BY <1>2, <1>6 DEF NewOwnersHear

\* top_appl(): the new owners are told with the list as it is then.
LEMMA TopTells ==
  ASSUME IInv, NEW i \in Id, top_appl(i)
  PROVE  NewOwnersHear
<1>1. /\ ap_pri' = Topped(ap_pri, i) /\ ap_pri # <<>> /\ apps' = apps
  BY TopFacts
<1>2. PICK list : list = Topped(ap_pri, i)
  OBVIOUS
<1>3. ap_pri \in Seq(Id) /\ Distinct(ap_pri) /\ mail \in [Id -> 0 .. MaxMail]
  BY DEF IInv, TypeOK, EntriesAreTheIds
<1>4. list \in Seq(Id) /\ Distinct(list)
  BY <1>2, <1>3, ToppedIs
<1>5. CASE Head(ap_pri) = i
  <2>1. deskowner' = deskowner
    BY <1>5 DEF top_appl
  <2>2. ap_pri[1] = i /\ 1 \in DOMAIN ap_pri
    BY <1>1, <1>3, <1>5
  <2>3. PICK d : d = HasMenu(apps)
    OBVIOUS
  <2>4. \A k \in DOMAIN ap_pri : 1 \in 1 .. k
    BY <1>3
  <2>5. ~(/\ In(i, ap_pri) /\ d[i]
          /\ \E k \in DOMAIN ap_pri : d[ap_pri[k]] /\ \A n \in 1 .. k : ap_pri[n] # i)
    BY <2>2, <2>4
  <2>6. FirstWith(Topped(ap_pri, i), d, NoId) = FirstWith(ap_pri, d, NoId)
    BY <1>3, <2>5, ToppedKeepsFirst
  <2> QED
    BY <1>1, <2>1, <2>3, <2>6, QuietIsFine DEF Quiet, get_top_menu_owner
<1>6. CASE Head(ap_pri) # i
  <2>1. PICK desk, box, dx, mx :
          /\ desk = (In(i, ap_pri) /\ apps[i].deskbg /\ Passed(i))
          /\ box = IF desk THEN update_desktop_background(mail, list, apps) ELSE mail
          /\ dx = get_desktop_owner_id(list, apps) /\ mx = get_top_menu_owner(list, apps)
    OBVIOUS
  <2>2. /\ mail' = redraw_menu_bar(box, list, apps)
        /\ deskowner' = IF desk THEN update_desktop_owner(list, apps) ELSE deskowner
    BY <1>2, <1>6, <2>1 DEF top_appl, Topped
  <2>3. dx \in Id /\ mx \in Id \cup {NoId}
    BY <1>4, <2>1, OwnerType
  <2>4. /\ box \in [Id -> 0 .. MaxMail] /\ \A j \in Id : box[j] >= mail[j]
        /\ desk /\ apps[dx].live => box[dx] = MaxMail \/ box[dx] > mail[dx]
    <3>1. \A j \in Id : mail[j] >= mail[j]
      BY <1>3, BoundAssumption
    <3>2. PICK new : new = Deliver(mail, dx, list, apps)
      OBVIOUS
    <3>3. /\ new \in [Id -> 0 .. MaxMail] /\ \A j \in Id : new[j] >= mail[j]
          /\ apps[dx].live => new[dx] = MaxMail \/ new[dx] > mail[dx]
      BY <1>3, <1>4, <2>3, <3>2, DeliverIs
    <3> QED
      BY <1>3, <2>1, <3>1, <3>2, <3>3 DEF update_desktop_background
  <2>5. /\ mail' \in [Id -> 0 .. MaxMail] /\ \A j \in Id : mail'[j] >= box[j]
        /\ mx \in Id /\ bar /\ apps[mx].live => mail'[mx] = MaxMail \/ mail'[mx] > box[mx]
    <3>1. PICK new : new = redraw_menu_bar(box, list, apps)
      OBVIOUS
    <3>2. /\ new \in [Id -> 0 .. MaxMail] /\ \A j \in Id : new[j] >= box[j]
          /\ mx \in Id /\ bar /\ apps[mx].live => new[mx] = MaxMail \/ new[mx] > box[mx]
      BY <1>4, <2>1, <2>4, <3>1, RedrawIs
    <3> QED
      BY <2>2, <3>1, <3>2
  <2>6. \A j \in Id : /\ mail[j] \in 0 .. MaxMail /\ box[j] \in 0 .. MaxMail
                       /\ mail'[j] \in 0 .. MaxMail
    BY <1>3, <2>4, <2>5
  <2>7. desk /\ apps[dx].live => mail'[dx] = MaxMail \/ mail'[dx] > mail[dx]
    BY <2>3, <2>4, <2>5, <2>6, BoundAssumption
  <2>8. mx \in Id /\ bar /\ apps[mx].live => mail'[mx] = MaxMail \/ mail'[mx] > mail[mx]
    BY <2>4, <2>5, <2>6, BoundAssumption
  <2>9. deskowner' \notin {deskowner, NoId} => desk /\ deskowner' = dx
    BY <2>1, <2>2 DEF update_desktop_owner
  <2>10. mx = get_top_menu_owner(ap_pri', apps')
    BY <1>1, <1>2, <2>1
  <2> QED
    BY <1>1, <2>3, <2>7, <2>8, <2>9, <2>10 DEF NewOwnersHear, Told
<1> QED
  BY <1>5, <1>6

\* Every step tells the new owners.
LEMMA StepTells == IInv /\ [Next]_vars => [NewOwnersHear]_vars
<1> SUFFICES ASSUME IInv, Next PROVE NewOwnersHear
  OBVIOUS
<1>1. ASSUME UNCHANGED <<ap_pri, deskowner>>, \A j \in Id : apps'[j].menu = apps[j].menu
      PROVE  NewOwnersHear
  BY <1>1, MenusAreQuiet, QuietIsFine DEF Quiet
<1>2. ASSUME UNCHANGED <<lists, wins>> PROVE NewOwnersHear
  BY <1>1, <1>2 DEF lists, wins
<1>3. ASSUME NEW p \in Pid, NEW i \in Id, Appl_write(p, i)
      PROVE  NewOwnersHear
  BY <1>2, <1>3 DEF Appl_write
<1>4. ASSUME NEW p \in Pid, ReadMessage(p) \/ ProcessEnds(p) \/ \E child \in Pid : Shel_write(p, child)
      PROVE  NewOwnersHear
  BY <1>2, <1>4 DEF ReadMessage, ProcessEnds, Shel_write
<1>5. ASSUME NEW p \in Pid, Appl_init(p)
      PROVE  NewOwnersHear
  BY <1>5, InitIsQuiet
<1>6. ASSUME NEW p \in Pid, Appl_exit(p)
      PROVE  NewOwnersHear
  <2>1. PICK i : i = known[p]
    OBVIOUS
  <2>2. i \in Id /\ Exit(i)
    BY <1>6, <2>1, CallerIs DEF Appl_exit
  <2> QED
    BY <2>2, ExitTells
<1>7. ASSUME NEW p \in Pid, NEW i \in Id, Kill(p, i)
      PROVE  NewOwnersHear
  BY <1>7, ExitTells DEF Kill
<1>8. ASSUME NEW p \in Pid, NEW i \in Id, Top(p, i)
      PROVE  NewOwnersHear
  BY <1>8, TopTells DEF Top
<1>9. ASSUME NEW p \in Pid, TopNext(p)
      PROVE  NewOwnersHear
  <2>1. PICK i : i = Last(ap_pri)
    OBVIOUS
  <2>2. top_appl(i) /\ ap_pri # <<>>
    BY <1>9, <2>1 DEF TopNext, top_appl
  <2>3. i \in Id
    BY <2>1, <2>2, HeadIs
  <2> QED
    BY <2>2, <2>3, TopTells
<1>10. ASSUME NEW p \in Pid, NEW state \in BOOLEAN,
              set_desktop_background(p, state) \/ srv_menu_bar(p, state)
       PROVE  NewOwnersHear
  BY <1>10, DesktopTells, MenuBarTells
<1>11. ASSUME NEW p \in Pid, NEW t \in Title, srv_menu_register(p, t)
       PROVE  NewOwnersHear
  <2>1. PICK i : i = known[p]
    OBVIOUS
  <2>2. /\ i \in Id /\ apps' = [apps EXCEPT ![i].name = t] /\ UNCHANGED <<ap_pri, wins>>
    BY <1>11, <2>1, CallerIs DEF srv_menu_register, Registered
  <2>3. apps \in [Id -> AP_INFO] /\ apps[i] \in AP_INFO
    BY <2>2 DEF IInv, TypeOK
  <2>4. \A j \in Id : apps'[j].menu = apps[j].menu
    BY <2>2, <2>3 DEF AP_INFO
  <2> QED
    BY <1>1, <2>2, <2>4 DEF wins
<1>12. ASSUME NEW p \in Pid, NEW type \in {"application", "accessory"}, Appl_reserve(p, type)
       PROVE  NewOwnersHear
  <2>1. PICK n, new : n = NextFree /\ new = NewInfo(p, NoPid, type)
    OBVIOUS
  <2>2. Free # {} /\ apps' = [apps EXCEPT ![n] = new] /\ UNCHANGED <<ap_pri, deskowner>>
    BY <1>12, <2>1 DEF Appl_reserve, srv_appl_reserve, wins
  <2>3. n \in Id /\ ~In(n, ap_pri)
    BY <2>1, <2>2, NextFreeIs DEF IInv, TypeOK, EntriesAreTheIds
  <2>4. ap_pri \in Seq(Id) /\ Distinct(ap_pri) /\ apps \in [Id -> AP_INFO]
    BY DEF IInv, TypeOK, EntriesAreTheIds
  <2>5. \A j \in Id : j # n => apps'[j] = apps[j]
    BY <2>2, <2>3, <2>4
  <2>6. FirstWith(ap_pri, HasMenu(apps'), NoId) = FirstWith(ap_pri, HasMenu(apps), NoId)
    BY <2>3, <2>4, <2>5, OutsideIsNotFirst
  <2> QED
    BY <2>2, <2>6, QuietIsFine DEF Quiet, get_top_menu_owner
<1>13. ASSUME NEW p \in Pid, ConnLost(p)
       PROVE  NewOwnersHear
  <2>1. PICK i : i = FirstWith(ap_pri, [j \in Id |-> apps[j].handle = p], NoId)
    OBVIOUS
  <2>2. IF i # NoId THEN Exit(i) ELSE UNCHANGED <<lists, menus, mail, wins>>
    BY <1>13, <2>1 DEF ConnLost
  <2>3. i \in Id \cup {NoId}
    <3>1. ap_pri \in Seq(Id) /\ Distinct(ap_pri)
      BY DEF IInv, TypeOK, EntriesAreTheIds
    <3>2. PICK has : has = [j \in Id |-> apps[j].handle = p]
      OBVIOUS
    <3>3. i = FirstWith(ap_pri, has, NoId)
      BY <2>1, <3>2
    <3> QED
      BY <3>1, <3>3, FirstWithFound
  <2> QED
    BY <1>2, <2>2, <2>3, ExitTells
<1>14. ASSUME Srv_stop \/ Srv_exit_module
       PROVE  NewOwnersHear
  <2>1. CASE Srv_stop
    BY <1>2, <2>1 DEF Srv_stop
  <2>2. CASE Srv_exit_module /\ ap_pri = <<>>
    BY <1>2, <2>2 DEF Srv_exit_module
  <2>3. CASE Srv_exit_module /\ ap_pri # <<>>
    <3>1. PICK i : i = Head(ap_pri)
      OBVIOUS
    <3>2. i \in Id /\ Exit(i)
      BY <2>3, <3>1, HeadIs DEF Srv_exit_module
    <3> QED
      BY <3>2, ExitTells
  <2> QED
    BY <1>14, <2>1, <2>2, <2>3
<1> QED
  BY <1>3, <1>4, <1>5, <1>6, <1>7, <1>8, <1>9, <1>10, <1>11, <1>12, <1>13, <1>14 DEF Next

-----------------------------------------------------------------------------
(* The shutdown.                                                           *)

\* While the server closes down, only its loop changes the list.
LEMMA StepShortens == IInv /\ [Next]_vars => [RoundShortens]_vars
<1> SUFFICES ASSUME IInv, Next, status = "closing", <<lists, status>>' # <<lists, status>>
             PROVE  status' = "down" \/ Len(ap_pri') < Len(ap_pri)
  BY DEF RoundShortens
<1>1. ASSUME NEW p \in Pid, ProcessEnds(p) PROVE FALSE
  BY <1>1 DEF ProcessEnds
<1>2. Srv_exit_module
  BY <1>1 DEF Next, Appl_init, Appl_exit, TopNext, ReadMessage, ConnLost, Shel_write,
              Appl_reserve, set_desktop_background, srv_menu_bar, srv_menu_register,
              Top, Kill, Appl_write, Call, Caller, Srv_stop
<1>3. CASE ap_pri = <<>>
  BY <1>2, <1>3 DEF Srv_exit_module
<1>4. CASE ap_pri # <<>>
  <2>1. PICK i : i = Head(ap_pri)
    OBVIOUS
  <2>2. Exit(i) /\ In(i, ap_pri)
    BY <1>2, <1>4, <2>1, HeadIs DEF Srv_exit_module
  <2>3. ap_pri' = Without(ap_pri, i)
    BY <2>2 DEF Exit, apinfofree
  <2>4. ap_pri \in Seq(Id) /\ Distinct(ap_pri)
    BY DEF IInv, TypeOK, EntriesAreTheIds
  <2>5. Len(ap_pri') = Len(ap_pri) - 1
    BY <2>2, <2>3, <2>4, WithoutIs
  <2> QED
    BY <2>4, <2>5
<1> QED
  BY <1>3, <1>4

-----------------------------------------------------------------------------
(* The theorems.                                                           *)

\* The invariant holds for ever.
THEOREM Invariance == Spec => []IInv
BY InvInit, InvStep, PTL DEF Spec

\* The tables of srv_appl.c keep their types and bounds.
THEOREM TypeCorrect == Spec => []TypeOK
<1>1. IInv => TypeOK
  BY DEF IInv
<1> QED
  BY <1>1, Invariance, PTL

\* The entries, the menu bar and the ids of the processes say the same, for any
\* number of ids, processes and titles, whoever exits, dies or is killed when.
THEOREM TablesCorrect == Spec => []TablesAgree
<1>1. IInv => TablesAgree
  BY DEF IInv, TablesAgree
<1> QED
  BY <1>1, Invariance, PTL

\* The desktop belongs to the first application with a desktop background.
THEOREM DesktopCorrect == Spec => []DesktopHasItsOwner
<1>1. IInv => DesktopHasItsOwner
  BY DEF IInv
<1> QED
  BY <1>1, Invariance, PTL

\* Who comes into the menu bar or the desktop is sent a redraw message in the
\* same step, unless the buffer is full.
THEOREM OwnersHear == Spec => OwnersAreTold
BY StepTells, Invariance, PTL DEF Spec, OwnersAreTold

\* What the loop of Srv_exit_module() changes is a shorter list, or the end.
THEOREM ShutdownShortens == Spec => ShutdownAdvances
BY StepShortens, Invariance, PTL DEF Spec, ShutdownAdvances
=============================================================================
