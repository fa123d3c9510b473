----------------------------- MODULE PartsProofs -----------------------------
(***************************************************************************)
(* What holds of the two parts that MCParts puts side by side, for every   *)
(* size of them.                                                           *)
(*                                                                         *)
(* The list of the waiting applications is a list, and nobody is answered  *)
(* who has not called, for any number of clients and ids, as long as no    *)
(* application is killed while it waits.                                   *)
(*                                                                         *)
(* The library and the server agree on the sizes of a window, and however  *)
(* its size has changed it is laid out like a new window of its size: for  *)
(* every resource, every set of elements and any sizes.                    *)
(***************************************************************************)
EXTENDS WaitList, WindowElements, FiniteSetTheorems, TLAPS

-----------------------------------------------------------------------------
(* The list of the waiting applications. *)

TypeOK ==
  /\ waiting_appl \in Apid \cup {Nil} /\ walk \in Apid \cup {Nil}
  /\ next \in [Apid -> Apid \cup {Nil}] /\ prev \in [Apid -> Apid \cup {Nil}]
  /\ is_waiting \in SUBSET Apid /\ IsFiniteSet(is_waiting)
  /\ handle \in [Apid -> Client \cup {Nil}]
  /\ apid \in [Client -> Apid \cup {Nil}]
  /\ pc \in [Client -> {"outside", "running", "blocked", "killed"}]

\* Two processes have not the same id, and who calls has one.
IdsAreOwn ==
  /\ \A c, d \in Client : apid[c] = apid[d] /\ apid[c] # Nil => c = d
  /\ \A c \in Client : pc[c] \in {"running", "blocked"} => apid[c] # Nil

\* A marked entry is the one of a client that is blocked.
MarkedIsBlocked ==
  \A a \in is_waiting :
    /\ handle[a] \in Client
    /\ pc[handle[a]] = "blocked"
    /\ apid[handle[a]] = a

\* A walk goes from marked entry to marked entry.
WalkIsListed == walk # Nil => walk \in is_waiting

IInv ==
  /\ TypeOK /\ IdsAreOwn /\ MarkedIsBlocked /\ WalkIsListed
  /\ EntriesAreLinked /\ BlockedIsListed /\ NoStrayReply

-----------------------------------------------------------------------------
(* What the list operations do to an enumeration of the entries.           *)

\* queue_appl() puts an entry that is not in the list before the first one.
LEMMA QueuedIsLinked ==
  ASSUME TypeOK, EntriesAreLinked, NEW c \in Client,
         apid[c] \in Apid, apid[c] \notin is_waiting, queue_appl(c)
  PROVE  EntriesAreLinked'
<1> DEFINE this == apid[c]
           new == is_waiting \cup {this}
<1>0. PICK n : n = Cardinality(is_waiting)
  OBVIOUS
<1>1. PICK s \in [1 .. n -> is_waiting] : Links(s, n)
  BY <1>0 DEF EntriesAreLinked
<1>2. is_waiting' = new /\ IsFiniteSet(is_waiting) /\ is_waiting \subseteq Apid
  BY DEF queue_appl, TypeOK
<1>3. n \in Nat /\ Cardinality(new) = n + 1
  BY <1>0, <1>2, FS_CardinalityType, FS_AddElement
<1>4. PICK t : t = [i \in 1 .. (n + 1) |-> IF i = 1 THEN this ELSE s[i - 1]]
  OBVIOUS
<1>7. t \in [1 .. (n + 1) -> new]
  BY <1>3, <1>4
<1>5. this \in Apid /\ this # Nil /\ this \notin is_waiting
  BY NilAssumption
<1>6. Links(t, n + 1)'
  <2>1. \A a \in new : \E i \in 1 .. (n + 1) : t[i] = a
    <3>1. t[1] = this /\ 1 \in 1 .. (n + 1)
      BY <1>3, <1>4
    <3>2. ASSUME NEW a \in is_waiting
          PROVE  \E i \in 1 .. (n + 1) : t[i] = a
      <4>1. PICK i \in 1 .. n : s[i] = a
        BY <1>1 DEF Links
      <4>2. t[i + 1] = a /\ i + 1 \in 1 .. (n + 1)
        BY <4>1, <1>3, <1>4
      <4> QED
        BY <4>2
    <3> QED
      BY <3>1, <3>2
  <2>2. \A i, j \in 1 .. (n + 1) : t[i] = t[j] => i = j
    BY <1>1, <1>3, <1>4, <1>5 DEF Links
  <2>3. waiting_appl' = IF n + 1 = 0 THEN Nil ELSE t[1]
    BY <1>3, <1>4 DEF queue_appl
  <2>4. \A i \in 1 .. (n + 1) : next'[t[i]] = IF i = n + 1 THEN Nil ELSE t[i + 1]
    <3>1. next' = [next EXCEPT ![this] = waiting_appl] /\ next \in [Apid -> Apid \cup {Nil}]
      BY DEF queue_appl, TypeOK
    <3>2. next'[this] = IF n = 0 THEN Nil ELSE s[1]
      BY <3>1, <1>1, <1>5 DEF Links
    <3>3. \A i \in 1 .. n : next'[s[i]] = IF i = n THEN Nil ELSE s[i + 1]
      BY <3>1, <1>1, <1>2, <1>5 DEF Links
    <3> QED
      BY <3>2, <3>3, <1>3, <1>4
  <2>5. \A i \in 1 .. (n + 1) : prev'[t[i]] = IF i = 1 THEN Nil ELSE t[i - 1]
    <3>1. prev' = [a \in Apid |-> IF a = waiting_appl THEN this
                                  ELSE IF a = this THEN Nil ELSE prev[a]]
      BY DEF queue_appl
    <3>2. waiting_appl = IF n = 0 THEN Nil ELSE s[1]
      BY <1>1 DEF Links
    <3>3. prev'[this] = Nil
      <4>1. waiting_appl # this /\ this \in Apid
        BY <3>2, <1>3, <1>5, NilAssumption
      <4> QED
        BY <3>1, <4>1
    <3>4. \A i \in 1 .. n : prev'[s[i]] = IF i = 1 THEN this ELSE s[i - 1]
      <4> SUFFICES ASSUME NEW i \in 1 .. n
                   PROVE  prev'[s[i]] = IF i = 1 THEN this ELSE s[i - 1]
        OBVIOUS
      <4>1. s[i] \in Apid /\ s[i] # this
        BY <1>1, <1>2, <1>5
      <4>2. prev'[s[i]] = IF s[i] = waiting_appl THEN this ELSE prev[s[i]]
        BY <3>1, <4>1
      <4>3. s[i] = waiting_appl <=> i = 1
        <5>1. n # 0 /\ 1 \in 1 .. n /\ waiting_appl = s[1]
          BY <3>2, <1>3
        <5> QED
          BY <1>1, <5>1 DEF Links
      <4>4. i # 1 => prev[s[i]] = s[i - 1]
        BY <1>1 DEF Links
      <4> QED
        BY <4>2, <4>3, <4>4
    <3> QED
      BY <3>3, <3>4, <1>3, <1>4
  <2> QED
    BY <2>1, <2>2, <2>3, <2>4, <2>5, <1>2 DEF Links
<1> QED
  BY <1>2, <1>3, <1>6, <1>7 DEF EntriesAreLinked

\* dequeue_appl() takes an entry out of the list, wherever it is; the entry
\* after it is one that stays.
LEMMA DequeuedIsLinked ==
  ASSUME TypeOK, EntriesAreLinked, NEW this \in is_waiting, dequeue_appl(this)
  PROVE  /\ EntriesAreLinked'
         /\ next[this] # Nil => next[this] \in is_waiting'
<1> DEFINE new == is_waiting \ {this}
<1>0. PICK n : n = Cardinality(is_waiting)
  OBVIOUS
<1>1. PICK s \in [1 .. n -> is_waiting] : Links(s, n)
  BY <1>0 DEF EntriesAreLinked
<1>2. is_waiting' = new /\ IsFiniteSet(is_waiting) /\ is_waiting \subseteq Apid
  BY DEF dequeue_appl, TypeOK
<1>3. n \in Nat /\ Cardinality(new) = n - 1
  BY <1>0, <1>2, FS_CardinalityType, FS_RemoveElement
<1>4. PICK k \in 1 .. n : s[k] = this
  BY <1>1 DEF Links
<1>5. PICK m \in Nat : n = m + 1 /\ k \in 1 .. n
  BY <1>3, <1>4
<1>13. PICK t : t = [i \in 1 .. m |-> IF i < k THEN s[i] ELSE s[i + 1]]
  OBVIOUS
<1>6. \A i \in 1 .. n : s[i] \in Apid /\ s[i] # Nil /\ (s[i] = this => i = k)
  BY <1>1, <1>2, <1>4, NilAssumption DEF Links
<1>7. t \in [1 .. m -> new]
  BY <1>5, <1>6, <1>13
<1>8. \A i \in 1 .. m : t[i] = IF i < k THEN s[i] ELSE s[i + 1]
  BY <1>13
<1>9. /\ next[this] = IF k = n THEN Nil ELSE s[k + 1]
      /\ prev[this] = IF k = 1 THEN Nil ELSE s[k - 1]
  BY <1>1, <1>4 DEF Links
<1>10. Links(t, m)'
  <2>1. \A a \in new : \E i \in 1 .. m : t[i] = a
    <3> SUFFICES ASSUME NEW a \in new PROVE \E i \in 1 .. m : t[i] = a
      OBVIOUS
    <3>1. PICK i \in 1 .. n : s[i] = a
      BY <1>1 DEF Links
    <3>2. i # k
      BY <3>1, <1>4
    <3>3. CASE i < k
      BY <3>1, <3>3, <1>5, <1>8
    <3>4. CASE i > k
      <4>1. i - 1 \in 1 .. m /\ t[i - 1] = a
        BY <3>1, <3>4, <1>5, <1>8
      <4> QED
        BY <4>1
    <3> QED
      BY <3>2, <3>3, <3>4, <1>5
  <2>2. \A i, j \in 1 .. m : t[i] = t[j] => i = j
    <3>1. \A i, j \in 1 .. n : s[i] = s[j] => i = j
      BY <1>1 DEF Links
    <3> QED
      BY <3>1, <1>5, <1>8
  <2>3. waiting_appl' = IF m = 0 THEN Nil ELSE t[1]
    <3>1. waiting_appl = s[1]
      BY <1>1, <1>5 DEF Links
    <3>2. waiting_appl' = IF prev[this] = Nil /\ waiting_appl = this
                          THEN next[this] ELSE waiting_appl
      BY DEF dequeue_appl
    <3>3. CASE k = 1
      <4>1. waiting_appl' = IF 1 = n THEN Nil ELSE s[2]
        BY <3>1, <3>2, <3>3, <1>4, <1>9
      <4> QED
        BY <4>1, <3>3, <1>5, <1>8
    <3>4. CASE k # 1
      <4>1. waiting_appl' = s[1]
        BY <3>1, <3>2, <3>4, <1>5, <1>6
      <4> QED
        BY <4>1, <3>4, <1>5, <1>8
    <3> QED
      BY <3>3, <3>4
  <2>4. \A i \in 1 .. m : next'[t[i]] = IF i = m THEN Nil ELSE t[i + 1]
    <3> SUFFICES ASSUME NEW i \in 1 .. m
                 PROVE  next'[t[i]] = IF i = m THEN Nil ELSE t[i + 1]
      OBVIOUS
    <3>1. next' = [a \in Apid |-> IF a = this THEN Nil
                                  ELSE IF a = prev[this] THEN next[this] ELSE next[a]]
      BY DEF dequeue_appl
    <3>2. \A j \in 1 .. n : next[s[j]] = IF j = n THEN Nil ELSE s[j + 1]
      BY <1>1 DEF Links
    <3>3. \A j \in 1 .. n : s[j] = prev[this] <=> j = k - 1
      BY <1>1, <1>5, <1>6, <1>9 DEF Links
    <3>4. \A j \in 1 .. n : j # k =>
            next'[s[j]] = IF j = k - 1 THEN next[this] ELSE next[s[j]]
      BY <3>1, <3>3, <1>6
    <3>5. CASE i < k - 1
      <4>1. i \in 1 .. n /\ t[i] = s[i] /\ i + 1 \in 1 .. m /\ t[i + 1] = s[i + 1] /\ i # m /\ i # n
        BY <3>5, <1>5, <1>8
      <4> QED
        BY <4>1, <3>2, <3>4, <3>5, <1>5
    <3>6. CASE i = k - 1
      <4>1. i \in 1 .. n /\ t[i] = s[i] /\ (i = m <=> k = n)
        BY <3>6, <1>5, <1>8
      <4>2. next'[t[i]] = IF k = n THEN Nil ELSE s[k + 1]
        BY <4>1, <3>4, <3>6, <1>5, <1>9
      <4>3. i # m => t[i + 1] = s[k + 1]
        BY <3>6, <1>5, <1>8
      <4> QED
        BY <4>1, <4>2, <4>3
    <3>7. CASE i >= k
      <4>1. i + 1 \in 1 .. n /\ t[i] = s[i + 1] /\ (i = m <=> i + 1 = n)
        BY <3>7, <1>5, <1>8
      <4>2. i # m => t[i + 1] = s[i + 2]
        BY <3>7, <1>5, <1>8
      <4>3. next'[t[i]] = IF i + 1 = n THEN Nil ELSE s[(i + 1) + 1]
        BY <4>1, <3>2, <3>4, <3>7, <1>5
      <4> QED
        BY <4>1, <4>2, <4>3, (i + 1) + 1 = i + 2
    <3> QED
      BY <3>5, <3>6, <3>7, <1>5
  <2>5. \A i \in 1 .. m : prev'[t[i]] = IF i = 1 THEN Nil ELSE t[i - 1]
    <3> SUFFICES ASSUME NEW i \in 1 .. m
                 PROVE  prev'[t[i]] = IF i = 1 THEN Nil ELSE t[i - 1]
      OBVIOUS
    <3>1. prev' = [a \in Apid |-> IF a = this THEN Nil
                                  ELSE IF a = next[this] THEN prev[this] ELSE prev[a]]
      BY DEF dequeue_appl
    <3>2. \A j \in 1 .. n : prev[s[j]] = IF j = 1 THEN Nil ELSE s[j - 1]
      BY <1>1 DEF Links
    <3>3. \A j \in 1 .. n : s[j] = next[this] <=> j = k + 1
      BY <1>1, <1>5, <1>6, <1>9 DEF Links
    <3>4. \A j \in 1 .. n : j # k =>
            prev'[s[j]] = IF j = k + 1 THEN prev[this] ELSE prev[s[j]]
      BY <3>1, <3>3, <1>6
    <3>5. CASE i < k
      <4>1. i \in 1 .. n /\ t[i] = s[i] /\ i # k + 1 /\ i # k
        BY <3>5, <1>5, <1>8
      <4>2. i # 1 => t[i - 1] = s[i - 1]
        BY <3>5, <1>5, <1>8
      <4> QED
        BY <4>1, <4>2, <3>2, <3>4
    <3>6. CASE i = k
      <4>1. i + 1 \in 1 .. n /\ t[i] = s[i + 1] /\ i + 1 = k + 1 /\ i + 1 # k
        BY <3>6, <1>5, <1>8
      <4>2. i # 1 => t[i - 1] = s[k - 1]
        BY <3>6, <1>5, <1>8
      <4>3. prev'[t[i]] = IF k = 1 THEN Nil ELSE s[k - 1]
        BY <4>1, <3>4, <1>9
      <4> QED
        BY <4>2, <4>3, <3>6
    <3>7. CASE i > k
      <4>1. i + 1 \in 1 .. n /\ t[i] = s[i + 1] /\ i + 1 # k + 1 /\ i + 1 # k /\ i + 1 # 1
        BY <3>7, <1>5, <1>8
      <4>2. i # 1 /\ t[i - 1] = s[i]
        BY <3>7, <1>5, <1>8, (i - 1) + 1 = i
      <4>3. prev'[t[i]] = s[(i + 1) - 1]
        BY <4>1, <3>2, <3>4
      <4> QED
        BY <4>2, <4>3, (i + 1) - 1 = i
    <3> QED
      BY <3>5, <3>6, <3>7, <1>5
  <2> QED
    BY <2>1, <2>2, <2>3, <2>4, <2>5, <1>2 DEF Links
<1>11. Cardinality(is_waiting)' = m
  BY <1>2, <1>3, <1>5
<1>12. next[this] # Nil => next[this] \in is_waiting'
  BY <1>1, <1>2, <1>5, <1>6, <1>9
<1> QED
  BY <1>2, <1>7, <1>10, <1>11, <1>12 DEF EntriesAreLinked

-----------------------------------------------------------------------------
(* The steps.                                                              *)

\* A step that leaves the links and the marks alone leaves the list alone.
LEMMA LinksKept ==
  ASSUME EntriesAreLinked, UNCHANGED links
  PROVE  EntriesAreLinked'
<1>1. \A s, n : Links(s, n) => Links(s, n)'
  BY DEF Links, links
<1>2. is_waiting' = is_waiting
  BY DEF links
<1> QED
  BY <1>1, <1>2 DEF EntriesAreLinked

\* srv_appl_init(): the id is nobody's, so its entry is not marked.
LEMMA InitStep ==
  ASSUME IInv, NEW c \in Client, srv_appl_init(c)
  PROVE  IInv'
<1>1. PICK a \in Apid : /\ \A d \in Client : apid[d] # a
                        /\ apid' = [apid EXCEPT ![c] = a]
  BY DEF srv_appl_init
<1>2. pc[c] = "outside" /\ pc' = [pc EXCEPT ![c] = "running"]
  BY DEF srv_appl_init
<1>3. UNCHANGED <<waiting_appl, next, prev, is_waiting, handle, walk, stray>>
  BY DEF srv_appl_init, links
<1>4. TypeOK'
  BY <1>1, <1>2, <1>3 DEF IInv, TypeOK
<1>5. IdsAreOwn'
  BY <1>1, <1>2, NilAssumption DEF IInv, TypeOK, IdsAreOwn
<1>6. MarkedIsBlocked' /\ BlockedIsListed'
  BY <1>1, <1>2, <1>3 DEF IInv, TypeOK, MarkedIsBlocked, BlockedIsListed
<1>7. EntriesAreLinked'
  BY <1>3, LinksKept DEF IInv, links
<1> QED
  BY <1>3, <1>4, <1>5, <1>6, <1>7 DEF IInv, WalkIsListed, NoStrayReply

\* An application that does not wait gives its id back.
LEMMA ExitStep ==
  ASSUME IInv, NEW c \in Client, NEW state \in {"outside", "killed"},
         pc[c] = "running", Exit(c, state)
  PROVE  IInv'
<1>1. apid' = [apid EXCEPT ![c] = Nil] /\ pc' = [pc EXCEPT ![c] = state]
  BY DEF Exit
<1>2. UNCHANGED <<waiting_appl, next, prev, is_waiting, handle, walk, stray>>
  BY DEF Exit, links
<1>3. TypeOK'
  BY <1>1, <1>2 DEF IInv, TypeOK
<1>4. IdsAreOwn'
  BY <1>1 DEF IInv, TypeOK, IdsAreOwn
<1>5. MarkedIsBlocked' /\ BlockedIsListed'
  BY <1>1, <1>2 DEF IInv, TypeOK, MarkedIsBlocked, BlockedIsListed
<1>6. EntriesAreLinked'
  BY <1>2, LinksKept DEF IInv, links
<1> QED
  BY <1>2, <1>3, <1>4, <1>5, <1>6 DEF IInv, WalkIsListed, NoStrayReply

\* queue_appl(): who calls does not wait, so its entry is not in the list yet.
LEMMA QueueStep ==
  ASSUME IInv, NEW c \in Client, queue_appl(c)
  PROVE  IInv'
<1> DEFINE this == apid[c]
<1>1. pc[c] = "running" /\ this \in Apid /\ this # Nil
  BY DEF IInv, TypeOK, IdsAreOwn, queue_appl
<1>2. this \notin is_waiting
  BY <1>1 DEF IInv, TypeOK, IdsAreOwn, MarkedIsBlocked
<1>3. EntriesAreLinked'
  BY <1>1, <1>2, QueuedIsLinked DEF IInv
<1>4. /\ is_waiting' = is_waiting \cup {this}
      /\ handle' = [handle EXCEPT ![this] = c]
      /\ pc' = [pc EXCEPT ![c] = "blocked"]
      /\ UNCHANGED <<walk, apid, stray>> /\ walk = Nil
  BY DEF queue_appl
<1>5. TypeOK'
  <2>1. IsFiniteSet(is_waiting')
    BY <1>4, FS_AddElement DEF IInv, TypeOK
  <2>2. next' \in [Apid -> Apid \cup {Nil}] /\ prev' \in [Apid -> Apid \cup {Nil}]
        /\ waiting_appl' \in Apid \cup {Nil}
    BY <1>1 DEF IInv, TypeOK, queue_appl
  <2> QED
    BY <1>1, <1>4, <2>1, <2>2 DEF IInv, TypeOK
<1>6. IdsAreOwn'
  BY <1>1, <1>4 DEF IInv, TypeOK, IdsAreOwn
<1>7. MarkedIsBlocked' /\ BlockedIsListed'
  BY <1>1, <1>2, <1>4 DEF IInv, TypeOK, IdsAreOwn, MarkedIsBlocked, BlockedIsListed
<1> QED
  BY <1>3, <1>4, <1>5, <1>6, <1>7 DEF IInv, WalkIsListed, NoStrayReply

\* An answer goes to a client that is blocked, and a walk that is at this
\* entry has gone on to one that stays.
LEMMA AnswerStep ==
  ASSUME IInv, NEW this \in is_waiting, Answer(this), UNCHANGED <<handle, apid>>,
         walk' = walk \/ walk' = next[this], walk = Nil \/ walk' = next[this]
  PROVE  IInv'
<1> DEFINE c == handle[this]
<1>1. dequeue_appl(this)
  BY DEF Answer
<1>2. EntriesAreLinked' /\ (next[this] # Nil => next[this] \in is_waiting')
  BY <1>1, DequeuedIsLinked DEF IInv
<1>3. c \in Client /\ pc[c] = "blocked" /\ apid[c] = this
  BY DEF IInv, MarkedIsBlocked
<1>4. /\ is_waiting' = is_waiting \ {this}
      /\ pc' = [pc EXCEPT ![c] = "running"]
      /\ stray' = stray
      /\ UNCHANGED <<handle, apid>>
  <2>1. pc \in [Client -> {"outside", "running", "blocked", "killed"}]
    BY DEF IInv, TypeOK
  <2>2. pc' = [d \in Client |-> IF d = c /\ pc[d] = "blocked" THEN "running" ELSE pc[d]]
    BY DEF Answer
  <2>3. pc' = [pc EXCEPT ![c] = "running"]
    BY <1>3, <2>1, <2>2
  <2>4. stray' = stray
    BY <1>3 DEF Answer
  <2> QED
    BY <1>1, <2>3, <2>4 DEF dequeue_appl
<1>5. TypeOK'
  <2>1. IsFiniteSet(is_waiting')
    BY <1>4, FS_RemoveElement DEF IInv, TypeOK
  <2>2. next' \in [Apid -> Apid \cup {Nil}] /\ prev' \in [Apid -> Apid \cup {Nil}]
        /\ waiting_appl' \in Apid \cup {Nil} /\ walk' \in Apid \cup {Nil}
    BY <1>1 DEF IInv, TypeOK, dequeue_appl
  <2> QED
    BY <1>3, <1>4, <2>1, <2>2 DEF IInv, TypeOK
<1>6. IdsAreOwn'
  BY <1>3, <1>4 DEF IInv, TypeOK, IdsAreOwn
<1>7. MarkedIsBlocked' /\ BlockedIsListed'
  BY <1>3, <1>4 DEF IInv, TypeOK, IdsAreOwn, MarkedIsBlocked, BlockedIsListed
<1>8. WalkIsListed'
  BY <1>2 DEF WalkIsListed
<1> QED
  BY <1>2, <1>4, <1>5, <1>6, <1>7, <1>8 DEF IInv, NoStrayReply

\* The steps of a walk that answer nobody: the next entry is in the list too.
LEMMA WalkStep ==
  ASSUME IInv, UNCHANGED <<links, handle, apid, pc, stray>>,
         \/ walk' = waiting_appl
         \/ walk # Nil /\ walk' = next[walk]
  PROVE  IInv'
<1>1. EntriesAreLinked'
  BY LinksKept DEF IInv, links
<1>2. UNCHANGED <<waiting_appl, next, prev, is_waiting, handle, apid, pc, stray>>
  BY DEF links
<1>3. walk' # Nil => walk' \in is_waiting
  <2>1. PICK n : n = Cardinality(is_waiting)
    OBVIOUS
  <2>2. n \in Nat
    BY <2>1, FS_CardinalityType DEF IInv, TypeOK
  <2>3. PICK s \in [1 .. n -> is_waiting] : Links(s, n)
    BY <2>1 DEF IInv, EntriesAreLinked
  <2>4. CASE walk' = waiting_appl
    BY <2>2, <2>3, <2>4 DEF Links
  <2>5. CASE walk # Nil /\ walk' = next[walk]
    <3>1. PICK i \in 1 .. n : s[i] = walk
      BY <2>3, <2>5 DEF IInv, WalkIsListed, Links
    <3>2. next[walk] = IF i = n THEN Nil ELSE s[i + 1]
      BY <2>3, <3>1 DEF Links
    <3> QED
      BY <2>2, <2>5, <3>1, <3>2
  <2> QED
    BY <2>4, <2>5
<1>4. TypeOK'
  BY <1>2, <1>3 DEF IInv, TypeOK
<1> QED
  BY <1>1, <1>2, <1>3, <1>4
     DEF IInv, IdsAreOwn, MarkedIsBlocked, BlockedIsListed, WalkIsListed, NoStrayReply

\* The list is empty at first, and nobody is blocked.
LEMMA InvInit == Init => IInv
<1> SUFFICES ASSUME Init PROVE IInv
  OBVIOUS
<1>1. is_waiting = {} /\ Cardinality(is_waiting) = 0 /\ IsFiniteSet(is_waiting)
  BY FS_EmptySet DEF Init
<1>2. EntriesAreLinked
  <2>1. PICK s : s = [i \in 1 .. 0 |-> Nil]
    OBVIOUS
  <2>2. s \in [1 .. 0 -> is_waiting] /\ Links(s, 0)
    BY <1>1, <2>1 DEF Init, Links
  <2> QED
    BY <1>1, <2>2 DEF EntriesAreLinked
<1> QED
  BY <1>1, <1>2 DEF Init, IInv, TypeOK, IdsAreOwn, MarkedIsBlocked, WalkIsListed,
                    BlockedIsListed, NoStrayReply

\* Every step keeps the list.
LEMMA InvStep ==
  ASSUME ~KillWaiting
  PROVE  IInv /\ [Next]_vars => IInv'
<1> SUFFICES ASSUME IInv, [Next]_vars PROVE IInv'
  OBVIOUS
<1>1. ASSUME NEW c \in Client, srv_appl_init(c) PROVE IInv'
  BY <1>1, InitStep
<1>2. ASSUME NEW c \in Client, srv_appl_exit(c) PROVE IInv'
  BY <1>2, ExitStep DEF srv_appl_exit
<1>3. ASSUME NEW c \in Client, APC_KILL(c) PROVE IInv'
  BY <1>3, ExitStep DEF APC_KILL
<1>4. ASSUME NEW c \in Client, queue_appl(c) PROVE IInv'
  BY <1>4, QueueStep
<1>5. ASSUME NEW a \in Apid, AnswerById(a) PROVE IInv'
  BY <1>5, AnswerStep DEF AnswerById
<1>6. CASE StartWalk
  BY <1>6, WalkStep DEF StartWalk
<1>7. CASE WalkOn
  <2>1. CASE Answer(walk)
    <3>1. walk \in is_waiting
      BY <1>7 DEF WalkOn, IInv, WalkIsListed
    <3> QED
      BY <1>7, <2>1, <3>1, AnswerStep DEF WalkOn
  <2>2. CASE UNCHANGED <<links, pc, stray>>
    BY <1>7, <2>2, WalkStep DEF WalkOn
  <2> QED
    BY <1>7, <2>1, <2>2 DEF WalkOn
<1>8. CASE UNCHANGED vars
  <2>1. EntriesAreLinked'
    BY <1>8, LinksKept DEF IInv, vars
  <2> QED
    BY <1>8, <2>1 DEF vars, links, IInv, TypeOK, IdsAreOwn, MarkedIsBlocked,
                      WalkIsListed, BlockedIsListed, NoStrayReply
<1> QED
  BY <1>1, <1>2, <1>3, <1>4, <1>5, <1>6, <1>7, <1>8 DEF Next

-----------------------------------------------------------------------------
\* The links of the waiting applications are a list of exactly these, with
\* every blocked process in it under its own handle, however entries are
\* queued, taken out by id, or taken out under a walk.
THEOREM ListCorrect ==
  ASSUME ~KillWaiting
  PROVE  Spec => []ListIsWellFormed
<1>1. IInv => ListIsWellFormed
  BY DEF IInv, ListIsWellFormed
<1>2. IInv /\ [Next]_vars => IInv'
  BY InvStep
<1> QED
  BY <1>1, <1>2, InvInit, PTL DEF Spec

\* An answer goes to a process that is blocked in its call: no client gets an
\* answer that it would take for the one to its next call.
THEOREM NobodyStrays ==
  ASSUME ~KillWaiting
  PROVE  Spec => []NoStrayReply
<1>1. IInv => NoStrayReply
  BY DEF IInv
<1>2. IInv /\ [Next]_vars => IInv'
  BY InvStep
<1> QED
  BY <1>1, <1>2, InvInit, PTL DEF Spec

\* A walk is always at an entry of the list: the entry it comes to next has
\* not been taken out under it.
THEOREM WalkCorrect ==
  ASSUME ~KillWaiting
  PROVE  Spec => []WalkIsListed
<1>1. IInv => WalkIsListed
  BY DEF IInv
<1>2. IInv /\ [Next]_vars => IInv'
  BY InvStep
<1> QED
  BY <1>1, <1>2, InvInit, PTL DEF Spec

-----------------------------------------------------------------------------
(* The elements of a window. *)

-----------------------------------------------------------------------------

\* What the library keeps of a window.
Field == {"elements", "tree", "shown", "totsize", "worksize",
          "vslidepos", "vslidesize", "hslidepos", "hslidesize"}

\* The library's window is a structure, the server's has sizes, and both work
\* areas are what calcworksize() makes of the size.
FrameInv ==
  ws # NoWindow =>
    /\ DOMAIN ws = Field
    /\ win \in [totsize : Rectangle, worksize : Rectangle, open : BOOLEAN, iconified : BOOLEAN]
    /\ ws.totsize = win.totsize
    /\ win.worksize = calcworksize(ws.elements, win.totsize)
    /\ ws.worksize = calcworksize(Elem, ws.totsize)

\* Two sizes and what is between them.
LEMMA Sums ==
  ASSUME NEW r \in Rectangle, NEW s \in Rectangle, NEW t \in Rectangle
  PROVE  /\ Delta(r, s) \in Rectangle
         /\ Plus(r, s) \in Rectangle
         /\ Plus(r, Delta(s, s)) = r
         /\ Plus(Plus(s, t), Delta(r, s)) = Plus(r, t)
BY DEF Delta, Plus, Rectangle

\* What calcworksize() takes away depends on the elements only.
LEMMA Margins ==
  ASSUME NEW elem
  PROVE  \E m \in Rectangle : \A r \in Rectangle : calcworksize(elem, r) = Plus(r, m)
<1>1. WINDOW["WMOVER"].h \in Int /\ WINDOW["WINFO"].h \in Int
      /\ WINDOW["WLEFT"].h \in Int /\ WINDOW["WSIZER"].w \in Int /\ csheight \in Int
  BY ResourceAssumption DEF Widget, Rectangle
<1>2. PICK topsize \in Int : topsize = 
        IF elem \cap {"CLOSER", "MOVER", "FULLER", "NAME"} # {}
        THEN WINDOW["WMOVER"].h + 2 * D3DSIZE
        ELSE IF "IMOVER" \in elem THEN csheight + 2 + 2 * D3DSIZE ELSE 0
  BY <1>1 DEF D3DSIZE
<1>3. PICK infosize \in Int : infosize = IF "INFO" \in elem THEN WINDOW["WINFO"].h + 2 * D3DSIZE ELSE 0
  BY <1>1 DEF D3DSIZE
<1>4. PICK headsize \in Int : headsize = IF topsize + infosize > 0 THEN topsize + infosize ELSE 1
  BY <1>2, <1>3
<1>5. PICK bottomsize \in Int : bottomsize = IF HasRow(elem) THEN WINDOW["WLEFT"].h + 2 * D3DSIZE ELSE 1
  BY <1>1 DEF D3DSIZE
<1>6. PICK rightsize \in Int : rightsize = IF HasColumn(elem) THEN WINDOW["WSIZER"].w + 2 * D3DSIZE ELSE 1
  BY <1>1 DEF D3DSIZE
<1>7. PICK m \in Rectangle : m = [x |-> 1, y |-> headsize, w |-> -1 - rightsize,
                                  h |-> -headsize - bottomsize]
  <2>1. [x |-> 1, y |-> headsize, w |-> -1 - rightsize,
         h |-> -headsize - bottomsize] \in Rectangle
    BY <1>4, <1>5, <1>6 DEF Rectangle
  <2> QED
    BY <2>1
<1>8. \A r \in Rectangle : calcworksize(elem, r) = Plus(r, m)
  BY <1>2, <1>3, <1>4, <1>5, <1>6, <1>7, Zenon DEF calcworksize
<1> QED
  BY <1>8

\* The work area moves and grows with the window.
LEMMA WorkFollows ==
  ASSUME NEW elem, NEW r \in Rectangle, NEW s \in Rectangle
  PROVE  /\ calcworksize(elem, r) \in Rectangle
         /\ Plus(calcworksize(elem, s), Delta(r, s)) = calcworksize(elem, r)
<1>1. PICK m \in Rectangle : \A t \in Rectangle : calcworksize(elem, t) = Plus(t, m)
  BY Margins
<1> QED
  BY <1>1, Sums

\* A slider changes its window in nothing but the slider.
LEMMA SliderKeeps ==
  ASSUME NEW w, DOMAIN w = Field, NEW p, NEW s
  PROVE  LET v == SetVertical(w, p, s)
             u == SetHorizontal(w, p, s)
         IN  /\ DOMAIN v = Field /\ v.elements = w.elements
             /\ v.totsize = w.totsize /\ v.worksize = w.worksize
             /\ DOMAIN u = Field /\ u.elements = w.elements
             /\ u.totsize = w.totsize /\ u.worksize = w.worksize
BY DEF SetVertical, SetHorizontal, Field

\* Wind_set_size() gives the window its size and moves its work area along.
LEMMA SizeIsSet ==
  ASSUME NEW w, DOMAIN w = Field, NEW size
  PROVE  LET v == Wind_set_size(w, size)
         IN  /\ DOMAIN v = Field /\ v.elements = w.elements
             /\ v.totsize = size
             /\ v.worksize = Plus(w.worksize, Delta(size, w.totsize))
<1>1. PICK t : Wind_set_size(w, size) =
        SetHorizontal(SetVertical([w EXCEPT !.totsize = size,
           !.worksize = Plus(@, Delta(size, w.totsize)), !.tree = t], -1, -1), -1, -1)
  BY Zenon DEF Wind_set_size
<1>2. PICK z : z = [w EXCEPT !.totsize = size,
                      !.worksize = Plus(@, Delta(size, w.totsize)), !.tree = t]
  OBVIOUS
<1>3. DOMAIN z = Field /\ z.elements = w.elements /\ z.totsize = size
      /\ z.worksize = Plus(w.worksize, Delta(size, w.totsize))
  BY <1>2 DEF Field
<1>4. PICK v : v = SetVertical(z, -1, -1)
  OBVIOUS
<1>5. DOMAIN v = Field /\ v.elements = w.elements
      /\ v.totsize = size /\ v.worksize = z.worksize
  BY <1>3, <1>4, SliderKeeps
<1>6. PICK u : u = SetHorizontal(v, -1, -1)
  OBVIOUS
<1>7. DOMAIN u = Field /\ u.elements = w.elements
      /\ u.totsize = size /\ u.worksize = z.worksize
  BY <1>5, <1>6, SliderKeeps
<1> QED
  BY <1>1, <1>2, <1>3, <1>4, <1>6, <1>7

\* A window in other clothes has the work area of these.
LEMMA IsDressed ==
  ASSUME NEW w, DOMAIN w = Field, NEW elem
  PROVE  LET v == Dressed(w, elem)
         IN  /\ DOMAIN v = Field /\ v.elements = w.elements
             /\ v.totsize = w.totsize
             /\ v.worksize = calcworksize(elem, w.totsize)
<1>1. PICK t : t = set_win_elem([tree |-> w.tree, shown |-> w.shown], elem)
  OBVIOUS
<1> QED
  BY <1>1 DEF Dressed, Field

\* A window of any clothes and size gets another size.
LEMMA DressedAndSized ==
  ASSUME NEW w, DOMAIN w = Field, w.totsize \in Rectangle, NEW elem, NEW size \in Rectangle
  PROVE  LET v == Wind_set_size(Dressed(w, elem), size)
         IN  /\ DOMAIN v = Field /\ v.elements = w.elements
             /\ v.totsize = size
             /\ v.worksize = calcworksize(elem, size)
<1>1. PICK d : d = Dressed(w, elem)
  OBVIOUS
<1>2. DOMAIN d = Field /\ d.elements = w.elements /\ d.totsize = w.totsize
      /\ d.worksize = calcworksize(elem, w.totsize)
  BY <1>1, IsDressed
<1>3. Plus(calcworksize(elem, w.totsize), Delta(size, w.totsize)) = calcworksize(elem, size)
  BY WorkFollows
<1> QED
  BY <1>1, <1>2, <1>3, SizeIsSet

\* A window that keeps its clothes gets another size.
LEMMA SizedInPlace ==
  ASSUME FrameInv, ws # NoWindow, NEW size \in Rectangle
  PROVE  LET v == Wind_set_size(ws, size)
         IN  /\ DOMAIN v = Field /\ v.elements = ws.elements
             /\ v.totsize = size
             /\ v.worksize = calcworksize(Elem, size)
<1>1. DOMAIN ws = Field /\ ws.totsize \in Rectangle
      /\ ws.worksize = calcworksize(Elem, ws.totsize)
  BY DEF FrameInv
<1>2. Plus(calcworksize(Elem, ws.totsize), Delta(size, ws.totsize)) = calcworksize(Elem, size)
  BY <1>1, WorkFollows
<1> QED
  BY <1>1, <1>2, SizeIsSet

\* The server's window gets another size.
LEMMA ServerSized ==
  ASSUME FrameInv, ws # NoWindow, NEW size \in Rectangle
  PROVE  LET s == setwinsize(win, size)
         IN  /\ s \in [totsize : Rectangle, worksize : Rectangle,
                       open : BOOLEAN, iconified : BOOLEAN]
             /\ s.open = win.open /\ s.iconified = win.iconified
             /\ s.totsize = size
             /\ s.worksize = calcworksize(ws.elements, size)
<1>1. win.totsize \in Rectangle /\ win.worksize = calcworksize(ws.elements, win.totsize)
  BY DEF FrameInv
<1>2. Plus(win.worksize, Delta(size, win.totsize)) = calcworksize(ws.elements, size)
      /\ calcworksize(ws.elements, size) \in Rectangle
  BY <1>1, WorkFollows
<1> QED
  BY <1>1, <1>2 DEF setwinsize, FrameInv

\* The steps.
LEMMA CreateKeeps ==
  ASSUME NEW elem, Wind_do_create(elem)
  PROVE  FrameInv'
<1> DEFINE new == [elements |-> elem, tree |-> WINDOW, shown |-> {},
                   totsize |-> WINDOW[Root], worksize |-> WINDOW[Root],
                   vslidepos |-> 1, vslidesize |-> 1000,
                   hslidepos |-> 1, hslidesize |-> 1000]
<1>1. /\ ws' = Wind_set_size(Dressed(new, elem), Dressed(new, elem).totsize)
      /\ win' = [totsize |-> Dressed(new, elem).totsize,
                 worksize |-> Dressed(new, elem).worksize,
                 open |-> FALSE, iconified |-> FALSE]
  BY Zenon DEF Wind_do_create
<1>3. DOMAIN new = Field /\ new.totsize = WINDOW[Root] /\ new.elements = elem
  BY DEF Field
<1> HIDE DEF new
<1>2. PICK d : d = Dressed(new, elem)
  OBVIOUS
<1>4. WINDOW[Root] \in Rectangle
  BY ResourceAssumption DEF Widget
<1>5. d.totsize = WINDOW[Root] /\ d.worksize = calcworksize(elem, WINDOW[Root])
      /\ DOMAIN d = Field /\ d.elements = elem
  BY <1>2, <1>3, IsDressed
<1>6. ws' = Wind_set_size(d, d.totsize)
      /\ win' = [totsize |-> d.totsize, worksize |-> d.worksize,
                 open |-> FALSE, iconified |-> FALSE]
  BY <1>1, <1>2
<1>7. DOMAIN ws' = Field /\ ws'.elements = elem /\ ws'.totsize = WINDOW[Root]
      /\ ws'.worksize = calcworksize(elem, WINDOW[Root])
  <2>1. DOMAIN ws' = Field /\ ws'.elements = elem /\ ws'.totsize = WINDOW[Root]
        /\ ws'.worksize = Plus(d.worksize, Delta(WINDOW[Root], WINDOW[Root]))
    BY <1>5, <1>6, SizeIsSet
  <2> QED
    BY <1>4, <1>5, <2>1, WorkFollows
<1>8. calcworksize(elem, WINDOW[Root]) \in Rectangle
  BY <1>4, WorkFollows
<1> QED
  BY <1>4, <1>5, <1>6, <1>7, <1>8 DEF FrameInv, Elem

\* The step of a window that is there keeps the invariant if it leaves such a window.
LEMMA Settled ==
  ASSUME NEW w, NEW s, ws' = w, win' = s, DOMAIN w = Field,
         s \in [totsize : Rectangle, worksize : Rectangle, open : BOOLEAN, iconified : BOOLEAN],
         w.totsize = s.totsize,
         s.worksize = calcworksize(w.elements, s.totsize),
         w.worksize = calcworksize(IF s.iconified THEN {"IMOVER"} ELSE w.elements, w.totsize)
  PROVE  FrameInv'
BY DEF FrameInv, Elem
\* An open or closed window that keeps its place.
LEMMA SameKeeps ==
  ASSUME FrameInv, ws # NoWindow, NEW w, ws' = w, DOMAIN w = Field,
         w.elements = ws.elements, w.totsize = ws.totsize, w.worksize = ws.worksize,
         NEW b \in BOOLEAN, win' = [win EXCEPT !.open = b]
  PROVE  FrameInv'
BY DEF FrameInv, Elem

\* Each step keeps the invariant; a window is opened only when it is closed.
LEMMA FrameStep ==
  ASSUME FrameInv, ~OpenTwice, [FrameNext]_frameVars
  PROVE  FrameInv'
<1>1. ASSUME NEW elem \in Elements, Wind_do_create(elem)
      PROVE  FrameInv'
  BY <1>1, CreateKeeps
<1>2. ASSUME NEW size \in Sizes, Wind_do_open(size)
      PROVE  FrameInv'
  <2>1. ws # NoWindow /\ ~win.open /\ size \in Rectangle
        /\ ws' = Wind_set_size(ws, size)
        /\ win' = [setwinsize(win, size) EXCEPT !.open = TRUE]
    BY <1>2, SizesAssumption DEF Wind_do_open
  <2>2. PICK v : v = Wind_set_size(ws, size)
    OBVIOUS
  <2>3. PICK s : s = [setwinsize(win, size) EXCEPT !.open = TRUE]
    OBVIOUS
  <2>4. DOMAIN v = Field /\ v.elements = ws.elements /\ v.totsize = size
        /\ v.worksize = calcworksize(Elem, size)
    BY <2>1, <2>2, SizedInPlace
  <2>5. s \in [totsize : Rectangle, worksize : Rectangle, open : BOOLEAN, iconified : BOOLEAN]
        /\ s.iconified = win.iconified /\ s.totsize = size
        /\ s.worksize = calcworksize(ws.elements, size)
    BY <2>1, <2>3, ServerSized
  <2> QED
    BY <2>1, <2>2, <2>3, <2>4, <2>5, Settled DEF Elem
<1>3. ASSUME NEW size \in Sizes, Wind_set_currxywh(size)
      PROVE  FrameInv'
  <2>1. ws # NoWindow /\ size \in Rectangle
        /\ ws' = Wind_set_size(ws, size) /\ win' = setwinsize(win, size)
    BY <1>3, SizesAssumption DEF Wind_set_currxywh
  <2>2. PICK v : v = Wind_set_size(ws, size)
    OBVIOUS
  <2>3. PICK s : s = setwinsize(win, size)
    OBVIOUS
  <2>4. DOMAIN v = Field /\ v.elements = ws.elements /\ v.totsize = size
        /\ v.worksize = calcworksize(Elem, size)
    BY <2>1, <2>2, SizedInPlace
  <2>5. s \in [totsize : Rectangle, worksize : Rectangle, open : BOOLEAN, iconified : BOOLEAN]
        /\ s.iconified = win.iconified /\ s.totsize = size
        /\ s.worksize = calcworksize(ws.elements, size)
    BY <2>1, <2>3, ServerSized
  <2> QED
    BY <2>1, <2>2, <2>3, <2>4, <2>5, Settled DEF Elem
<1>4. ASSUME NEW size \in Sizes, Wind_set_iconify(size)
      PROVE  FrameInv'
  <2>1. ws # NoWindow /\ size \in Rectangle
        /\ ws' = Wind_set_size(Dressed(ws, {"IMOVER"}), size)
        /\ win' = [setwinsize(win, size) EXCEPT !.iconified = TRUE]
    BY <1>4, SizesAssumption DEF Wind_set_iconify
  <2>2. PICK v : v = Wind_set_size(Dressed(ws, {"IMOVER"}), size)
    OBVIOUS
  <2>3. PICK s : s = [setwinsize(win, size) EXCEPT !.iconified = TRUE]
    OBVIOUS
  <2>4. DOMAIN v = Field /\ v.elements = ws.elements /\ v.totsize = size
        /\ v.worksize = calcworksize({"IMOVER"}, size)
    BY <2>1, <2>2, DressedAndSized DEF FrameInv
  <2>5. s \in [totsize : Rectangle, worksize : Rectangle, open : BOOLEAN, iconified : BOOLEAN]
        /\ s.iconified = TRUE /\ s.totsize = size
        /\ s.worksize = calcworksize(ws.elements, size)
    BY <2>1, <2>3, ServerSized
  <2> QED
    BY <2>1, <2>2, <2>3, <2>4, <2>5, Settled
<1>5. ASSUME NEW size \in Sizes, Wind_set_uniconify(size)
      PROVE  FrameInv'
  <2>1. ws # NoWindow /\ size \in Rectangle
        /\ ws' = Wind_set_size(Dressed(ws, ws.elements), size)
        /\ win' = [setwinsize(win, size) EXCEPT !.iconified = FALSE]
    BY <1>5, SizesAssumption DEF Wind_set_uniconify
  <2>2. PICK v : v = Wind_set_size(Dressed(ws, ws.elements), size)
    OBVIOUS
  <2>3. PICK s : s = [setwinsize(win, size) EXCEPT !.iconified = FALSE]
    OBVIOUS
  <2>4. DOMAIN v = Field /\ v.elements = ws.elements /\ v.totsize = size
        /\ v.worksize = calcworksize(ws.elements, size)
    BY <2>1, <2>2, DressedAndSized DEF FrameInv
  <2>5. s \in [totsize : Rectangle, worksize : Rectangle, open : BOOLEAN, iconified : BOOLEAN]
        /\ s.iconified = FALSE /\ s.totsize = size
        /\ s.worksize = calcworksize(ws.elements, size)
    BY <2>1, <2>3, ServerSized
  <2> QED
    BY <2>1, <2>2, <2>3, <2>4, <2>5, Settled
<1>6. ASSUME NEW n, NEW m, Wind_set_slider(n, m)
      PROVE  FrameInv'
  <2>1. ws # NoWindow /\ win' = win
        /\ (ws' = SetVertical(ws, n, m) \/ ws' = SetHorizontal(ws, n, m))
    BY <1>6 DEF Wind_set_slider
  <2>2. DOMAIN ws = Field /\ win.open \in BOOLEAN /\ win = [win EXCEPT !.open = win.open]
    BY <2>1 DEF FrameInv
  <2>3. CASE ws' = SetVertical(ws, n, m)
    BY <2>1, <2>2, <2>3, SliderKeeps, SameKeeps
  <2>4. CASE ws' = SetHorizontal(ws, n, m)
    BY <2>1, <2>2, <2>4, SliderKeeps, SameKeeps
  <2> QED
    BY <2>1, <2>3, <2>4
<1>7. CASE Wind_do_close
  BY <1>7, SameKeeps DEF Wind_do_close, FrameInv
<1>8. CASE Wind_do_delete
  BY <1>8 DEF Wind_do_delete, FrameInv
<1>9. CASE UNCHANGED frameVars
  BY <1>9 DEF frameVars, FrameInv, Elem
<1> QED
  BY <1>1, <1>2, <1>3, <1>4, <1>5, <1>6, <1>7, <1>8, <1>9, Zenon DEF FrameNext

\* The library and the server agree on the size of a window, and unless it is
\* an icon on its work area, for every resource, every set of elements and every
\* sequence of sizes, when no window is opened that is open already.
THEOREM SizesAreAgreed ==
  ASSUME ~OpenTwice
  PROVE  FrameSpec => []SizesAgree
<1>1. FrameInit => FrameInv
  BY DEF FrameInit, FrameInv
<1>2. FrameInv /\ [FrameNext]_frameVars => FrameInv'
  BY FrameStep
<1>3. FrameInv => SizesAgree
  BY DEF FrameInv, SizesAgree, Elem
<1> QED
  BY <1>1, <1>2, <1>3, PTL DEF FrameSpec

-----------------------------------------------------------------------------
(* What set_win_elem() makes of two trees that differ in their size.        *)

\* Objects that set_win_elem() does not pack, objects it does, and objects that
\* may be shown.
Loose == {"WVSLIDER", "WHSLIDER", "WAPP"}
Solid == Widget \ (Loose \cup {Root})
Neighbour == Solid \cup {Edge, Free}
Hideable == Solid \cup {"WAPP"}
Side == {"x", "y", "w", "h"}

\* Each object has sides, and those that are packed have numbers for them.
IsTree(t) ==
  /\ DOMAIN t = Widget
  /\ \A o \in Solid \cup {Root} : t[o] \in Rectangle
  /\ \A o \in Loose : DOMAIN t[o] = Side

\* Widths and heights that are those of the resource for ever.
FixedWidth  == Solid \ {"WMOVER", "TFILLOUT", "WINFO", "WHSB", "BFILLOUT"}
FixedHeight == Solid \ {"WMOVER", "WVSB", "RFILLOUT"}
SameFixed(t, u) ==
  /\ \A o \in FixedWidth : t[o].w = u[o].w
  /\ \A o \in FixedHeight : t[o].h = u[o].h

\* What is shown of the window with these elements, its title as an icon aside.
Titled(elem) == elem \cap {"CLOSER", "FULLER", "SMALLER"} # {}
Shows(o, elem) ==
  \/ o = "WCLOSER" /\ "CLOSER" \in elem
  \/ o = "WFULLER" /\ "FULLER" \in elem
  \/ o = "WSMALLER" /\ "SMALLER" \in elem
  \/ o = "WMOVER" /\ "MOVER" \in elem
  \/ o = "TFILLOUT" /\ "MOVER" \notin elem /\ Titled(elem)
  \/ o = "WINFO" /\ "INFO" \in elem
  \/ o = "WUP" /\ "UPARROW" \in elem
  \/ o = "WSIZER" /\ "SIZER" \in elem
  \/ o = "SFILLOUT" /\ "SIZER" \notin elem /\ HasRow(elem) /\ HasColumn(elem)
  \/ o = "WDOWN" /\ "DNARROW" \in elem
  \/ o = "WVSB" /\ "VSLIDE" \in elem
  \/ o = "RFILLOUT" /\ "VSLIDE" \notin elem /\ HasColumn(elem)
  \/ o = "WLEFT" /\ "LFARROW" \in elem
  \/ o = "WRIGHT" /\ "RTARROW" \in elem
  \/ o = "WHSB" /\ "HSLIDE" \in elem
  \/ o = "BFILLOUT" /\ "HSLIDE" \notin elem /\ HasRow(elem)

\* Two trees packed as far as T: the same objects are shown, and the second is
\* the first one after a change of size by d.
Alike(a, b, T, elem, size, d) ==
  /\ DOMAIN a = {"tree", "shown"} /\ DOMAIN b = {"tree", "shown"}
  /\ IsTree(a.tree) /\ IsTree(b.tree)
  /\ \A o \in a.shown \cup b.shown : o \in Hideable
  /\ a.tree[Root] = size /\ b.tree[Root] = Plus(size, d)
  /\ SameFixed(WINDOW, a.tree) /\ SameFixed(a.tree, b.tree)
  /\ \A o \in T : /\ o \in a.shown <=> Shows(o, elem)
                  /\ o \in b.shown <=> Shows(o, elem)
                  /\ Shows(o, elem) /\ o # "BFILLOUT" =>
                       b.tree[o] = Plus(a.tree[o], Shift(o, d))

\* An object whose end does not move, and one whose beginning moves along.
StaysRight(a, b, o) == o \in Solid /\ b.tree[o].x + b.tree[o].w = a.tree[o].x + a.tree[o].w
StaysBelow(a, b, o) == o \in Solid /\ b.tree[o].y + b.tree[o].h = a.tree[o].y + a.tree[o].h
MovesRight(a, b, o, d) == o \in Solid /\ b.tree[o].x = a.tree[o].x + d.w
MovesDown(a, b, o, d)  == o \in Solid /\ b.tree[o].y = a.tree[o].y + d.h

\* How an object moves and grows between its neighbours.
Grow(left, right, top, bottom, d) ==
  [x |-> IF left = Free /\ right # Free THEN d.w ELSE 0,
   y |-> IF top = Free /\ bottom # Free THEN d.h ELSE 0,
   w |-> IF Free \notin {left, right} THEN d.w ELSE 0,
   h |-> IF Free \notin {top, bottom} THEN d.h ELSE 0]

\* The neighbours of an object move as it is moved.
Fits(a, b, o, left, right, top, bottom, d) ==
  /\ left \in {Edge, Free} \/ StaysRight(a, b, left)
  /\ right \in {Edge, Free} \/ MovesRight(a, b, right, d)
  /\ top \in {Edge, Free} \/ StaysBelow(a, b, top)
  /\ bottom \in {Edge, Free} \/ MovesDown(a, b, bottom, d)
  /\ left # Free \/ right # Free
  /\ top # Free \/ bottom # Free
  /\ Free \in {left, right} => a.tree[o].w = b.tree[o].w
  /\ Free \in {top, bottom} => a.tree[o].h = b.tree[o].h
  /\ o \in FixedWidth => Free \in {left, right}
  /\ o \in FixedHeight => Free \in {top, bottom}
  /\ o # "BFILLOUT" => Shift(o, d) = Grow(left, right, top, bottom, d)

\* The four edges between which an object is packed.
RightOf(t, o) == IF o = Edge THEN D3DSIZE ELSE t[o].x + t[o].w + 2 * D3DSIZE
LeftOf(t, o)  == IF o = Edge THEN t[Root].w - D3DSIZE ELSE t[o].x - 2 * D3DSIZE
Below(t, o)   == IF o = Edge THEN D3DSIZE ELSE t[o].y + t[o].h + 2 * D3DSIZE
Above(t, o)   == IF o = Edge THEN t[Root].h - D3DSIZE ELSE t[o].y - 2 * D3DSIZE

\* What packelem() makes of a tree.
IsPacked(p, t, o, left, right, top, bottom) ==
  /\ IsTree(p)
  /\ \A q \in Widget \ {o} : p[q] = t[q]
  /\ p[o].x = IF left # Free THEN RightOf(t, left)
              ELSE IF right # Free THEN LeftOf(t, right) - t[o].w ELSE t[o].x
  /\ p[o].w = IF Free \notin {left, right} THEN LeftOf(t, right) - RightOf(t, left) ELSE t[o].w
  /\ p[o].y = IF top # Free THEN Below(t, top)
              ELSE IF bottom # Free THEN Above(t, bottom) - t[o].h ELSE t[o].y
  /\ p[o].h = IF Free \notin {top, bottom} THEN Above(t, bottom) - Below(t, top) ELSE t[o].h

\* An object is packed between neighbours that have their places.
LEMMA PackIs ==
  ASSUME NEW t, IsTree(t), NEW o \in Solid,
         NEW left \in Neighbour, NEW right \in Neighbour,
         NEW top \in Neighbour, NEW bottom \in Neighbour,
         NEW p, p = packelem(t, o, left, right, top, bottom)
  PROVE  IsPacked(p, t, o, left, right, top, bottom)
<1>1. PICK x : x = IF left # Free THEN RightOf(t, left)
                   ELSE IF right # Free THEN LeftOf(t, right) - t[o].w ELSE t[o].x
  OBVIOUS
<1>2. PICK w : w = IF Free \notin {left, right} THEN LeftOf(t, right) - RightOf(t, left) ELSE t[o].w
  OBVIOUS
<1>3. PICK y : y = IF top # Free THEN Below(t, top)
                   ELSE IF bottom # Free THEN Above(t, bottom) - t[o].h ELSE t[o].y
  OBVIOUS
<1>4. PICK h : h = IF Free \notin {top, bottom} THEN Above(t, bottom) - Below(t, top) ELSE t[o].h
  OBVIOUS
<1>5. /\ t[o] \in Rectangle
      /\ left # Free => RightOf(t, left) \in Int
      /\ right # Free => LeftOf(t, right) \in Int
      /\ top # Free => Below(t, top) \in Int
      /\ bottom # Free => Above(t, bottom) \in Int
  BY DEF IsTree, Neighbour, RightOf, LeftOf, Below, Above, Rectangle, D3DSIZE
<1>6. x \in Int /\ w \in Int /\ y \in Int /\ h \in Int
  BY <1>1, <1>2, <1>3, <1>4, <1>5 DEF Rectangle
<1>7. p = [t EXCEPT ![o].x = x, ![o].w = w, ![o].y = y, ![o].h = h]
  <2>1. o \in DOMAIN t /\ DOMAIN t[o] = Side
    BY <1>5 DEF IsTree, Rectangle, Side, Solid
  <2>2. p = [t EXCEPT
               ![o].x = IF left # Free THEN RightOf(t, left)
                        ELSE IF right # Free THEN LeftOf(t, right) - t[o].w ELSE @,
               ![o].w = IF Free \notin {left, right} THEN LeftOf(t, right) - RightOf(t, left) ELSE @,
               ![o].y = IF top # Free THEN Below(t, top)
                        ELSE IF bottom # Free THEN Above(t, bottom) - t[o].h ELSE @,
               ![o].h = IF Free \notin {top, bottom} THEN Above(t, bottom) - Below(t, top) ELSE @]
    BY Zenon DEF packelem, RightOf, LeftOf, Below, Above
  <2> QED
    BY <1>1, <1>2, <1>3, <1>4, <2>1, <2>2 DEF Side
<1>8. /\ DOMAIN p = DOMAIN t /\ o \in DOMAIN t
      /\ \A q \in Widget \ {o} : p[q] = t[q]
      /\ p[o] = [x |-> x, y |-> y, w |-> w, h |-> h]
  BY <1>5, <1>7 DEF IsTree, Solid, Rectangle
<1>9. IsTree(p)
  BY <1>6, <1>8 DEF IsTree, Rectangle, Solid, Loose, Widget, Root
<1>10. /\ \A q \in Widget \ {o} : p[q] = t[q]
       /\ p[o].x = x /\ p[o].w = w /\ p[o].y = y /\ p[o].h = h
  BY <1>8
<1> QED
  BY <1>1, <1>2, <1>3, <1>4, <1>9, <1>10, Zenon DEF IsPacked

\* An object is put into a tree or hidden.
IsPut(u, t, elem, o, left, right, top, bottom) ==
  /\ Shows(o, elem) => u = [tree |-> packelem(t.tree, o, left, right, top, bottom),
                            shown |-> t.shown \cup {o}]
  /\ ~Shows(o, elem) => u = [t EXCEPT !.shown = @ \ {o}]

\* An object that is packed in both trees, between neighbours that move as they
\* should, moves and grows as Wind_set_size() has it.
LEMMA PutAlike ==
  ASSUME NEW a, NEW b, NEW T, NEW elem, NEW size, NEW d \in Rectangle, Alike(a, b, T, elem, size, d),
         NEW o \in Solid,
         NEW left, NEW right, NEW top, NEW bottom,
         NEW u, IsPut(u, a, elem, o, left, right, top, bottom),
         NEW v, IsPut(v, b, elem, o, left, right, top, bottom),
         Shows(o, elem) => Fits(a, b, o, left, right, top, bottom, d)
  PROVE  Alike(u, v, T \cup {o}, elem, size, d)
<1>3. CASE ~Shows(o, elem)
  <2>1. /\ DOMAIN u = {"tree", "shown"} /\ DOMAIN v = {"tree", "shown"}
        /\ u.tree = a.tree /\ v.tree = b.tree
        /\ u.shown = a.shown \ {o} /\ v.shown = b.shown \ {o}
    BY <1>3 DEF IsPut, Alike
  <2> QED
    BY <1>3, <2>1 DEF Alike
<1>4. CASE Shows(o, elem)
  <2>1. PICK p : p = packelem(a.tree, o, left, right, top, bottom)
    OBVIOUS
  <2>2. PICK q : q = packelem(b.tree, o, left, right, top, bottom)
    OBVIOUS
  <2>3. /\ u = [tree |-> p, shown |-> a.shown \cup {o}]
        /\ v = [tree |-> q, shown |-> b.shown \cup {o}]
    BY <1>4, <2>1, <2>2 DEF IsPut
  <2>4. /\ left \in Neighbour /\ right \in Neighbour
        /\ top \in Neighbour /\ bottom \in Neighbour
        /\ IsTree(a.tree) /\ IsTree(b.tree)
    BY <1>4 DEF Fits, StaysRight, MovesRight, StaysBelow, MovesDown, Alike, Neighbour
  <2>5. IsPacked(p, a.tree, o, left, right, top, bottom)
    BY <2>1, <2>4, PackIs
  <2>6. IsPacked(q, b.tree, o, left, right, top, bottom)
    BY <2>2, <2>4, PackIs
  <2>20. /\ IsTree(p) /\ \A r \in Widget \ {o} : p[r] = a.tree[r]
         /\ IsTree(q) /\ \A r \in Widget \ {o} : q[r] = b.tree[r]
    BY <2>5, <2>6 DEF IsPacked
  <2>7. /\ a.tree[o] \in Rectangle /\ b.tree[o] \in Rectangle
        /\ \A r \in Solid \cup {Root} : a.tree[r] \in Rectangle /\ b.tree[r] \in Rectangle
        /\ p[o] \in Rectangle /\ q[o] \in Rectangle
    BY <2>4, <2>20 DEF IsTree
  <2>8. /\ q[o].x = p[o].x + Grow(left, right, top, bottom, d).x
        /\ q[o].w = p[o].w + Grow(left, right, top, bottom, d).w
    <3>1. /\ p[o].x = IF left # Free THEN RightOf(a.tree, left)
                        ELSE IF right # Free THEN LeftOf(a.tree, right) - a.tree[o].w ELSE a.tree[o].x
          /\ p[o].w = IF Free \notin {left, right} THEN LeftOf(a.tree, right) - RightOf(a.tree, left)
                        ELSE a.tree[o].w
      BY <2>5 DEF IsPacked
    <3>2. /\ q[o].x = IF left # Free THEN RightOf(b.tree, left)
                        ELSE IF right # Free THEN LeftOf(b.tree, right) - b.tree[o].w ELSE b.tree[o].x
          /\ q[o].w = IF Free \notin {left, right} THEN LeftOf(b.tree, right) - RightOf(b.tree, left)
                        ELSE b.tree[o].w
      BY <2>6 DEF IsPacked
    <3>3. left # Free => RightOf(a.tree, left) \in Int /\ RightOf(b.tree, left) = RightOf(a.tree, left)
      BY <1>4, <2>4, <2>7 DEF Fits, StaysRight, Neighbour, Rectangle, D3DSIZE, RightOf
    <3>4. right # Free => /\ LeftOf(a.tree, right) \in Int
                        /\ LeftOf(b.tree, right) = LeftOf(a.tree, right) + d.w
      BY <1>4, <2>4, <2>7 DEF Fits, MovesRight, Neighbour, Rectangle, D3DSIZE, Alike, Plus, LeftOf
    <3>5. /\ left # Free \/ right # Free
          /\ Free \in {left, right} => a.tree[o].w = b.tree[o].w
          /\ d.w \in Int /\ a.tree[o].w \in Int
      BY <1>4, <2>7 DEF Fits, Rectangle
    <3> QED
      BY <3>1, <3>2, <3>3, <3>4, <3>5 DEF Grow
  <2>9. /\ q[o].y = p[o].y + Grow(left, right, top, bottom, d).y
        /\ q[o].h = p[o].h + Grow(left, right, top, bottom, d).h
    <3>1. /\ p[o].y = IF top # Free THEN Below(a.tree, top)
                        ELSE IF bottom # Free THEN Above(a.tree, bottom) - a.tree[o].h ELSE a.tree[o].y
          /\ p[o].h = IF Free \notin {top, bottom} THEN Above(a.tree, bottom) - Below(a.tree, top)
                        ELSE a.tree[o].h
      BY <2>5 DEF IsPacked
    <3>2. /\ q[o].y = IF top # Free THEN Below(b.tree, top)
                        ELSE IF bottom # Free THEN Above(b.tree, bottom) - b.tree[o].h ELSE b.tree[o].y
          /\ q[o].h = IF Free \notin {top, bottom} THEN Above(b.tree, bottom) - Below(b.tree, top)
                        ELSE b.tree[o].h
      BY <2>6 DEF IsPacked
    <3>3. top # Free => Below(a.tree, top) \in Int /\ Below(b.tree, top) = Below(a.tree, top)
      BY <1>4, <2>4, <2>7 DEF Fits, StaysBelow, Neighbour, Rectangle, D3DSIZE, Below
    <3>4. bottom # Free => /\ Above(a.tree, bottom) \in Int
                         /\ Above(b.tree, bottom) = Above(a.tree, bottom) + d.h
      BY <1>4, <2>4, <2>7 DEF Fits, MovesDown, Neighbour, Rectangle, D3DSIZE, Alike, Plus, Above
    <3>5. /\ top # Free \/ bottom # Free
          /\ Free \in {top, bottom} => a.tree[o].h = b.tree[o].h
          /\ d.h \in Int /\ a.tree[o].h \in Int
      BY <1>4, <2>7 DEF Fits, Rectangle
    <3> QED
      BY <3>1, <3>2, <3>3, <3>4, <3>5 DEF Grow
  <2>10. o # "BFILLOUT" => q[o] = Plus(p[o], Shift(o, d))
    BY <1>4, <2>7, <2>8, <2>9 DEF Fits, Rectangle, Plus
  <2>11. SameFixed(WINDOW, p) /\ SameFixed(p, q)
    <3>1. o \in FixedWidth => p[o].w = q[o].w
      BY <1>4, <2>7, <2>8 DEF Fits, Grow, Rectangle
    <3>2. o \in FixedHeight => p[o].h = q[o].h
      BY <1>4, <2>7, <2>9 DEF Fits, Grow, Rectangle
    <3>3. o \in FixedWidth => p[o].w = a.tree[o].w
      BY <1>4, <2>5 DEF Fits, IsPacked
    <3>4. o \in FixedHeight => p[o].h = a.tree[o].h
      BY <1>4, <2>5 DEF Fits, IsPacked
    <3> QED
      BY <2>20, <3>1, <3>2, <3>3, <3>4 DEF SameFixed, Alike, FixedWidth, FixedHeight, Solid
  <2>12. /\ DOMAIN u = {"tree", "shown"} /\ DOMAIN v = {"tree", "shown"}
         /\ u.tree = p /\ v.tree = q
         /\ u.shown = a.shown \cup {o} /\ v.shown = b.shown \cup {o}
    BY <2>3
  <2>13. p[Root] = a.tree[Root] /\ q[Root] = b.tree[Root]
    BY <2>20 DEF Solid, Widget
  <2>14. ASSUME NEW r \in T \cup {o}
         PROVE  /\ r \in u.shown <=> Shows(r, elem)
                /\ r \in v.shown <=> Shows(r, elem)
                /\ Shows(r, elem) /\ r # "BFILLOUT" =>
                     q[r] = Plus(p[r], Shift(r, d))
    <3>1. CASE r = o
      BY <1>4, <2>10, <2>12, <3>1
    <3>2. CASE r # o
      <4>0. r \in T
        BY <2>14, <3>2
      <4>1. /\ r \in a.shown <=> Shows(r, elem)
            /\ r \in b.shown <=> Shows(r, elem)
            /\ Shows(r, elem) /\ r # "BFILLOUT" =>
                 b.tree[r] = Plus(a.tree[r], Shift(r, d))
            /\ \A s \in a.shown \cup b.shown : s \in Hideable
        BY <4>0, Zenon DEF Alike
      <4>2. Shows(r, elem) => q[r] = b.tree[r] /\ p[r] = a.tree[r]
        <5>1. Shows(r, elem) => r \in Widget \ {o}
          BY <3>2, <4>1 DEF Hideable, Solid, Widget
        <5> QED
          BY <2>20, <5>1
      <4> QED
        BY <2>12, <3>2, <4>1, <4>2
    <3> QED
      BY <3>1, <3>2
  <2>15. Alike(u, v, T \cup {o}, elem, size, d)
    BY <2>20, <2>11, <2>12, <2>13, <2>14 DEF Alike, Hideable
  <2> QED
    BY <2>15
<1> QED
  BY <1>3, <1>4

\* What a change of size does to each object.
LEMMA ShiftIs ==
  ASSUME NEW d, NEW o \in Solid
  PROVE  Shift(o, d) =
    [x |-> IF o \in {"WFULLER", "WSMALLER", "WUP", "WDOWN", "WSIZER", "WRIGHT",
                "SFILLOUT", "WVSB", "RFILLOUT"}
           THEN d.w ELSE 0,
     y |-> IF o \in {"WDOWN", "WSIZER", "WRIGHT", "SFILLOUT", "WLEFT", "WHSB"} THEN d.h
           ELSE IF o = "BFILLOUT" THEN d.y ELSE 0,
     w |-> IF o \in {"WMOVER", "WINFO", "TFILLOUT", "WHSB", "BFILLOUT"} THEN d.w ELSE 0,
     h |-> IF o \in {"WVSB", "RFILLOUT"} THEN d.h ELSE 0]
<1> DEFINE None == [x |-> 0, y |-> 0, w |-> 0, h |-> 0]
<1>1. /\ o \in {"WMOVER", "WINFO", "TFILLOUT"} => Shift(o, d) = [None EXCEPT !.w = d.w]
      /\ o \in {"WFULLER", "WSMALLER", "WUP"} => Shift(o, d) = [None EXCEPT !.x = d.w]
      /\ o \in {"WDOWN", "WSIZER", "WRIGHT", "SFILLOUT"} => Shift(o, d) = [None EXCEPT !.x = d.w, !.y = d.h]
      /\ o = "WLEFT" => Shift(o, d) = [None EXCEPT !.y = d.h]
      /\ o \in {"WVSB", "RFILLOUT"} => Shift(o, d) = [None EXCEPT !.x = d.w, !.h = d.h]
      /\ o = "WHSB" => Shift(o, d) = [None EXCEPT !.y = d.h, !.w = d.w]
      /\ o = "BFILLOUT" => Shift(o, d) = [None EXCEPT !.y = d.y, !.w = d.w]
      /\ o = "WCLOSER" => Shift(o, d) = None
  BY Zenon DEF Shift
<1>2. o \in {"WMOVER", "WFULLER", "WDOWN", "WSIZER", "WRIGHT", "WLEFT", "WVSB", "WHSB", "WINFO",
             "TFILLOUT", "RFILLOUT", "BFILLOUT", "WUP", "SFILLOUT", "WSMALLER", "WCLOSER"}
  BY DEF Solid, Loose, Widget, Root
<1> QED
  BY <1>1, <1>2

\* Neighbours that are packed, and move in the one way or the other.
Placed(o, S, T, elem) ==
  \/ o \in {Edge, Free}
  \/ o \in S /\ o \in T /\ Shows(o, elem)
Neat(o, left, right, top, bottom, T, elem, d) ==
  /\ o \in Solid
  /\ Placed(left, {"WCLOSER", "WLEFT"}, T, elem)
  /\ Placed(right, {"WFULLER", "WSMALLER", "WSIZER", "SFILLOUT", "WRIGHT"}, T, elem)
  /\ Placed(top, {"WMOVER", "TFILLOUT", "WINFO", "WUP"}, T, elem)
  /\ Placed(bottom, {"WSIZER", "SFILLOUT", "WDOWN"}, T, elem)
  /\ left # Free \/ right # Free
  /\ top # Free \/ bottom # Free
  /\ Free \in {left, right} <=> o \in FixedWidth
  /\ Free \in {top, bottom} <=> o \in FixedHeight \/ o = "WMOVER"
  /\ o # "BFILLOUT" => Shift(o, d) = Grow(left, right, top, bottom, d)

\* An object that is put between such neighbours.
LEMMA PutNeatly ==
  ASSUME NEW a, NEW b, NEW T, NEW elem, NEW size, NEW d \in Rectangle, Alike(a, b, T, elem, size, d),
         NEW o \in Solid, NEW left, NEW right, NEW top, NEW bottom,
         NEW u, IsPut(u, a, elem, o, left, right, top, bottom),
         NEW v, IsPut(v, b, elem, o, left, right, top, bottom),
         Shows(o, elem) => Neat(o, left, right, top, bottom, T, elem, d),
         Shows(o, elem) /\ o = "WMOVER" => a.tree[o].h = b.tree[o].h,
         NEW S, \A r : r \in S <=> r \in T \/ r = o
  PROVE  Alike(u, v, S, elem, size, d)
<1>1. ASSUME Shows(o, elem)
      PROVE  Fits(a, b, o, left, right, top, bottom, d)
  <2>1. /\ Placed(left, {"WCLOSER", "WLEFT"}, T, elem)
        /\ Placed(right, {"WFULLER", "WSMALLER", "WSIZER", "SFILLOUT", "WRIGHT"}, T, elem)
        /\ Placed(top, {"WMOVER", "TFILLOUT", "WINFO", "WUP"}, T, elem)
        /\ Placed(bottom, {"WSIZER", "SFILLOUT", "WDOWN"}, T, elem)
    BY <1>1 DEF Neat
  <2>2. ASSUME NEW r \in T, r \in Solid, r # "BFILLOUT", Shows(r, elem)
        PROVE  /\ b.tree[r].x = a.tree[r].x + Shift(r, d).x
               /\ b.tree[r].y = a.tree[r].y + Shift(r, d).y
               /\ b.tree[r].w = a.tree[r].w + Shift(r, d).w
               /\ b.tree[r].h = a.tree[r].h + Shift(r, d).h
               /\ a.tree[r] \in Rectangle
    <3>1. b.tree[r] = Plus(a.tree[r], Shift(r, d)) /\ IsTree(a.tree)
      BY <2>2 DEF Alike
    <3> QED
      BY <2>2, <3>1 DEF Plus, IsTree
  <2>3. left \in {Edge, Free} \/ StaysRight(a, b, left)
    <3>1. CASE left \in {"WCLOSER", "WLEFT"} /\ left \in T /\ Shows(left, elem)
      <4>1. left \in Solid /\ left # "BFILLOUT"
        BY <3>1 DEF Solid, Loose, Widget, Root
      <4>2. Shift(left, d).x = 0 /\ Shift(left, d).w = 0
        BY <3>1, <4>1, ShiftIs
      <4> QED
        BY <2>2, <3>1, <4>1, <4>2 DEF StaysRight, Rectangle
    <3> QED
      BY <2>1, <3>1 DEF Placed
  <2>4. right \in {Edge, Free} \/ MovesRight(a, b, right, d)
    <3>1. CASE /\ right \in {"WFULLER", "WSMALLER", "WSIZER", "SFILLOUT", "WRIGHT"}
               /\ right \in T /\ Shows(right, elem)
      <4>1. right \in Solid /\ right # "BFILLOUT"
        BY <3>1 DEF Solid, Loose, Widget, Root
      <4>2. Shift(right, d).x = d.w
        BY <3>1, <4>1, ShiftIs
      <4> QED
        BY <2>2, <3>1, <4>1, <4>2 DEF MovesRight
    <3> QED
      BY <2>1, <3>1 DEF Placed
  <2>5. top \in {Edge, Free} \/ StaysBelow(a, b, top)
    <3>1. CASE /\ top \in {"WMOVER", "TFILLOUT", "WINFO", "WUP"}
               /\ top \in T /\ Shows(top, elem)
      <4>1. top \in Solid /\ top # "BFILLOUT"
        BY <3>1 DEF Solid, Loose, Widget, Root
      <4>2. Shift(top, d).y = 0 /\ Shift(top, d).h = 0
        BY <3>1, <4>1, ShiftIs
      <4> QED
        BY <2>2, <3>1, <4>1, <4>2 DEF StaysBelow, Rectangle
    <3> QED
      BY <2>1, <3>1 DEF Placed
  <2>6. bottom \in {Edge, Free} \/ MovesDown(a, b, bottom, d)
    <3>1. CASE /\ bottom \in {"WSIZER", "SFILLOUT", "WDOWN"}
               /\ bottom \in T /\ Shows(bottom, elem)
      <4>1. bottom \in Solid /\ bottom # "BFILLOUT"
        BY <3>1 DEF Solid, Loose, Widget, Root
      <4>2. Shift(bottom, d).y = d.h
        BY <3>1, <4>1, ShiftIs
      <4> QED
        BY <2>2, <3>1, <4>1, <4>2 DEF MovesDown
    <3> QED
      BY <2>1, <3>1 DEF Placed
  <2>7. SameFixed(a.tree, b.tree)
    BY DEF Alike
  <2>8. /\ left # Free \/ right # Free
        /\ top # Free \/ bottom # Free
        /\ Free \in {left, right} <=> o \in FixedWidth
        /\ Free \in {top, bottom} <=> o \in FixedHeight \/ o = "WMOVER"
        /\ o # "BFILLOUT" => Shift(o, d) = Grow(left, right, top, bottom, d)
    BY <1>1 DEF Neat
  <2>9. /\ o \in FixedWidth => a.tree[o].w = b.tree[o].w
        /\ o \in FixedHeight \/ o = "WMOVER" => a.tree[o].h = b.tree[o].h
    BY <1>1, <2>7 DEF SameFixed
  <2>10. /\ Free \in {left, right} => a.tree[o].w = b.tree[o].w
         /\ Free \in {top, bottom} => a.tree[o].h = b.tree[o].h
         /\ o \in FixedWidth => Free \in {left, right}
         /\ o \in FixedHeight => Free \in {top, bottom}
    BY <2>8, <2>9, Zenon
  <2> QED
    BY <2>3, <2>4, <2>5, <2>6, <2>8, <2>10 DEF Fits
<1>2. Alike(u, v, T \cup {o}, elem, size, d)
  BY <1>1, PutAlike
<1>3. S = T \cup {o}
  OBVIOUS
<1> QED
  BY <1>2, <1>3

\* Where the column begins.
LEMMA LowestIs ==
  ASSUME NEW elem
  PROVE  Lowest(elem) = IF "INFO" \in elem THEN "WINFO"
                        ELSE IF "MOVER" \in elem THEN "WMOVER"
                        ELSE IF Titled(elem) THEN "TFILLOUT" ELSE Edge
<1>1. elem \cap {"INFO", "MOVER"} = {} <=> "INFO" \notin elem /\ "MOVER" \notin elem
  OBVIOUS
<1>2. /\ "INFO" \in elem => Lowest(elem) = "WINFO"
      /\ "INFO" \notin elem /\ "MOVER" \in elem => Lowest(elem) = "WMOVER"
      /\ "INFO" \notin elem /\ "MOVER" \notin elem /\ Titled(elem) => Lowest(elem) = "TFILLOUT"
      /\ "INFO" \notin elem /\ "MOVER" \notin elem /\ ~Titled(elem) => Lowest(elem) = Edge
  BY <1>1, Zenon DEF Lowest, Titled
<1> QED
  BY <1>2

\* What is in the corner at the bottom.
LEMMA CornerIs ==
  ASSUME NEW elem
  PROVE  Corner(elem) = IF "SIZER" \in elem THEN "WSIZER"
                        ELSE IF HasRow(elem) /\ HasColumn(elem) THEN "SFILLOUT" ELSE Edge
<1>1. /\ "SIZER" \in elem => Corner(elem) = "WSIZER"
      /\ "SIZER" \notin elem /\ HasRow(elem) /\ HasColumn(elem) => Corner(elem) = "SFILLOUT"
      /\ "SIZER" \notin elem /\ ~(HasRow(elem) /\ HasColumn(elem)) => Corner(elem) = Edge
  BY Zenon DEF Corner
<1> QED
  BY <1>1







\* The objects of the title.
TitleParts == {"WCLOSER", "WFULLER", "WSMALLER", "WMOVER", "TFILLOUT", "WINFO"}
ColumnParts == {"WUP", "WSIZER", "SFILLOUT", "WDOWN", "WVSB", "RFILLOUT"}
RowParts == {"WLEFT", "WRIGHT", "WHSB", "BFILLOUT"}

\* The title gets the height of the closer.
IsHigh(m, t, elem) ==
  m = [t EXCEPT !.tree["WMOVER"].h = IF "MOVER" \in elem THEN t.tree["WCLOSER"].h ELSE @]

\* The neighbours of objects that may be shown or not.
Closer(elem)    == IF "CLOSER" \in elem THEN "WCLOSER" ELSE Edge
Fuller(elem)    == IF "FULLER" \in elem THEN "WFULLER" ELSE Edge
Smaller(elem)   == IF "SMALLER" \in elem THEN "WSMALLER" ELSE Fuller(elem)
Title(elem)     == IF "MOVER" \in elem THEN "WMOVER" ELSE IF Titled(elem) THEN "TFILLOUT" ELSE Edge
Upper(elem)     == IF "UPARROW" \in elem THEN "WUP" ELSE Lowest(elem)
Lower(elem)     == IF "DNARROW" \in elem THEN "WDOWN" ELSE Corner(elem)
Leftmost(elem)  == IF "LFARROW" \in elem THEN "WLEFT" ELSE Edge
Rightmost(elem) == IF "RTARROW" \in elem THEN "WRIGHT" ELSE Corner(elem)

\* The steps of PackTitle().
TitlePuts(u, t, elem) ==
  \E t1, t2, t3, t4, t5, m :
    /\ IsPut(t1, t, elem, "WCLOSER", Edge, Free, Edge, Free)
    /\ IsPut(t2, t1, elem, "WFULLER", Free, Edge, Edge, Free)
    /\ IsPut(t3, t2, elem, "WSMALLER", Free, Fuller(elem), Edge, Free)
    /\ IsHigh(m, t3, elem)
    /\ IsPut(t4, m, elem, "WMOVER", Closer(elem), Smaller(elem), Edge, Free)
    /\ IsPut(t5, t4, elem, "TFILLOUT", Closer(elem), Smaller(elem), Edge, Free)
    /\ IsPut(u, t5, elem, "WINFO", Edge, Edge, Title(elem), Free)
\* The steps of PackColumn().
ColumnPuts(u, t, elem) ==
  \E t1, t2, t3, t4, t5 :
    /\ IsPut(t1, t, elem, "WUP", Free, Edge, Lowest(elem), Free)
    /\ IsPut(t2, t1, elem, "WSIZER", Free, Edge, Free, Edge)
    /\ IsPut(t3, t2, elem, "SFILLOUT", Free, Edge, Free, Edge)
    /\ IsPut(t4, t3, elem, "WDOWN", Free, Edge, Free, Corner(elem))
    /\ IsPut(t5, t4, elem, "WVSB", Free, Edge, Upper(elem), Lower(elem))
    /\ IsPut(u, t5, elem, "RFILLOUT", Free, Edge, Upper(elem), Lower(elem))
\* The steps of PackRow().
RowPuts(u, t, elem) ==
  \E t1, t2, t3 :
    /\ IsPut(t1, t, elem, "WLEFT", Edge, Free, Free, Edge)
    /\ IsPut(t2, t1, elem, "WRIGHT", Free, Corner(elem), Free, Edge)
    /\ IsPut(t3, t2, elem, "WHSB", Leftmost(elem), Rightmost(elem), Free, Edge)
    /\ IsPut(u, t3, elem, "BFILLOUT", Leftmost(elem), Rightmost(elem), Free, Edge)

\* The height of the title is that of the closer, in both trees.
LEMMA MoverIsHigh ==
  ASSUME NEW a, NEW b, NEW T, NEW elem, NEW size, NEW d, Alike(a, b, T, elem, size, d), "WMOVER" \notin T,
         NEW u, IsHigh(u, a, elem), NEW v, IsHigh(v, b, elem)
  PROVE  /\ Alike(u, v, T, elem, size, d)
         /\ "MOVER" \in elem => u.tree["WMOVER"].h = v.tree["WMOVER"].h
<1>1. /\ DOMAIN a = {"tree", "shown"} /\ DOMAIN b = {"tree", "shown"}
      /\ IsTree(a.tree) /\ IsTree(b.tree)
      /\ SameFixed(WINDOW, a.tree) /\ SameFixed(a.tree, b.tree)
  BY DEF Alike
<1>2. /\ "WMOVER" \in Solid /\ "WCLOSER" \in Solid /\ "WCLOSER" \in FixedHeight
      /\ "WMOVER" \notin FixedHeight /\ "WMOVER" \notin FixedWidth
      /\ Solid \subseteq Widget /\ "WMOVER" # Root /\ Root \in Widget /\ Loose \subseteq Widget
      /\ "WMOVER" \notin Loose
  BY DEF Solid, Loose, Widget, Root, FixedHeight, FixedWidth
<1>3. /\ a.tree["WMOVER"] \in Rectangle /\ a.tree["WCLOSER"] \in Rectangle
      /\ b.tree["WMOVER"] \in Rectangle /\ b.tree["WCLOSER"] \in Rectangle
      /\ a.tree["WCLOSER"].h = b.tree["WCLOSER"].h
  BY <1>1, <1>2 DEF IsTree, SameFixed
<1>4. PICK h : h = IF "MOVER" \in elem THEN a.tree["WCLOSER"].h ELSE a.tree["WMOVER"].h
  OBVIOUS
<1>5. PICK g : g = IF "MOVER" \in elem THEN b.tree["WCLOSER"].h ELSE b.tree["WMOVER"].h
  OBVIOUS
<1>6. h \in Int /\ g \in Int /\ ("MOVER" \in elem => h = g)
  BY <1>3, <1>4, <1>5 DEF Rectangle
<1>7. /\ DOMAIN u = {"tree", "shown"} /\ u.shown = a.shown
      /\ u.tree = [a.tree EXCEPT !["WMOVER"] = [a.tree["WMOVER"] EXCEPT !.h = h]]
  BY <1>1, <1>2, <1>3, <1>4 DEF IsHigh, IsTree, Rectangle
<1>8. /\ DOMAIN v = {"tree", "shown"} /\ v.shown = b.shown
      /\ v.tree = [b.tree EXCEPT !["WMOVER"] = [b.tree["WMOVER"] EXCEPT !.h = g]]
  BY <1>1, <1>2, <1>3, <1>5 DEF IsHigh, IsTree, Rectangle
<1>9. /\ IsTree(u.tree) /\ \A o \in Widget \ {"WMOVER"} : u.tree[o] = a.tree[o]
      /\ u.tree["WMOVER"].h = h
  BY <1>1, <1>2, <1>3, <1>6, <1>7 DEF IsTree, Rectangle
<1>10. /\ IsTree(v.tree) /\ \A o \in Widget \ {"WMOVER"} : v.tree[o] = b.tree[o]
       /\ v.tree["WMOVER"].h = g
  BY <1>1, <1>2, <1>3, <1>6, <1>8 DEF IsTree, Rectangle
<1>11. SameFixed(WINDOW, u.tree) /\ SameFixed(u.tree, v.tree)
  BY <1>1, <1>2, <1>9, <1>10 DEF SameFixed, FixedWidth, FixedHeight
<1>12. \A o \in T : /\ o \in u.shown <=> Shows(o, elem)
                    /\ o \in v.shown <=> Shows(o, elem)
                    /\ Shows(o, elem) /\ o # "BFILLOUT" =>
                         v.tree[o] = Plus(u.tree[o], Shift(o, d))
  <2>1. ASSUME NEW o \in T
        PROVE  /\ o \in u.shown <=> Shows(o, elem)
               /\ o \in v.shown <=> Shows(o, elem)
               /\ Shows(o, elem) /\ o # "BFILLOUT" =>
                    v.tree[o] = Plus(u.tree[o], Shift(o, d))
    <3>1. /\ o \in a.shown <=> Shows(o, elem)
          /\ o \in b.shown <=> Shows(o, elem)
          /\ Shows(o, elem) /\ o # "BFILLOUT" => b.tree[o] = Plus(a.tree[o], Shift(o, d))
          /\ \A r \in a.shown \cup b.shown : r \in Hideable
      BY <2>1, Zenon DEF Alike
    <3>2. Shows(o, elem) => o \in Widget \ {"WMOVER"}
      BY <2>1, <3>1 DEF Hideable, Solid, Widget
    <3> QED
      BY <1>7, <1>8, <1>9, <1>10, <3>1, <3>2
  <2> QED
    BY <2>1
<1>13. u.tree[Root] = a.tree[Root] /\ v.tree[Root] = b.tree[Root]
  BY <1>2, <1>9, <1>10
<1>14. Alike(u, v, T, elem, size, d)
  BY <1>7, <1>8, <1>9, <1>10, <1>11, <1>12, <1>13 DEF Alike
<1> QED
  BY <1>6, <1>9, <1>10, <1>14

\* PackTitle() puts the objects of the title one after the other.
LEMMA TitleIsPut ==
  ASSUME NEW t, NEW elem
  PROVE  TitlePuts(PackTitle(t, elem), t, elem)
<1>1. PICK t1 : t1 = Put(t, "CLOSER" \in elem, "WCLOSER", Edge, Free, Edge, Free)
  OBVIOUS
<1>2. PICK t2 : t2 = Put(t1, "FULLER" \in elem, "WFULLER", Free, Edge, Edge, Free)
  OBVIOUS
<1>3. PICK t3 : t3 = Put(t2, "SMALLER" \in elem, "WSMALLER", Free, Fuller(elem), Edge, Free)
  OBVIOUS
<1>4. PICK m : m = [t3 EXCEPT !.tree["WMOVER"].h =
            IF "MOVER" \in elem THEN t3.tree["WCLOSER"].h ELSE @]
  OBVIOUS
<1>5. PICK t4 : t4 = Put(m, "MOVER" \in elem, "WMOVER", Closer(elem), Smaller(elem), Edge, Free)
  OBVIOUS
<1>6. PICK t5 : t5 = Put(t4, "MOVER" \notin elem /\ {Closer(elem), Smaller(elem)} # {Edge}, "TFILLOUT",
                      Closer(elem), Smaller(elem), Edge, Free)
  OBVIOUS
<1>7. PICK t6 : t6 = Put(t5, "INFO" \in elem, "WINFO", Edge, Edge, Title(elem), Free)
  OBVIOUS
<1>8. PackTitle(t, elem) = t6
  <2>1. {Closer(elem), Smaller(elem)} # {Edge} <=> Titled(elem)
    BY DEF Titled, Closer, Smaller, Fuller, Edge, Root
  <2>2. (IF "MOVER" \in elem THEN "WMOVER"
         ELSE IF {Closer(elem), Smaller(elem)} # {Edge} THEN "TFILLOUT" ELSE Edge)
        = Title(elem)
    BY <2>1 DEF Title
  <2> QED
    BY <1>1, <1>2, <1>3, <1>4, <1>5, <1>6, <1>7, <2>2, SMTT(30) DEF PackTitle, Closer, Fuller, Smaller, Title
<1>9. IsPut(t1, t, elem, "WCLOSER", Edge, Free, Edge, Free)
  BY <1>1 DEF IsPut, Put, Shows
<1>10. IsPut(t2, t1, elem, "WFULLER", Free, Edge, Edge, Free)
  BY <1>2 DEF IsPut, Put, Shows
<1>11. IsPut(t3, t2, elem, "WSMALLER", Free, Fuller(elem), Edge, Free)
  BY <1>3 DEF IsPut, Put, Shows
<1>12. IsPut(t4, m, elem, "WMOVER", Closer(elem), Smaller(elem), Edge, Free)
  BY <1>5 DEF IsPut, Put, Shows
<1>13. IsPut(t5, t4, elem, "TFILLOUT", Closer(elem), Smaller(elem), Edge, Free)
  BY <1>6 DEF IsPut, Put, Titled, Closer, Smaller, Fuller, Edge, Root, Shows
<1>14. IsPut(t6, t5, elem, "WINFO", Edge, Edge, Title(elem), Free)
  BY <1>7 DEF IsPut, Put, Shows
<1> QED
  BY <1>4, <1>8, <1>9, <1>10, <1>11, <1>12, <1>13, <1>14, Zenon DEF TitlePuts, IsHigh

\* The objects of the title are alike in the one tree and in the other.
LEMMA TitleAlike ==
  ASSUME NEW elem, NEW size, NEW d \in Rectangle, NEW a, NEW b, Alike(a, b, {}, elem, size, d),
         NEW u, TitlePuts(u, a, elem), NEW v, TitlePuts(v, b, elem)
  PROVE  Alike(u, v, TitleParts, elem, size, d)
<1>1. PICK a1, a2, a3, a4, a5, am :
        /\ IsPut(a1, a, elem, "WCLOSER", Edge, Free, Edge, Free)
        /\ IsPut(a2, a1, elem, "WFULLER", Free, Edge, Edge, Free)
        /\ IsPut(a3, a2, elem, "WSMALLER", Free, Fuller(elem), Edge, Free)
        /\ IsHigh(am, a3, elem)
        /\ IsPut(a4, am, elem, "WMOVER", Closer(elem), Smaller(elem), Edge, Free)
        /\ IsPut(a5, a4, elem, "TFILLOUT", Closer(elem), Smaller(elem), Edge, Free)
        /\ IsPut(u, a5, elem, "WINFO", Edge, Edge, Title(elem), Free)
  BY Zenon DEF TitlePuts
<1>2. PICK b1, b2, b3, b4, b5, bm :
        /\ IsPut(b1, b, elem, "WCLOSER", Edge, Free, Edge, Free)
        /\ IsPut(b2, b1, elem, "WFULLER", Free, Edge, Edge, Free)
        /\ IsPut(b3, b2, elem, "WSMALLER", Free, Fuller(elem), Edge, Free)
        /\ IsHigh(bm, b3, elem)
        /\ IsPut(b4, bm, elem, "WMOVER", Closer(elem), Smaller(elem), Edge, Free)
        /\ IsPut(b5, b4, elem, "TFILLOUT", Closer(elem), Smaller(elem), Edge, Free)
        /\ IsPut(v, b5, elem, "WINFO", Edge, Edge, Title(elem), Free)
  BY Zenon DEF TitlePuts
<1> DEFINE T0 == {}
           T1 == T0 \cup {"WCLOSER"}
           T2 == T1 \cup {"WFULLER"}
           T3 == T2 \cup {"WSMALLER"}
           T4 == T3 \cup {"WMOVER"}
           T5 == T4 \cup {"TFILLOUT"}
           T6 == T5 \cup {"WINFO"}
<1>3. Shows("WCLOSER", elem) => Neat("WCLOSER", Edge, Free, Edge, Free, T0, elem, d)
  <2>1. /\ "WCLOSER" \in Solid
        /\ "WCLOSER" \in FixedWidth /\ "WCLOSER" \in FixedHeight
    BY DEF Solid, Loose, Widget, Root, FixedWidth, FixedHeight
  <2>2. Shift("WCLOSER", d) = Grow(Edge, Free, Edge, Free, d)
    BY <2>1, ShiftIs DEF Grow, Edge, Free, Root
  <2>3. ASSUME Shows("WCLOSER", elem)
        PROVE  /\ Placed(Edge, {"WCLOSER", "WLEFT"}, T0, elem)
               /\ Placed(Free, {"WFULLER", "WSMALLER", "WSIZER", "SFILLOUT", "WRIGHT"}, T0, elem)
               /\ Placed(Edge, {"WMOVER", "TFILLOUT", "WINFO", "WUP"}, T0, elem)
               /\ Placed(Free, {"WSIZER", "SFILLOUT", "WDOWN"}, T0, elem)
    BY <2>3 DEF Placed, Shows, Titled, Edge, Free, Root
  <2>4. /\ Edge # Free \/ Free # Free
        /\ Edge # Free \/ Free # Free
        /\ Free \in {Edge, Free} <=> TRUE
        /\ Free \in {Edge, Free} <=> TRUE
    BY  DEF Edge, Free, Root
  <2> QED
    BY <2>1, <2>2, <2>3, <2>4 DEF Neat
<1>4. Alike(a1, b1, T1, elem, size, d)
  <2>1. /\ "WCLOSER" \in Solid
        /\ IsPut(a1, a, elem, "WCLOSER", Edge, Free, Edge, Free)
        /\ IsPut(b1, b, elem, "WCLOSER", Edge, Free, Edge, Free)
    BY <1>1, <1>2 DEF Solid, Loose, Widget, Root
  <2>2. Alike(a, b, T0, elem, size, d)
    OBVIOUS
  <2>3. "WCLOSER" # "WMOVER"
    OBVIOUS
  <2>4. \A r : r \in T1 <=> r \in T0 \/ r = "WCLOSER"
    OBVIOUS
  <2> HIDE DEF T0, T1
  <2> QED
    BY <2>2, <2>3, <2>4, <1>3, <2>1, PutNeatly
<1>5. Shows("WFULLER", elem) => Neat("WFULLER", Free, Edge, Edge, Free, T1, elem, d)
  <2>1. /\ "WFULLER" \in Solid
        /\ "WFULLER" \in FixedWidth /\ "WFULLER" \in FixedHeight
    BY DEF Solid, Loose, Widget, Root, FixedWidth, FixedHeight
  <2>2. Shift("WFULLER", d) = Grow(Free, Edge, Edge, Free, d)
    BY <2>1, ShiftIs DEF Grow, Edge, Free, Root
  <2>3. ASSUME Shows("WFULLER", elem)
        PROVE  /\ Placed(Free, {"WCLOSER", "WLEFT"}, T1, elem)
               /\ Placed(Edge, {"WFULLER", "WSMALLER", "WSIZER", "SFILLOUT", "WRIGHT"}, T1, elem)
               /\ Placed(Edge, {"WMOVER", "TFILLOUT", "WINFO", "WUP"}, T1, elem)
               /\ Placed(Free, {"WSIZER", "SFILLOUT", "WDOWN"}, T1, elem)
    BY <2>3 DEF Placed, Shows, Titled, Edge, Free, Root
  <2>4. /\ Free # Free \/ Edge # Free
        /\ Edge # Free \/ Free # Free
        /\ Free \in {Free, Edge} <=> TRUE
        /\ Free \in {Edge, Free} <=> TRUE
    BY  DEF Edge, Free, Root
  <2> QED
    BY <2>1, <2>2, <2>3, <2>4 DEF Neat
<1>6. Alike(a2, b2, T2, elem, size, d)
  <2>1. /\ "WFULLER" \in Solid
        /\ IsPut(a2, a1, elem, "WFULLER", Free, Edge, Edge, Free)
        /\ IsPut(b2, b1, elem, "WFULLER", Free, Edge, Edge, Free)
    BY <1>1, <1>2 DEF Solid, Loose, Widget, Root
  <2>3. "WFULLER" # "WMOVER"
    OBVIOUS
  <2>4. \A r : r \in T2 <=> r \in T1 \/ r = "WFULLER"
    OBVIOUS
  <2> HIDE DEF T1, T2
  <2> QED
    BY <1>4, <2>3, <2>4, <1>5, <2>1, PutNeatly
<1>7. Shows("WSMALLER", elem) => Neat("WSMALLER", Free, Fuller(elem), Edge, Free, T2, elem, d)
  <2>1. /\ "WSMALLER" \in Solid
        /\ "WSMALLER" \in FixedWidth /\ "WSMALLER" \in FixedHeight
    BY DEF Solid, Loose, Widget, Root, FixedWidth, FixedHeight
  <2>2. Shift("WSMALLER", d) = Grow(Free, Fuller(elem), Edge, Free, d)
    BY <2>1, ShiftIs DEF Grow, Edge, Free, Root, Fuller
  <2>3. ASSUME Shows("WSMALLER", elem)
        PROVE  /\ Placed(Free, {"WCLOSER", "WLEFT"}, T2, elem)
               /\ Placed(Fuller(elem), {"WFULLER", "WSMALLER", "WSIZER", "SFILLOUT", "WRIGHT"}, T2, elem)
               /\ Placed(Edge, {"WMOVER", "TFILLOUT", "WINFO", "WUP"}, T2, elem)
               /\ Placed(Free, {"WSIZER", "SFILLOUT", "WDOWN"}, T2, elem)
    BY <2>3 DEF Placed, Shows, Titled, Edge, Free, Root, Fuller
  <2>4. /\ Free # Free \/ Fuller(elem) # Free
        /\ Edge # Free \/ Free # Free
        /\ Free \in {Free, Fuller(elem)} <=> TRUE
        /\ Free \in {Edge, Free} <=> TRUE
    BY  DEF Edge, Free, Root, Fuller
  <2> QED
    BY <2>1, <2>2, <2>3, <2>4 DEF Neat
<1>8. Alike(a3, b3, T3, elem, size, d)
  <2>1. /\ "WSMALLER" \in Solid
        /\ IsPut(a3, a2, elem, "WSMALLER", Free, Fuller(elem), Edge, Free)
        /\ IsPut(b3, b2, elem, "WSMALLER", Free, Fuller(elem), Edge, Free)
    BY <1>1, <1>2 DEF Solid, Loose, Widget, Root
  <2>3. "WSMALLER" # "WMOVER"
    OBVIOUS
  <2>4. \A r : r \in T3 <=> r \in T2 \/ r = "WSMALLER"
    OBVIOUS
  <2> HIDE DEF T2, T3
  <2> QED
    BY <1>6, <2>3, <2>4, <1>7, <2>1, PutNeatly
<1>9. Alike(am, bm, T3, elem, size, d) /\ ("MOVER" \in elem => am.tree["WMOVER"].h = bm.tree["WMOVER"].h)
  <2>1. "WMOVER" \notin T3
    OBVIOUS
  <2> HIDE DEF T3
  <2> QED
    BY <1>1, <1>2, <1>8, <2>1, MoverIsHigh
<1>10. Shows("WMOVER", elem) => Neat("WMOVER", Closer(elem), Smaller(elem), Edge, Free, T3, elem, d)
  <2>1. /\ "WMOVER" \in Solid
        /\ "WMOVER" \notin FixedWidth /\ "WMOVER" \notin FixedHeight
    BY DEF Solid, Loose, Widget, Root, FixedWidth, FixedHeight
  <2>2. Shift("WMOVER", d) = Grow(Closer(elem), Smaller(elem), Edge, Free, d)
    BY <2>1, ShiftIs DEF Grow, Edge, Free, Root, Closer, Fuller, Smaller
  <2>3. ASSUME Shows("WMOVER", elem)
        PROVE  /\ Placed(Closer(elem), {"WCLOSER", "WLEFT"}, T3, elem)
               /\ Placed(Smaller(elem), {"WFULLER", "WSMALLER", "WSIZER", "SFILLOUT", "WRIGHT"}, T3, elem)
               /\ Placed(Edge, {"WMOVER", "TFILLOUT", "WINFO", "WUP"}, T3, elem)
               /\ Placed(Free, {"WSIZER", "SFILLOUT", "WDOWN"}, T3, elem)
    BY <2>3 DEF Placed, Shows, Titled, Edge, Free, Root, Closer, Fuller, Smaller
  <2>4. /\ Closer(elem) # Free \/ Smaller(elem) # Free
        /\ Edge # Free \/ Free # Free
        /\ Free \in {Closer(elem), Smaller(elem)} <=> FALSE
        /\ Free \in {Edge, Free} <=> TRUE
    BY  DEF Edge, Free, Root, Closer, Fuller, Smaller
  <2> QED
    BY <2>1, <2>2, <2>3, <2>4 DEF Neat
<1>11. Alike(a4, b4, T4, elem, size, d)
  <2>1. /\ "WMOVER" \in Solid
        /\ IsPut(a4, am, elem, "WMOVER", Closer(elem), Smaller(elem), Edge, Free)
        /\ IsPut(b4, bm, elem, "WMOVER", Closer(elem), Smaller(elem), Edge, Free)
    BY <1>1, <1>2 DEF Solid, Loose, Widget, Root
  <2>2. am.tree["WMOVER"].h = bm.tree["WMOVER"].h \/ ~Shows("WMOVER", elem)
    BY <1>9 DEF Shows
  <2>4. \A r : r \in T4 <=> r \in T3 \/ r = "WMOVER"
    OBVIOUS
  <2> HIDE DEF T3, T4
  <2> QED
    BY <1>9, <2>2, <2>4, <1>10, <2>1, PutNeatly
<1>12. Shows("TFILLOUT", elem) => Neat("TFILLOUT", Closer(elem), Smaller(elem), Edge, Free, T4, elem, d)
  <2>1. /\ "TFILLOUT" \in Solid
        /\ "TFILLOUT" \notin FixedWidth /\ "TFILLOUT" \in FixedHeight
    BY DEF Solid, Loose, Widget, Root, FixedWidth, FixedHeight
  <2>2. Shift("TFILLOUT", d) = Grow(Closer(elem), Smaller(elem), Edge, Free, d)
    BY <2>1, ShiftIs DEF Grow, Edge, Free, Root, Closer, Fuller, Smaller
  <2>3. ASSUME Shows("TFILLOUT", elem)
        PROVE  /\ Placed(Closer(elem), {"WCLOSER", "WLEFT"}, T4, elem)
               /\ Placed(Smaller(elem), {"WFULLER", "WSMALLER", "WSIZER", "SFILLOUT", "WRIGHT"}, T4, elem)
               /\ Placed(Edge, {"WMOVER", "TFILLOUT", "WINFO", "WUP"}, T4, elem)
               /\ Placed(Free, {"WSIZER", "SFILLOUT", "WDOWN"}, T4, elem)
    BY <2>3 DEF Placed, Shows, Titled, Edge, Free, Root, Closer, Fuller, Smaller
  <2>4. /\ Closer(elem) # Free \/ Smaller(elem) # Free
        /\ Edge # Free \/ Free # Free
        /\ Free \in {Closer(elem), Smaller(elem)} <=> FALSE
        /\ Free \in {Edge, Free} <=> TRUE
    BY  DEF Edge, Free, Root, Closer, Fuller, Smaller
  <2> QED
    BY <2>1, <2>2, <2>3, <2>4 DEF Neat
<1>13. Alike(a5, b5, T5, elem, size, d)
  <2>1. /\ "TFILLOUT" \in Solid
        /\ IsPut(a5, a4, elem, "TFILLOUT", Closer(elem), Smaller(elem), Edge, Free)
        /\ IsPut(b5, b4, elem, "TFILLOUT", Closer(elem), Smaller(elem), Edge, Free)
    BY <1>1, <1>2 DEF Solid, Loose, Widget, Root
  <2>3. "TFILLOUT" # "WMOVER"
    OBVIOUS
  <2>4. \A r : r \in T5 <=> r \in T4 \/ r = "TFILLOUT"
    OBVIOUS
  <2> HIDE DEF T4, T5
  <2> QED
    BY <1>11, <2>3, <2>4, <1>12, <2>1, PutNeatly
<1>14. Shows("WINFO", elem) => Neat("WINFO", Edge, Edge, Title(elem), Free, T5, elem, d)
  <2>1. /\ "WINFO" \in Solid
        /\ "WINFO" \notin FixedWidth /\ "WINFO" \in FixedHeight
    BY DEF Solid, Loose, Widget, Root, FixedWidth, FixedHeight
  <2>2. Shift("WINFO", d) = Grow(Edge, Edge, Title(elem), Free, d)
    BY <2>1, ShiftIs DEF Grow, Edge, Free, Root, Title
  <2>3. ASSUME Shows("WINFO", elem)
        PROVE  /\ Placed(Edge, {"WCLOSER", "WLEFT"}, T5, elem)
               /\ Placed(Edge, {"WFULLER", "WSMALLER", "WSIZER", "SFILLOUT", "WRIGHT"}, T5, elem)
               /\ Placed(Title(elem), {"WMOVER", "TFILLOUT", "WINFO", "WUP"}, T5, elem)
               /\ Placed(Free, {"WSIZER", "SFILLOUT", "WDOWN"}, T5, elem)
    BY <2>3 DEF Placed, Shows, Titled, Edge, Free, Root, Title
  <2>4. /\ Edge # Free \/ Edge # Free
        /\ Title(elem) # Free \/ Free # Free
        /\ Free \in {Edge, Edge} <=> FALSE
        /\ Free \in {Title(elem), Free} <=> TRUE
    BY  DEF Edge, Free, Root, Title
  <2> QED
    BY <2>1, <2>2, <2>3, <2>4 DEF Neat
<1>15. Alike(u, v, T6, elem, size, d)
  <2>1. /\ "WINFO" \in Solid
        /\ IsPut(u, a5, elem, "WINFO", Edge, Edge, Title(elem), Free)
        /\ IsPut(v, b5, elem, "WINFO", Edge, Edge, Title(elem), Free)
    BY <1>1, <1>2 DEF Solid, Loose, Widget, Root
  <2>3. "WINFO" # "WMOVER"
    OBVIOUS
  <2>4. \A r : r \in T6 <=> r \in T5 \/ r = "WINFO"
    OBVIOUS
  <2> HIDE DEF T5, T6
  <2> QED
    BY <1>13, <2>3, <2>4, <1>14, <2>1, PutNeatly
<1>16. T6 = TitleParts
  BY DEF TitleParts
<1> HIDE DEF T6
<1> QED
  BY <1>15, <1>16

\* PackColumn() puts the objects of the column at the right one after the other.
LEMMA ColumnIsPut ==
  ASSUME NEW t, NEW elem
  PROVE  ColumnPuts(PackColumn(t, elem), t, elem)
<1>1. PICK t1 : t1 = Put(t, "UPARROW" \in elem, "WUP", Free, Edge, Lowest(elem), Free)
  OBVIOUS
<1>2. PICK t2 : t2 = Put(t1, "SIZER" \in elem, "WSIZER", Free, Edge, Free, Edge)
  OBVIOUS
<1>3. PICK t3 : t3 = Put(t2, Corner(elem) = "SFILLOUT", "SFILLOUT", Free, Edge, Free, Edge)
  OBVIOUS
<1>4. PICK t4 : t4 = Put(t3, "DNARROW" \in elem, "WDOWN", Free, Edge, Free, Corner(elem))
  OBVIOUS
<1>5. PICK t5 : t5 = Put(t4, "VSLIDE" \in elem, "WVSB", Free, Edge, Upper(elem), Lower(elem))
  OBVIOUS
<1>6. PICK t6 : t6 = Put(t5, "VSLIDE" \notin elem /\ HasColumn(elem), "RFILLOUT",
                      Free, Edge, Upper(elem), Lower(elem))
  OBVIOUS
<1>7. PackColumn(t, elem) = t6
  BY <1>1, <1>2, <1>3, <1>4, <1>5, <1>6, Zenon
     DEF PackColumn, Closer, Fuller, Smaller, Title, Upper, Lower, Leftmost, Rightmost
<1>8. IsPut(t1, t, elem, "WUP", Free, Edge, Lowest(elem), Free)
  BY <1>1 DEF IsPut, Put, Shows
<1>9. IsPut(t2, t1, elem, "WSIZER", Free, Edge, Free, Edge)
  BY <1>2 DEF IsPut, Put, Shows
<1>10. IsPut(t3, t2, elem, "SFILLOUT", Free, Edge, Free, Edge)
  BY <1>3, CornerIs DEF IsPut, Put, Edge, Root, Shows
<1>11. IsPut(t4, t3, elem, "WDOWN", Free, Edge, Free, Corner(elem))
  BY <1>4 DEF IsPut, Put, Shows
<1>12. IsPut(t5, t4, elem, "WVSB", Free, Edge, Upper(elem), Lower(elem))
  BY <1>5 DEF IsPut, Put, Shows
<1>13. IsPut(t6, t5, elem, "RFILLOUT", Free, Edge, Upper(elem), Lower(elem))
  BY <1>6 DEF IsPut, Put, Shows
<1> QED
  BY <1>7, <1>8, <1>9, <1>10, <1>11, <1>12, <1>13, Zenon DEF ColumnPuts

\* The objects of the column at the right are alike in the one tree and in the other.
LEMMA ColumnAlike ==
  ASSUME NEW elem, NEW size, NEW d \in Rectangle, NEW a, NEW b,
         Alike(a, b, TitleParts, elem, size, d),
         NEW u, ColumnPuts(u, a, elem), NEW v, ColumnPuts(v, b, elem)
  PROVE  Alike(u, v, TitleParts \cup ColumnParts, elem, size, d)
<1>1. PICK a1, a2, a3, a4, a5 :
        /\ IsPut(a1, a, elem, "WUP", Free, Edge, Lowest(elem), Free)
        /\ IsPut(a2, a1, elem, "WSIZER", Free, Edge, Free, Edge)
        /\ IsPut(a3, a2, elem, "SFILLOUT", Free, Edge, Free, Edge)
        /\ IsPut(a4, a3, elem, "WDOWN", Free, Edge, Free, Corner(elem))
        /\ IsPut(a5, a4, elem, "WVSB", Free, Edge, Upper(elem), Lower(elem))
        /\ IsPut(u, a5, elem, "RFILLOUT", Free, Edge, Upper(elem), Lower(elem))
  BY Zenon DEF ColumnPuts
<1>2. PICK b1, b2, b3, b4, b5 :
        /\ IsPut(b1, b, elem, "WUP", Free, Edge, Lowest(elem), Free)
        /\ IsPut(b2, b1, elem, "WSIZER", Free, Edge, Free, Edge)
        /\ IsPut(b3, b2, elem, "SFILLOUT", Free, Edge, Free, Edge)
        /\ IsPut(b4, b3, elem, "WDOWN", Free, Edge, Free, Corner(elem))
        /\ IsPut(b5, b4, elem, "WVSB", Free, Edge, Upper(elem), Lower(elem))
        /\ IsPut(v, b5, elem, "RFILLOUT", Free, Edge, Upper(elem), Lower(elem))
  BY Zenon DEF ColumnPuts
<1> DEFINE T0 == TitleParts
           T1 == T0 \cup {"WUP"}
           T2 == T1 \cup {"WSIZER"}
           T3 == T2 \cup {"SFILLOUT"}
           T4 == T3 \cup {"WDOWN"}
           T5 == T4 \cup {"WVSB"}
           T6 == T5 \cup {"RFILLOUT"}
<1>3. Shows("WUP", elem) => Neat("WUP", Free, Edge, Lowest(elem), Free, T0, elem, d)
  <2>1. /\ "WUP" \in Solid
        /\ "WUP" \in FixedWidth /\ "WUP" \in FixedHeight
    BY DEF Solid, Loose, Widget, Root, FixedWidth, FixedHeight
  <2>2. Shift("WUP", d) = Grow(Free, Edge, Lowest(elem), Free, d)
    BY <2>1, ShiftIs, LowestIs DEF Grow, Edge, Free, Root
  <2>3. ASSUME Shows("WUP", elem)
        PROVE  /\ Placed(Free, {"WCLOSER", "WLEFT"}, T0, elem)
               /\ Placed(Edge, {"WFULLER", "WSMALLER", "WSIZER", "SFILLOUT", "WRIGHT"}, T0, elem)
               /\ Placed(Lowest(elem), {"WMOVER", "TFILLOUT", "WINFO", "WUP"}, T0, elem)
               /\ Placed(Free, {"WSIZER", "SFILLOUT", "WDOWN"}, T0, elem)
    BY <2>3, LowestIs DEF Placed, Shows, Titled, Edge, Free, Root, TitleParts
  <2>4. /\ Free # Free \/ Edge # Free
        /\ Lowest(elem) # Free \/ Free # Free
        /\ Free \in {Free, Edge} <=> TRUE
        /\ Free \in {Lowest(elem), Free} <=> TRUE
    BY LowestIs DEF Edge, Free, Root
  <2> QED
    BY <2>1, <2>2, <2>3, <2>4 DEF Neat
<1>4. Alike(a1, b1, T1, elem, size, d)
  <2>1. /\ "WUP" \in Solid
        /\ IsPut(a1, a, elem, "WUP", Free, Edge, Lowest(elem), Free)
        /\ IsPut(b1, b, elem, "WUP", Free, Edge, Lowest(elem), Free)
    BY <1>1, <1>2 DEF Solid, Loose, Widget, Root
  <2>2. Alike(a, b, T0, elem, size, d)
    OBVIOUS
  <2>3. "WUP" # "WMOVER"
    OBVIOUS
  <2>4. \A r : r \in T1 <=> r \in T0 \/ r = "WUP"
    OBVIOUS
  <2> HIDE DEF T0, T1
  <2> QED
    BY <2>2, <2>3, <2>4, <1>3, <2>1, PutNeatly
<1>5. Shows("WSIZER", elem) => Neat("WSIZER", Free, Edge, Free, Edge, T1, elem, d)
  <2>1. /\ "WSIZER" \in Solid
        /\ "WSIZER" \in FixedWidth /\ "WSIZER" \in FixedHeight
    BY DEF Solid, Loose, Widget, Root, FixedWidth, FixedHeight
  <2>2. Shift("WSIZER", d) = Grow(Free, Edge, Free, Edge, d)
    BY <2>1, ShiftIs DEF Grow, Edge, Free, Root
  <2>3. ASSUME Shows("WSIZER", elem)
        PROVE  /\ Placed(Free, {"WCLOSER", "WLEFT"}, T1, elem)
               /\ Placed(Edge, {"WFULLER", "WSMALLER", "WSIZER", "SFILLOUT", "WRIGHT"}, T1, elem)
               /\ Placed(Free, {"WMOVER", "TFILLOUT", "WINFO", "WUP"}, T1, elem)
               /\ Placed(Edge, {"WSIZER", "SFILLOUT", "WDOWN"}, T1, elem)
    BY <2>3 DEF Placed, Shows, Titled, Edge, Free, Root, TitleParts
  <2>4. /\ Free # Free \/ Edge # Free
        /\ Free # Free \/ Edge # Free
        /\ Free \in {Free, Edge} <=> TRUE
        /\ Free \in {Free, Edge} <=> TRUE
    BY  DEF Edge, Free, Root
  <2> QED
    BY <2>1, <2>2, <2>3, <2>4 DEF Neat
<1>6. Alike(a2, b2, T2, elem, size, d)
  <2>1. /\ "WSIZER" \in Solid
        /\ IsPut(a2, a1, elem, "WSIZER", Free, Edge, Free, Edge)
        /\ IsPut(b2, b1, elem, "WSIZER", Free, Edge, Free, Edge)
    BY <1>1, <1>2 DEF Solid, Loose, Widget, Root
  <2>3. "WSIZER" # "WMOVER"
    OBVIOUS
  <2>4. \A r : r \in T2 <=> r \in T1 \/ r = "WSIZER"
    OBVIOUS
  <2> HIDE DEF T1, T2
  <2> QED
    BY <1>4, <2>3, <2>4, <1>5, <2>1, PutNeatly
<1>7. Shows("SFILLOUT", elem) => Neat("SFILLOUT", Free, Edge, Free, Edge, T2, elem, d)
  <2>1. /\ "SFILLOUT" \in Solid
        /\ "SFILLOUT" \in FixedWidth /\ "SFILLOUT" \in FixedHeight
    BY DEF Solid, Loose, Widget, Root, FixedWidth, FixedHeight
  <2>2. Shift("SFILLOUT", d) = Grow(Free, Edge, Free, Edge, d)
    BY <2>1, ShiftIs DEF Grow, Edge, Free, Root
  <2>3. ASSUME Shows("SFILLOUT", elem)
        PROVE  /\ Placed(Free, {"WCLOSER", "WLEFT"}, T2, elem)
               /\ Placed(Edge, {"WFULLER", "WSMALLER", "WSIZER", "SFILLOUT", "WRIGHT"}, T2, elem)
               /\ Placed(Free, {"WMOVER", "TFILLOUT", "WINFO", "WUP"}, T2, elem)
               /\ Placed(Edge, {"WSIZER", "SFILLOUT", "WDOWN"}, T2, elem)
    BY <2>3 DEF Placed, Shows, Titled, Edge, Free, Root, TitleParts
  <2>4. /\ Free # Free \/ Edge # Free
        /\ Free # Free \/ Edge # Free
        /\ Free \in {Free, Edge} <=> TRUE
        /\ Free \in {Free, Edge} <=> TRUE
    BY  DEF Edge, Free, Root
  <2> QED
    BY <2>1, <2>2, <2>3, <2>4 DEF Neat
<1>8. Alike(a3, b3, T3, elem, size, d)
  <2>1. /\ "SFILLOUT" \in Solid
        /\ IsPut(a3, a2, elem, "SFILLOUT", Free, Edge, Free, Edge)
        /\ IsPut(b3, b2, elem, "SFILLOUT", Free, Edge, Free, Edge)
    BY <1>1, <1>2 DEF Solid, Loose, Widget, Root
  <2>3. "SFILLOUT" # "WMOVER"
    OBVIOUS
  <2>4. \A r : r \in T3 <=> r \in T2 \/ r = "SFILLOUT"
    OBVIOUS
  <2> HIDE DEF T2, T3
  <2> QED
    BY <1>6, <2>3, <2>4, <1>7, <2>1, PutNeatly
<1>9. Shows("WDOWN", elem) => Neat("WDOWN", Free, Edge, Free, Corner(elem), T3, elem, d)
  <2>1. /\ "WDOWN" \in Solid
        /\ "WDOWN" \in FixedWidth /\ "WDOWN" \in FixedHeight
    BY DEF Solid, Loose, Widget, Root, FixedWidth, FixedHeight
  <2>2. Shift("WDOWN", d) = Grow(Free, Edge, Free, Corner(elem), d)
    BY <2>1, ShiftIs, CornerIs DEF Grow, Edge, Free, Root
  <2>3. ASSUME Shows("WDOWN", elem)
        PROVE  /\ Placed(Free, {"WCLOSER", "WLEFT"}, T3, elem)
               /\ Placed(Edge, {"WFULLER", "WSMALLER", "WSIZER", "SFILLOUT", "WRIGHT"}, T3, elem)
               /\ Placed(Free, {"WMOVER", "TFILLOUT", "WINFO", "WUP"}, T3, elem)
               /\ Placed(Corner(elem), {"WSIZER", "SFILLOUT", "WDOWN"}, T3, elem)
    BY <2>3, CornerIs
       DEF Placed, Shows, Titled, Edge, Free, Root, TitleParts
  <2>4. /\ Free # Free \/ Edge # Free
        /\ Free # Free \/ Corner(elem) # Free
        /\ Free \in {Free, Edge} <=> TRUE
        /\ Free \in {Free, Corner(elem)} <=> TRUE
    BY CornerIs DEF Edge, Free, Root
  <2> QED
    BY <2>1, <2>2, <2>3, <2>4 DEF Neat
<1>10. Alike(a4, b4, T4, elem, size, d)
  <2>1. /\ "WDOWN" \in Solid
        /\ IsPut(a4, a3, elem, "WDOWN", Free, Edge, Free, Corner(elem))
        /\ IsPut(b4, b3, elem, "WDOWN", Free, Edge, Free, Corner(elem))
    BY <1>1, <1>2 DEF Solid, Loose, Widget, Root
  <2>3. "WDOWN" # "WMOVER"
    OBVIOUS
  <2>4. \A r : r \in T4 <=> r \in T3 \/ r = "WDOWN"
    OBVIOUS
  <2> HIDE DEF T3, T4
  <2> QED
    BY <1>8, <2>3, <2>4, <1>9, <2>1, PutNeatly
<1>11. Shows("WVSB", elem) => Neat("WVSB", Free, Edge, Upper(elem), Lower(elem), T4, elem, d)
  <2>1. /\ "WVSB" \in Solid
        /\ "WVSB" \in FixedWidth /\ "WVSB" \notin FixedHeight
    BY DEF Solid, Loose, Widget, Root, FixedWidth, FixedHeight
  <2>2. Shift("WVSB", d) = Grow(Free, Edge, Upper(elem), Lower(elem), d)
    BY <2>1, ShiftIs, LowestIs, CornerIs DEF Grow, Edge, Free, Root, Lower, Upper
  <2>3. ASSUME Shows("WVSB", elem)
        PROVE  /\ Placed(Free, {"WCLOSER", "WLEFT"}, T4, elem)
               /\ Placed(Edge, {"WFULLER", "WSMALLER", "WSIZER", "SFILLOUT", "WRIGHT"}, T4, elem)
               /\ Placed(Upper(elem), {"WMOVER", "TFILLOUT", "WINFO", "WUP"}, T4, elem)
               /\ Placed(Lower(elem), {"WSIZER", "SFILLOUT", "WDOWN"}, T4, elem)
    BY <2>3, LowestIs, CornerIs DEF Placed, Shows, Titled, Edge, Free, Root, Lower, Upper, TitleParts
  <2>4. /\ Free # Free \/ Edge # Free
        /\ Upper(elem) # Free \/ Lower(elem) # Free
        /\ Free \in {Free, Edge} <=> TRUE
        /\ Free \in {Upper(elem), Lower(elem)} <=> FALSE
    BY LowestIs, CornerIs DEF Edge, Free, Root, Lower, Upper
  <2> QED
    BY <2>1, <2>2, <2>3, <2>4 DEF Neat
<1>12. Alike(a5, b5, T5, elem, size, d)
  <2>1. /\ "WVSB" \in Solid
        /\ IsPut(a5, a4, elem, "WVSB", Free, Edge, Upper(elem), Lower(elem))
        /\ IsPut(b5, b4, elem, "WVSB", Free, Edge, Upper(elem), Lower(elem))
    BY <1>1, <1>2 DEF Solid, Loose, Widget, Root
  <2>3. "WVSB" # "WMOVER"
    OBVIOUS
  <2>4. \A r : r \in T5 <=> r \in T4 \/ r = "WVSB"
    OBVIOUS
  <2> HIDE DEF T4, T5
  <2> QED
    BY <1>10, <2>3, <2>4, <1>11, <2>1, PutNeatly
<1>13. Shows("RFILLOUT", elem) => Neat("RFILLOUT", Free, Edge, Upper(elem), Lower(elem), T5, elem, d)
  <2>1. /\ "RFILLOUT" \in Solid
        /\ "RFILLOUT" \in FixedWidth /\ "RFILLOUT" \notin FixedHeight
    BY DEF Solid, Loose, Widget, Root, FixedWidth, FixedHeight
  <2>2. Shift("RFILLOUT", d) = Grow(Free, Edge, Upper(elem), Lower(elem), d)
    BY <2>1, ShiftIs, LowestIs, CornerIs DEF Grow, Edge, Free, Root, Lower, Upper
  <2>3. ASSUME Shows("RFILLOUT", elem)
        PROVE  /\ Placed(Free, {"WCLOSER", "WLEFT"}, T5, elem)
               /\ Placed(Edge, {"WFULLER", "WSMALLER", "WSIZER", "SFILLOUT", "WRIGHT"}, T5, elem)
               /\ Placed(Upper(elem), {"WMOVER", "TFILLOUT", "WINFO", "WUP"}, T5, elem)
               /\ Placed(Lower(elem), {"WSIZER", "SFILLOUT", "WDOWN"}, T5, elem)
    BY <2>3, LowestIs, CornerIs DEF Placed, Shows, Titled, Edge, Free, Root, Lower, Upper, TitleParts
  <2>4. /\ Free # Free \/ Edge # Free
        /\ Upper(elem) # Free \/ Lower(elem) # Free
        /\ Free \in {Free, Edge} <=> TRUE
        /\ Free \in {Upper(elem), Lower(elem)} <=> FALSE
    BY LowestIs, CornerIs DEF Edge, Free, Root, Lower, Upper
  <2> QED
    BY <2>1, <2>2, <2>3, <2>4 DEF Neat
<1>14. Alike(u, v, T6, elem, size, d)
  <2>1. /\ "RFILLOUT" \in Solid
        /\ IsPut(u, a5, elem, "RFILLOUT", Free, Edge, Upper(elem), Lower(elem))
        /\ IsPut(v, b5, elem, "RFILLOUT", Free, Edge, Upper(elem), Lower(elem))
    BY <1>1, <1>2 DEF Solid, Loose, Widget, Root
  <2>3. "RFILLOUT" # "WMOVER"
    OBVIOUS
  <2>4. \A r : r \in T6 <=> r \in T5 \/ r = "RFILLOUT"
    OBVIOUS
  <2> HIDE DEF T5, T6
  <2> QED
    BY <1>12, <2>3, <2>4, <1>13, <2>1, PutNeatly
<1>15. T6 = TitleParts \cup ColumnParts
  BY DEF ColumnParts
<1> HIDE DEF T6
<1> QED
  BY <1>14, <1>15

\* PackRow() puts the objects of the row at the bottom one after the other.
LEMMA RowIsPut ==
  ASSUME NEW t, NEW elem
  PROVE  RowPuts(PackRow(t, elem), t, elem)
<1>1. PICK t1 : t1 = Put(t, "LFARROW" \in elem, "WLEFT", Edge, Free, Free, Edge)
  OBVIOUS
<1>2. PICK t2 : t2 = Put(t1, "RTARROW" \in elem, "WRIGHT", Free, Corner(elem), Free, Edge)
  OBVIOUS
<1>3. PICK t3 : t3 = Put(t2, "HSLIDE" \in elem, "WHSB", Leftmost(elem), Rightmost(elem), Free, Edge)
  OBVIOUS
<1>4. PICK t4 : t4 = Put(t3, "HSLIDE" \notin elem /\ HasRow(elem), "BFILLOUT",
                      Leftmost(elem), Rightmost(elem), Free, Edge)
  OBVIOUS
<1>5. PackRow(t, elem) = t4
  BY <1>1, <1>2, <1>3, <1>4, Zenon
     DEF PackRow, Closer, Fuller, Smaller, Title, Upper, Lower, Leftmost, Rightmost
<1>6. IsPut(t1, t, elem, "WLEFT", Edge, Free, Free, Edge)
  BY <1>1 DEF IsPut, Put, Shows
<1>7. IsPut(t2, t1, elem, "WRIGHT", Free, Corner(elem), Free, Edge)
  BY <1>2 DEF IsPut, Put, Shows
<1>8. IsPut(t3, t2, elem, "WHSB", Leftmost(elem), Rightmost(elem), Free, Edge)
  BY <1>3 DEF IsPut, Put, Shows
<1>9. IsPut(t4, t3, elem, "BFILLOUT", Leftmost(elem), Rightmost(elem), Free, Edge)
  BY <1>4 DEF IsPut, Put, Shows
<1> QED
  BY <1>5, <1>6, <1>7, <1>8, <1>9, Zenon DEF RowPuts

\* The objects of the row at the bottom are alike in the one tree and in the other.
LEMMA RowAlike ==
  ASSUME NEW elem, NEW size, NEW d \in Rectangle, NEW a, NEW b,
         Alike(a, b, TitleParts \cup ColumnParts, elem, size, d),
         NEW u, RowPuts(u, a, elem), NEW v, RowPuts(v, b, elem)
  PROVE  Alike(u, v, TitleParts \cup ColumnParts \cup RowParts, elem, size, d)
<1>1. PICK a1, a2, a3 :
        /\ IsPut(a1, a, elem, "WLEFT", Edge, Free, Free, Edge)
        /\ IsPut(a2, a1, elem, "WRIGHT", Free, Corner(elem), Free, Edge)
        /\ IsPut(a3, a2, elem, "WHSB", Leftmost(elem), Rightmost(elem), Free, Edge)
        /\ IsPut(u, a3, elem, "BFILLOUT", Leftmost(elem), Rightmost(elem), Free, Edge)
  BY Zenon DEF RowPuts
<1>2. PICK b1, b2, b3 :
        /\ IsPut(b1, b, elem, "WLEFT", Edge, Free, Free, Edge)
        /\ IsPut(b2, b1, elem, "WRIGHT", Free, Corner(elem), Free, Edge)
        /\ IsPut(b3, b2, elem, "WHSB", Leftmost(elem), Rightmost(elem), Free, Edge)
        /\ IsPut(v, b3, elem, "BFILLOUT", Leftmost(elem), Rightmost(elem), Free, Edge)
  BY Zenon DEF RowPuts
<1> DEFINE T0 == TitleParts \cup ColumnParts
           T1 == T0 \cup {"WLEFT"}
           T2 == T1 \cup {"WRIGHT"}
           T3 == T2 \cup {"WHSB"}
           T4 == T3 \cup {"BFILLOUT"}
<1>3. Shows("WLEFT", elem) => Neat("WLEFT", Edge, Free, Free, Edge, T0, elem, d)
  <2>1. /\ "WLEFT" \in Solid
        /\ "WLEFT" \in FixedWidth /\ "WLEFT" \in FixedHeight
    BY DEF Solid, Loose, Widget, Root, FixedWidth, FixedHeight
  <2>2. Shift("WLEFT", d) = Grow(Edge, Free, Free, Edge, d)
    BY <2>1, ShiftIs DEF Grow, Edge, Free, Root
  <2>3. ASSUME Shows("WLEFT", elem)
        PROVE  /\ Placed(Edge, {"WCLOSER", "WLEFT"}, T0, elem)
               /\ Placed(Free, {"WFULLER", "WSMALLER", "WSIZER", "SFILLOUT", "WRIGHT"}, T0, elem)
               /\ Placed(Free, {"WMOVER", "TFILLOUT", "WINFO", "WUP"}, T0, elem)
               /\ Placed(Edge, {"WSIZER", "SFILLOUT", "WDOWN"}, T0, elem)
    BY <2>3 DEF Placed, Shows, Titled, Edge, Free, Root, TitleParts, ColumnParts
  <2>4. /\ Edge # Free \/ Free # Free
        /\ Free # Free \/ Edge # Free
        /\ Free \in {Edge, Free} <=> TRUE
        /\ Free \in {Free, Edge} <=> TRUE
    BY  DEF Edge, Free, Root
  <2> QED
    BY <2>1, <2>2, <2>3, <2>4 DEF Neat
<1>4. Alike(a1, b1, T1, elem, size, d)
  <2>1. /\ "WLEFT" \in Solid
        /\ IsPut(a1, a, elem, "WLEFT", Edge, Free, Free, Edge)
        /\ IsPut(b1, b, elem, "WLEFT", Edge, Free, Free, Edge)
    BY <1>1, <1>2 DEF Solid, Loose, Widget, Root
  <2>2. Alike(a, b, T0, elem, size, d)
    OBVIOUS
  <2>3. "WLEFT" # "WMOVER"
    OBVIOUS
  <2>4. \A r : r \in T1 <=> r \in T0 \/ r = "WLEFT"
    OBVIOUS
  <2> HIDE DEF T0, T1
  <2> QED
    BY <2>2, <2>3, <2>4, <1>3, <2>1, PutNeatly
<1>5. Shows("WRIGHT", elem) => Neat("WRIGHT", Free, Corner(elem), Free, Edge, T1, elem, d)
  <2>1. /\ "WRIGHT" \in Solid
        /\ "WRIGHT" \in FixedWidth /\ "WRIGHT" \in FixedHeight
    BY DEF Solid, Loose, Widget, Root, FixedWidth, FixedHeight
  <2>2. Shift("WRIGHT", d) = Grow(Free, Corner(elem), Free, Edge, d)
    BY <2>1, ShiftIs, CornerIs DEF Grow, Edge, Free, Root
  <2>3. ASSUME Shows("WRIGHT", elem)
        PROVE  /\ Placed(Free, {"WCLOSER", "WLEFT"}, T1, elem)
               /\ Placed(Corner(elem), {"WFULLER", "WSMALLER", "WSIZER", "SFILLOUT", "WRIGHT"}, T1, elem)
               /\ Placed(Free, {"WMOVER", "TFILLOUT", "WINFO", "WUP"}, T1, elem)
               /\ Placed(Edge, {"WSIZER", "SFILLOUT", "WDOWN"}, T1, elem)
    BY <2>3, CornerIs
       DEF Placed, Shows, Titled, Edge, Free, Root, TitleParts, ColumnParts
  <2>4. /\ Free # Free \/ Corner(elem) # Free
        /\ Free # Free \/ Edge # Free
        /\ Free \in {Free, Corner(elem)} <=> TRUE
        /\ Free \in {Free, Edge} <=> TRUE
    BY CornerIs DEF Edge, Free, Root
  <2> QED
    BY <2>1, <2>2, <2>3, <2>4 DEF Neat
<1>6. Alike(a2, b2, T2, elem, size, d)
  <2>1. /\ "WRIGHT" \in Solid
        /\ IsPut(a2, a1, elem, "WRIGHT", Free, Corner(elem), Free, Edge)
        /\ IsPut(b2, b1, elem, "WRIGHT", Free, Corner(elem), Free, Edge)
    BY <1>1, <1>2 DEF Solid, Loose, Widget, Root
  <2>3. "WRIGHT" # "WMOVER"
    OBVIOUS
  <2>4. \A r : r \in T2 <=> r \in T1 \/ r = "WRIGHT"
    OBVIOUS
  <2> HIDE DEF T1, T2
  <2> QED
    BY <1>4, <2>3, <2>4, <1>5, <2>1, PutNeatly
<1>7. Shows("WHSB", elem) => Neat("WHSB", Leftmost(elem), Rightmost(elem), Free, Edge, T2, elem, d)
  <2>1. /\ "WHSB" \in Solid
        /\ "WHSB" \notin FixedWidth /\ "WHSB" \in FixedHeight
    BY DEF Solid, Loose, Widget, Root, FixedWidth, FixedHeight
  <2>2. Shift("WHSB", d) = Grow(Leftmost(elem), Rightmost(elem), Free, Edge, d)
    BY <2>1, ShiftIs, CornerIs DEF Grow, Edge, Free, Root, Leftmost, Rightmost
  <2>3. ASSUME Shows("WHSB", elem)
        PROVE  /\ Placed(Leftmost(elem), {"WCLOSER", "WLEFT"}, T2, elem)
               /\ Placed(Rightmost(elem), {"WFULLER", "WSMALLER", "WSIZER", "SFILLOUT", "WRIGHT"}, T2, elem)
               /\ Placed(Free, {"WMOVER", "TFILLOUT", "WINFO", "WUP"}, T2, elem)
               /\ Placed(Edge, {"WSIZER", "SFILLOUT", "WDOWN"}, T2, elem)
    BY <2>3, CornerIs
       DEF Placed, Shows, Titled, Edge, Free, Root, Leftmost, Rightmost, TitleParts, ColumnParts
  <2>4. /\ Leftmost(elem) # Free \/ Rightmost(elem) # Free
        /\ Free # Free \/ Edge # Free
        /\ Free \in {Leftmost(elem), Rightmost(elem)} <=> FALSE
        /\ Free \in {Free, Edge} <=> TRUE
    BY CornerIs DEF Edge, Free, Root, Leftmost, Rightmost
  <2> QED
    BY <2>1, <2>2, <2>3, <2>4 DEF Neat
<1>8. Alike(a3, b3, T3, elem, size, d)
  <2>1. /\ "WHSB" \in Solid
        /\ IsPut(a3, a2, elem, "WHSB", Leftmost(elem), Rightmost(elem), Free, Edge)
        /\ IsPut(b3, b2, elem, "WHSB", Leftmost(elem), Rightmost(elem), Free, Edge)
    BY <1>1, <1>2 DEF Solid, Loose, Widget, Root
  <2>3. "WHSB" # "WMOVER"
    OBVIOUS
  <2>4. \A r : r \in T3 <=> r \in T2 \/ r = "WHSB"
    OBVIOUS
  <2> HIDE DEF T2, T3
  <2> QED
    BY <1>6, <2>3, <2>4, <1>7, <2>1, PutNeatly
<1>9. Shows("BFILLOUT", elem) => Neat("BFILLOUT", Leftmost(elem), Rightmost(elem), Free, Edge, T3, elem, d)
  <2>1. /\ "BFILLOUT" \in Solid
        /\ "BFILLOUT" \notin FixedWidth /\ "BFILLOUT" \in FixedHeight
    BY DEF Solid, Loose, Widget, Root, FixedWidth, FixedHeight
  <2>3. ASSUME Shows("BFILLOUT", elem)
        PROVE  /\ Placed(Leftmost(elem), {"WCLOSER", "WLEFT"}, T3, elem)
               /\ Placed(Rightmost(elem), {"WFULLER", "WSMALLER", "WSIZER", "SFILLOUT", "WRIGHT"}, T3, elem)
               /\ Placed(Free, {"WMOVER", "TFILLOUT", "WINFO", "WUP"}, T3, elem)
               /\ Placed(Edge, {"WSIZER", "SFILLOUT", "WDOWN"}, T3, elem)
    BY <2>3, CornerIs
       DEF Placed, Shows, Titled, Edge, Free, Root, Leftmost, Rightmost, TitleParts, ColumnParts
  <2>4. /\ Leftmost(elem) # Free \/ Rightmost(elem) # Free
        /\ Free # Free \/ Edge # Free
        /\ Free \in {Leftmost(elem), Rightmost(elem)} <=> FALSE
        /\ Free \in {Free, Edge} <=> TRUE
    BY CornerIs DEF Edge, Free, Root, Leftmost, Rightmost
  <2> QED
    BY <2>1, <2>3, <2>4 DEF Neat
<1>10. Alike(u, v, T4, elem, size, d)
  <2>1. /\ "BFILLOUT" \in Solid
        /\ IsPut(u, a3, elem, "BFILLOUT", Leftmost(elem), Rightmost(elem), Free, Edge)
        /\ IsPut(v, b3, elem, "BFILLOUT", Leftmost(elem), Rightmost(elem), Free, Edge)
    BY <1>1, <1>2 DEF Solid, Loose, Widget, Root
  <2>3. "BFILLOUT" # "WMOVER"
    OBVIOUS
  <2>4. \A r : r \in T4 <=> r \in T3 \/ r = "BFILLOUT"
    OBVIOUS
  <2> HIDE DEF T3, T4
  <2> QED
    BY <1>8, <2>3, <2>4, <1>9, <2>1, PutNeatly
<1>11. T4 = TitleParts \cup ColumnParts \cup RowParts
  BY DEF RowParts
<1> HIDE DEF T4
<1> QED
  BY <1>10, <1>11

\* Two windows with the same objects, the second after a change of size by d.
Agree(a, b, size, d) ==
  /\ DOMAIN a = {"tree", "shown"} /\ DOMAIN b = {"tree", "shown"}
  /\ IsTree(a.tree) /\ IsTree(b.tree)
  /\ SameFixed(WINDOW, a.tree) /\ SameFixed(a.tree, b.tree)
  /\ a.tree[Root] = size /\ b.tree[Root] = Plus(size, d)
  /\ \A o \in a.shown : o \in Hideable
  /\ a.shown = b.shown
  /\ \A o \in a.shown \ {"BFILLOUT", "WAPP"} : b.tree[o] = Plus(a.tree[o], Shift(o, d))

\* The title of an icon.
LowTitle(m, t) ==
  m = [t EXCEPT !.tree["WMOVER"].h = csheight + 2, !.shown = @ \ {"WAPP"}]

\* The title of an icon has a height of its own.
LEMMA LowIs ==
  ASSUME NEW a, DOMAIN a = {"tree", "shown"}, IsTree(a.tree), NEW m, LowTitle(m, a)
  PROVE  /\ DOMAIN m = {"tree", "shown"} /\ IsTree(m.tree)
         /\ m.shown = a.shown \ {"WAPP"}
         /\ \A o \in Widget \ {"WMOVER"} : m.tree[o] = a.tree[o]
         /\ m.tree["WMOVER"].h = csheight + 2
<1>1. /\ "WMOVER" \in Solid /\ "WMOVER" \in Widget /\ "WMOVER" \notin Loose
      /\ Solid \subseteq Widget /\ Loose \subseteq Widget /\ Root \in Widget /\ csheight + 2 \in Int
  BY ResourceAssumption DEF Solid, Loose, Widget, Root
<1>2. a.tree["WMOVER"] \in Rectangle /\ DOMAIN a.tree = Widget
  BY <1>1 DEF IsTree
<1>3. PICK h : h = csheight + 2
  OBVIOUS
<1>4. /\ DOMAIN m = {"tree", "shown"} /\ m.shown = a.shown \ {"WAPP"}
      /\ m.tree = [a.tree EXCEPT !["WMOVER"] = [a.tree["WMOVER"] EXCEPT !.h = h]]
  BY <1>1, <1>2, <1>3 DEF LowTitle
<1>5. /\ DOMAIN m.tree = Widget
      /\ \A o \in Widget \ {"WMOVER"} : m.tree[o] = a.tree[o]
      /\ m.tree["WMOVER"] = [a.tree["WMOVER"] EXCEPT !.h = h]
  BY <1>1, <1>2, <1>4
<1>6. m.tree["WMOVER"] \in Rectangle /\ m.tree["WMOVER"].h = h
  BY <1>1, <1>2, <1>3, <1>5 DEF Rectangle
<1>7. IsTree(m.tree)
  BY <1>1, <1>5, <1>6 DEF IsTree
<1> QED
  BY <1>3, <1>4, <1>5, <1>6, <1>7

\* Whether the window is an icon or not, set_win_elem() ends with two windows alike.
LEMMA IconAgrees ==
  ASSUME NEW elem, NEW size, NEW d \in Rectangle, NEW a, NEW b,
         Alike(a, b, TitleParts \cup ColumnParts \cup RowParts, elem, size, d),
         NEW u, u = PackIcon(a, elem), NEW v, v = PackIcon(b, elem)
  PROVE  Agree(u, v, size, d)
<1>1. Solid = TitleParts \cup ColumnParts \cup RowParts
  BY DEF Solid, Loose, Widget, Root, TitleParts, ColumnParts, RowParts
<1>2. /\ DOMAIN a = {"tree", "shown"} /\ DOMAIN b = {"tree", "shown"}
      /\ IsTree(a.tree) /\ IsTree(b.tree)
      /\ SameFixed(WINDOW, a.tree) /\ SameFixed(a.tree, b.tree)
      /\ a.tree[Root] = size /\ b.tree[Root] = Plus(size, d)
      /\ \A o \in a.shown \cup b.shown : o \in Hideable
  BY Zenon DEF Alike
<1>3. \A o \in Solid : /\ o \in a.shown <=> Shows(o, elem)
                       /\ o \in b.shown <=> Shows(o, elem)
                       /\ Shows(o, elem) /\ o # "BFILLOUT" =>
                            b.tree[o] = Plus(a.tree[o], Shift(o, d))
  BY <1>1, Zenon DEF Alike
<1>4. CASE "IMOVER" \notin elem
  <2>1. u = [a EXCEPT !.shown = @ \cup {"WAPP"}] /\ v = [b EXCEPT !.shown = @ \cup {"WAPP"}]
    BY <1>4 DEF PackIcon
  <2>2. /\ DOMAIN u = {"tree", "shown"} /\ u.tree = a.tree /\ u.shown = a.shown \cup {"WAPP"}
        /\ DOMAIN v = {"tree", "shown"} /\ v.tree = b.tree /\ v.shown = b.shown \cup {"WAPP"}
    BY <1>2, <2>1
  <2>3. \A o : o \in u.shown <=> o \in v.shown
    BY <1>2, <1>3, <2>2 DEF Hideable
  <2>4. u.shown = v.shown
    BY <2>3
  <2>5. \A o \in u.shown : o \in Hideable
    BY <1>2, <2>2 DEF Hideable
  <2>6. \A o \in u.shown \ {"BFILLOUT", "WAPP"} : v.tree[o] = Plus(u.tree[o], Shift(o, d))
    BY <1>2, <1>3, <2>2, <2>5 DEF Hideable
  <2> QED
    BY <1>2, <2>2, <2>4, <2>5, <2>6 DEF Agree
<1>5. CASE "IMOVER" \in elem
  <2>1. PICK m : LowTitle(m, a)
    BY DEF LowTitle
  <2>2. PICK n : LowTitle(n, b)
    BY DEF LowTitle
  <2>3. /\ DOMAIN m = {"tree", "shown"} /\ IsTree(m.tree)
        /\ m.shown = a.shown \ {"WAPP"}
        /\ \A o \in Widget \ {"WMOVER"} : m.tree[o] = a.tree[o]
        /\ m.tree["WMOVER"].h = csheight + 2
    BY <1>2, <2>1, LowIs
  <2>4. /\ DOMAIN n = {"tree", "shown"} /\ IsTree(n.tree)
        /\ n.shown = b.shown \ {"WAPP"}
        /\ \A o \in Widget \ {"WMOVER"} : n.tree[o] = b.tree[o]
        /\ n.tree["WMOVER"].h = csheight + 2
    BY <1>2, <2>2, LowIs
  <2>5. PICK p : p = packelem(m.tree, "WMOVER", Edge, Edge, Edge, Free)
    OBVIOUS
  <2>6. PICK q : q = packelem(n.tree, "WMOVER", Edge, Edge, Edge, Free)
    OBVIOUS
  <2>7. /\ u = [tree |-> p, shown |-> m.shown \cup {"WMOVER"}]
        /\ v = [tree |-> q, shown |-> n.shown \cup {"WMOVER"}]
    <3>1. u = Put(m, TRUE, "WMOVER", Edge, Edge, Edge, Free)
      BY <1>5, <2>1 DEF PackIcon, LowTitle
    <3>2. v = Put(n, TRUE, "WMOVER", Edge, Edge, Edge, Free)
      BY <1>5, <2>2 DEF PackIcon, LowTitle
    <3> QED
      BY <2>5, <2>6, <3>1, <3>2 DEF Put
  <2>8. "WMOVER" \in Solid /\ Edge \in Neighbour /\ Free \in Neighbour
    BY DEF Solid, Loose, Widget, Root, Neighbour
  <2>9. IsPacked(p, m.tree, "WMOVER", Edge, Edge, Edge, Free)
    BY <2>3, <2>5, <2>8, PackIs
  <2>10. IsPacked(q, n.tree, "WMOVER", Edge, Edge, Edge, Free)
    BY <2>4, <2>6, <2>8, PackIs
  <2>11. /\ IsTree(p) /\ \A o \in Widget \ {"WMOVER"} : p[o] = a.tree[o]
         /\ IsTree(q) /\ \A o \in Widget \ {"WMOVER"} : q[o] = b.tree[o]
    BY <2>3, <2>4, <2>9, <2>10 DEF IsPacked
  <2>12. p[Root] = size /\ q[Root] = Plus(size, d) /\ size \in Rectangle
    BY <1>2, <2>11 DEF Widget, Root, IsTree
  <2>13. p["WMOVER"] \in Rectangle /\ q["WMOVER"] \in Rectangle
    BY <2>8, <2>11 DEF IsTree
  <2>14. Shift("WMOVER", d) = [x |-> 0, y |-> 0, w |-> d.w, h |-> 0]
    BY <2>8, ShiftIs
  <2>15. q["WMOVER"] = Plus(p["WMOVER"], Shift("WMOVER", d))
    <3>1. m.tree[Root] = size /\ n.tree[Root] = Plus(size, d)
      BY <1>2, <2>3, <2>4 DEF Widget, Root
    <3>2. /\ p["WMOVER"].x = D3DSIZE /\ p["WMOVER"].y = D3DSIZE
          /\ p["WMOVER"].w = size.w - D3DSIZE - D3DSIZE /\ p["WMOVER"].h = csheight + 2
      BY <2>3, <2>9, <3>1 DEF IsPacked, RightOf, LeftOf, Below, Edge, Free, Root
    <3>3. /\ q["WMOVER"].x = D3DSIZE /\ q["WMOVER"].y = D3DSIZE
          /\ q["WMOVER"].w = Plus(size, d).w - D3DSIZE - D3DSIZE /\ q["WMOVER"].h = csheight + 2
      BY <2>4, <2>10, <3>1 DEF IsPacked, RightOf, LeftOf, Below, Edge, Free, Root
    <3>4. Plus(size, d).w = size.w + d.w /\ size.w \in Int /\ d.w \in Int /\ csheight \in Int
      BY <2>12, ResourceAssumption DEF Plus, Rectangle
    <3>5. /\ q["WMOVER"].x = p["WMOVER"].x + 0 /\ q["WMOVER"].y = p["WMOVER"].y + 0
          /\ q["WMOVER"].w = p["WMOVER"].w + d.w /\ q["WMOVER"].h = p["WMOVER"].h + 0
      BY <2>13, <3>2, <3>3, <3>4 DEF D3DSIZE
    <3> QED
      BY <2>13, <2>14, <3>5 DEF Plus, Rectangle
  <2>16. SameFixed(WINDOW, p) /\ SameFixed(p, q)
    BY <1>2, <2>11 DEF SameFixed, FixedWidth, FixedHeight, Solid
  <2>17. /\ DOMAIN u = {"tree", "shown"} /\ u.tree = p /\ u.shown = (a.shown \ {"WAPP"}) \cup {"WMOVER"}
         /\ DOMAIN v = {"tree", "shown"} /\ v.tree = q /\ v.shown = (b.shown \ {"WAPP"}) \cup {"WMOVER"}
    BY <2>3, <2>4, <2>7
  <2>18. \A o : o \in u.shown <=> o \in v.shown
    BY <1>2, <1>3, <2>17 DEF Hideable
  <2>19. u.shown = v.shown
    BY <2>18
  <2>20. \A o \in u.shown : o \in Hideable /\ o \in Solid
    BY <1>2, <2>8, <2>17 DEF Hideable
  <2>21. ASSUME NEW o \in u.shown \ {"BFILLOUT", "WAPP"}
         PROVE  v.tree[o] = Plus(u.tree[o], Shift(o, d))
    <3>1. CASE o = "WMOVER"
      BY <2>15, <2>17, <3>1
    <3>2. CASE o # "WMOVER"
      <4>1. o \in a.shown /\ o \in Solid /\ o \in Widget \ {"WMOVER"}
        BY <2>17, <2>20, <2>21, <3>2 DEF Solid
      <4>2. b.tree[o] = Plus(a.tree[o], Shift(o, d))
        BY <1>3, <2>21, <4>1
      <4> QED
        BY <2>11, <2>17, <4>1, <4>2
    <3> QED
      BY <3>1, <3>2
  <2> QED
    BY <2>11, <2>12, <2>16, <2>17, <2>19, <2>20, <2>21 DEF Agree
<1> QED
  BY <1>4, <1>5

\* set_win_elem() makes windows alike of two trees with the same fixed sides.
LEMMA ElementsAgree ==
  ASSUME NEW elem, NEW size, NEW d \in Rectangle, NEW a, NEW b,
         Alike(a, b, {}, elem, size, d),
         NEW u, u = set_win_elem(a, elem), NEW v, v = set_win_elem(b, elem)
  PROVE  Agree(u, v, size, d)
<1>1. PICK a1 : a1 = PackTitle(a, elem)
  OBVIOUS
<1>2. PICK b1 : b1 = PackTitle(b, elem)
  OBVIOUS
<1>3. PICK a2 : a2 = PackColumn(a1, elem)
  OBVIOUS
<1>4. PICK b2 : b2 = PackColumn(b1, elem)
  OBVIOUS
<1>5. PICK a3 : a3 = PackRow(a2, elem)
  OBVIOUS
<1>6. PICK b3 : b3 = PackRow(b2, elem)
  OBVIOUS
<1>7. TitlePuts(a1, a, elem) /\ TitlePuts(b1, b, elem)
  BY <1>1, <1>2, TitleIsPut
<1>8. ColumnPuts(a2, a1, elem) /\ ColumnPuts(b2, b1, elem)
  BY <1>3, <1>4, ColumnIsPut
<1>9. RowPuts(a3, a2, elem) /\ RowPuts(b3, b2, elem)
  BY <1>5, <1>6, RowIsPut
<1>10. Alike(a1, b1, TitleParts, elem, size, d)
  BY <1>7, TitleAlike
<1>11. Alike(a2, b2, TitleParts \cup ColumnParts, elem, size, d)
  BY <1>8, <1>10, ColumnAlike
<1>12. Alike(a3, b3, TitleParts \cup ColumnParts \cup RowParts, elem, size, d)
  BY <1>9, <1>11, RowAlike
<1>13. u = PackIcon(a3, elem) /\ v = PackIcon(b3, elem)
  BY <1>1, <1>2, <1>3, <1>4, <1>5, <1>6 DEF set_win_elem
<1> QED
  BY <1>12, <1>13, IconAgrees

-----------------------------------------------------------------------------
(* The window that changes its size looks like a new one of this size.      *)

\* A new window of this size with these elements.
Blank(size) == [tree |-> [WINDOW EXCEPT ![Root] = size], shown |-> {}]
Fresh(size, elem) == set_win_elem(Blank(size), elem)

\* A window that has the sides of the resource, and one that looks like a new one.
Shaped(w) ==
  /\ DOMAIN w = Field /\ w.totsize \in Rectangle
  /\ IsTree(w.tree) /\ SameFixed(WINDOW, w.tree) /\ w.tree[Root] = w.totsize
  /\ \A o \in w.shown : o \in Hideable
LooksFresh(w, elem) ==
  /\ w.shown = Fresh(w.totsize, elem).shown
  /\ \A o \in w.shown \ {"BFILLOUT", "WAPP"} : w.tree[o] = Fresh(w.totsize, elem).tree[o]
  /\ w.worksize = calcworksize(elem, w.totsize)

\* The sliders have the lengths that were set, and the name the width of the title.
SlidersFit(w) ==
  /\ w.tree["WAPP"].w = w.tree["WMOVER"].w
  /\ w.tree["WVSLIDER"].h = Thousandth(w.vslidesize * w.tree["WVSB"].h)
  /\ w.tree["WHSLIDER"].w = Thousandth(w.hslidesize * w.tree["WHSB"].w)

\* The layout, whatever the server does.
LayoutInv ==
  ws # NoWindow =>
    /\ Shaped(ws) /\ LooksFresh(ws, Elem) /\ SlidersFit(ws)
    /\ DOMAIN win = {"totsize", "worksize", "open", "iconified"}
    /\ win.iconified \in BOOLEAN

\* The tree of a new window is the one of the resource with another size.
LEMMA BlankIs ==
  ASSUME NEW size \in Rectangle
  PROVE  LET t == Blank(size).tree
         IN  /\ DOMAIN Blank(size) = {"tree", "shown"} /\ Blank(size).shown = {}
             /\ IsTree(t) /\ SameFixed(WINDOW, t) /\ t[Root] = size
<1>1. /\ DOMAIN WINDOW = Widget /\ \A o \in Widget : WINDOW[o] \in Rectangle
      /\ Root \in Widget /\ Root \notin Loose /\ Solid \subseteq Widget \ {Root}
      /\ Loose \subseteq Widget \ {Root}
  BY ResourceAssumption DEF Widget, Loose, Solid, Root
<1>2. PICK t : t = [WINDOW EXCEPT ![Root] = size]
  OBVIOUS
<1>3. DOMAIN t = Widget /\ t[Root] = size /\ \A o \in Widget \ {Root} : t[o] = WINDOW[o]
  BY <1>1, <1>2
<1>4. \A o \in Loose : DOMAIN WINDOW[o] = Side
  BY <1>1 DEF Rectangle, Side
<1>5. IsTree(t)
  BY <1>1, <1>3, <1>4 DEF IsTree
<1>6. SameFixed(WINDOW, t)
  BY <1>1, <1>3 DEF SameFixed, FixedWidth, FixedHeight
<1>7. DOMAIN Blank(size) = {"tree", "shown"} /\ Blank(size).shown = {} /\ Blank(size).tree = t
  BY <1>2 DEF Blank
<1> QED
  BY <1>3, <1>5, <1>6, <1>7

\* New windows of two sizes.
LEMMA FreshAgree ==
  ASSUME NEW elem, NEW size \in Rectangle, NEW old \in Rectangle
  PROVE  Agree(Fresh(old, elem), Fresh(size, elem), old, Delta(size, old))
<1>1. PICK a : a = Blank(old)
  OBVIOUS
<1>2. PICK b : b = Blank(size)
  OBVIOUS
<1>3. /\ DOMAIN a = {"tree", "shown"} /\ a.shown = {}
      /\ IsTree(a.tree) /\ SameFixed(WINDOW, a.tree) /\ a.tree[Root] = old
  BY <1>1, BlankIs
<1>4. /\ DOMAIN b = {"tree", "shown"} /\ b.shown = {}
      /\ IsTree(b.tree) /\ SameFixed(WINDOW, b.tree) /\ b.tree[Root] = size
  BY <1>2, BlankIs
<1>5. SameFixed(a.tree, b.tree)
  BY <1>3, <1>4 DEF SameFixed
<1>6. Delta(size, old) \in Rectangle /\ size = Plus(old, Delta(size, old))
  BY DEF Delta, Plus, Rectangle
<1>7. Alike(a, b, {}, elem, old, Delta(size, old))
  BY <1>3, <1>4, <1>5, <1>6 DEF Alike
<1>8. Fresh(old, elem) = set_win_elem(a, elem) /\ Fresh(size, elem) = set_win_elem(b, elem)
  BY <1>1, <1>2 DEF Fresh
<1> QED
  BY <1>6, <1>7, <1>8, ElementsAgree

\* What a window of this size is turned into looks like a new one.
LEMMA DressedFresh ==
  ASSUME NEW w, Shaped(w), NEW elem, NEW v, v = Dressed(w, elem)
  PROVE  Shaped(v) /\ LooksFresh(v, elem) /\ v.elements = w.elements /\ v.totsize = w.totsize
<1>1. /\ DOMAIN w = Field /\ w.totsize \in Rectangle
      /\ IsTree(w.tree) /\ SameFixed(WINDOW, w.tree) /\ w.tree[Root] = w.totsize
      /\ \A o \in w.shown : o \in Hideable
  BY DEF Shaped
<1>2. PICK a : a = Blank(w.totsize)
  OBVIOUS
<1>3. PICK b : b = [tree |-> w.tree, shown |-> w.shown]
  OBVIOUS
<1>4. PICK none : none = [x |-> 0, y |-> 0, w |-> 0, h |-> 0]
  OBVIOUS
<1>5. none \in Rectangle /\ \A r \in Rectangle : Plus(r, none) = r
  BY <1>4 DEF Rectangle, Plus
<1>6. /\ DOMAIN a = {"tree", "shown"} /\ a.shown = {}
      /\ IsTree(a.tree) /\ SameFixed(WINDOW, a.tree) /\ a.tree[Root] = w.totsize
  BY <1>1, <1>2, BlankIs
<1>7. DOMAIN b = {"tree", "shown"} /\ b.tree = w.tree /\ b.shown = w.shown
  BY <1>3
<1>8. SameFixed(a.tree, b.tree)
  BY <1>1, <1>6, <1>7 DEF SameFixed
<1>9. Alike(a, b, {}, elem, w.totsize, none)
  BY <1>1, <1>5, <1>6, <1>7, <1>8 DEF Alike
<1>10. PICK u : u = set_win_elem(a, elem)
  OBVIOUS
<1>11. PICK t : t = set_win_elem(b, elem)
  OBVIOUS
<1>12. Agree(u, t, w.totsize, none)
  BY <1>5, <1>9, <1>10, <1>11, ElementsAgree
<1>13. u = Fresh(w.totsize, elem)
  BY <1>2, <1>10 DEF Fresh
<1>14. /\ DOMAIN v = Field /\ v.elements = w.elements /\ v.totsize = w.totsize
       /\ v.tree = t.tree /\ v.shown = t.shown
       /\ v.worksize = calcworksize(elem, w.totsize)
  BY <1>1, <1>3, <1>11 DEF Dressed, Field
<1>15. /\ IsTree(u.tree) /\ IsTree(t.tree)
       /\ SameFixed(WINDOW, u.tree) /\ SameFixed(u.tree, t.tree)
       /\ u.tree[Root] = w.totsize /\ t.tree[Root] = w.totsize
       /\ \A o \in u.shown : o \in Hideable
       /\ u.shown = t.shown
       /\ \A o \in u.shown \ {"BFILLOUT", "WAPP"} : t.tree[o] = Plus(u.tree[o], Shift(o, none))
  BY <1>1, <1>5, <1>12 DEF Agree
<1>17. ASSUME NEW o \in u.shown \ {"BFILLOUT", "WAPP"}
       PROVE  t.tree[o] = u.tree[o]
  <2>1. o \in Solid /\ u.tree[o] \in Rectangle
    BY <1>15, <1>17 DEF Hideable, IsTree
  <2>2. Shift(o, none) = none
    BY <1>4, <2>1, ShiftIs
  <2> QED
    BY <1>5, <1>15, <1>17, <2>1, <2>2
<1> QED
  BY <1>1, <1>13, <1>14, <1>15, <1>17 DEF Shaped, LooksFresh, SameFixed

\* Sliders are not packed.
LEMMA VerticalIs ==
  ASSUME NEW w, DOMAIN w = Field, IsTree(w.tree), NEW p, NEW s,
         NEW v, v = SetVertical(w, p, s)
  PROVE  /\ DOMAIN v = Field /\ v.elements = w.elements /\ v.shown = w.shown
         /\ v.totsize = w.totsize /\ v.worksize = w.worksize /\ v.hslidesize = w.hslidesize
         /\ IsTree(v.tree)
         /\ \A o \in Widget \ {"WVSLIDER"} : v.tree[o] = w.tree[o]
         /\ v.tree["WVSLIDER"].h = Thousandth(v.vslidesize * v.tree["WVSB"].h)
<1>1. PICK pos : pos = Slid(w.vslidepos, p)
  OBVIOUS
<1>2. PICK len : len = Slid(w.vslidesize, s)
  OBVIOUS
<1>3. PICK bar : bar = w.tree["WVSB"].h
  OBVIOUS
<1>4. PICK y : y = Thousandth(pos * (bar - w.tree["WVSLIDER"].h))
  OBVIOUS
<1>5. PICK h : h = Thousandth(len * bar)
  OBVIOUS
<1>6. v = [w EXCEPT !.vslidepos = pos, !.vslidesize = len,
             !.tree["WVSLIDER"].y = y, !.tree["WVSLIDER"].h = h]
  BY <1>1, <1>2, <1>3, <1>4, <1>5, Zenon DEF SetVertical
<1>7. /\ "WVSLIDER" \in Widget /\ "WVSB" \in Widget /\ "WVSB" # "WVSLIDER" /\ "WVSLIDER" \in Loose
      /\ Solid \cup {Root} \subseteq Widget \ {"WVSLIDER"} /\ Loose \subseteq Widget
  BY DEF Widget, Loose, Solid, Root
<1>8. DOMAIN w.tree = Widget /\ DOMAIN w.tree["WVSLIDER"] = Side
  BY <1>7 DEF IsTree
<1>9. PICK r : r = [[w.tree["WVSLIDER"] EXCEPT !.y = y] EXCEPT !.h = h]
  OBVIOUS
<1>10. DOMAIN r = Side /\ r.h = h
  BY <1>8, <1>9 DEF Side
<1>11. /\ DOMAIN v = Field /\ v.elements = w.elements /\ v.shown = w.shown
       /\ v.totsize = w.totsize /\ v.worksize = w.worksize /\ v.hslidesize = w.hslidesize
       /\ v.vslidesize = len
  BY <1>6 DEF Field
<1>12. v.tree = [[w.tree EXCEPT !["WVSLIDER"].y = y] EXCEPT !["WVSLIDER"].h = h]
  BY <1>6 DEF Field
<1>13. /\ DOMAIN v.tree = Widget /\ v.tree["WVSLIDER"] = r
       /\ \A o \in Widget \ {"WVSLIDER"} : v.tree[o] = w.tree[o]
  BY <1>7, <1>8, <1>9, <1>12
<1>14. IsTree(v.tree)
  BY <1>7, <1>10, <1>13 DEF IsTree
<1>15. v.tree["WVSB"].h = bar
  BY <1>3, <1>7, <1>13
<1> QED
  BY <1>5, <1>10, <1>11, <1>13, <1>14, <1>15

\* The slider at the bottom likewise.
LEMMA HorizontalIs ==
  ASSUME NEW w, DOMAIN w = Field, IsTree(w.tree), NEW p, NEW s,
         NEW v, v = SetHorizontal(w, p, s)
  PROVE  /\ DOMAIN v = Field /\ v.elements = w.elements /\ v.shown = w.shown
         /\ v.totsize = w.totsize /\ v.worksize = w.worksize /\ v.vslidesize = w.vslidesize
         /\ IsTree(v.tree)
         /\ \A o \in Widget \ {"WHSLIDER"} : v.tree[o] = w.tree[o]
         /\ v.tree["WHSLIDER"].w = Thousandth(v.hslidesize * v.tree["WHSB"].w)
<1>1. PICK pos : pos = Slid(w.hslidepos, p)
  OBVIOUS
<1>2. PICK len : len = Slid(w.hslidesize, s)
  OBVIOUS
<1>3. PICK bar : bar = w.tree["WHSB"].w
  OBVIOUS
<1>4. PICK x : x = Thousandth(pos * (bar - w.tree["WHSLIDER"].w))
  OBVIOUS
<1>5. PICK n : n = Thousandth(len * bar)
  OBVIOUS
<1>6. v = [w EXCEPT !.hslidepos = pos, !.hslidesize = len,
             !.tree["WHSLIDER"].x = x, !.tree["WHSLIDER"].w = n]
  BY <1>1, <1>2, <1>3, <1>4, <1>5, Zenon DEF SetHorizontal
<1>7. /\ "WHSLIDER" \in Widget /\ "WHSB" \in Widget /\ "WHSB" # "WHSLIDER" /\ "WHSLIDER" \in Loose
      /\ Solid \cup {Root} \subseteq Widget \ {"WHSLIDER"} /\ Loose \subseteq Widget
  BY DEF Widget, Loose, Solid, Root
<1>8. DOMAIN w.tree = Widget /\ DOMAIN w.tree["WHSLIDER"] = Side
  BY <1>7 DEF IsTree
<1>9. PICK r : r = [[w.tree["WHSLIDER"] EXCEPT !.x = x] EXCEPT !.w = n]
  OBVIOUS
<1>10. DOMAIN r = Side /\ r.w = n
  BY <1>8, <1>9 DEF Side
<1>11. /\ DOMAIN v = Field /\ v.elements = w.elements /\ v.shown = w.shown
       /\ v.totsize = w.totsize /\ v.worksize = w.worksize /\ v.vslidesize = w.vslidesize
       /\ v.hslidesize = len
  BY <1>6 DEF Field
<1>12. v.tree = [[w.tree EXCEPT !["WHSLIDER"].x = x] EXCEPT !["WHSLIDER"].w = n]
  BY <1>6 DEF Field
<1>13. /\ DOMAIN v.tree = Widget /\ v.tree["WHSLIDER"] = r
       /\ \A o \in Widget \ {"WHSLIDER"} : v.tree[o] = w.tree[o]
  BY <1>7, <1>8, <1>9, <1>12
<1>14. IsTree(v.tree)
  BY <1>7, <1>10, <1>13 DEF IsTree
<1>15. v.tree["WHSB"].w = bar
  BY <1>3, <1>7, <1>13
<1> QED
  BY <1>5, <1>10, <1>11, <1>13, <1>14, <1>15

\* A window that differs in its sliders only looks the same.
LEMMA SameLooks ==
  ASSUME NEW w, Shaped(w), NEW elem, LooksFresh(w, elem),
         NEW v, DOMAIN v = Field, v.shown = w.shown, v.totsize = w.totsize, v.worksize = w.worksize,
         IsTree(v.tree), \A o \in Widget \ {"WVSLIDER", "WHSLIDER"} : v.tree[o] = w.tree[o]
  PROVE  Shaped(v) /\ LooksFresh(v, elem)
<1>1. /\ Solid \cup {Root} \subseteq Widget \ {"WVSLIDER", "WHSLIDER"}
      /\ Hideable \ {"WAPP"} \subseteq Widget \ {"WVSLIDER", "WHSLIDER"}
      /\ FixedWidth \subseteq Solid /\ FixedHeight \subseteq Solid
  BY DEF Widget, Solid, Loose, Hideable, Root, FixedWidth, FixedHeight
<1>2. Shaped(v)
  BY <1>1 DEF Shaped, SameFixed
<1>3. LooksFresh(v, elem)
  BY <1>1 DEF Shaped, LooksFresh
<1> QED
  BY <1>2, <1>3

\* A slider is set.
LEMMA SlidFresh ==
  ASSUME NEW w, Shaped(w), NEW elem, LooksFresh(w, elem), SlidersFit(w), NEW p, NEW s,
         NEW v, v = SetVertical(w, p, s) \/ v = SetHorizontal(w, p, s)
  PROVE  Shaped(v) /\ LooksFresh(v, elem) /\ SlidersFit(v) /\ v.elements = w.elements
<1>1. /\ DOMAIN w = Field /\ IsTree(w.tree)
      /\ {"WAPP", "WMOVER", "WVSB", "WHSB"} \subseteq Widget \ {"WVSLIDER", "WHSLIDER"}
      /\ "WVSLIDER" \in Widget \ {"WHSLIDER"} /\ "WHSLIDER" \in Widget \ {"WVSLIDER"}
  BY DEF Shaped, Widget
<1>2. CASE v = SetVertical(w, p, s)
  <2>1. /\ DOMAIN v = Field /\ v.elements = w.elements /\ v.shown = w.shown
        /\ v.totsize = w.totsize /\ v.worksize = w.worksize /\ v.hslidesize = w.hslidesize
        /\ IsTree(v.tree)
        /\ \A o \in Widget \ {"WVSLIDER"} : v.tree[o] = w.tree[o]
        /\ v.tree["WVSLIDER"].h = Thousandth(v.vslidesize * v.tree["WVSB"].h)
    BY <1>1, <1>2, VerticalIs
  <2>2. Shaped(v) /\ LooksFresh(v, elem)
    BY <2>1, SameLooks
  <2>3. SlidersFit(v)
    BY <1>1, <2>1 DEF SlidersFit
  <2> QED
    BY <2>1, <2>2, <2>3
<1>3. CASE v = SetHorizontal(w, p, s)
  <2>1. /\ DOMAIN v = Field /\ v.elements = w.elements /\ v.shown = w.shown
        /\ v.totsize = w.totsize /\ v.worksize = w.worksize /\ v.vslidesize = w.vslidesize
        /\ IsTree(v.tree)
        /\ \A o \in Widget \ {"WHSLIDER"} : v.tree[o] = w.tree[o]
        /\ v.tree["WHSLIDER"].w = Thousandth(v.hslidesize * v.tree["WHSB"].w)
    BY <1>1, <1>3, HorizontalIs
  <2>2. Shaped(v) /\ LooksFresh(v, elem)
    BY <2>1, SameLooks
  <2>3. SlidersFit(v)
    BY <1>1, <2>1 DEF SlidersFit
  <2> QED
    BY <2>1, <2>2, <2>3
<1> QED
  BY <1>2, <1>3

\* A window that looks like a new one looks like a new one of its new size.
LEMMA SizedFresh ==
  ASSUME NEW w, Shaped(w), NEW elem, LooksFresh(w, elem), NEW size \in Rectangle,
         NEW v, v = Wind_set_size(w, size)
  PROVE  /\ Shaped(v) /\ LooksFresh(v, elem) /\ SlidersFit(v)
         /\ v.elements = w.elements /\ v.totsize = size
<1> DEFINE d == Delta(size, w.totsize)
           old == Fresh(w.totsize, elem)
           new == Fresh(size, elem)
<1>1. /\ DOMAIN w = Field /\ w.totsize \in Rectangle
      /\ IsTree(w.tree) /\ SameFixed(WINDOW, w.tree) /\ w.tree[Root] = w.totsize
      /\ \A o \in w.shown : o \in Hideable
  BY DEF Shaped
<1>2. /\ w.shown = old.shown
      /\ \A o \in w.shown \ {"BFILLOUT", "WAPP"} : w.tree[o] = old.tree[o]
      /\ w.worksize = calcworksize(elem, w.totsize)
  BY DEF LooksFresh
<1>3. Agree(old, new, w.totsize, d)
  BY <1>1, FreshAgree
<1>4. /\ old.shown = new.shown
      /\ \A o \in old.shown \ {"BFILLOUT", "WAPP"} : new.tree[o] = Plus(old.tree[o], Shift(o, d))
  BY <1>3 DEF Agree
<1>5. d \in Rectangle /\ Plus(calcworksize(elem, w.totsize), d) = calcworksize(elem, size)
  BY <1>1, Sums, WorkFollows
<1> HIDE DEF d, old, new
<1>6. PICK moved : moved = [o \in Widget |-> IF o = Root THEN size ELSE Plus(w.tree[o], Shift(o, d))]
  OBVIOUS
<1>7. PICK named : named = [moved EXCEPT !["WAPP"].w = moved["WMOVER"].w]
  OBVIOUS
<1>8. PICK z : z = [w EXCEPT !.totsize = size, !.worksize = Plus(@, d), !.tree = named]
  OBVIOUS
<1>9. v = SetHorizontal(SetVertical(z, -1, -1), -1, -1)
  BY <1>1, <1>6, <1>7, <1>8, Zenon DEF Wind_set_size, IsTree, d
<1>10. /\ Solid \subseteq Widget \ {Root} /\ Loose \subseteq Widget \ {Root} /\ Root \in Widget
       /\ {"WAPP", "WMOVER", "WVSB", "WHSB", "WVSLIDER", "WHSLIDER"} \subseteq Widget \ {Root}
       /\ "WAPP" \in Loose /\ "WAPP" \notin Solid /\ "WMOVER" \in Solid
       /\ FixedWidth \subseteq Solid /\ FixedHeight \subseteq Solid
  BY DEF Widget, Solid, Loose, Root, FixedWidth, FixedHeight
<1>11. \A o \in Solid : Plus(w.tree[o], Shift(o, d)) \in Rectangle
  <2>1. ASSUME NEW o \in Solid PROVE Plus(w.tree[o], Shift(o, d)) \in Rectangle
    <3>1. Shift(o, d) \in Rectangle
      BY <1>5, ShiftIs DEF Rectangle
    <3>2. w.tree[o] \in Rectangle
      BY <1>1 DEF IsTree
    <3> QED
      BY <3>1, <3>2, Sums
  <2> QED
    BY <2>1
<1>12. \A o : DOMAIN Plus(w.tree[o], Shift(o, d)) = Side
  BY DEF Plus, Side
<1>13. /\ DOMAIN moved = Widget /\ moved[Root] = size
       /\ \A o \in Widget \ {Root} : moved[o] = Plus(w.tree[o], Shift(o, d))
  BY <1>6, <1>10
<1>14. /\ DOMAIN named = Widget
       /\ \A o \in Widget \ {"WAPP"} : named[o] = moved[o]
       /\ DOMAIN named["WAPP"] = Side /\ named["WAPP"].w = moved["WMOVER"].w
  <2>1. DOMAIN moved["WAPP"] = Side
    BY <1>10, <1>12, <1>13
  <2> QED
    BY <1>7, <1>10, <1>13, <2>1 DEF Side
<1>15. IsTree(named)
  <2>1. \A o \in Solid \cup {Root} : named[o] \in Rectangle
    BY <1>10, <1>11, <1>13, <1>14
  <2>2. \A o \in Loose : DOMAIN named[o] = Side
    BY <1>10, <1>12, <1>13, <1>14
  <2> QED
    BY <1>14, <2>1, <2>2 DEF IsTree
<1>16. SameFixed(WINDOW, named)
  <2>1. ASSUME NEW o \in FixedWidth PROVE WINDOW[o].w = named[o].w
    <3>1. o \in Solid /\ w.tree[o] \in Rectangle /\ WINDOW[o].w = w.tree[o].w
      BY <1>1, <1>10 DEF IsTree, SameFixed
    <3>2. Shift(o, d).w = 0
      BY <3>1, ShiftIs DEF FixedWidth
    <3>3. named[o] = Plus(w.tree[o], Shift(o, d))
      BY <1>10, <1>13, <1>14, <3>1
    <3> QED
      BY <3>1, <3>2, <3>3 DEF Plus, Rectangle
  <2>2. ASSUME NEW o \in FixedHeight PROVE WINDOW[o].h = named[o].h
    <3>1. o \in Solid /\ w.tree[o] \in Rectangle /\ WINDOW[o].h = w.tree[o].h
      BY <1>1, <1>10 DEF IsTree, SameFixed
    <3>2. Shift(o, d).h = 0
      BY <3>1, ShiftIs DEF FixedHeight
    <3>3. named[o] = Plus(w.tree[o], Shift(o, d))
      BY <1>10, <1>13, <1>14, <3>1
    <3> QED
      BY <3>1, <3>2, <3>3 DEF Plus, Rectangle
  <2> QED
    BY <2>1, <2>2 DEF SameFixed
<1>17. /\ DOMAIN z = Field /\ z.elements = w.elements /\ z.shown = w.shown /\ z.totsize = size
       /\ z.worksize = Plus(w.worksize, d) /\ z.tree = named
  BY <1>1, <1>8 DEF Field
<1>18. Shaped(z)
  BY <1>1, <1>10, <1>13, <1>14, <1>15, <1>16, <1>17 DEF Shaped
<1>19. LooksFresh(z, elem)
  <2>1. ASSUME NEW o \in z.shown \ {"BFILLOUT", "WAPP"} PROVE z.tree[o] = new.tree[o]
    <3>1. o \in Solid /\ o \in old.shown \ {"BFILLOUT", "WAPP"} /\ o \in Widget \ {Root, "WAPP"}
      BY <1>1, <1>2, <1>10, <1>17, <2>1 DEF Hideable
    <3>2. z.tree[o] = Plus(w.tree[o], Shift(o, d))
      BY <1>13, <1>14, <1>17, <3>1
    <3> QED
      BY <1>2, <1>4, <3>1, <3>2
  <2>2. z.shown = new.shown /\ z.worksize = calcworksize(elem, size)
    BY <1>2, <1>4, <1>5, <1>17
  <2> QED
    BY <1>17, <2>1, <2>2 DEF LooksFresh, new
<1>20. PICK y : y = SetVertical(z, -1, -1)
  OBVIOUS
<1>21. /\ DOMAIN y = Field /\ y.elements = z.elements /\ y.shown = z.shown
       /\ y.totsize = z.totsize /\ y.worksize = z.worksize
       /\ IsTree(y.tree)
       /\ \A o \in Widget \ {"WVSLIDER"} : y.tree[o] = z.tree[o]
       /\ y.tree["WVSLIDER"].h = Thousandth(y.vslidesize * y.tree["WVSB"].h)
  BY <1>15, <1>17, <1>20, VerticalIs
<1>22. v = SetHorizontal(y, -1, -1)
  BY <1>9, <1>20
<1>23. /\ DOMAIN v = Field /\ v.elements = y.elements /\ v.shown = y.shown
       /\ v.totsize = y.totsize /\ v.worksize = y.worksize /\ v.vslidesize = y.vslidesize
       /\ IsTree(v.tree)
       /\ \A o \in Widget \ {"WHSLIDER"} : v.tree[o] = y.tree[o]
       /\ v.tree["WHSLIDER"].w = Thousandth(v.hslidesize * v.tree["WHSB"].w)
  BY <1>21, <1>22, HorizontalIs
<1>24. /\ v.elements = w.elements /\ v.shown = z.shown /\ v.totsize = z.totsize
       /\ v.worksize = z.worksize
       /\ \A o \in Widget \ {"WVSLIDER", "WHSLIDER"} : v.tree[o] = z.tree[o]
  BY <1>17, <1>21, <1>23
<1>25. Shaped(v) /\ LooksFresh(v, elem)
  BY <1>18, <1>19, <1>23, <1>24, SameLooks
<1>26. SlidersFit(v)
  <2>1. v.tree["WAPP"] = named["WAPP"] /\ v.tree["WMOVER"] = named["WMOVER"]
    BY <1>17, <1>24 DEF Widget
  <2>2. named["WMOVER"] = moved["WMOVER"]
    BY <1>10, <1>14
  <2>3. v.tree["WVSLIDER"] = y.tree["WVSLIDER"] /\ v.tree["WVSB"] = y.tree["WVSB"]
    BY <1>23 DEF Widget
  <2> QED
    BY <1>14, <1>21, <1>23, <2>1, <2>2, <2>3 DEF SlidersFit
<1> QED
  BY <1>17, <1>24, <1>25, <1>26

\* What the server does with its sizes leaves the icon alone.
LEMMA ServerKeeps ==
  ASSUME NEW s, DOMAIN s = {"totsize", "worksize", "open", "iconified"}, NEW size,
         NEW t, t = setwinsize(s, size)
  PROVE  DOMAIN t = {"totsize", "worksize", "open", "iconified"} /\ t.iconified = s.iconified
BY DEF setwinsize

\* A step after which the library's window looks fresh.
LEMMA LaidOut ==
  ASSUME NEW w, NEW elem, NEW s, ws' = w, win' = s,
         Shaped(w), LooksFresh(w, elem), SlidersFit(w),
         DOMAIN s = {"totsize", "worksize", "open", "iconified"}, s.iconified \in BOOLEAN,
         elem = IF s.iconified THEN {"IMOVER"} ELSE w.elements
  PROVE  LayoutInv'
BY DEF LayoutInv, Elem, Shaped, LooksFresh, SlidersFit

\* A new window.
LEMMA CreateLooks ==
  ASSUME NEW elem, Wind_do_create(elem)
  PROVE  LayoutInv'
<1> DEFINE new == [elements |-> elem, tree |-> WINDOW, shown |-> {},
                   totsize |-> WINDOW[Root], worksize |-> WINDOW[Root],
                   vslidepos |-> 1, vslidesize |-> 1000,
                   hslidepos |-> 1, hslidesize |-> 1000]
<1> DEFINE dressed == Dressed(new, elem)
<1> DEFINE created == [totsize |-> dressed.totsize, worksize |-> dressed.worksize,
                       open |-> FALSE, iconified |-> FALSE]
<1>a. ws' = Wind_set_size(dressed, dressed.totsize) /\ win' = created
  BY DEF Wind_do_create
<1>b. \E n : n = new
  <2> HIDE DEF new
  <2> QED OBVIOUS
<1>1. PICK n : n = new
  <2> HIDE DEF new
  <2> QED BY <1>b
<1>2. PICK d : d = Dressed(n, elem)
  OBVIOUS
<1>3. PICK w : w = Wind_set_size(d, d.totsize)
  OBVIOUS
<1>4. PICK s : s = [totsize |-> d.totsize, worksize |-> d.worksize,
                    open |-> FALSE, iconified |-> FALSE]
  OBVIOUS
<1>5. ws' = w /\ win' = s
  <2>1. dressed = d
    <3> HIDE DEF new
    <3> QED BY <1>1, <1>2
  <2>2. created = s
    <3> HIDE DEF dressed
    <3> QED BY <2>1, <1>4
  <2> HIDE DEF dressed, created
  <2> QED BY <1>a, <1>3, <2>1, <2>2
<1>6. /\ DOMAIN n = Field /\ n.elements = elem /\ n.totsize = WINDOW[Root]
      /\ n.tree = WINDOW /\ n.shown = {}
  BY <1>1 DEF Field
<1>7. /\ DOMAIN WINDOW = Widget /\ \A o \in Widget : WINDOW[o] \in Rectangle
      /\ Solid \cup {Root} \subseteq Widget /\ Loose \subseteq Widget
  BY ResourceAssumption DEF Widget, Loose, Solid, Root
<1>8. IsTree(WINDOW)
  BY <1>7 DEF IsTree, Rectangle, Side
<1>9. Shaped(n)
  BY <1>6, <1>7, <1>8 DEF Shaped, SameFixed
<1>10. Shaped(d) /\ LooksFresh(d, elem) /\ d.elements = n.elements /\ d.totsize = n.totsize
  BY <1>2, <1>9, DressedFresh
<1>11. d.totsize \in Rectangle
  BY <1>10 DEF Shaped
<1>12. Shaped(w) /\ LooksFresh(w, elem) /\ SlidersFit(w) /\ w.elements = d.elements
  BY <1>3, <1>10, <1>11, SizedFresh
<1>13. /\ DOMAIN s = {"totsize", "worksize", "open", "iconified"} /\ s.iconified \in BOOLEAN
       /\ elem = IF s.iconified THEN {"IMOVER"} ELSE w.elements
  BY <1>4, <1>6, <1>10, <1>12
<1> QED
  BY <1>5, <1>12, <1>13, LaidOut

\* The window gets a size, and with it the clothes of a window or of an icon.
LEMMA SizeLooks ==
  ASSUME LayoutInv, ws # NoWindow, NEW size \in Rectangle, NEW elem, NEW d,
         \/ d = ws /\ elem = Elem
         \/ d = Dressed(ws, elem),
         NEW w, w = Wind_set_size(d, size)
  PROVE  Shaped(w) /\ LooksFresh(w, elem) /\ SlidersFit(w) /\ w.elements = ws.elements
<1>1. Shaped(ws) /\ LooksFresh(ws, Elem)
  BY DEF LayoutInv
<1>2. Shaped(d) /\ LooksFresh(d, elem) /\ d.elements = ws.elements
  BY <1>1, DressedFresh
<1> QED
  BY <1>2, SizedFresh

\* Each step keeps the layout.
LEMMA LayoutStep ==
  ASSUME LayoutInv, [FrameNext]_frameVars
  PROVE  LayoutInv'
<1> DEFINE Names == {"totsize", "worksize", "open", "iconified"}
<1>1. ASSUME NEW elem \in Elements, Wind_do_create(elem)
      PROVE  LayoutInv'
  BY <1>1, CreateLooks
<1>2. ASSUME NEW size \in Sizes, Wind_do_open(size)
      PROVE  LayoutInv'
  <2>1. PICK w : w = Wind_set_size(ws, size)
    OBVIOUS
  <2>2. PICK t : t = setwinsize(win, size)
    OBVIOUS
  <2>3. PICK s : s = IF win.open THEN win ELSE [t EXCEPT !.open = TRUE]
    OBVIOUS
  <2>4. ws # NoWindow /\ ws' = w /\ win' = s /\ size \in Rectangle
    BY <1>2, <2>1, <2>2, <2>3, SizesAssumption DEF Wind_do_open
  <2>5. DOMAIN win = Names /\ win.iconified \in BOOLEAN
    BY <2>4 DEF LayoutInv
  <2>6. DOMAIN t = Names /\ t.iconified = win.iconified
    BY <2>2, <2>5, ServerKeeps
  <2>7. DOMAIN s = Names /\ s.iconified = win.iconified
    BY <2>3, <2>5, <2>6
  <2>8. Shaped(w) /\ LooksFresh(w, Elem) /\ SlidersFit(w) /\ w.elements = ws.elements
    BY <2>1, <2>4, SizeLooks
  <2>9. Elem = IF s.iconified THEN {"IMOVER"} ELSE w.elements
    BY <2>7, <2>8 DEF Elem
  <2> QED
    BY <2>4, <2>5, <2>7, <2>8, <2>9, LaidOut
<1>3. ASSUME NEW size \in Sizes, Wind_set_currxywh(size)
      PROVE  LayoutInv'
  <2>1. PICK w : w = Wind_set_size(ws, size)
    OBVIOUS
  <2>2. PICK s : s = setwinsize(win, size)
    OBVIOUS
  <2>3. ws # NoWindow /\ ws' = w /\ win' = s /\ size \in Rectangle
    BY <1>3, <2>1, <2>2, SizesAssumption DEF Wind_set_currxywh
  <2>4. DOMAIN win = Names /\ win.iconified \in BOOLEAN
    BY <2>3 DEF LayoutInv
  <2>5. DOMAIN s = Names /\ s.iconified = win.iconified
    BY <2>2, <2>4, ServerKeeps
  <2>6. Shaped(w) /\ LooksFresh(w, Elem) /\ SlidersFit(w) /\ w.elements = ws.elements
    BY <2>1, <2>3, SizeLooks
  <2>7. Elem = IF s.iconified THEN {"IMOVER"} ELSE w.elements
    BY <2>5, <2>6 DEF Elem
  <2> QED
    BY <2>3, <2>4, <2>5, <2>6, <2>7, LaidOut
<1>4. ASSUME NEW size \in Sizes, Wind_set_iconify(size)
      PROVE  LayoutInv'
  <2>1. PICK elem : elem = {"IMOVER"}
    OBVIOUS
  <2>2. PICK d : d = Dressed(ws, elem)
    OBVIOUS
  <2>3. PICK w : w = Wind_set_size(d, size)
    OBVIOUS
  <2>4. PICK t : t = setwinsize(win, size)
    OBVIOUS
  <2>5. PICK s : s = [t EXCEPT !.iconified = TRUE]
    OBVIOUS
  <2>6. ws # NoWindow /\ ws' = w /\ win' = s /\ size \in Rectangle
    BY <1>4, <2>1, <2>2, <2>3, <2>4, <2>5, SizesAssumption DEF Wind_set_iconify
  <2>7. DOMAIN t = Names
    BY <2>4, <2>6, ServerKeeps DEF LayoutInv
  <2>8. DOMAIN s = Names /\ s.iconified = TRUE
    BY <2>5, <2>7
  <2>9. Shaped(w) /\ LooksFresh(w, elem) /\ SlidersFit(w)
    BY <2>2, <2>3, <2>6, SizeLooks
  <2>10. s.iconified \in BOOLEAN /\ elem = IF s.iconified THEN {"IMOVER"} ELSE w.elements
    BY <2>1, <2>8
  <2> QED
    BY <2>6, <2>8, <2>9, <2>10, LaidOut
<1>5. ASSUME NEW size \in Sizes, Wind_set_uniconify(size)
      PROVE  LayoutInv'
  <2>1. PICK elem : elem = ws.elements
    OBVIOUS
  <2>2. PICK d : d = Dressed(ws, elem)
    OBVIOUS
  <2>3. PICK w : w = Wind_set_size(d, size)
    OBVIOUS
  <2>4. PICK t : t = setwinsize(win, size)
    OBVIOUS
  <2>5. PICK s : s = [t EXCEPT !.iconified = FALSE]
    OBVIOUS
  <2>6. ws # NoWindow /\ ws' = w /\ win' = s /\ size \in Rectangle
    BY <1>5, <2>1, <2>2, <2>3, <2>4, <2>5, SizesAssumption DEF Wind_set_uniconify
  <2>7. DOMAIN t = Names
    BY <2>4, <2>6, ServerKeeps DEF LayoutInv
  <2>8. DOMAIN s = Names /\ s.iconified = FALSE
    BY <2>5, <2>7
  <2>9. Shaped(w) /\ LooksFresh(w, elem) /\ SlidersFit(w) /\ w.elements = ws.elements
    BY <2>2, <2>3, <2>6, SizeLooks
  <2>10. s.iconified \in BOOLEAN /\ elem = IF s.iconified THEN {"IMOVER"} ELSE w.elements
    BY <2>1, <2>8, <2>9
  <2> QED
    BY <2>6, <2>8, <2>9, <2>10, LaidOut
<1>6. ASSUME NEW n, NEW m, Wind_set_slider(n, m)
      PROVE  LayoutInv'
  <2>1. PICK w : w = SetVertical(ws, n, m) \/ w = SetHorizontal(ws, n, m)
    OBVIOUS
  <2>2. ASSUME NEW v, v = SetVertical(ws, n, m) \/ v = SetHorizontal(ws, n, m), ws' = v
        PROVE  LayoutInv'
    <3>1. ws # NoWindow /\ win' = win
      BY <1>6 DEF Wind_set_slider
    <3>2. /\ Shaped(ws) /\ LooksFresh(ws, Elem) /\ SlidersFit(ws)
          /\ DOMAIN win = Names /\ win.iconified \in BOOLEAN
      BY <3>1 DEF LayoutInv
    <3>3. Shaped(v) /\ LooksFresh(v, Elem) /\ SlidersFit(v) /\ v.elements = ws.elements
      BY <2>2, <3>2, SlidFresh
    <3>4. Elem = IF win.iconified THEN {"IMOVER"} ELSE v.elements
      BY <3>3 DEF Elem
    <3> QED
      BY <2>2, <3>1, <3>2, <3>3, <3>4, LaidOut
  <2> QED
    BY <1>6, <2>2 DEF Wind_set_slider
<1>7. CASE Wind_do_close
  <2>1. ws' = ws /\ win' = [win EXCEPT !.open = FALSE] /\ ws # NoWindow
    BY <1>7 DEF Wind_do_close
  <2>2. DOMAIN win' = Names /\ win'.iconified = win.iconified
    BY <2>1 DEF LayoutInv
  <2> QED
    BY <2>1, <2>2 DEF LayoutInv, Elem, Shaped, LooksFresh, SlidersFit
<1>8. CASE Wind_do_delete
  BY <1>8 DEF Wind_do_delete, LayoutInv
<1>9. CASE UNCHANGED frameVars
  BY <1>9 DEF frameVars, LayoutInv, Elem, Shaped, LooksFresh, SlidersFit
<1> QED
  BY <1>1, <1>2, <1>3, <1>4, <1>5, <1>6, <1>7, <1>8, <1>9, Zenon DEF FrameNext

\* However often a window has changed its size, was made an icon and a window
\* again, its widgets, its work area and its sliders are those of a new window of
\* this size, for every resource and every set of elements; the filler at the
\* bottom, which the code moves by the wrong distance (wind.c:477), aside.
THEOREM LayoutIsThatOfANewWindow ==
  ASSUME "BFILLOUT" \in Adrift
  PROVE  FrameSpec => []LayoutIsKept
<1>1. FrameInit => LayoutInv
  BY DEF FrameInit, LayoutInv
<1>2. LayoutInv /\ [FrameNext]_frameVars => LayoutInv'
  BY LayoutStep
<1>3. LayoutInv => LayoutIsKept
  <2> SUFFICES ASSUME LayoutInv, ws # NoWindow
               PROVE  LET fresh == Fresh(ws.totsize, Elem)
                      IN  /\ ws.shown = fresh.shown
                          /\ \A o \in Packed \cup {Root} : ws.tree[o] = fresh.tree[o]
                          /\ ws.worksize = calcworksize(Elem, ws.totsize)
                          /\ ws.tree["WAPP"].w = ws.tree["WMOVER"].w
                          /\ ws.tree["WVSLIDER"].h = Thousandth(ws.vslidesize * ws.tree["WVSB"].h)
                          /\ ws.tree["WHSLIDER"].w = Thousandth(ws.hslidesize * ws.tree["WHSB"].w)
    BY Zenon DEF LayoutIsKept, Fresh, Blank
  <2>1. Shaped(ws) /\ LooksFresh(ws, Elem) /\ SlidersFit(ws)
    BY DEF LayoutInv
  <2>2. Fresh(ws.totsize, Elem).tree[Root] = ws.totsize
    <3>1. Agree(Fresh(ws.totsize, Elem), Fresh(ws.totsize, Elem), ws.totsize, Delta(ws.totsize, ws.totsize))
      BY <2>1, FreshAgree DEF Shaped
    <3> QED
      BY <3>1 DEF Agree
  <2>3. Packed \subseteq ws.shown \ {"BFILLOUT", "WAPP"}
    BY DEF Packed
  <2> QED
    BY <2>1, <2>2, <2>3 DEF Shaped, LooksFresh, SlidersFit
<1> QED
  BY <1>1, <1>2, <1>3, PTL DEF FrameSpec

=============================================================================
