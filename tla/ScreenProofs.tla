---------------------------- MODULE ScreenProofs ----------------------------
(***************************************************************************)
(* The applications give the screen back, keep the cursor, take the locks  *)
(* in order and use each click once, however many they are.                *)
(***************************************************************************)
EXTENDS Screen, TLAPS

-----------------------------------------------------------------------------
(* What is known of an application before a step, and a logic of steps.    *)

Thing == {"arrow", "name", "sizer", "smaller", "closer", "fuller", "slider", "entry", "title",
          "saved", "box", "own", "cursor", "fslider", "border"}
Errand == {"other", "slider", "redraw", "application"}

\* Who may ask for MCTRL inside UPDATE.
Foremost == {"slider", "application"}
Event == UNION {UNION Asks[c] : c \in Client}

\* The locks that were begun and not ended, what may be marked, the clicks that
\* are left to be used, where in "form" the application's own form is, whether
\* it may change the form, and whether "got" has BUTTON.
State == [update : Nat, mctrl : Nat, doing : Errand, hidden : Nat, lines : BOOLEAN,
          marks : SUBSET Thing, clicks : Nat, form : {"own", "last", "any"},
          free : BOOLEAN, asked : SUBSET Event, pressed : {"yes", "no", "maybe"}]

\* State r tells no more than state q.
Under(q, r) ==
  /\ r.update = q.update /\ r.mctrl = q.mctrl /\ r.doing = q.doing
  /\ r.hidden = q.hidden /\ r.lines = q.lines /\ r.free = q.free /\ r.asked = q.asked
  /\ q.marks \subseteq r.marks /\ r.clicks <= q.clicks
  /\ r.form \in {q.form, "any"} /\ r.pressed \in {q.pressed, "maybe"}

\* Steps t in state q are among the pairs S.
Reaches(t, q, S) == \E r \in State : Under(q, r) /\ <<t, r>> \in S

\* An application that is not in a call, or waits for events.
Home(q) ==
  /\ q.update = 0 /\ q.mctrl = 0 /\ q.doing = "other"
  /\ q.hidden = 0 /\ ~q.lines /\ q.marks \subseteq {"own"} /\ q.form = "own"

Begun(q, l) == IF l = "UPDATE" THEN [q EXCEPT !.update = @ + 1] ELSE [q EXCEPT !.mctrl = @ + 1]
Ended(q, l) == IF l = "UPDATE" THEN [q EXCEPT !.update = @ - 1] ELSE [q EXCEPT !.mctrl = @ - 1]
Count(q, l) == IF l = "UPDATE" THEN q.update ELSE q.mctrl

\* The form that is set, or restored.
Formed(q, f) ==
  [q EXCEPT !.hidden = 0,
            !.form = IF f = "ARROW" \/ (f = "M_RESTORE" /\ q.form = "last") THEN "own"
                     ELSE IF q.form = "own" THEN "last" ELSE "any"]

\* MCTRL is asked for inside UPDATE by the slider and in the application's own
\* UPDATE only, and nobody stands in line with the cursor hidden, but for a redraw.
MayBegin(q, l) ==
  /\ q.hidden = 0 \/ q.doing = "redraw"
  /\ l = "MCTRL" => q.update = 0 \/ q.mctrl > 0 \/ q.doing \in Foremost
  /\ l \in {"UPDATE", "MCTRL"}

\* The first of the steps t is allowed in state q, and what it leads to is in S.
May(t, q, S) ==
  IF t = <<>> THEN Home(q) ELSE
  LET s == Head(t)
      r == Tail(t)
      kind == DOMAIN Head(t)
  IN
  /\ "granted" \notin kind
  /\ "beg" \in kind => MayBegin(q, s.beg) /\ Reaches(r, Begun(q, s.beg), S)
  /\ "end" \in kind =>
       /\ s.end \in {"UPDATE", "MCTRL"} /\ Count(q, s.end) > 0
       /\ Reaches(r, Ended(q, s.end), S)
  /\ "mouse" \in kind =>
       /\ s.mouse \in {"M_OFF", "v_hide_c", "M_ON", "v_show_c"}
       /\ Reaches(r, [q EXCEPT !.hidden = Shown(@, s.mouse)], S)
  /\ "form" \in kind => q.free /\ Reaches(r, Formed(q, s.form), S)
  /\ "mark" \in kind =>
       /\ s.mark \in Thing /\ (s.mark = "cursor" \/ "bare" \in kind \/ q.hidden > 0)
       /\ Reaches(r, [q EXCEPT !.marks = @ \cup {s.mark}], S)
  /\ "clear" \in kind =>
       /\ s.clear = "cursor" \/ q.hidden > 0
       /\ Reaches(r, [q EXCEPT !.marks = @ \ {s.clear}], S)
  /\ "unselect" \in kind => Reaches(r, [q EXCEPT !.marks = @ \ {s.unselect}], S)
  /\ "line" \in kind => q.hidden > 0 /\ Reaches(r, [q EXCEPT !.lines = ~@], S)
  /\ "wait" \in kind =>
       /\ q.hidden = 0
       /\ Reaches(r, [q EXCEPT !.pressed = IF s.wait = {BUTTON} THEN "yes" ELSE "maybe"], S)
  /\ "send" \in kind =>
       IF s.send = "menu" THEN Reaches(r, q, S)
       ELSE q.clicks > 0 /\ Reaches(r, [q EXCEPT !.clicks = @ - 1], S)
  /\ "report" \in kind =>
       /\ s.report \subseteq q.asked
       /\ IF BUTTON \in s.report THEN q.clicks > 0 /\ Reaches(r, [q EXCEPT !.clicks = @ - 1], S)
          ELSE Reaches(r, q, S)
  /\ "note" \in kind => s.note # BUTTON /\ Reaches(r, q, S)
  /\ "doing" \in kind => s.doing \in Errand /\ Reaches(r, [q EXCEPT !.doing = s.doing], S)
  /\ "either" \in kind => \A k \in {1, 2} : Reaches(s.either[k] \o r, q, S)
  /\ "when" \in kind =>
       /\ \/ s.when = BUTTON /\ q.pressed = "no"
          \/ Reaches(s.then \o r,
                  [q EXCEPT !.pressed = IF s.when = BUTTON THEN "yes" ELSE @], S)
       /\ \/ s.when = BUTTON /\ q.pressed = "yes"
          \/ Reaches(s.else \o r, [q EXCEPT !.marks = @ \ {s.when},
                                     !.pressed = IF s.when = BUTTON THEN "no" ELSE @], S)
  /\ "until" \in kind =>
       Reaches((s.body \o <<[still |-> s.until, body |-> s.body]>>) \o r, q, S)
  /\ "still" \in kind =>
       /\ \/ s.still = BUTTON /\ q.pressed = "no"
          \/ Reaches(r, [q EXCEPT !.pressed = "no"], S)
       /\ \/ s.still = BUTTON /\ q.pressed = "yes"
          \/ Reaches((s.body \o <<s>>) \o r, q, S)
  /\ "unless" \in kind => s = [unless |-> Multi] /\ r = <<>> /\ Home(q) /\ q.free
  /\ "multi" \in kind => r = <<>> /\ Home(q) /\ q.free

IsSteps(p) == \E T : p \in Seq(T)

\* Whatever the pairs S lead to is in S or in X.
ClosedIn(S, X) ==
  \A t, q : <<t, q>> \in S => q \in State /\ IsSteps(t) /\ May(t, q, S \cup X)

\* Steps p are allowed in state q and end in state r, or in none.
Does(p, q, r) ==
  /\ IsSteps(p) /\ q \in State /\ r \in State
  /\ \A t, X : IsSteps(t) /\ Reaches(t, r, X) =>
       \E S : ClosedIn(S, X) /\ Reaches(p \o t, q, S \cup X)

-----------------------------------------------------------------------------
\* Sequences of whatever elements.
LEMMA Steps ==
  /\ IsSteps(<<>>)
  /\ \A a : IsSteps(<<a>>)
  /\ \A a, b : IsSteps(a) /\ IsSteps(b) => IsSteps(a \o b)
<1>1. IsSteps(<<>>)
  BY DEF IsSteps
<1>2. ASSUME NEW a
      PROVE  IsSteps(<<a>>)
  <2>1. <<a>> \in Seq({a})
    OBVIOUS
  <2> QED
    BY <2>1 DEF IsSteps
<1>3. ASSUME NEW a, NEW b, IsSteps(a), IsSteps(b)
      PROVE  IsSteps(a \o b)
  <2>1. PICK T : a \in Seq(T)
    BY <1>3 DEF IsSteps
  <2>2. PICK U : b \in Seq(U)
    BY <1>3 DEF IsSteps
  <2>3. a \in Seq(T \cup U) /\ b \in Seq(T \cup U)
    BY <2>1, <2>2
  <2>4. a \o b \in Seq(T \cup U)
    BY <2>3
  <2> QED
    BY <2>4 DEF IsSteps
<1> QED
  BY <1>1, <1>2, <1>3

\* Sequences are put together in any order.
LEMMA Together3 ==
  ASSUME NEW a, NEW b, NEW c, IsSteps(a), IsSteps(b), IsSteps(c)
  PROVE  (a \o b) \o c = a \o (b \o c)
<1>1. PICK T : a \in Seq(T)
  BY DEF IsSteps
<1>2. PICK U : b \in Seq(U)
  BY DEF IsSteps
<1>3. PICK V : c \in Seq(V)
  BY DEF IsSteps
<1>4. PICK W : W = T \cup U \cup V
  OBVIOUS
<1>5. a \in Seq(W) /\ b \in Seq(W) /\ c \in Seq(W)
  BY <1>1, <1>2, <1>3, <1>4
<1> QED
  BY <1>5

\* The empty sequence, and the first element.
LEMMA Ends2 ==
  ASSUME NEW t, IsSteps(t)
  PROVE  /\ <<>> \o t = t /\ t \o <<>> = t
         /\ \A s : /\ <<s>> \o t # <<>> /\ Head(<<s>> \o t) = s /\ Tail(<<s>> \o t) = t
<1>1. PICK T : t \in Seq(T)
  BY DEF IsSteps
<1>2. <<>> \o t = t /\ t \o <<>> = t
  BY <1>1
<1>3. ASSUME NEW s
      PROVE  /\ <<s>> \o t # <<>> /\ Head(<<s>> \o t) = s /\ Tail(<<s>> \o t) = t
  <2>1. <<s>> \in Seq(T \cup {s}) /\ t \in Seq(T \cup {s})
    BY <1>1
  <2> QED
    BY <2>1
<1> QED
  BY <1>2, <1>3

\* What tells no more than what tells no more.
LEMMA UnderUnder ==
  ASSUME NEW q \in State, NEW r \in State, NEW s \in State, Under(q, r), Under(r, s)
  PROVE  Under(q, s)
BY DEF Under, State

\* Every state tells no more than itself.
LEMMA UnderSelf ==
  ASSUME NEW q \in State
  PROVE  Under(q, q)
BY DEF Under, State

\* Less is known, and more pairs are allowed.
LEMMA ReachesMore ==
  ASSUME NEW t, NEW q \in State, NEW r \in State, Under(q, r), NEW S, NEW T, Reaches(t, r, S),
         S \subseteq T
  PROVE  Reaches(t, q, T)
BY UnderUnder DEF Reaches

\* What is allowed is allowed with more pairs.
LEMMA MayMore ==
  ASSUME NEW t, NEW q \in State, NEW S, NEW T, S \subseteq T, May(t, q, S)
  PROVE  May(t, q, T)
<1>1. ASSUME NEW u, NEW r, Reaches(u, r, S)
      PROVE  Reaches(u, r, T)
  BY <1>1 DEF Reaches
<1>2. CASE t = <<>>
  BY <1>2 DEF May
<1>3. CASE t # <<>>
  BY <1>1, <1>3, SMTT(60) DEF May
<1> QED
  BY <1>2, <1>3

\* Two sets of pairs that lead into each other and into X.
LEMMA BothClosed ==
  ASSUME NEW S, NEW T, NEW X, ClosedIn(S, T \cup X), ClosedIn(T, X)
  PROVE  ClosedIn(S \cup T, X)
<1> SUFFICES ASSUME NEW t, NEW q, <<t, q>> \in S \cup T
             PROVE  q \in State /\ IsSteps(t) /\ May(t, q, (S \cup T) \cup X)
  BY DEF ClosedIn
<1>1. CASE <<t, q>> \in S
  <2>1. q \in State /\ IsSteps(t) /\ May(t, q, S \cup (T \cup X))
    BY <1>1 DEF ClosedIn
  <2>2. S \cup (T \cup X) \subseteq (S \cup T) \cup X
    OBVIOUS
  <2> QED
    BY <2>1, <2>2, MayMore
<1>2. CASE <<t, q>> \in T
  <2>1. q \in State /\ IsSteps(t) /\ May(t, q, T \cup X)
    BY <1>2 DEF ClosedIn
  <2>2. T \cup X \subseteq (S \cup T) \cup X
    OBVIOUS
  <2> QED
    BY <2>1, <2>2, MayMore
<1> QED
  BY <1>1, <1>2

-----------------------------------------------------------------------------
(* The rules. *)

\* No steps, and less is known.
LEMMA Nothing ==
  ASSUME NEW q \in State, NEW r \in State, Under(q, r)
  PROVE  Does(<<>>, q, r)
<1> SUFFICES ASSUME NEW t, NEW X, IsSteps(t), Reaches(t, r, X)
             PROVE  \E S : ClosedIn(S, X) /\ Reaches(<<>> \o t, q, S \cup X)
  BY Steps DEF Does
<1>1. ClosedIn({}, X)
  BY DEF ClosedIn
<1>2. Reaches(t, q, {} \cup X)
  BY ReachesMore
<1> QED
  BY <1>1, <1>2, Ends2

\* One after the other.
LEMMA Thereafter ==
  ASSUME NEW a, NEW b, NEW q, NEW r, NEW s, Does(a, q, r), Does(b, r, s)
  PROVE  Does(a \o b, q, s)
<1>1. IsSteps(a) /\ IsSteps(b) /\ IsSteps(a \o b) /\ q \in State /\ r \in State /\ s \in State
  BY Steps DEF Does
<1> SUFFICES ASSUME NEW t, NEW X, IsSteps(t), Reaches(t, s, X)
             PROVE  \E S : ClosedIn(S, X) /\ Reaches((a \o b) \o t, q, S \cup X)
  BY <1>1 DEF Does
<1>2. PICK T : ClosedIn(T, X) /\ Reaches(b \o t, r, T \cup X)
  BY DEF Does
<1>3. IsSteps(b \o t)
  BY <1>1, Steps
<1>4. PICK S : ClosedIn(S, T \cup X) /\ Reaches(a \o (b \o t), q, S \cup (T \cup X))
  BY <1>2, <1>3 DEF Does
<1>5. ClosedIn(S \cup T, X)
  BY <1>2, <1>4, BothClosed
<1>6. S \cup (T \cup X) = (S \cup T) \cup X
  OBVIOUS
<1>7. (a \o b) \o t = a \o (b \o t)
  BY <1>1, Together3
<1> QED
  BY <1>4, <1>5, <1>6, <1>7

\* Less is known before, or after.
LEMMA Weaker ==
  ASSUME NEW a, NEW q \in State, NEW r \in State, NEW s \in State, NEW u \in State,
         Under(q, r), Does(a, r, s), Under(s, u)
  PROVE  Does(a, q, u)
<1>1. Does(<<>>, q, r) /\ Does(<<>>, s, u)
  BY Nothing
<1>2. Does(<<>> \o a, q, s)
  BY <1>1, Thereafter
<1>3. Does((<<>> \o a) \o <<>>, q, u)
  BY <1>1, <1>2, Thereafter
<1>4. (<<>> \o a) \o <<>> = a
  BY Ends2 DEF Does
<1> QED
  BY <1>3, <1>4

\* One step that leads to what comes after it.
LEMMA Once ==
  ASSUME NEW s, NEW q \in State, NEW r \in State,
         \A t, X : IsSteps(t) /\ Reaches(t, r, X) => May(<<s>> \o t, q, X)
  PROVE  Does(<<s>>, q, r)
<1> SUFFICES ASSUME NEW t, NEW X, IsSteps(t), Reaches(t, r, X)
             PROVE  \E S : ClosedIn(S, X) /\ Reaches(<<s>> \o t, q, S \cup X)
  BY Steps DEF Does
<1>1. PICK u : u = <<s>> \o t
  OBVIOUS
<1>2. May(u, q, {<<u, q>>} \cup X)
  BY <1>1, MayMore
<1>3. IsSteps(u)
  BY <1>1, Steps
<1>4. ClosedIn({<<u, q>>}, X)
  BY <1>2, <1>3 DEF ClosedIn
<1>5. Reaches(u, q, {<<u, q>>} \cup X)
  BY UnderSelf DEF Reaches
<1> QED
  BY <1>1, <1>4, <1>5

\* Two elements.
LEMMA Join2 ==
  ASSUME NEW a, NEW b
  PROVE  <<a>> \o <<b>> = <<a, b>>
<1>1. PICK T : T = {a, b}
  OBVIOUS
<1>2. a \in T /\ b \in T
  BY <1>1
<1>3. <<a>> \in Seq(T) /\ <<b>> \in Seq(T) /\ <<a, b>> \in Seq(T)
  BY <1>2
<1>4. <<a>> \o <<b>> \in Seq(T)
  BY <1>3
<1>5. /\ Len(<<a>> \o <<b>>) = 2
      /\ (<<a>> \o <<b>>)[1] = a
      /\ (<<a>> \o <<b>>)[2] = b
  BY <1>3
<1>6. /\ Len(<<a, b>>) = 2
      /\ <<a, b>>[1] = a
      /\ <<a, b>>[2] = b
  OBVIOUS
<1>7. \A x, y \in Seq(T) : /\ Len(x) = 2 /\ Len(y) = 2
                           /\ x[1] = y[1]
                           /\ x[2] = y[2]
                           => x = y
  OBVIOUS
<1> QED
  BY <1>3, <1>4, <1>5, <1>6, <1>7

\* Three elements.
LEMMA Join3 ==
  ASSUME NEW a, NEW b, NEW c
  PROVE  <<a, b>> \o <<c>> = <<a, b, c>>
<1>1. PICK T : T = {a, b, c}
  OBVIOUS
<1>2. a \in T /\ b \in T /\ c \in T
  BY <1>1
<1>3. <<a, b>> \in Seq(T) /\ <<c>> \in Seq(T) /\ <<a, b, c>> \in Seq(T)
  BY <1>2
<1>4. <<a, b>> \o <<c>> \in Seq(T)
  BY <1>3
<1>5. /\ Len(<<a, b>> \o <<c>>) = 3
      /\ (<<a, b>> \o <<c>>)[1] = a
      /\ (<<a, b>> \o <<c>>)[2] = b
      /\ (<<a, b>> \o <<c>>)[3] = c
  BY <1>3
<1>6. /\ Len(<<a, b, c>>) = 3
      /\ <<a, b, c>>[1] = a
      /\ <<a, b, c>>[2] = b
      /\ <<a, b, c>>[3] = c
  OBVIOUS
<1>7. \A x, y \in Seq(T) : /\ Len(x) = 3 /\ Len(y) = 3
                           /\ x[1] = y[1]
                           /\ x[2] = y[2]
                           /\ x[3] = y[3]
                           => x = y
  OBVIOUS
<1> QED
  BY <1>3, <1>4, <1>5, <1>6, <1>7

\* Four elements.
LEMMA Join4 ==
  ASSUME NEW a, NEW b, NEW c, NEW d
  PROVE  <<a, b>> \o <<c, d>> = <<a, b, c, d>>
<1>1. PICK T : T = {a, b, c, d}
  OBVIOUS
<1>2. a \in T /\ b \in T /\ c \in T /\ d \in T
  BY <1>1
<1>3. <<a, b>> \in Seq(T) /\ <<c, d>> \in Seq(T) /\ <<a, b, c, d>> \in Seq(T)
  BY <1>2
<1>4. <<a, b>> \o <<c, d>> \in Seq(T)
  BY <1>3
<1>5. /\ Len(<<a, b>> \o <<c, d>>) = 4
      /\ (<<a, b>> \o <<c, d>>)[1] = a
      /\ (<<a, b>> \o <<c, d>>)[2] = b
      /\ (<<a, b>> \o <<c, d>>)[3] = c
      /\ (<<a, b>> \o <<c, d>>)[4] = d
  BY <1>3
<1>6. /\ Len(<<a, b, c, d>>) = 4
      /\ <<a, b, c, d>>[1] = a
      /\ <<a, b, c, d>>[2] = b
      /\ <<a, b, c, d>>[3] = c
      /\ <<a, b, c, d>>[4] = d
  OBVIOUS
<1>7. \A x, y \in Seq(T) : /\ Len(x) = 4 /\ Len(y) = 4
                           /\ x[1] = y[1]
                           /\ x[2] = y[2]
                           /\ x[3] = y[3]
                           /\ x[4] = y[4]
                           => x = y
  OBVIOUS
<1> QED
  BY <1>3, <1>4, <1>5, <1>6, <1>7

\* Two, three and four steps.
LEMMA Two ==
  ASSUME NEW a, NEW b, NEW q, NEW r, NEW s, Does(<<a>>, q, r), Does(<<b>>, r, s)
  PROVE  Does(<<a, b>>, q, s)
<1> QED
  BY Join2, Thereafter

\* Three steps, one after the other.
LEMMA Three ==
  ASSUME NEW a, NEW b, NEW c, NEW q, NEW r, NEW s, NEW t,
         Does(<<a>>, q, r), Does(<<b>>, r, s), Does(<<c>>, s, t)
  PROVE  Does(<<a, b, c>>, q, t)
<1>1. Does(<<a, b>>, q, s)
  BY Two
<1> QED
  BY <1>1, Join3, Thereafter

\* Four steps.
LEMMA Four ==
  ASSUME NEW a, NEW b, NEW c, NEW d, NEW q, NEW r, NEW s, NEW t, NEW u,
         Does(<<a>>, q, r), Does(<<b>>, r, s), Does(<<c>>, s, t), Does(<<d>>, t, u)
  PROVE  Does(<<a, b, c, d>>, q, u)
<1>1. Does(<<a, b>>, q, s) /\ Does(<<c, d>>, s, u)
  BY Two
<1> QED
  BY ZenonT(60), <1>1, Join4, Thereafter
-----------------------------------------------------------------------------
(* One step of each kind. *)

\* A lock is begun.
LEMMA BegDoes ==
  ASSUME NEW q \in State, NEW l, MayBegin(q, l), NEW r, r = Begun(q, l)
  PROVE  Does(<<BEG(l)>>, q, r)
<1>1. r \in State
  BY DEF State, Begun
<1>2. PICK s : s = BEG(l)
  OBVIOUS
<1>3. DOMAIN s = {"beg"} /\ s.beg = l
  BY <1>2 DEF BEG
<1>4. ASSUME NEW t, NEW X, IsSteps(t), Reaches(t, r, X)
      PROVE  May(<<s>> \o t, q, X)
  <2>1. PICK u : u = <<s>> \o t
    OBVIOUS
  <2>2. u # <<>> /\ Head(u) = s /\ Tail(u) = t
    BY <1>4, <2>1, Ends2
  <2>3. May(u, q, X)
    BY <1>3, <1>4, <2>2 DEF May
  <2> QED
    BY <2>1, <2>3
<1>5. Does(<<s>>, q, r)
  BY <1>1, <1>4, Once
<1> QED
  BY <1>2, <1>5

\* A lock is ended.
LEMMA EndDoes ==
  ASSUME NEW q \in State, NEW l \in {"UPDATE", "MCTRL"}, Count(q, l) > 0,
         NEW r, r = Ended(q, l)
  PROVE  Does(<<END(l)>>, q, r)
<1>1. r \in State
  BY DEF State, Ended, Count
<1>2. PICK s : s = END(l)
  OBVIOUS
<1>3. DOMAIN s = {"end"} /\ s.end = l
  BY <1>2 DEF END
<1>4. ASSUME NEW t, NEW X, IsSteps(t), Reaches(t, r, X)
      PROVE  May(<<s>> \o t, q, X)
  <2>1. PICK u : u = <<s>> \o t
    OBVIOUS
  <2>2. u # <<>> /\ Head(u) = s /\ Tail(u) = t
    BY <1>4, <2>1, Ends2
  <2>3. May(u, q, X)
    BY <1>3, <1>4, <2>2 DEF May
  <2> QED
    BY <2>1, <2>3
<1>5. Does(<<s>>, q, r)
  BY <1>1, <1>4, Once
<1> QED
  BY <1>2, <1>5

\* The cursor is hidden or shown.
LEMMA MouseDoes ==
  ASSUME NEW q \in State, NEW m \in {"M_OFF", "v_hide_c", "M_ON", "v_show_c"},
         NEW r, r = [q EXCEPT !.hidden = Shown(@, m)]
  PROVE  Does(<<Mouse(m)>>, q, r)
<1>1. r \in State
  BY DEF State, Shown
<1>2. PICK s : s = Mouse(m)
  OBVIOUS
<1>3. DOMAIN s = {"mouse"} /\ s.mouse = m
  BY <1>2 DEF Mouse
<1>4. ASSUME NEW t, NEW X, IsSteps(t), Reaches(t, r, X)
      PROVE  May(<<s>> \o t, q, X)
  <2>1. PICK u : u = <<s>> \o t
    OBVIOUS
  <2>2. u # <<>> /\ Head(u) = s /\ Tail(u) = t
    BY <1>4, <2>1, Ends2
  <2>3. May(u, q, X)
    BY <1>3, <1>4, <2>2 DEF May
  <2> QED
    BY <2>1, <2>3
<1>5. Does(<<s>>, q, r)
  BY <1>1, <1>4, Once
<1> QED
  BY <1>2, <1>5

\* The form is changed.
LEMMA FormDoes ==
  ASSUME NEW q \in State, NEW f, q.free, NEW r, r = Formed(q, f)
  PROVE  Does(<<Form(f)>>, q, r)
<1>1. r \in State
  BY DEF State, Formed
<1>2. PICK s : s = Form(f)
  OBVIOUS
<1>3. DOMAIN s = {"form"} /\ s.form = f
  BY <1>2 DEF Form
<1>4. ASSUME NEW t, NEW X, IsSteps(t), Reaches(t, r, X)
      PROVE  May(<<s>> \o t, q, X)
  <2>1. PICK u : u = <<s>> \o t
    OBVIOUS
  <2>2. u # <<>> /\ Head(u) = s /\ Tail(u) = t
    BY <1>4, <2>1, Ends2
  <2>3. May(u, q, X)
    BY <1>3, <1>4, <2>2 DEF May
  <2> QED
    BY <2>1, <2>3
<1>5. Does(<<s>>, q, r)
  BY <1>1, <1>4, Once
<1> QED
  BY <1>2, <1>5

\* An object is marked.
LEMMA MarkDoes ==
  ASSUME NEW q \in State, NEW o \in Thing, o = "cursor" \/ q.hidden > 0,
         NEW r, r = [q EXCEPT !.marks = @ \cup {o}]
  PROVE  Does(<<Mark(o)>>, q, r)
<1>1. r \in State
  BY DEF State
<1>2. PICK s : s = Mark(o)
  OBVIOUS
<1>3. DOMAIN s = {"mark"} /\ s.mark = o
  BY <1>2 DEF Mark
<1>4. ASSUME NEW t, NEW X, IsSteps(t), Reaches(t, r, X)
      PROVE  May(<<s>> \o t, q, X)
  <2>1. PICK u : u = <<s>> \o t
    OBVIOUS
  <2>2. u # <<>> /\ Head(u) = s /\ Tail(u) = t
    BY <1>4, <2>1, Ends2
  <2>3. May(u, q, X)
    BY <1>3, <1>4, <2>2 DEF May
  <2> QED
    BY <2>1, <2>3
<1>5. Does(<<s>>, q, r)
  BY <1>1, <1>4, Once
<1> QED
  BY <1>2, <1>5

\* An object is marked, and drawn with the cursor as it is.
LEMMA BareDoes ==
  ASSUME NEW q \in State, NEW o \in Thing, NEW r, r = [q EXCEPT !.marks = @ \cup {o}]
  PROVE  Does(<<Bare(o)>>, q, r)
<1>1. r \in State
  BY DEF State
<1>2. PICK s : s = Bare(o)
  OBVIOUS
<1>3. DOMAIN s = {"mark", "bare"} /\ s.mark = o
  BY <1>2 DEF Bare
<1>4. ASSUME NEW t, NEW X, IsSteps(t), Reaches(t, r, X)
      PROVE  May(<<s>> \o t, q, X)
  <2>1. PICK u : u = <<s>> \o t
    OBVIOUS
  <2>2. u # <<>> /\ Head(u) = s /\ Tail(u) = t
    BY <1>4, <2>1, Ends2
  <2>3. May(u, q, X)
    BY <1>3, <1>4, <2>2 DEF May
  <2> QED
    BY <2>1, <2>3
<1>5. Does(<<s>>, q, r)
  BY <1>1, <1>4, Once
<1> QED
  BY <1>2, <1>5

\* An object is cleared.
LEMMA ClearDoes ==
  ASSUME NEW q \in State, NEW o, o = "cursor" \/ q.hidden > 0,
         NEW r, r = [q EXCEPT !.marks = @ \ {o}]
  PROVE  Does(<<Clear(o)>>, q, r)
<1>1. r \in State
  BY DEF State
<1>2. PICK s : s = Clear(o)
  OBVIOUS
<1>3. DOMAIN s = {"clear"} /\ s.clear = o
  BY <1>2 DEF Clear
<1>4. ASSUME NEW t, NEW X, IsSteps(t), Reaches(t, r, X)
      PROVE  May(<<s>> \o t, q, X)
  <2>1. PICK u : u = <<s>> \o t
    OBVIOUS
  <2>2. u # <<>> /\ Head(u) = s /\ Tail(u) = t
    BY <1>4, <2>1, Ends2
  <2>3. May(u, q, X)
    BY <1>3, <1>4, <2>2 DEF May
  <2> QED
    BY <2>1, <2>3
<1>5. Does(<<s>>, q, r)
  BY <1>1, <1>4, Once
<1> QED
  BY <1>2, <1>5

\* An object is not marked any more.
LEMMA UnselectDoes ==
  ASSUME NEW q \in State, NEW o, NEW r, r = [q EXCEPT !.marks = @ \ {o}]
  PROVE  Does(<<Unselect(o)>>, q, r)
<1>1. r \in State
  BY DEF State
<1>2. PICK s : s = Unselect(o)
  OBVIOUS
<1>3. DOMAIN s = {"unselect"} /\ s.unselect = o
  BY <1>2 DEF Unselect
<1>4. ASSUME NEW t, NEW X, IsSteps(t), Reaches(t, r, X)
      PROVE  May(<<s>> \o t, q, X)
  <2>1. PICK u : u = <<s>> \o t
    OBVIOUS
  <2>2. u # <<>> /\ Head(u) = s /\ Tail(u) = t
    BY <1>4, <2>1, Ends2
  <2>3. May(u, q, X)
    BY <1>3, <1>4, <2>2 DEF May
  <2> QED
    BY <2>1, <2>3
<1>5. Does(<<s>>, q, r)
  BY <1>1, <1>4, Once
<1> QED
  BY <1>2, <1>5

\* A line is drawn, or taken off.
LEMMA LineDoes ==
  ASSUME NEW q \in State, q.hidden > 0, NEW r, r = [q EXCEPT !.lines = ~@]
  PROVE  Does(<<Line>>, q, r)
<1>1. r \in State
  BY DEF State
<1>2. PICK s : s = Line
  OBVIOUS
<1>3. DOMAIN s = {"line"} /\ s.line = "MD_XOR"
  BY <1>2 DEF Line
<1>4. ASSUME NEW t, NEW X, IsSteps(t), Reaches(t, r, X)
      PROVE  May(<<s>> \o t, q, X)
  <2>1. PICK u : u = <<s>> \o t
    OBVIOUS
  <2>2. u # <<>> /\ Head(u) = s /\ Tail(u) = t
    BY <1>4, <2>1, Ends2
  <2>3. May(u, q, X)
    BY <1>3, <1>4, <2>2 DEF May
  <2> QED
    BY <2>1, <2>3
<1>5. Does(<<s>>, q, r)
  BY <1>1, <1>4, Once
<1> QED
  BY <1>2, <1>5

\* Events are waited for.
LEMMA WaitDoes ==
  ASSUME NEW q \in State, NEW E, q.hidden = 0,
         NEW r, r = [q EXCEPT !.pressed = IF E = {BUTTON} THEN "yes" ELSE "maybe"]
  PROVE  Does(<<Wait(E)>>, q, r)
<1>1. r \in State
  BY DEF State
<1>2. PICK s : s = Wait(E)
  OBVIOUS
<1>3. DOMAIN s = {"wait"} /\ s.wait = E
  BY <1>2 DEF Wait
<1>4. ASSUME NEW t, NEW X, IsSteps(t), Reaches(t, r, X)
      PROVE  May(<<s>> \o t, q, X)
  <2>1. PICK u : u = <<s>> \o t
    OBVIOUS
  <2>2. u # <<>> /\ Head(u) = s /\ Tail(u) = t
    BY <1>4, <2>1, Ends2
  <2>3. May(u, q, X)
    BY <1>3, <1>4, <2>2 DEF May
  <2> QED
    BY <2>1, <2>3
<1>5. Does(<<s>>, q, r)
  BY <1>1, <1>4, Once
<1> QED
  BY <1>2, <1>5

\* A message that a click leads to.
LEMMA SendDoes ==
  ASSUME NEW q \in State, NEW m, m # "menu", q.clicks > 0, NEW r,
          r = [q EXCEPT !.clicks = @ - 1]
  PROVE  Does(<<Tell(m)>>, q, r)
<1>1. r \in State
  BY DEF State
<1>2. PICK s : s = Tell(m)
  OBVIOUS
<1>3. DOMAIN s = {"send"} /\ s.send = m
  BY <1>2 DEF Tell
<1>4. ASSUME NEW t, NEW X, IsSteps(t), Reaches(t, r, X)
      PROVE  May(<<s>> \o t, q, X)
  <2>1. PICK u : u = <<s>> \o t
    OBVIOUS
  <2>2. u # <<>> /\ Head(u) = s /\ Tail(u) = t
    BY <1>4, <2>1, Ends2
  <2>3. May(u, q, X)
    BY <1>3, <1>4, <2>2 DEF May
  <2> QED
    BY <2>1, <2>3
<1>5. Does(<<s>>, q, r)
  BY <1>1, <1>4, Once
<1> QED
  BY <1>2, <1>5

\* The message of the menu.
LEMMA MenuDoes ==
  ASSUME NEW q \in State, NEW r, r = q
  PROVE  Does(<<Tell("menu")>>, q, r)
<1>1. r \in State
  BY DEF State
<1>2. PICK s : s = Tell("menu")
  OBVIOUS
<1>3. DOMAIN s = {"send"} /\ s.send = "menu"
  BY <1>2 DEF Tell
<1>4. ASSUME NEW t, NEW X, IsSteps(t), Reaches(t, r, X)
      PROVE  May(<<s>> \o t, q, X)
  <2>1. PICK u : u = <<s>> \o t
    OBVIOUS
  <2>2. u # <<>> /\ Head(u) = s /\ Tail(u) = t
    BY <1>4, <2>1, Ends2
  <2>3. May(u, q, X)
    BY <1>3, <1>4, <2>2 DEF May
  <2> QED
    BY <2>1, <2>3
<1>5. Does(<<s>>, q, r)
  BY <1>1, <1>4, Once
<1> QED
  BY <1>2, <1>5

\* Events that do not count.
LEMMA ReportDoes ==
  ASSUME NEW q \in State, NEW E, E \subseteq q.asked, BUTTON \notin E, NEW r, r = q
  PROVE  Does(<<Report(E)>>, q, r)
<1>1. r \in State
  BY DEF State
<1>2. PICK s : s = Report(E)
  OBVIOUS
<1>3. DOMAIN s = {"report"} /\ s.report = E
  BY <1>2 DEF Report
<1>4. ASSUME NEW t, NEW X, IsSteps(t), Reaches(t, r, X)
      PROVE  May(<<s>> \o t, q, X)
  <2>1. PICK u : u = <<s>> \o t
    OBVIOUS
  <2>2. u # <<>> /\ Head(u) = s /\ Tail(u) = t
    BY <1>4, <2>1, Ends2
  <2>3. May(u, q, X)
    BY <1>3, <1>4, <2>2 DEF May
  <2> QED
    BY <2>1, <2>3
<1>5. Does(<<s>>, q, r)
  BY <1>1, <1>4, Once
<1> QED
  BY <1>2, <1>5

\* A click is reported.
LEMMA ClickDoes ==
  ASSUME NEW q \in State, BUTTON \in q.asked, q.clicks > 0,
         NEW r, r = [q EXCEPT !.clicks = @ - 1]
  PROVE  Does(<<Report({BUTTON})>>, q, r)
<1>1. r \in State
  BY DEF State
<1>2. PICK s : s = Report({BUTTON})
  OBVIOUS
<1>3. DOMAIN s = {"report"} /\ s.report = {BUTTON}
  BY <1>2 DEF Report
<1>4. ASSUME NEW t, NEW X, IsSteps(t), Reaches(t, r, X)
      PROVE  May(<<s>> \o t, q, X)
  <2>1. PICK u : u = <<s>> \o t
    OBVIOUS
  <2>2. u # <<>> /\ Head(u) = s /\ Tail(u) = t
    BY <1>4, <2>1, Ends2
  <2>3. May(u, q, X)
    BY <1>3, <1>4, <2>2 DEF May
  <2> QED
    BY <2>1, <2>3
<1>5. Does(<<s>>, q, r)
  BY <1>1, <1>4, Once
<1> QED
  BY <1>2, <1>5

\* What is noted is not a click.
LEMMA NoteDoes ==
  ASSUME NEW q \in State, NEW n, n # BUTTON, NEW r, r = q
  PROVE  Does(<<Remember(n)>>, q, r)
<1>1. r \in State
  BY DEF State
<1>2. PICK s : s = Remember(n)
  OBVIOUS
<1>3. DOMAIN s = {"note"} /\ s.note = n
  BY <1>2 DEF Remember
<1>4. ASSUME NEW t, NEW X, IsSteps(t), Reaches(t, r, X)
      PROVE  May(<<s>> \o t, q, X)
  <2>1. PICK u : u = <<s>> \o t
    OBVIOUS
  <2>2. u # <<>> /\ Head(u) = s /\ Tail(u) = t
    BY <1>4, <2>1, Ends2
  <2>3. May(u, q, X)
    BY <1>3, <1>4, <2>2 DEF May
  <2> QED
    BY <2>1, <2>3
<1>5. Does(<<s>>, q, r)
  BY <1>1, <1>4, Once
<1> QED
  BY <1>2, <1>5

\* What is done is told apart.
LEMMA DoingDoes ==
  ASSUME NEW q \in State, NEW d \in Errand, NEW r, r = [q EXCEPT !.doing = d]
  PROVE  Does(<<Doing(d)>>, q, r)
<1>1. r \in State
  BY DEF State
<1>2. PICK s : s = Doing(d)
  OBVIOUS
<1>3. DOMAIN s = {"doing"} /\ s.doing = d
  BY <1>2 DEF Doing
<1>4. ASSUME NEW t, NEW X, IsSteps(t), Reaches(t, r, X)
      PROVE  May(<<s>> \o t, q, X)
  <2>1. PICK u : u = <<s>> \o t
    OBVIOUS
  <2>2. u # <<>> /\ Head(u) = s /\ Tail(u) = t
    BY <1>4, <2>1, Ends2
  <2>3. May(u, q, X)
    BY <1>3, <1>4, <2>2 DEF May
  <2> QED
    BY <2>1, <2>3
<1>5. Does(<<s>>, q, r)
  BY <1>1, <1>4, Once
<1> QED
  BY <1>2, <1>5

-----------------------------------------------------------------------------
(* Steps that have steps in them.                                           *)

\* What a set of pairs leads to, with the pair itself.
LEMMA OneMore ==
  ASSUME NEW u, NEW q \in State, NEW S, NEW X, IsSteps(u), ClosedIn(S, {<<u, q>>} \cup X),
         May(u, q, (S \cup {<<u, q>>}) \cup X)
  PROVE  /\ ClosedIn(S \cup {<<u, q>>}, X)
         /\ Reaches(u, q, (S \cup {<<u, q>>}) \cup X)
<1>1. ASSUME NEW t, NEW r, <<t, r>> \in S
      PROVE  r \in State /\ IsSteps(t) /\ May(t, r, (S \cup {<<u, q>>}) \cup X)
  <2>1. r \in State /\ IsSteps(t) /\ May(t, r, S \cup ({<<u, q>>} \cup X))
    BY <1>1 DEF ClosedIn
  <2>2. S \cup ({<<u, q>>} \cup X) \subseteq (S \cup {<<u, q>>}) \cup X
    OBVIOUS
  <2> QED
    BY <2>1, <2>2, MayMore
<1>2. ASSUME NEW t, NEW r, <<t, r>> \in S \cup {<<u, q>>}
      PROVE  r \in State /\ IsSteps(t) /\ May(t, r, (S \cup {<<u, q>>}) \cup X)
  <2>1. CASE <<t, r>> \in S
    BY <1>1, <2>1
  <2>2. CASE <<t, r>> = <<u, q>>
    BY <2>2
  <2> QED
    BY <1>2, <2>1, <2>2
<1>3. ClosedIn(S \cup {<<u, q>>}, X)
  BY <1>2 DEF ClosedIn
<1>4. Reaches(u, q, (S \cup {<<u, q>>}) \cup X)
  BY UnderSelf DEF Reaches
<1> QED
  BY <1>3, <1>4

\* Two ways.
LEMMA EitherDoes ==
  ASSUME NEW a, NEW b, NEW q, NEW r, Does(a, q, r), Does(b, q, r)
  PROVE  Does(<<Either(a, b)>>, q, r)
<1>1. PICK s : s = Either(a, b)
  OBVIOUS
<1>2. DOMAIN s = {"either"} /\ s.either[1] = a /\ s.either[2] = b
  BY <1>1 DEF Either
<1>3. q \in State /\ r \in State /\ IsSteps(a) /\ IsSteps(b)
  BY DEF Does
<1> SUFFICES ASSUME NEW t, NEW X, IsSteps(t), Reaches(t, r, X)
             PROVE  \E S : ClosedIn(S, X) /\ Reaches(<<s>> \o t, q, S \cup X)
  BY <1>1, <1>3, Steps DEF Does
<1>4. PICK A : ClosedIn(A, X) /\ Reaches(a \o t, q, A \cup X)
  BY DEF Does
<1>5. PICK B : ClosedIn(B, X) /\ Reaches(b \o t, q, B \cup X)
  BY DEF Does
<1>6. PICK u : u = <<s>> \o t
  OBVIOUS
<1>7. u # <<>> /\ Head(u) = s /\ Tail(u) = t /\ IsSteps(u)
  BY <1>6, Ends2, Steps
<1>8. PICK Y : Y = {<<u, q>>} \cup X
  OBVIOUS
<1>9. ClosedIn(A, B \cup Y) /\ ClosedIn(B, Y)
  <2>1. A \cup X \subseteq A \cup (B \cup Y) /\ B \cup X \subseteq B \cup Y
    BY <1>8
  <2> QED
    BY <1>4, <1>5, <2>1, MayMore DEF ClosedIn
<1>10. PICK S : S = A \cup B
  OBVIOUS
<1>11. ClosedIn(S, Y)
  BY <1>9, <1>10, BothClosed
<1>12. PICK Z : Z = (S \cup {<<u, q>>}) \cup X
  OBVIOUS
<1>13. A \cup X \subseteq Z /\ B \cup X \subseteq Z
  BY <1>10, <1>12
<1>14. Reaches(a \o t, q, Z) /\ Reaches(b \o t, q, Z)
  BY <1>3, <1>4, <1>5, <1>13, UnderSelf, ReachesMore
<1>15. May(u, q, Z)
  BY <1>2, <1>7, <1>14 DEF May
<1> QED
  BY <1>3, <1>6, <1>7, <1>8, <1>11, <1>12, <1>15, OneMore

\* A test.
LEMMA TestDoes ==
  ASSUME NEW e, NEW a, NEW b, NEW q \in State, NEW r \in State, IsSteps(a), IsSteps(b),
         \/ e = BUTTON /\ q.pressed = "no"
         \/ Does(a, [q EXCEPT !.pressed = IF e = BUTTON THEN "yes" ELSE @], r),
         \/ e = BUTTON /\ q.pressed = "yes"
         \/ Does(b, [q EXCEPT !.marks = @ \ {e},
                              !.pressed = IF e = BUTTON THEN "no" ELSE @], r)
  PROVE  Does(<<If(e, a, b)>>, q, r)
<1>1. PICK s : s = If(e, a, b)
  OBVIOUS
<1>2. DOMAIN s = {"when", "then", "else"} /\ s.when = e /\ s.then = a /\ s.else = b
  BY <1>1 DEF If
<1> SUFFICES ASSUME NEW t, NEW X, IsSteps(t), Reaches(t, r, X)
             PROVE  \E S : ClosedIn(S, X) /\ Reaches(<<s>> \o t, q, S \cup X)
  BY <1>1, Steps DEF Does
<1>a. PICK y : y = [q EXCEPT !.pressed = IF e = BUTTON THEN "yes" ELSE @]
  OBVIOUS
<1>b. PICK n : n = [q EXCEPT !.marks = @ \ {e}, !.pressed = IF e = BUTTON THEN "no" ELSE @]
  OBVIOUS
<1>c. y \in State /\ n \in State
  BY <1>a, <1>b DEF State
<1>3. ClosedIn({}, X)
  BY DEF ClosedIn
<1>4. PICK A : ClosedIn(A, X) /\ ((e = BUTTON /\ q.pressed = "no") \/ Reaches(a \o t, y,
        A \cup X))
  BY <1>3, <1>a DEF Does
<1>5. PICK B : ClosedIn(B, X) /\ ((e = BUTTON /\ q.pressed = "yes") \/ Reaches(b \o t, n,
        B \cup X))
  BY <1>3, <1>b DEF Does
<1>6. PICK u : u = <<s>> \o t
  OBVIOUS
<1>7. u # <<>> /\ Head(u) = s /\ Tail(u) = t /\ IsSteps(u)
  BY <1>6, Ends2, Steps
<1>8. PICK Y : Y = {<<u, q>>} \cup X
  OBVIOUS
<1>9. ClosedIn(A, B \cup Y) /\ ClosedIn(B, Y)
  <2>1. A \cup X \subseteq A \cup (B \cup Y) /\ B \cup X \subseteq B \cup Y
    BY <1>8
  <2> QED
    BY <1>4, <1>5, <2>1, MayMore DEF ClosedIn
<1>10. PICK S : S = A \cup B
  OBVIOUS
<1>11. ClosedIn(S, Y)
  BY <1>9, <1>10, BothClosed
<1>12. PICK Z : Z = (S \cup {<<u, q>>}) \cup X
  OBVIOUS
<1>13. A \cup X \subseteq Z /\ B \cup X \subseteq Z
  BY <1>10, <1>12
<1>14. /\ (e = BUTTON /\ q.pressed = "no") \/ Reaches(a \o t, y, Z)
       /\ (e = BUTTON /\ q.pressed = "yes") \/ Reaches(b \o t, n, Z)
  BY <1>c, <1>4, <1>5, <1>13, UnderSelf, ReachesMore
<1>15. May(u, q, Z)
  BY <1>2, <1>7, <1>14, <1>a, <1>b DEF May
<1> QED
  BY <1>6, <1>7, <1>8, <1>11, <1>12, <1>15, OneMore

\* A test that tells nothing.
LEMMA IfDoes ==
  ASSUME NEW e, NEW a, NEW b, NEW q \in State, NEW r \in State,
         Does(a, q, r), Does(b, q, r), q.pressed = "maybe"
  PROVE  Does(<<If(e, a, b)>>, q, r)
<1>1. PICK y : y = [q EXCEPT !.pressed = IF e = BUTTON THEN "yes" ELSE @]
  OBVIOUS
<1>2. PICK n : n = [q EXCEPT !.marks = @ \ {e}, !.pressed = IF e = BUTTON THEN "no" ELSE @]
  OBVIOUS
<1>3. IsSteps(a) /\ IsSteps(b)
  BY DEF Does
<1>a. y \in State /\ n \in State
  BY <1>1, <1>2 DEF State
<1>4. Under(y, q) /\ Under(n, q)
  BY <1>1, <1>2 DEF State, Under
<1>5. Does(a, y, r) /\ Does(b, n, r)
  BY <1>a, <1>4, UnderSelf, Weaker
<1> QED
  BY <1>1, <1>2, <1>3, <1>5, TestDoes

\* A loop that keeps what is known.
LEMMA UntilDoes ==
  ASSUME NEW e, NEW body, NEW q, Does(body, q, q), q.pressed = "maybe"
  PROVE  Does(<<Until(e, body)>>, q, q)
<1>1. PICK s : s = Until(e, body)
  OBVIOUS
<1>2. DOMAIN s = {"until", "body"} /\ s.until = e /\ s.body = body
  BY <1>1 DEF Until
<1>3. q \in State /\ IsSteps(body)
  BY DEF Does
<1>4. PICK g : g = [still |-> e, body |-> body]
  OBVIOUS
<1>5. DOMAIN g = {"still", "body"} /\ g.still = e /\ g.body = body
  BY <1>4
<1> SUFFICES ASSUME NEW t, NEW X, IsSteps(t), Reaches(t, q, X)
             PROVE  \E S : ClosedIn(S, X) /\ Reaches(<<s>> \o t, q, S \cup X)
  BY <1>1, <1>3, Steps DEF Does
<1>6. PICK v : v = <<g>> \o t
  OBVIOUS
<1>7. v # <<>> /\ Head(v) = g /\ Tail(v) = t /\ IsSteps(v)
  BY <1>6, Ends2, Steps
<1>8. PICK Y : Y = {<<v, q>>} \cup X
  OBVIOUS
<1>9. Reaches(v, q, Y)
  BY <1>3, <1>8, UnderSelf DEF Reaches
<1>10. PICK B : ClosedIn(B, Y) /\ Reaches(body \o v, q, B \cup Y)
  BY <1>7, <1>9 DEF Does
<1>11. PICK C : C = B \cup {<<v, q>>}
  OBVIOUS
<1>12. (body \o <<g>>) \o t = body \o v
  BY <1>3, <1>6, Steps, Together3
<1>13. B \cup Y = C \cup X
  BY <1>8, <1>11
<1>14. May(v, q, C \cup X)
  <2>1. PICK n : n = [q EXCEPT !.pressed = "no"]
    OBVIOUS
  <2>2. n \in State /\ Under(n, q)
    BY <1>3, <2>1 DEF State, Under
  <2>3. X \subseteq C \cup X
    OBVIOUS
  <2>4. Reaches(t, n, C \cup X)
    BY <1>3, <2>2, <2>3, ReachesMore
  <2> QED
    BY <1>5, <1>7, <1>10, <1>12, <1>13, <2>1, <2>4 DEF May
<1>15. ClosedIn(C, X)
  BY <1>3, <1>7, <1>8, <1>10, <1>11, <1>14, OneMore
<1>16. PICK u : u = <<s>> \o t
  OBVIOUS
<1>17. u # <<>> /\ Head(u) = s /\ Tail(u) = t /\ IsSteps(u)
  BY <1>16, Ends2, Steps
<1>18. PICK Z : Z = (C \cup {<<u, q>>}) \cup X
  OBVIOUS
<1>19. Reaches((body \o <<g>>) \o t, q, Z)
  <2>1. C \cup X \subseteq Z
    BY <1>18
  <2> QED
    BY <1>3, <1>10, <1>12, <1>13, <2>1, UnderSelf, ReachesMore
<1>20. May(u, q, Z)
  BY <1>2, <1>4, <1>17, <1>19 DEF May
<1>21. ClosedIn(C, {<<u, q>>} \cup X)
  <2>1. C \cup X \subseteq C \cup ({<<u, q>>} \cup X)
    OBVIOUS
  <2> QED
    BY <1>15, <2>1, MayMore DEF ClosedIn
<1> QED
  BY <1>3, <1>16, <1>17, <1>18, <1>20, <1>21, OneMore
-----------------------------------------------------------------------------
(* States in which the cursor shows.                                         *)

\* Where the own form is once f is set.
Whose(f, was) ==
  IF f = "ARROW" \/ (f = "M_RESTORE" /\ was = "last") THEN "own"
  ELSE IF was = "own" THEN "last" ELSE "any"

Calm == {q \in State : q.hidden = 0 /\ q.pressed = "maybe"}

Marked(q, o)  == [q EXCEPT !.marks = @ \cup {o}]
Cleared(q, o) == [q EXCEPT !.marks = @ \ {o}]
Lined(q)      == [q EXCEPT !.lines = ~@]
Used(q)       == [q EXCEPT !.clicks = @ - 1]
Minded(q, d)  == [q EXCEPT !.doing = d]

\* What such a step changes, and what it leaves alone.
IsBegun(q, l, r) ==
  /\ r \in Calm
  /\ r.update = (IF l = "UPDATE" THEN q.update + 1 ELSE q.update)
  /\ r.mctrl = (IF l = "MCTRL" THEN q.mctrl + 1 ELSE q.mctrl)
  /\ r.doing = q.doing /\ r.hidden = q.hidden /\ r.lines = q.lines
  /\ r.marks = q.marks /\ r.clicks = q.clicks /\ r.form = q.form
  /\ r.free = q.free /\ r.asked = q.asked /\ r.pressed = q.pressed

IsEnded(q, l, r) ==
  /\ r \in Calm
  /\ r.update = (IF l = "UPDATE" THEN q.update - 1 ELSE q.update)
  /\ r.mctrl = (IF l = "MCTRL" THEN q.mctrl - 1 ELSE q.mctrl)
  /\ r.doing = q.doing /\ r.hidden = q.hidden /\ r.lines = q.lines
  /\ r.marks = q.marks /\ r.clicks = q.clicks /\ r.form = q.form
  /\ r.free = q.free /\ r.asked = q.asked /\ r.pressed = q.pressed

IsMarked(q, o, r) ==
  /\ r \in Calm
  /\ r.marks = q.marks \cup {o} /\ r.update = q.update /\ r.mctrl = q.mctrl
  /\ r.doing = q.doing /\ r.hidden = q.hidden /\ r.lines = q.lines
  /\ r.clicks = q.clicks /\ r.form = q.form /\ r.free = q.free
  /\ r.asked = q.asked /\ r.pressed = q.pressed

IsCleared(q, o, r) ==
  /\ r \in Calm
  /\ r.marks = q.marks \ {o} /\ r.update = q.update /\ r.mctrl = q.mctrl
  /\ r.doing = q.doing /\ r.hidden = q.hidden /\ r.lines = q.lines
  /\ r.clicks = q.clicks /\ r.form = q.form /\ r.free = q.free
  /\ r.asked = q.asked /\ r.pressed = q.pressed

IsLined(q, r) ==
  /\ r \in Calm
  /\ r.lines = ~q.lines /\ r.update = q.update /\ r.mctrl = q.mctrl
  /\ r.doing = q.doing /\ r.hidden = q.hidden /\ r.marks = q.marks
  /\ r.clicks = q.clicks /\ r.form = q.form /\ r.free = q.free
  /\ r.asked = q.asked /\ r.pressed = q.pressed

IsUsed(q, r) ==
  /\ r \in Calm
  /\ r.clicks = q.clicks - 1 /\ r.update = q.update /\ r.mctrl = q.mctrl
  /\ r.doing = q.doing /\ r.hidden = q.hidden /\ r.lines = q.lines
  /\ r.marks = q.marks /\ r.form = q.form /\ r.free = q.free
  /\ r.asked = q.asked /\ r.pressed = q.pressed

IsMinded(q, d, r) ==
  /\ r \in Calm
  /\ r.doing = d /\ r.update = q.update /\ r.mctrl = q.mctrl
  /\ r.hidden = q.hidden /\ r.lines = q.lines /\ r.marks = q.marks
  /\ r.clicks = q.clicks /\ r.form = q.form /\ r.free = q.free
  /\ r.asked = q.asked /\ r.pressed = q.pressed

IsFormed(q, f, r) ==
  /\ r \in Calm
  /\ r.form = Whose(f, q.form) /\ r.update = q.update /\ r.mctrl = q.mctrl
  /\ r.doing = q.doing /\ r.hidden = q.hidden /\ r.lines = q.lines
  /\ r.marks = q.marks /\ r.clicks = q.clicks /\ r.free = q.free
  /\ r.asked = q.asked /\ r.pressed = q.pressed

\* The states that the steps lead to, one lemma for each change.
LEMMA BegunIs ==
  ASSUME NEW q \in Calm, NEW l \in {"UPDATE", "MCTRL"}, NEW r, r = Begun(q, l)
  PROVE  IsBegun(q, l, r)
BY DEF IsBegun, Calm, State, Begun

\* A lock is ended.
LEMMA EndedIs ==
  ASSUME NEW q \in Calm, NEW l \in {"UPDATE", "MCTRL"}, Count(q, l) > 0, NEW r, r = Ended(q, l)
  PROVE  IsEnded(q, l, r)
BY DEF IsEnded, Calm, State, Ended, Count

\* An object is marked.
LEMMA MarkedIs ==
  ASSUME NEW q \in Calm, NEW o \in Thing, NEW r, r = Marked(q, o)
  PROVE  IsMarked(q, o, r)
BY DEF IsMarked, Calm, State, Marked

\* An object is no longer marked.
LEMMA ClearedIs ==
  ASSUME NEW q \in Calm, NEW o, NEW r, r = Cleared(q, o)
  PROVE  IsCleared(q, o, r)
BY DEF IsCleared, Calm, State, Cleared

\* The lines are there, or gone.
LEMMA LinedIs ==
  ASSUME NEW q \in Calm, NEW r, r = Lined(q)
  PROVE  IsLined(q, r)
BY DEF IsLined, Calm, State, Lined

\* A click is used.
LEMMA UsedIs ==
  ASSUME NEW q \in Calm, q.clicks > 0, NEW r, r = Used(q)
  PROVE  IsUsed(q, r)
BY DEF IsUsed, Calm, State, Used

\* Something else is done.
LEMMA MindedIs ==
  ASSUME NEW q \in Calm, NEW d \in Errand, NEW r, r = Minded(q, d)
  PROVE  IsMinded(q, d, r)
BY DEF IsMinded, Calm, State, Minded, Errand

\* The form is set, or restored.
LEMMA FormedIs ==
  ASSUME NEW q \in Calm, NEW f, NEW r, r = Formed(q, f)
  PROVE  IsFormed(q, f, r)
<1>1. PICK v : v = Whose(f, q.form)
  OBVIOUS
<1>2. v \in {"own", "last", "any"}
  BY <1>1 DEF Whose
<1>3. r = [q EXCEPT !.hidden = 0, !.form = v]
  BY <1>1 DEF Formed, Whose
<1>4. r \in Calm
  BY <1>2, <1>3 DEF Calm, State
<1> QED
  BY <1>1, <1>2, <1>3, <1>4 DEF IsFormed, Calm, State

\* Waiting leaves everything as it is.
LEMMA WaitKeeps ==
  ASSUME NEW q \in Calm, NEW E
  PROVE  Does(<<Wait(E)>>, q, q)
<1>1. PICK r : r = [q EXCEPT !.pressed = IF E = {BUTTON} THEN "yes" ELSE "maybe"]
  OBVIOUS
<1>2. q \in State /\ q.hidden = 0 /\ q.pressed = "maybe"
  BY DEF Calm
<1>3. r \in State /\ Under(r, q)
  BY <1>1, <1>2 DEF State, Under
<1>4. Does(<<Wait(E)>>, q, r)
  BY <1>1, <1>2, WaitDoes
<1> QED
  BY <1>2, <1>3, <1>4, UnderSelf, Weaker

\* A note leaves everything as it is.
LEMMA NoteKeeps ==
  ASSUME NEW q \in Calm, NEW n, n # BUTTON
  PROVE  Does(<<Remember(n)>>, q, q)
BY NoteDoes DEF Calm

\* No steps leave everything as it is.
LEMMA NothingKeeps ==
  ASSUME NEW q \in Calm
  PROVE  Does(<<>>, q, q)
BY Nothing, UnderSelf DEF Calm

\* Between M_OFF and M_ON.
LEMMA HiddenDoes ==
  ASSUME NEW q \in Calm, NEW r \in Calm, NEW steps, NEW a, a = [q EXCEPT !.hidden = 1],
         NEW b, b = [r EXCEPT !.hidden = 1], Does(steps, a, b)
  PROVE  Does(Hidden(steps), q, r)
<1>1. /\ q \in State /\ r \in State /\ a \in State /\ b \in State
      /\ q.hidden = 0 /\ r.hidden = 0 /\ a.hidden = 1 /\ b.hidden = 1
  BY DEF Calm, State
<1>2. a = [q EXCEPT !.hidden = Shown(@, "M_OFF")]
  BY <1>1 DEF Shown
<1>3. PICK c : c = [b EXCEPT !.hidden = Shown(@, "M_ON")]
  OBVIOUS
<1>4. c \in State /\ Under(c, r)
  <2>1. Shown(b.hidden, "M_ON") = 0
    BY DEF Shown
  <2>3. c = [b EXCEPT !.hidden = 0]
    BY <1>3, <2>1
  <2>4. c \in State
    BY <1>1, <2>3 DEF State
  <2>5. Under(c, r)
    BY <1>1, <2>3 DEF State, Under
  <2> QED
    BY <2>4, <2>5
<1>5. Does(<<Mouse("M_OFF")>>, q, a)
  BY <1>1, <1>2, MouseDoes
<1>6. Does(<<Mouse("M_ON")>>, b, c)
  BY <1>1, <1>3, MouseDoes
<1>7. Does(<<Mouse("M_ON")>>, b, r)
  BY <1>1, <1>4, <1>6, UnderSelf, Weaker
<1>8. Does(<<Mouse("M_OFF")>> \o steps, q, b)
  BY <1>5, Thereafter
<1>9. Does((<<Mouse("M_OFF")>> \o steps) \o <<Mouse("M_ON")>>, q, r)
  BY <1>7, <1>8, Thereafter
<1> QED
  BY <1>9 DEF Hidden

\* A drawing hides the cursor once more.
LEMMA DrawnDoes ==
  ASSUME NEW q \in State, NEW r \in State, q.hidden = r.hidden, NEW step,
         NEW a, a = [q EXCEPT !.hidden = @ + 1],
         NEW b, b = [r EXCEPT !.hidden = @ + 1], Does(<<step>>, a, b)
  PROVE  Does(Drawn(step), q, r)
<1>1. /\ a \in State /\ b \in State /\ q.hidden \in Nat
      /\ a.hidden = q.hidden + 1 /\ b.hidden = q.hidden + 1
  BY DEF State
<1>2. a = [q EXCEPT !.hidden = Shown(@, "v_hide_c")]
  BY <1>1 DEF Shown
<1>3. PICK c : c = [b EXCEPT !.hidden = Shown(@, "v_show_c")]
  OBVIOUS
<1>4. c \in State /\ Under(c, r)
  <2>1. Shown(b.hidden, "v_show_c") = q.hidden
    BY <1>1 DEF Shown
  <2>2. c = [b EXCEPT !.hidden = q.hidden]
    BY <1>3, <2>1
  <2>3. c \in State
    BY <1>1, <2>2 DEF State
  <2>4. Under(c, r)
    BY <1>1, <2>2 DEF State, Under
  <2> QED
    BY <2>3, <2>4
<1>5. Does(<<Mouse("v_hide_c")>>, q, a)
  BY <1>1, <1>2, MouseDoes
<1>6. Does(<<Mouse("v_show_c")>>, b, c)
  BY <1>1, <1>3, MouseDoes
<1>7. Does(<<Mouse("v_show_c")>>, b, r)
  BY <1>1, <1>4, <1>6, UnderSelf, Weaker
<1> QED
  BY <1>5, <1>7, Three DEF Drawn

\* An object is drawn as marked, or cleared, whether the cursor shows or not.
LEMMA DrawnMark ==
  ASSUME NEW q \in State, NEW o \in Thing, NEW r, r = Marked(q, o)
  PROVE  r \in State /\ Does(Drawn(Mark(o)), q, r)
<1>1. r \in State /\ r.hidden = q.hidden /\ q.hidden \in Nat
  BY DEF Marked, State
<1>2. PICK a : a = [q EXCEPT !.hidden = @ + 1]
  OBVIOUS
<1>3. PICK b : b = [r EXCEPT !.hidden = @ + 1]
  OBVIOUS
<1>4. a \in State /\ a.hidden > 0 /\ b \in State
  BY <1>1, <1>2, <1>3 DEF State
<1>5. PICK c : c = [a EXCEPT !.marks = @ \cup {o}]
  OBVIOUS
<1>6. c \in State /\ Under(c, b)
  <2>1. c \in State
    BY <1>4, <1>5 DEF State
  <2>2. Under(c, b)
    BY <1>1, <1>2, <1>3, <1>4, <1>5 DEF State, Under, Marked
  <2> QED
    BY <2>1, <2>2
<1>7. Does(<<Mark(o)>>, a, c)
  BY <1>4, <1>5, MarkDoes
<1>8. Does(<<Mark(o)>>, a, b)
  BY <1>4, <1>6, <1>7, UnderSelf, Weaker
<1> QED
  BY <1>1, <1>2, <1>3, <1>8, DrawnDoes

\* An object is drawn as it was.
LEMMA DrawnClear ==
  ASSUME NEW q \in State, NEW o, NEW r, r = Cleared(q, o)
  PROVE  r \in State /\ Does(Drawn(Clear(o)), q, r)
<1>1. r \in State /\ r.hidden = q.hidden /\ q.hidden \in Nat
  BY DEF Cleared, State
<1>2. PICK a : a = [q EXCEPT !.hidden = @ + 1]
  OBVIOUS
<1>3. PICK b : b = [r EXCEPT !.hidden = @ + 1]
  OBVIOUS
<1>4. a \in State /\ a.hidden > 0 /\ b \in State
  BY <1>1, <1>2, <1>3 DEF State
<1>5. PICK c : c = [a EXCEPT !.marks = @ \ {o}]
  OBVIOUS
<1>6. c \in State /\ Under(c, b)
  <2>1. c \in State
    BY <1>4, <1>5 DEF State
  <2>2. Under(c, b)
    BY <1>1, <1>2, <1>3, <1>4, <1>5 DEF State, Under, Cleared
  <2> QED
    BY <2>1, <2>2
<1>7. Does(<<Clear(o)>>, a, c)
  BY <1>4, <1>5, ClearDoes
<1>8. Does(<<Clear(o)>>, a, b)
  BY <1>4, <1>6, <1>7, UnderSelf, Weaker
<1> QED
  BY <1>1, <1>2, <1>3, <1>8, DrawnDoes

\* So is an object that is drawn between M_OFF and M_ON.
LEMMA HiddenMark ==
  ASSUME NEW q \in Calm, NEW o \in Thing, NEW r, r = Marked(q, o)
  PROVE  Does(Hidden(Drawn(Mark(o))), q, r) /\ Does(Hidden(<<Mark(o)>>), q, r)
<1>1. r \in Calm
  BY MarkedIs DEF IsMarked
<1>2. PICK a : a = [q EXCEPT !.hidden = 1]
  OBVIOUS
<1>3. PICK b : b = [r EXCEPT !.hidden = 1]
  OBVIOUS
<1>4. a \in State /\ b \in State /\ a.hidden = 1
  BY <1>1, <1>2, <1>3 DEF Calm, State
<1>5. PICK c : c = Marked(a, o)
  OBVIOUS
<1>6. c \in State
  BY <1>4, <1>5 DEF State, Marked
<1>7. Under(c, b)
  BY <1>1, <1>2, <1>3, <1>5 DEF State, Under, Marked, Calm
<1>8. Does(Drawn(Mark(o)), a, c) /\ Does(<<Mark(o)>>, a, c)
  BY <1>4, <1>5, DrawnMark, MarkDoes DEF Marked
<1>9. Does(Drawn(Mark(o)), a, b) /\ Does(<<Mark(o)>>, a, b)
  BY <1>4, <1>6, <1>7, <1>8, UnderSelf, Weaker
<1> QED
  BY <1>1, <1>2, <1>3, <1>9, HiddenDoes

\* An object is drawn as it was, between M_OFF and M_ON.
LEMMA HiddenClear ==
  ASSUME NEW q \in Calm, NEW o, NEW r, r = Cleared(q, o)
  PROVE  Does(Hidden(Drawn(Clear(o))), q, r) /\ Does(Hidden(<<Clear(o)>>), q, r)
<1>1. r \in Calm
  BY ClearedIs DEF IsCleared
<1>2. PICK a : a = [q EXCEPT !.hidden = 1]
  OBVIOUS
<1>3. PICK b : b = [r EXCEPT !.hidden = 1]
  OBVIOUS
<1>4. a \in State /\ b \in State /\ a.hidden = 1
  BY <1>1, <1>2, <1>3 DEF Calm, State
<1>5. PICK c : c = Cleared(a, o)
  OBVIOUS
<1>6. c \in State
  BY <1>4, <1>5 DEF State, Cleared
<1>7. Under(c, b)
  BY <1>1, <1>2, <1>3, <1>5 DEF State, Under, Cleared, Calm
<1>8. Does(Drawn(Clear(o)), a, c) /\ Does(<<Clear(o)>>, a, c)
  BY <1>4, <1>5, DrawnClear, ClearDoes DEF Cleared
<1>9. Does(Drawn(Clear(o)), a, b) /\ Does(<<Clear(o)>>, a, b)
  BY <1>4, <1>6, <1>7, <1>8, UnderSelf, Weaker
<1> QED
  BY <1>1, <1>2, <1>3, <1>9, HiddenDoes

\* And a line.
LEMMA HiddenLine ==
  ASSUME NEW q \in Calm, NEW r, r = Lined(q)
  PROVE  Does(Hidden(<<Line>>), q, r) /\ Does(Hidden(<<Line, Line>>), q, q)
<1>1. r \in Calm
  BY LinedIs DEF IsLined
<1>2. PICK a : a = [q EXCEPT !.hidden = 1]
  OBVIOUS
<1>3. PICK b : b = [r EXCEPT !.hidden = 1]
  OBVIOUS
<1>4. a \in State /\ b \in State /\ a.hidden = 1 /\ b.hidden = 1
  BY <1>1, <1>2, <1>3 DEF Calm, State
<1>5. PICK c : c = [a EXCEPT !.lines = ~@]
  OBVIOUS
<1>6. PICK d : d = [b EXCEPT !.lines = ~@]
  OBVIOUS
<1>7. c \in State /\ d \in State
  BY <1>4, <1>5, <1>6 DEF State
<1>8. Under(c, b) /\ Under(d, a)
  BY <1>1, <1>2, <1>3, <1>5, <1>6 DEF State, Under, Lined, Calm
<1>9. Does(<<Line>>, a, c) /\ Does(<<Line>>, b, d)
  BY <1>4, <1>5, <1>6, LineDoes
<1>10. Does(<<Line>>, a, b) /\ Does(<<Line>>, b, a)
  BY <1>4, <1>7, <1>8, <1>9, UnderSelf, Weaker
<1>11. Does(<<Line, Line>>, a, a)
  BY <1>10, Two
<1> QED
  BY <1>1, <1>2, <1>3, <1>10, <1>11, HiddenDoes

\* The steps with the states they lead to.
LEMMA Begins1 ==
  ASSUME NEW q \in Calm, NEW l \in {"UPDATE", "MCTRL"}, MayBegin(q, l)
  PROVE  \E a : IsBegun(q, l, a) /\ Does(<<BEG(l)>>, q, a)
<1>1. PICK a : a = Begun(q, l)
  OBVIOUS
<1>2. IsBegun(q, l, a)
  BY <1>1, BegunIs
<1>3. Does(<<BEG(l)>>, q, a)
  BY <1>1, BegDoes DEF Calm
<1> QED
  BY <1>2, <1>3

\* The screen may be begun whenever the cursor shows.
LEMMA BeginsUpdate ==
  ASSUME NEW q \in Calm
  PROVE  \E a : IsBegun(q, "UPDATE", a) /\ Does(<<BEG("UPDATE")>>, q, a)
BY Begins1 DEF MayBegin, Calm

\* A lock is ended in one step.
LEMMA Ends1 ==
  ASSUME NEW q \in Calm, NEW l \in {"UPDATE", "MCTRL"}, Count(q, l) > 0
  PROVE  \E a : IsEnded(q, l, a) /\ Does(<<END(l)>>, q, a)
<1>1. PICK a : a = Ended(q, l)
  OBVIOUS
<1>2. IsEnded(q, l, a)
  BY <1>1, EndedIs
<1>3. Does(<<END(l)>>, q, a)
  BY <1>1, EndDoes DEF Calm
<1> QED
  BY <1>2, <1>3

\* An object is marked, with the cursor hidden.
LEMMA Marks1 ==
  ASSUME NEW q \in Calm, NEW o \in Thing
  PROVE  \E a : /\ IsMarked(q, o, a)
                /\ Does(Hidden(Drawn(Mark(o))), q, a)
                /\ Does(Hidden(<<Mark(o)>>), q, a)
                /\ Does(Drawn(Mark(o)), q, a)
                /\ o = "cursor" => Does(<<Mark(o)>>, q, a)
<1>1. PICK a : a = Marked(q, o)
  OBVIOUS
<1>2. IsMarked(q, o, a)
  BY <1>1, MarkedIs
<1>3. Does(Hidden(Drawn(Mark(o))), q, a) /\ Does(Hidden(<<Mark(o)>>), q, a)
  BY <1>1, HiddenMark
<1>4. Does(Drawn(Mark(o)), q, a)
  BY <1>1, DrawnMark DEF Calm
<1>5. o = "cursor" => Does(<<Mark(o)>>, q, a)
  BY <1>1, MarkDoes DEF Calm, Marked
<1> QED
  BY <1>2, <1>3, <1>4, <1>5

\* An object is cleared, with the cursor hidden.
LEMMA Clears1 ==
  ASSUME NEW q \in Calm, NEW o
  PROVE  \E a : /\ IsCleared(q, o, a)
                /\ Does(Hidden(Drawn(Clear(o))), q, a)
                /\ Does(Hidden(<<Clear(o)>>), q, a)
                /\ Does(Drawn(Clear(o)), q, a)
                /\ Does(<<Unselect(o)>>, q, a)
                /\ o = "cursor" => Does(<<Clear(o)>>, q, a)
<1>1. PICK a : a = Cleared(q, o)
  OBVIOUS
<1>2. IsCleared(q, o, a)
  BY <1>1, ClearedIs
<1>3. Does(Hidden(Drawn(Clear(o))), q, a) /\ Does(Hidden(<<Clear(o)>>), q, a)
  BY <1>1, HiddenClear
<1>4. Does(Drawn(Clear(o)), q, a)
  BY <1>1, DrawnClear DEF Calm
<1>5. /\ o = "cursor" => Does(<<Clear(o)>>, q, a)
      /\ Does(<<Unselect(o)>>, q, a)
  BY <1>1, ClearDoes, UnselectDoes DEF Calm, Cleared
<1> QED
  BY <1>2, <1>3, <1>4, <1>5

\* Lines are drawn, with the cursor hidden.
LEMMA Lines1 ==
  ASSUME NEW q \in Calm
  PROVE  \E a : IsLined(q, a) /\ Does(Hidden(<<Line>>), q, a)
<1>1. PICK a : a = Lined(q)
  OBVIOUS
<1>2. IsLined(q, a)
  BY <1>1, LinedIs
<1>3. Does(Hidden(<<Line>>), q, a)
  BY <1>1, HiddenLine
<1> QED
  BY <1>2, <1>3

\* A message is sent for a click.
LEMMA Sends1 ==
  ASSUME NEW q \in Calm, q.clicks > 0
  PROVE  \E a : /\ IsUsed(q, a)
                /\ \A m : m # "menu" => Does(<<Tell(m)>>, q, a)
                /\ BUTTON \in q.asked => Does(<<Report({BUTTON})>>, q, a)
<1>1. PICK a : a = Used(q)
  OBVIOUS
<1>2. IsUsed(q, a)
  BY <1>1, UsedIs
<1>3. /\ \A m : m # "menu" => Does(<<Tell(m)>>, q, a)
      /\ BUTTON \in q.asked => Does(<<Report({BUTTON})>>, q, a)
  BY <1>1, SendDoes, ClickDoes DEF Calm, Used
<1> QED
  BY <1>2, <1>3

\* Something else is done from here on.
LEMMA Minds1 ==
  ASSUME NEW q \in Calm, NEW d \in Errand
  PROVE  \E a : IsMinded(q, d, a) /\ Does(<<Doing(d)>>, q, a)
<1>1. PICK a : a = Minded(q, d)
  OBVIOUS
<1>2. IsMinded(q, d, a)
  BY <1>1, MindedIs
<1>3. Does(<<Doing(d)>>, q, a)
  BY <1>1, DoingDoes DEF Calm, Minded
<1> QED
  BY <1>2, <1>3

\* The form is set, or restored, in one step.
LEMMA Forms1 ==
  ASSUME NEW q \in Calm, q.free, NEW f
  PROVE  \E a : IsFormed(q, f, a) /\ Does(<<Form(f)>>, q, a)
<1>1. PICK a : a = Formed(q, f)
  OBVIOUS
<1>2. IsFormed(q, f, a)
  BY <1>1, FormedIs
<1>3. Does(<<Form(f)>>, q, a)
  BY <1>1, FormDoes DEF Calm
<1> QED
  BY <1>2, <1>3
-----------------------------------------------------------------------------
(* The functions of the library.                                           *)

\* Three, four and five parts.
LEMMA Chain3 ==
  ASSUME NEW a, NEW b, NEW c, NEW q, NEW r, NEW s, NEW t,
         Does(a, q, r), Does(b, r, s), Does(c, s, t)
  PROVE  Does(a \o b \o c, q, t)
<1>1. Does(a \o b, q, s)
  BY Thereafter
<1> QED
  BY <1>1, Thereafter

\* Four sequences, one after the other.
LEMMA Chain4 ==
  ASSUME NEW a, NEW b, NEW c, NEW d, NEW q, NEW r, NEW s, NEW t, NEW u,
         Does(a, q, r), Does(b, r, s), Does(c, s, t), Does(d, t, u)
  PROVE  Does(a \o b \o c \o d, q, u)
<1>1. Does(a \o b \o c, q, t)
  BY Chain3
<1> QED
  BY <1>1, Thereafter

\* Five sequences.
LEMMA Chain5 ==
  ASSUME NEW a, NEW b, NEW c, NEW d, NEW e, NEW q, NEW r, NEW s, NEW t, NEW u, NEW v,
         Does(a, q, r), Does(b, r, s), Does(c, s, t), Does(d, t, u), Does(e, u, v)
  PROVE  Does(a \o b \o c \o d \o e, q, v)
<1>1. Does(a \o b \o c \o d, q, u)
  BY Chain4
<1> QED
  BY <1>1, Thereafter

\* The button is waited for.
LEMMA ButtonKeeps ==
  ASSUME NEW q \in Calm
  PROVE  Does(Evnt_do_button, q, q)
BY WaitKeeps DEF Evnt_do_button

\* A box is dragged.
LEMMA DraggedKeeps ==
  ASSUME NEW q \in Calm
  PROVE  Does(Dragged, q, q)
<1>1. Does(<<>>, q, q)
  BY NothingKeeps
<1>2. PICK a : IsLined(q, a) /\ Does(Hidden(<<Line>>), q, a)
  BY Lines1
<1>3. Does(Hidden(<<Line, Line>>), a, a)
  BY <1>2, HiddenLine, LinedIs DEF IsLined
<1>4. Does(<<>>, a, a)
  BY <1>2, NothingKeeps DEF IsLined
<1>5. Does(<<Either(<<>>, Hidden(<<Line, Line>>))>>, a, a)
  BY <1>4, <1>3, EitherDoes
<1>6. a \in State /\ a.pressed = "maybe"
  BY <1>2 DEF Calm, IsLined
<1>7. Does(<<If(M1, <<Either(<<>>, Hidden(<<Line, Line>>))>>, <<>>)>>, a, a)
  BY <1>6, <1>5, <1>4, IfDoes
<1>8. Does(<<Wait({BUTTON, M1})>>, a, a)
  BY <1>2, WaitKeeps DEF IsLined
<1>9. Does(<<Wait({BUTTON, M1}), If(M1, <<Either(<<>>, Hidden(<<Line, Line>>))>>, <<>>)>>, a, a)
  BY <1>8, <1>7, Two
<1>10. a.pressed = "maybe"
  BY <1>2 DEF Calm, IsLined
<1>11. Does(<<Until(BUTTON, <<Wait({BUTTON, M1}), If(M1, <<Either(<<>>, Hidden(<<Line,
        Line>>))>>, <<>>)>>)>>, a, a)
  BY <1>10, <1>9, UntilDoes
<1>12. PICK b : IsLined(a, b) /\ Does(Hidden(<<Line>>), a, b)
  BY <1>2, Lines1 DEF IsLined
<1>13. Does(Hidden(<<Line>>)
           \o <<Until(BUTTON, <<Wait({BUTTON, M1}), If(M1, <<Either(<<>>, Hidden(<<Line,
                   Line>>))>>, <<>>)>>)>>
           \o Hidden(<<Line>>), q, b)
  BY <1>2, <1>11, <1>12, Chain3
<1>14. Under(b, q)
  BY <1>2, <1>12 DEF Under, Calm, State, IsLined
<1>15. q \in State /\ b \in State
  BY <1>2, <1>12 DEF Calm, IsLined
<1>16. Does(Hidden(<<Line>>)
           \o <<Until(BUTTON, <<Wait({BUTTON, M1}), If(M1, <<Either(<<>>, Hidden(<<Line,
                   Line>>))>>, <<>>)>>)>>
           \o Hidden(<<Line>>), q, q)
  BY <1>13, <1>14, <1>15, UnderSelf, Weaker
<1>17. Does(<<Either(<<>>, Hidden(<<Line>>)
           \o <<Until(BUTTON, <<Wait({BUTTON, M1}), If(M1, <<Either(<<>>, Hidden(<<Line,
                   Line>>))>>, <<>>)>>)>>
           \o Hidden(<<Line>>))>>, q, q)
  BY <1>1, <1>16, EitherDoes
<1> QED
  BY <1>17 DEF Dragged

\* A box is dragged, with the mouse taken.
LEMMA BoxKeeps ==
  ASSUME NEW q \in Calm, MayBegin(q, "MCTRL")
  PROVE  /\ Does(Graf_rubberbox, q, q) /\ Does(Graf_dragbox, q, q)
         /\ Does(Graf_do_slidebox, q, q)
<1>1. PICK a : IsBegun(q, "MCTRL", a) /\ Does(<<BEG("MCTRL")>>, q, a)
  BY Begins1 DEF MayBegin, Calm, State
<1>2. Does(Dragged, a, a)
  BY <1>1, DraggedKeeps DEF IsBegun
<1>3. q.update \in Nat /\ q.mctrl \in Nat
  BY DEF Calm, State
<1>4. PICK b : IsEnded(a, "MCTRL", b) /\ Does(<<END("MCTRL")>>, a, b)
  BY <1>1, <1>3, Ends1 DEF Count, IsBegun
<1>5. Does(<<BEG("MCTRL")>> \o Dragged \o <<END("MCTRL")>>, q, b)
  BY <1>1, <1>2, <1>4, Chain3
<1>6. Under(b, q)
  BY <1>1, <1>4 DEF Under, Calm, State, IsBegun, IsEnded
<1>7. q \in State /\ b \in State
  BY <1>1, <1>4 DEF Calm, IsBegun, IsEnded
<1>8. Does(<<BEG("MCTRL")>> \o Dragged \o <<END("MCTRL")>>, q, q)
  BY <1>5, <1>6, <1>7, UnderSelf, Weaker
<1> QED
  BY <1>8 DEF Graf_rubberbox, Graf_do_rubberbox, Graf_dragbox, Graf_do_dragbox,
    Graf_do_slidebox

\* An object is watched: afterwards it may be marked.
LEMMA WatchboxDoes ==
  ASSUME NEW q \in Calm, MayBegin(q, "MCTRL"), NEW obj \in Thing, NEW r, IsMarked(q,
         obj, r)
  PROVE  Does(Graf_do_watchbox(obj), q, r)
<1>1. PICK a : IsCleared(q, obj, a) /\ Does(Hidden(Drawn(Clear(obj))), q, a)
  BY Clears1
<1>2. PICK b : IsMarked(q, obj, b) /\ Does(Hidden(Drawn(Mark(obj))), q, b)
  BY Marks1 DEF Thing
<1>3. Under(a, b)
  BY <1>1, <1>2 DEF Under, Calm, State, IsCleared, IsMarked
<1>4. q \in State /\ b \in State /\ a \in State
  BY <1>1, <1>2 DEF Calm, IsCleared, IsMarked
<1>5. Does(Hidden(Drawn(Clear(obj))), q, b)
  BY <1>1, <1>3, <1>4, UnderSelf, Weaker
<1>6. Does(<<Either(Hidden(Drawn(Mark(obj))), Hidden(Drawn(Clear(obj))))>>, q, b)
  BY <1>2, <1>5, EitherDoes
<1>7. PICK c : IsBegun(b, "MCTRL", c) /\ Does(<<BEG("MCTRL")>>, b, c)
  BY <1>2, Begins1 DEF MayBegin, Calm, State, IsMarked
<1>8. Does(<<>>, c, c)
  BY <1>2, <1>7, NothingKeeps DEF IsBegun, IsMarked
<1>9. Does(<<Wait({BUTTON, M1})>>, c, c)
  BY <1>2, <1>7, WaitKeeps DEF IsBegun, IsMarked
<1>10. PICK d : IsCleared(c, obj, d) /\ Does(Hidden(Drawn(Clear(obj))), c, d)
  BY <1>2, <1>7, Clears1 DEF IsBegun, IsMarked
<1>11. Under(d, c)
  BY <1>2, <1>7, <1>10 DEF Under, Calm, State, IsBegun, IsCleared, IsMarked
<1>12. c \in State /\ d \in State
  BY <1>2, <1>7, <1>10 DEF Calm, IsBegun, IsCleared, IsMarked
<1>13. Does(Hidden(Drawn(Clear(obj))), c, c)
  BY <1>10, <1>11, <1>12, UnderSelf, Weaker
<1>14. PICK e : IsMarked(c, obj, e) /\ Does(Hidden(Drawn(Mark(obj))), c, e)
  BY ZenonT(60), <1>2, <1>7, Marks1 DEF Thing, IsBegun, IsMarked
<1>15. Under(e, c)
  BY <1>2, <1>7, <1>14 DEF Under, Calm, State, IsBegun, IsMarked
<1>16. c \in State /\ e \in State
  BY <1>2, <1>7, <1>14 DEF Calm, IsBegun, IsMarked
<1>17. Does(Hidden(Drawn(Mark(obj))), c, c)
  BY <1>14, <1>15, <1>16, UnderSelf, Weaker
<1>18. c \in State /\ c.pressed = "maybe"
  BY <1>2, <1>7 DEF Calm, IsBegun, IsMarked
<1>19. Does(<<If(obj, Hidden(Drawn(Clear(obj))), Hidden(Drawn(Mark(obj))))>>, c, c)
  BY <1>18, <1>13, <1>17, IfDoes
<1>20. c \in State /\ c.pressed = "maybe"
  BY <1>2, <1>7 DEF Calm, IsBegun, IsMarked
<1>21. Does(<<If(BUTTON, <<>>, <<If(obj, Hidden(Drawn(Clear(obj))),
        Hidden(Drawn(Mark(obj))))>>)>>, c, c)
  BY <1>20, <1>8, <1>19, IfDoes
<1>22. Does(<<Wait({BUTTON, M1}), If(BUTTON, <<>>, <<If(obj, Hidden(Drawn(Clear(obj))),
        Hidden(Drawn(Mark(obj))))>>)>>, c, c)
  BY <1>9, <1>21, Two
<1>23. c.pressed = "maybe"
  BY <1>2, <1>7 DEF Calm, IsBegun, IsMarked
<1>24. Does(<<Until(BUTTON, <<Wait({BUTTON, M1}), If(BUTTON, <<>>, <<If(obj,
        Hidden(Drawn(Clear(obj))), Hidden(Drawn(Mark(obj))))>>)>>)>>, c, c)
  BY <1>23, <1>22, UntilDoes
<1>25. q.update \in Nat /\ q.mctrl \in Nat
  BY DEF Calm, State
<1>26. PICK f : IsEnded(c, "MCTRL", f) /\ Does(<<END("MCTRL")>>, c, f)
  BY <1>2, <1>7, <1>25, Ends1 DEF Count, IsBegun, IsMarked
<1>27. Does(<<Either(Hidden(Drawn(Mark(obj))), Hidden(Drawn(Clear(obj)))), BEG("MCTRL"),
        Until(BUTTON, <<Wait({BUTTON, M1}), If(BUTTON, <<>>, <<If(obj,
        Hidden(Drawn(Clear(obj))), Hidden(Drawn(Mark(obj))))>>)>>), END("MCTRL")>>, q, f)
  BY <1>6, <1>7, <1>24, <1>26, Four
<1>28. Under(f, r)
  BY <1>2, <1>7, <1>26 DEF Under, Calm, State, IsBegun, IsEnded, IsMarked
<1>29. q \in State /\ r \in State /\ f \in State
  BY <1>2, <1>7, <1>26 DEF Calm, IsBegun, IsEnded, IsMarked
<1>30. Does(<<Either(Hidden(Drawn(Mark(obj))), Hidden(Drawn(Clear(obj)))), BEG("MCTRL"),
        Until(BUTTON, <<Wait({BUTTON, M1}), If(BUTTON, <<>>, <<If(obj,
        Hidden(Drawn(Clear(obj))), Hidden(Drawn(Mark(obj))))>>)>>), END("MCTRL")>>, q, r)
  BY <1>27, <1>28, <1>29, UnderSelf, Weaker
<1> QED
  BY <1>30 DEF Graf_do_watchbox

\* The same, with the state it leads to.
LEMMA Watched ==
  ASSUME NEW q \in Calm, MayBegin(q, "MCTRL"), NEW obj \in Thing
  PROVE  \E a : IsMarked(q, obj, a) /\ Does(Graf_do_watchbox(obj), q, a)
BY Marks1, WatchboxDoes

\* Clicks on the elements of a window.
LEMMA ArrowDoes ==
  ASSUME NEW q \in Calm, MayBegin(q, "MCTRL"), q.clicks > 0, NEW r, IsUsed(q, r)
  PROVE  Does(handle_arrow_click, q, r)
<1>1. PICK a : IsBegun(q, "MCTRL", a) /\ Does(<<BEG("MCTRL")>>, q, a)
  BY Begins1 DEF MayBegin, Calm, State
<1>2. Does(Evnt_do_button, a, a)
  BY <1>1, ButtonKeeps DEF IsBegun
<1>3. PICK b : IsMarked(a, "arrow", b) /\ Does(Hidden(Drawn(Mark("arrow"))), a, b)
  BY <1>1, Marks1 DEF Thing, IsBegun
<1>4. Does(Evnt_do_button, b, b)
  BY <1>1, <1>3, ButtonKeeps DEF IsBegun, IsMarked
<1>5. PICK c : IsCleared(b, "arrow", c) /\ Does(Hidden(Drawn(Clear("arrow"))), b, c)
  BY <1>1, <1>3, Clears1 DEF IsBegun, IsMarked
<1>6. Does(Hidden(Drawn(Mark("arrow"))) \o Evnt_do_button
           \o Hidden(Drawn(Clear("arrow"))), a, c)
  BY <1>3, <1>4, <1>5, Chain3
<1>7. Under(c, a)
  BY <1>1, <1>3, <1>5 DEF Under, Calm, State, IsBegun, IsCleared, IsMarked
<1>8. a \in State /\ c \in State
  BY <1>1, <1>3, <1>5 DEF Calm, IsBegun, IsCleared, IsMarked
<1>9. Does(Hidden(Drawn(Mark("arrow"))) \o Evnt_do_button
           \o Hidden(Drawn(Clear("arrow"))), a, a)
  BY <1>6, <1>7, <1>8, UnderSelf, Weaker
<1>10. Does(<<Either(Hidden(Drawn(Mark("arrow"))) \o Evnt_do_button
           \o Hidden(Drawn(Clear("arrow"))), Evnt_do_button)>>, a, a)
  BY <1>9, <1>2, EitherDoes
<1>11. PICK d : IsUsed(a, d) /\ Does(<<Tell("WM_ARROWED")>>, a, d)
  BY <1>1, Sends1 DEF IsBegun
<1>12. q.update \in Nat /\ q.mctrl \in Nat
  BY DEF Calm, State
<1>13. PICK e : IsEnded(d, "MCTRL", e) /\ Does(<<END("MCTRL")>>, d, e)
  BY <1>1, <1>11, <1>12, Ends1 DEF Count, IsBegun, IsUsed
<1>14. Does(<<BEG("MCTRL"), Either(Hidden(Drawn(Mark("arrow"))) \o Evnt_do_button
           \o Hidden(Drawn(Clear("arrow"))), Evnt_do_button), Tell("WM_ARROWED"),
                   END("MCTRL")>>, q, e)
  BY <1>1, <1>10, <1>11, <1>13, Four
<1>15. Under(e, r)
  BY <1>1, <1>11, <1>13 DEF Under, Calm, State, IsBegun, IsEnded, IsUsed
<1>16. q \in State /\ r \in State /\ e \in State
  BY <1>1, <1>11, <1>13 DEF Calm, IsBegun, IsEnded, IsUsed
<1>17. Does(<<BEG("MCTRL"), Either(Hidden(Drawn(Mark("arrow"))) \o Evnt_do_button
           \o Hidden(Drawn(Clear("arrow"))), Evnt_do_button), Tell("WM_ARROWED"),
                   END("MCTRL")>>, q, r)
  BY <1>14, <1>15, <1>16, UnderSelf, Weaker
<1> QED
  BY <1>17 DEF handle_arrow_click, Wind_change

\* The form of the mouse is set, and restored.
LEMMA MoverDoes ==
  ASSUME NEW q \in Calm, MayBegin(q, "MCTRL"), q.clicks > 0, q.free, q.form = "own",
         NEW r, IsUsed(q, r)
  PROVE  Does(handle_mover_click, q, r)
<1>1. PICK a : IsBegun(q, "MCTRL", a) /\ Does(<<BEG("MCTRL")>>, q, a)
  BY Begins1 DEF MayBegin, Calm, State
<1>2. PICK b : IsMarked(a, "name", b) /\ Does(Hidden(Drawn(Mark("name"))), a, b)
  BY <1>1, Marks1 DEF Thing, IsBegun
<1>3. Does(<<Wait({BUTTON, TIMER})>>, b, b)
  BY <1>1, <1>2, WaitKeeps DEF IsBegun, IsMarked
<1>4. PICK c : IsUsed(b, c) /\ Does(<<Tell("WM_TOPPED")>>, b, c)
  BY <1>1, <1>2, Sends1 DEF IsBegun, IsMarked
<1>5. PICK d : IsFormed(b, "FLAT_HAND", d) /\ Does(<<Form("FLAT_HAND")>>, b, d)
  BY <1>1, <1>2, Forms1 DEF IsBegun, IsMarked
<1>6. PICK e : IsBegun(d, "UPDATE", e) /\ Does(<<BEG("UPDATE")>>, d, e)
  BY <1>1, <1>2, <1>5, BeginsUpdate DEF IsBegun, IsFormed, IsMarked
<1>7. Does(<<Form("FLAT_HAND"), BEG("UPDATE")>>, b, e)
  BY <1>5, <1>6, Two
<1>8. Does(Dragged, e, e)
  BY <1>1, <1>2, <1>5, <1>6, DraggedKeeps DEF IsBegun, IsFormed, IsMarked
<1>9. PICK f : IsUsed(e, f) /\ Does(<<Tell("WM_MOVED")>>, e, f)
  BY <1>1, <1>2, <1>5, <1>6, Sends1 DEF IsBegun, IsFormed, IsMarked
<1>10. q.update \in Nat /\ q.mctrl \in Nat
  BY DEF Calm, State
<1>11. PICK g : IsEnded(f, "UPDATE", g) /\ Does(<<END("UPDATE")>>, f, g)
  BY <1>1, <1>2, <1>5, <1>6, <1>9, <1>10, Ends1 DEF Count, IsBegun, IsFormed, IsMarked,
    IsUsed
<1>12. PICK h : IsFormed(g, "M_RESTORE", h) /\ Does(<<Form("M_RESTORE")>>, g, h)
  BY <1>1, <1>2, <1>5, <1>6, <1>9, <1>11, Forms1 DEF IsBegun, IsEnded, IsFormed,
    IsMarked, IsUsed
<1>13. Does(<<Tell("WM_MOVED"), END("UPDATE"), Form("M_RESTORE")>>, e, h)
  BY <1>9, <1>11, <1>12, Three
<1>14. Does(<<Form("FLAT_HAND"), BEG("UPDATE")>> \o Dragged
           \o <<Tell("WM_MOVED"), END("UPDATE"), Form("M_RESTORE")>>, b, h)
  BY <1>7, <1>8, <1>13, Chain3
<1>15. Under(h, c)
  BY <1>1, <1>2, <1>4, <1>5, <1>6, <1>9, <1>11, <1>12 DEF Under, Calm, State, Whose,
    IsBegun, IsEnded, IsFormed, IsMarked, IsUsed
<1>16. b \in State /\ c \in State /\ h \in State
  BY <1>1, <1>2, <1>4, <1>5, <1>6, <1>9, <1>11, <1>12 DEF Calm, IsBegun, IsEnded,
    IsFormed, IsMarked, IsUsed
<1>17. Does(<<Form("FLAT_HAND"), BEG("UPDATE")>> \o Dragged
           \o <<Tell("WM_MOVED"), END("UPDATE"), Form("M_RESTORE")>>, b, c)
  BY <1>14, <1>15, <1>16, UnderSelf, Weaker
<1>18. b \in State /\ c \in State /\ b.pressed = "maybe"
  BY <1>1, <1>2, <1>4 DEF Calm, IsBegun, IsMarked, IsUsed
<1>19. Does(<<If(BUTTON, <<Tell("WM_TOPPED")>>, <<Form("FLAT_HAND"), BEG("UPDATE")>>
           \o Dragged \o <<Tell("WM_MOVED"), END("UPDATE"), Form("M_RESTORE")>>)>>, b, c)
  BY <1>18, <1>4, <1>17, IfDoes
<1>20. Does(<<Wait({BUTTON, TIMER}), If(BUTTON, <<Tell("WM_TOPPED")>>, <<Form("FLAT_HAND"),
        BEG("UPDATE")>>
           \o Dragged \o <<Tell("WM_MOVED"), END("UPDATE"), Form("M_RESTORE")>>)>>, b, c)
  BY <1>3, <1>19, Two
<1>21. PICK i : IsCleared(c, "name", i) /\ Does(Hidden(Drawn(Clear("name"))), c, i)
  BY <1>1, <1>2, <1>4, Clears1 DEF IsBegun, IsMarked, IsUsed
<1>22. PICK j : IsEnded(i, "MCTRL", j) /\ Does(<<END("MCTRL")>>, i, j)
  BY <1>1, <1>2, <1>4, <1>21, <1>10, Ends1 DEF Count, IsBegun, IsCleared, IsMarked, IsUsed
<1>23. Does(<<BEG("MCTRL")>> \o Hidden(Drawn(Mark("name")))
           \o <<Wait({BUTTON, TIMER}), If(BUTTON, <<Tell("WM_TOPPED")>>, <<Form("FLAT_HAND"),
                   BEG("UPDATE")>>
           \o Dragged \o <<Tell("WM_MOVED"), END("UPDATE"), Form("M_RESTORE")>>)>>
           \o Hidden(Drawn(Clear("name"))) \o <<END("MCTRL")>>, q, j)
  BY <1>1, <1>2, <1>20, <1>21, <1>22, Chain5
<1>24. Under(j, r)
  BY <1>1, <1>2, <1>4, <1>21, <1>22 DEF Under, Calm, State, IsBegun, IsCleared, IsEnded,
    IsMarked, IsUsed
<1>25. q \in State /\ r \in State /\ j \in State
  BY <1>1, <1>2, <1>4, <1>21, <1>22 DEF Calm, IsBegun, IsCleared, IsEnded, IsMarked,
    IsUsed
<1>26. Does(<<BEG("MCTRL")>> \o Hidden(Drawn(Mark("name")))
           \o <<Wait({BUTTON, TIMER}), If(BUTTON, <<Tell("WM_TOPPED")>>, <<Form("FLAT_HAND"),
                   BEG("UPDATE")>>
           \o Dragged \o <<Tell("WM_MOVED"), END("UPDATE"), Form("M_RESTORE")>>)>>
           \o Hidden(Drawn(Clear("name"))) \o <<END("MCTRL")>>, q, r)
  BY <1>23, <1>24, <1>25, UnderSelf, Weaker
<1> QED
  BY <1>26 DEF handle_mover_click, Wind_change, Graf_do_dragbox

\* The lower right corner is dragged.
LEMMA SizerDoes ==
  ASSUME NEW q \in Calm, MayBegin(q, "MCTRL"), q.clicks > 0, NEW r, IsUsed(q, r)
  PROVE  Does(handle_sizer_click, q, r)
<1>1. PICK a : IsBegun(q, "MCTRL", a) /\ Does(<<BEG("MCTRL")>>, q, a)
  BY Begins1 DEF MayBegin, Calm, State
<1>2. PICK b : IsMarked(a, "sizer", b) /\ Does(Hidden(Drawn(Mark("sizer"))), a, b)
  BY <1>1, Marks1 DEF Thing, IsBegun
<1>3. Does(Dragged, b, b)
  BY <1>1, <1>2, DraggedKeeps DEF IsBegun, IsMarked
<1>4. PICK c : IsUsed(b, c) /\ Does(<<Tell("WM_SIZED")>>, b, c)
  BY <1>1, <1>2, Sends1 DEF IsBegun, IsMarked
<1>5. PICK d : IsBegun(c, "UPDATE", d) /\ Does(<<BEG("UPDATE")>>, c, d)
  BY <1>1, <1>2, <1>4, BeginsUpdate DEF IsBegun, IsMarked, IsUsed
<1>6. Does(<<Tell("WM_SIZED"), BEG("UPDATE")>>, b, d)
  BY <1>4, <1>5, Two
<1>7. PICK e : IsCleared(d, "sizer", e) /\ Does(Hidden(Drawn(Clear("sizer"))), d, e)
  BY <1>1, <1>2, <1>4, <1>5, Clears1 DEF IsBegun, IsMarked, IsUsed
<1>8. q.update \in Nat /\ q.mctrl \in Nat
  BY DEF Calm, State
<1>9. PICK f : IsEnded(e, "UPDATE", f) /\ Does(<<END("UPDATE")>>, e, f)
  BY <1>1, <1>2, <1>4, <1>5, <1>7, <1>8, Ends1 DEF Count, IsBegun, IsCleared, IsMarked,
    IsUsed
<1>10. PICK g : IsEnded(f, "MCTRL", g) /\ Does(<<END("MCTRL")>>, f, g)
  BY <1>1, <1>2, <1>4, <1>5, <1>7, <1>9, <1>8, Ends1 DEF Count, IsBegun, IsCleared,
    IsEnded, IsMarked, IsUsed
<1>11. Does(<<END("UPDATE"), END("MCTRL")>>, e, g)
  BY <1>9, <1>10, Two
<1>12. Does(<<BEG("MCTRL")>> \o Hidden(Drawn(Mark("sizer"))) \o Dragged
           \o <<Tell("WM_SIZED"), BEG("UPDATE")>> \o Hidden(Drawn(Clear("sizer"))), q, e)
  BY <1>1, <1>2, <1>3, <1>6, <1>7, Chain5
<1>13. Does(<<BEG("MCTRL")>> \o Hidden(Drawn(Mark("sizer"))) \o Dragged
           \o <<Tell("WM_SIZED"), BEG("UPDATE")>> \o Hidden(Drawn(Clear("sizer")))
           \o <<END("UPDATE"), END("MCTRL")>>, q, g)
  BY <1>12, <1>11, Thereafter
<1>14. Under(g, r)
  BY <1>1, <1>2, <1>4, <1>5, <1>7, <1>9, <1>10 DEF Under, Calm, State, IsBegun,
    IsCleared, IsEnded, IsMarked, IsUsed
<1>15. q \in State /\ r \in State /\ g \in State
  BY <1>1, <1>2, <1>4, <1>5, <1>7, <1>9, <1>10 DEF Calm, IsBegun, IsCleared, IsEnded,
    IsMarked, IsUsed
<1>16. Does(<<BEG("MCTRL")>> \o Hidden(Drawn(Mark("sizer"))) \o Dragged
           \o <<Tell("WM_SIZED"), BEG("UPDATE")>> \o Hidden(Drawn(Clear("sizer")))
           \o <<END("UPDATE"), END("MCTRL")>>, q, r)
  BY <1>13, <1>14, <1>15, UnderSelf, Weaker
<1> QED
  BY <1>16 DEF handle_sizer_click, Wind_change, Graf_do_rubberbox

\* The buttons of a window.
LEMMA SmallerDoes ==
  ASSUME NEW q \in Calm, MayBegin(q, "MCTRL"), q.clicks > 0, NEW r, IsUsed(q, r)
  PROVE  Does(handle_smaller_click, q, r)
<1>1. PICK a : IsBegun(q, "MCTRL", a) /\ Does(<<BEG("MCTRL")>>, q, a)
  BY Begins1 DEF MayBegin, Calm, State
<1>2. PICK b : IsMarked(a, "smaller", b) /\ Does(Graf_do_watchbox("smaller"), a, b)
  BY <1>1, Watched DEF MayBegin, Thing, Calm, State, IsBegun
<1>3. PICK c : IsUsed(b, c) /\ Does(<<Tell("WM_ICONIFY")>>, b, c)
  BY <1>1, <1>2, Sends1 DEF IsBegun, IsMarked
<1>4. Does(<<>>, c, c)
  BY <1>1, <1>2, <1>3, NothingKeeps DEF IsBegun, IsMarked, IsUsed
<1>5. Under(b, c)
  BY <1>1, <1>2, <1>3 DEF Under, Calm, State, IsBegun, IsMarked, IsUsed
<1>6. b \in State /\ c \in State
  BY <1>1, <1>2, <1>3 DEF Calm, IsBegun, IsMarked, IsUsed
<1>7. Does(<<>>, b, c)
  BY <1>4, <1>5, <1>6, UnderSelf, Weaker
<1>8. b \in State /\ c \in State /\ b.pressed = "maybe"
  BY <1>1, <1>2, <1>3 DEF Calm, IsBegun, IsMarked, IsUsed
<1>9. Does(<<If("smaller", <<Tell("WM_ICONIFY")>>, <<>>)>>, b, c)
  BY <1>8, <1>3, <1>7, IfDoes
<1>10. PICK d : IsCleared(c, "smaller", d) /\ Does(Hidden(Drawn(Clear("smaller"))), c, d)
  BY <1>1, <1>2, <1>3, Clears1 DEF IsBegun, IsMarked, IsUsed
<1>11. q.update \in Nat /\ q.mctrl \in Nat
  BY DEF Calm, State
<1>12. PICK e : IsEnded(d, "MCTRL", e) /\ Does(<<END("MCTRL")>>, d, e)
  BY <1>1, <1>2, <1>3, <1>10, <1>11, Ends1 DEF Count, IsBegun, IsCleared, IsMarked, IsUsed
<1>13. Does(<<BEG("MCTRL")>> \o Graf_do_watchbox("smaller")
           \o <<If("smaller", <<Tell("WM_ICONIFY")>>, <<>>)>>
           \o Hidden(Drawn(Clear("smaller"))) \o <<END("MCTRL")>>, q, e)
  BY <1>1, <1>2, <1>9, <1>10, <1>12, Chain5
<1>14. Under(e, r)
  BY <1>1, <1>2, <1>3, <1>10, <1>12 DEF Under, Calm, State, IsBegun, IsCleared, IsEnded,
    IsMarked, IsUsed
<1>15. q \in State /\ r \in State /\ e \in State
  BY <1>1, <1>2, <1>3, <1>10, <1>12 DEF Calm, IsBegun, IsCleared, IsEnded, IsMarked,
    IsUsed
<1>16. Does(<<BEG("MCTRL")>> \o Graf_do_watchbox("smaller")
           \o <<If("smaller", <<Tell("WM_ICONIFY")>>, <<>>)>>
           \o Hidden(Drawn(Clear("smaller"))) \o <<END("MCTRL")>>, q, r)
  BY <1>13, <1>14, <1>15, UnderSelf, Weaker
<1> QED
  BY <1>16 DEF handle_smaller_click, Wind_change

\* The closer and the fuller.
LEMMA WindowButtonDoes ==
  ASSUME NEW q \in Calm, MayBegin(q, "MCTRL"), q.clicks > 0, NEW obj \in Thing, NEW r,
         IsUsed(q, r)
  PROVE  Does(handle_window_button_click(obj), q, r)
<1>1. PICK a : IsBegun(q, "MCTRL", a) /\ Does(<<BEG("MCTRL")>>, q, a)
  BY Begins1 DEF MayBegin, Calm, State
<1>2. PICK b : IsMarked(a, obj, b) /\ Does(Graf_do_watchbox(obj), a, b)
  BY <1>1, Watched DEF MayBegin, Thing, Calm, State, IsBegun
<1>3. PICK c : IsUsed(b, c) /\ Does(<<Tell("WM_CLOSED")>>, b, c)
  BY <1>1, <1>2, Sends1 DEF IsBegun, IsMarked
<1>4. Does(<<>>, c, c)
  BY <1>1, <1>2, <1>3, NothingKeeps DEF IsBegun, IsMarked, IsUsed
<1>5. Under(b, c)
  BY <1>1, <1>2, <1>3 DEF Under, Calm, State, IsBegun, IsMarked, IsUsed
<1>6. b \in State /\ c \in State
  BY <1>1, <1>2, <1>3 DEF Calm, IsBegun, IsMarked, IsUsed
<1>7. Does(<<>>, b, c)
  BY <1>4, <1>5, <1>6, UnderSelf, Weaker
<1>8. b \in State /\ c \in State /\ b.pressed = "maybe"
  BY <1>1, <1>2, <1>3 DEF Calm, IsBegun, IsMarked, IsUsed
<1>9. Does(<<If(obj, <<Tell("WM_CLOSED")>>, <<>>)>>, b, c)
  BY <1>8, <1>3, <1>7, IfDoes
<1>10. PICK d : IsCleared(c, obj, d) /\ Does(Hidden(Drawn(Clear(obj))), c, d)
  BY <1>1, <1>2, <1>3, Clears1 DEF IsBegun, IsMarked, IsUsed
<1>11. q.update \in Nat /\ q.mctrl \in Nat
  BY DEF Calm, State
<1>12. PICK e : IsEnded(d, "MCTRL", e) /\ Does(<<END("MCTRL")>>, d, e)
  BY <1>1, <1>2, <1>3, <1>10, <1>11, Ends1 DEF Count, IsBegun, IsCleared, IsMarked, IsUsed
<1>13. Does(<<BEG("MCTRL")>> \o Graf_do_watchbox(obj)
           \o <<If(obj, <<Tell("WM_CLOSED")>>, <<>>)>> \o Hidden(Drawn(Clear(obj)))
           \o <<END("MCTRL")>>, q, e)
  BY <1>1, <1>2, <1>9, <1>10, <1>12, Chain5
<1>14. Under(e, r)
  BY <1>1, <1>2, <1>3, <1>10, <1>12 DEF Under, Calm, State, IsBegun, IsCleared, IsEnded,
    IsMarked, IsUsed
<1>15. q \in State /\ r \in State /\ e \in State
  BY <1>1, <1>2, <1>3, <1>10, <1>12 DEF Calm, IsBegun, IsCleared, IsEnded, IsMarked,
    IsUsed
<1>16. Does(<<BEG("MCTRL")>> \o Graf_do_watchbox(obj)
           \o <<If(obj, <<Tell("WM_CLOSED")>>, <<>>)>> \o Hidden(Drawn(Clear(obj)))
           \o <<END("MCTRL")>>, q, r)
  BY <1>13, <1>14, <1>15, UnderSelf, Weaker
<1> QED
  BY <1>16 DEF handle_window_button_click, Wind_change

\* The slider takes the screen before the mouse.
LEMMA SliderDoes ==
  ASSUME NEW q \in Calm, MayBegin(q, "MCTRL"), q.clicks > 0, q.free, q.form = "own",
         q.doing = "other", NEW r, IsUsed(q, r)
  PROVE  Does(handle_slider_click, q, r)
<1>1. PICK a : IsMinded(q, "slider", a) /\ Does(<<Doing("slider")>>, q, a)
  BY Minds1 DEF Errand
<1>2. PICK b : IsFormed(a, "FLAT_HAND", b) /\ Does(<<Form("FLAT_HAND")>>, a, b)
  BY <1>1, Forms1 DEF IsMinded
<1>3. Does(<<Doing("slider"), Form("FLAT_HAND")>>, q, b)
  BY <1>1, <1>2, Two
<1>4. PICK c : IsMarked(b, "slider", c) /\ Does(Hidden(Drawn(Mark("slider"))), b, c)
  BY <1>1, <1>2, Marks1 DEF Thing, IsFormed, IsMinded
<1>5. PICK d : IsBegun(c, "UPDATE", d) /\ Does(<<BEG("UPDATE")>>, c, d)
  BY <1>1, <1>2, <1>4, BeginsUpdate DEF IsFormed, IsMarked, IsMinded
<1>6. Does(Graf_do_slidebox, d, d)
  BY <1>1, <1>2, <1>4, <1>5, BoxKeeps DEF Foremost, MayBegin, Calm, IsBegun, IsFormed, IsMarked,
    IsMinded
<1>7. PICK e : IsUsed(d, e) /\ Does(<<Tell("WM_VSLID")>>, d, e)
  BY <1>1, <1>2, <1>4, <1>5, Sends1 DEF IsBegun, IsFormed, IsMarked, IsMinded
<1>8. q.update \in Nat /\ q.mctrl \in Nat
  BY DEF Calm, State
<1>9. PICK f : IsEnded(e, "UPDATE", f) /\ Does(<<END("UPDATE")>>, e, f)
  BY <1>1, <1>2, <1>4, <1>5, <1>7, <1>8, Ends1 DEF Count, IsBegun, IsFormed, IsMarked,
    IsMinded, IsUsed
<1>10. Does(<<Tell("WM_VSLID"), END("UPDATE")>>, d, f)
  BY <1>7, <1>9, Two
<1>11. PICK g : IsCleared(f, "slider", g) /\ Does(Hidden(Drawn(Clear("slider"))), f, g)
  BY <1>1, <1>2, <1>4, <1>5, <1>7, <1>9, Clears1 DEF IsBegun, IsEnded, IsFormed,
    IsMarked, IsMinded, IsUsed
<1>12. PICK h : IsFormed(g, "M_RESTORE", h) /\ Does(<<Form("M_RESTORE")>>, g, h)
  BY ZenonT(60), <1>1, <1>2, <1>4, <1>5, <1>7, <1>9, <1>11, Forms1 DEF IsBegun, IsCleared, IsEnded,
    IsFormed, IsMarked, IsMinded, IsUsed
<1>13. PICK i : IsMinded(h, "other", i) /\ Does(<<Doing("other")>>, h, i)
  BY <1>1, <1>2, <1>4, <1>5, <1>7, <1>9, <1>11, <1>12, Minds1 DEF Errand, IsBegun,
    IsCleared, IsEnded, IsFormed, IsMarked, IsMinded, IsUsed
<1>14. Does(<<Form("M_RESTORE"), Doing("other")>>, g, i)
  BY <1>12, <1>13, Two
<1>15. Does(<<Doing("slider"), Form("FLAT_HAND")>> \o Hidden(Drawn(Mark("slider")))
           \o <<BEG("UPDATE")>> \o Graf_do_slidebox
           \o <<Tell("WM_VSLID"), END("UPDATE")>>, q, f)
  BY <1>3, <1>4, <1>5, <1>6, <1>10, Chain5
<1>16. Does(<<Doing("slider"), Form("FLAT_HAND")>> \o Hidden(Drawn(Mark("slider")))
           \o <<BEG("UPDATE")>> \o Graf_do_slidebox \o <<Tell("WM_VSLID"), END("UPDATE")>>
           \o Hidden(Drawn(Clear("slider")))
           \o <<Form("M_RESTORE"), Doing("other")>>, q, i)
  BY <1>15, <1>11, <1>14, Chain3
<1>17. Under(i, r)
  BY <1>1, <1>2, <1>4, <1>5, <1>7, <1>9, <1>11, <1>12, <1>13 DEF Under, Calm, State,
    Whose, IsBegun, IsCleared, IsEnded, IsFormed, IsMarked, IsMinded, IsUsed
<1>18. q \in State /\ r \in State /\ i \in State
  BY <1>1, <1>2, <1>4, <1>5, <1>7, <1>9, <1>11, <1>12, <1>13 DEF Calm, IsBegun,
    IsCleared, IsEnded, IsFormed, IsMarked, IsMinded, IsUsed
<1>19. Does(<<Doing("slider"), Form("FLAT_HAND")>> \o Hidden(Drawn(Mark("slider")))
           \o <<BEG("UPDATE")>> \o Graf_do_slidebox \o <<Tell("WM_VSLID"), END("UPDATE")>>
           \o Hidden(Drawn(Clear("slider")))
           \o <<Form("M_RESTORE"), Doing("other")>>, q, r)
  BY <1>16, <1>17, <1>18, UnderSelf, Weaker
<1> QED
  BY <1>19 DEF handle_slider_click, Wind_change

\* A message that the click leads to.
LEMMA ToppedDoes ==
  ASSUME NEW q \in Calm, q.clicks > 0, NEW r, IsUsed(q, r), NEW m, m # "menu"
  PROVE  Does(<<Tell(m)>>, q, r)
<1>1. PICK a : IsUsed(q, a) /\ Does(<<Tell(m)>>, q, a)
  BY Sends1
<1>2. q \in State /\ r \in State /\ a \in State /\ Under(a, r)
  BY <1>1 DEF Calm, State, IsUsed, Under
<1> QED
  BY <1>1, <1>2, UnderSelf, Weaker

\* A test that tells that an object is not marked.
LEMMA MarkedTest ==
  ASSUME NEW q \in Calm, NEW e, e # BUTTON, NEW r, IsCleared(q, e, r), NEW a,
         Does(a, q, r), Does(<<>>, r, r)
  PROVE  Does(<<If(e, a, <<>>)>>, q, r)
<1>1. PICK n : n = [q EXCEPT !.marks = @ \ {e}, !.pressed = IF e = BUTTON THEN "no" ELSE @]
  OBVIOUS
<1>2. PICK y : y = [q EXCEPT !.pressed = IF e = BUTTON THEN "yes" ELSE @]
  OBVIOUS
<1>3. q \in State /\ r \in State /\ y = q
  BY <1>2 DEF Calm, State, IsCleared
<1>4. n = [q EXCEPT !.marks = @ \ {e}]
  BY <1>1, <1>3 DEF State
<1>5. Does(<<>>, n, r)
  <2>1. n \in State /\ Under(n, r)
    BY <1>3, <1>4 DEF State, IsCleared, Under
  <2> QED
    BY <1>3, <2>1, Nothing
<1>6. IsSteps(a) /\ IsSteps(<<>>)
  BY DEF Does
<1> QED
  BY <1>1, <1>2, <1>3, <1>5, <1>6, TestDoes

\* Clicks are counted.
LEMMA CountKeeps ==
  ASSUME NEW q \in Calm
  PROVE  Does(count_clicks, q, q)
<1>1. Does(<<Remember("counted")>>, q, q)
  BY NoteKeeps DEF BUTTON
<1>2. Does(<<>>, q, q)
  BY NothingKeeps
<1>3. Does(<<Wait({BUTTON, TIMER})>>, q, q)
  BY WaitKeeps
<1>4. q \in State /\ q.pressed = "maybe"
  BY q \in Calm DEF Calm
<1>5. Does(<<If(BUTTON, <<>>, <<Remember("counted")>>)>>, q, q)
  BY <1>4, <1>2, <1>1, IfDoes
<1>6. Does(<<Wait({BUTTON, TIMER}), If(BUTTON, <<>>, <<Remember("counted")>>)>>, q, q)
  BY <1>3, <1>5, Two
<1>7. q \in State /\ q.pressed = "maybe"
  BY q \in Calm DEF Calm
<1>8. Does(<<If(BUTTON, <<Wait({BUTTON, TIMER}), If(BUTTON, <<>>, <<Remember("counted")>>)>>,
        <<Remember("counted")>>)>>, q, q)
  BY <1>7, <1>6, <1>1, IfDoes
<1>9. Does(<<Wait({BUTTON, TIMER}), If(BUTTON, <<Wait({BUTTON, TIMER}), If(BUTTON, <<>>,
        <<Remember("counted")>>)>>, <<Remember("counted")>>)>>, q, q)
  BY <1>3, <1>8, Two
<1>10. Does(<<Either(<<Remember("counted")>>, <<Wait({BUTTON, TIMER}), If(BUTTON,
        <<Wait({BUTTON, TIMER}), If(BUTTON, <<>>, <<Remember("counted")>>)>>,
        <<Remember("counted")>>)>>)>>, q, q)
  BY <1>1, <1>9, EitherDoes
<1>11. q.pressed = "maybe"
  BY q \in Calm DEF Calm
<1>12. Does(<<Until("counted", <<Either(<<Remember("counted")>>, <<Wait({BUTTON, TIMER}),
        If(BUTTON, <<Wait({BUTTON, TIMER}), If(BUTTON, <<>>, <<Remember("counted")>>)>>,
        <<Remember("counted")>>)>>)>>)>>, q, q)
  BY <1>11, <1>10, UntilDoes
<1> QED
  BY <1>12 DEF count_clicks

\* A click that the application asked for.
LEMMA UserClickDoes ==
  ASSUME NEW q \in Calm, q.clicks > 0, NEW r, IsUsed(q, r)
  PROVE  Does(handle_user_click(q.asked), q, r)
<1>1. q \in State /\ r \in State /\ Under(q, r)
  BY DEF Calm, State, IsUsed, Under
<1>2. Does(<<>>, q, r)
  BY <1>1, Nothing
<1>3. CASE BUTTON \in q.asked
  <2>1. PICK a : IsUsed(q, a) /\ Does(<<Report({BUTTON})>>, q, a)
    BY <1>3, Sends1
  <2>2. a \in State /\ Under(a, r)
    BY <2>1 DEF Calm, State, IsUsed, Under
  <2>3. Does(count_clicks, q, q)
    BY CountKeeps
  <2>4. Does(count_clicks \o <<Report({BUTTON})>>, q, a)
    BY <2>1, <2>3, Thereafter
  <2>5. Does(count_clicks \o <<Report({BUTTON})>>, q, r)
    BY <1>1, <2>2, <2>4, UnderSelf, Weaker
  <2>6. Does(<<Either(<<>>, count_clicks \o <<Report({BUTTON})>>)>>, q, r)
    BY <1>2, <2>5, EitherDoes
  <2> QED
    BY <1>3, <2>6 DEF handle_user_click
<1>4. CASE BUTTON \notin q.asked
  BY <1>2, <1>4 DEF handle_user_click
<1> QED
  BY <1>3, <1>4

\* An application that a click is handled in.
Clicked(q) ==
  /\ q \in Calm /\ q.update = 0 /\ q.mctrl = 0 /\ q.clicks > 0 /\ q.free
  /\ q.form = "own" /\ q.doing = "other"

\* A click anywhere on a window.
LEMMA ElementDoes ==
  ASSUME NEW q, Clicked(q), NEW r, IsUsed(q, r), NEW obj \in Element
  PROVE  Does(handle_window_element_click(obj, q.asked), q, r)
<1>1. q \in Calm /\ q.clicks > 0 /\ q.free /\ q.form = "own" /\ q.doing = "other"
  BY DEF Clicked
<1>2. MayBegin(q, "MCTRL")
  BY DEF Clicked, MayBegin, Calm
<1>3. CASE obj \in {"closer", "fuller"}
  <2>1. obj \in Thing
    BY <1>3 DEF Thing
  <2>2. Does(handle_window_button_click(obj), q, r)
    BY <1>1, <1>2, <2>1, WindowButtonDoes
  <2> QED
    BY <1>3, <2>2 DEF handle_window_element_click
<1>4. CASE obj = "smaller"
  BY <1>1, <1>2, <1>4, SmallerDoes DEF handle_window_element_click
<1>5. CASE obj = "sizer"
  BY <1>1, <1>2, <1>5, SizerDoes DEF handle_window_element_click
<1>6. CASE obj = "mover"
  BY <1>1, <1>2, <1>6, MoverDoes DEF handle_window_element_click
<1>7. CASE obj = "arrow"
  BY <1>1, <1>2, <1>7, ArrowDoes DEF handle_window_element_click
<1>8. CASE obj = "slider"
  BY <1>1, <1>2, <1>8, SliderDoes DEF handle_window_element_click
<1>9. CASE obj = "border"
  <2>1. Does(<<Tell("WM_TOPPED")>>, q, r) /\ Does(handle_user_click(q.asked), q, r)
    BY <1>1, ToppedDoes, UserClickDoes
  <2>2. Does(<<Either(<<Tell("WM_TOPPED")>>, handle_user_click(q.asked))>>, q, r)
    BY <2>1, EitherDoes
  <2> QED
    BY <1>9, <2>2 DEF handle_window_element_click
<1> QED
  BY <1>3, <1>4, <1>5, <1>6, <1>7, <1>8, <1>9 DEF Element

\* A click anywhere on the screen.
LEMMA PlaceDoes ==
  ASSUME NEW q, Clicked(q), NEW r, IsUsed(q, r), NEW place \in Target
  PROVE  Does(Evhd_handle_button(place, q.asked), q, r)
<1>1. q \in Calm /\ q.clicks > 0
  BY DEF Clicked
<1>2. Does(<<Tell("WM_TOPPED")>>, q, r) /\ Does(handle_user_click(q.asked), q, r)
  BY <1>1, ToppedDoes, UserClickDoes
<1>3. CASE place = "user"
  BY <1>2, <1>3, Zenon DEF Evhd_handle_button
<1>4. CASE place = "covered"
  <2>1. Evhd_handle_button(place, q.asked) = <<Tell("WM_TOPPED")>>
    BY <1>4 DEF Evhd_handle_button
  <2> QED
    BY <1>2, <2>1
<1>5. CASE place = "icon"
  <2>1. Evhd_handle_button(place, q.asked) =
          Evnt_do_button
          \o <<Either(<<Tell("WM_UNICONIFY")>>,
                      <<Either(<<Tell("WM_TOPPED")>>, handle_user_click(q.asked))>>)>>
    BY <1>5 DEF Evhd_handle_button
  <2>2. Does(<<Tell("WM_UNICONIFY")>>, q, r)
    BY <1>1, ToppedDoes
  <2>3. Does(<<Either(<<Tell("WM_TOPPED")>>, handle_user_click(q.asked))>>, q, r)
    BY <1>2, EitherDoes
  <2>4. Does(<<Either(<<Tell("WM_UNICONIFY")>>,
                      <<Either(<<Tell("WM_TOPPED")>>, handle_user_click(q.asked))>>)>>, q, r)
    BY <2>2, <2>3, EitherDoes
  <2> QED
    BY <1>1, <2>1, <2>4, ButtonKeeps, Thereafter
<1>6. CASE place \in Element
  <2>1. Evhd_handle_button(place, q.asked) = handle_window_element_click(place, q.asked)
    <3>1. place # "user" /\ place # "covered" /\ place # "icon"
      BY <1>6 DEF Element
    <3> QED
      BY <3>1, Zenon DEF Evhd_handle_button
  <2> QED
    BY <1>6, <2>1, ElementDoes
<1> QED
  BY <1>3, <1>4, <1>5, <1>6 DEF Target

\* An entry of a menu.
LEMMA DropDownKeeps ==
  ASSUME NEW q \in Calm
  PROVE  Does(handle_drop_down, q, q)
<1>1. Does(<<>>, q, q)
  BY NothingKeeps
<1>2. PICK a : IsMarked(q, "entry", a) /\ Does(Hidden(Drawn(Mark("entry"))), q, a)
  BY Marks1 DEF Thing
<1>3. Under(q, a)
  BY <1>2 DEF Under, Calm, State, IsMarked
<1>4. q \in State /\ a \in State
  BY <1>2 DEF Calm, IsMarked
<1>5. Does(<<>>, q, a)
  BY <1>1, <1>3, <1>4, UnderSelf, Weaker
<1>6. Does(<<Either(<<>>, Hidden(Drawn(Mark("entry"))))>>, q, a)
  BY <1>5, <1>2, EitherDoes
<1>7. Does(<<Wait({BUTTON, M1})>>, a, a)
  BY <1>2, WaitKeeps DEF IsMarked
<1>8. PICK b : /\ IsCleared(a, "entry", b)
               /\ Does(Hidden(Drawn(Clear("entry"))), a, b)
               /\ Does(<<Unselect("entry")>>, a, b)
  BY <1>2, Clears1 DEF IsMarked
<1>9. Does(<<>>, b, b)
  BY <1>2, <1>8, NothingKeeps DEF IsCleared, IsMarked
<1>10. Does(<<If("entry", Hidden(Drawn(Clear("entry"))), <<>>)>>, a, b)
  BY <1>2, <1>8, <1>9, MarkedTest DEF BUTTON, IsCleared, IsMarked
<1>11. Does(Evnt_do_button, a, a)
  BY <1>2, ButtonKeeps DEF IsMarked
<1>12. Does(<<Remember("closebox")>>, b, b)
  BY <1>2, <1>8, NoteKeeps DEF BUTTON, IsCleared, IsMarked
<1>13. Does(<<Unselect("entry"), Remember("closebox")>>, a, b)
  BY <1>8, <1>12, Two
<1>14. Does(Evnt_do_button \o <<Unselect("entry"), Remember("closebox")>>, a, b)
  BY <1>11, <1>13, Thereafter
<1>15. a \in State /\ b \in State /\ a.pressed = "maybe"
  BY <1>2, <1>8 DEF Calm, IsCleared, IsMarked
<1>16. Does(<<If(M1, <<If("entry", Hidden(Drawn(Clear("entry"))), <<>>)>>, Evnt_do_button
           \o <<Unselect("entry"), Remember("closebox")>>)>>, a, b)
  BY <1>15, <1>10, <1>14, IfDoes
<1>17. Does(<<Either(<<>>, Hidden(Drawn(Mark("entry")))), Wait({BUTTON, M1}), If(M1,
        <<If("entry", Hidden(Drawn(Clear("entry"))), <<>>)>>, Evnt_do_button
           \o <<Unselect("entry"), Remember("closebox")>>)>>, q, b)
  BY <1>6, <1>7, <1>16, Three
<1>18. Under(b, q)
  BY <1>2, <1>8 DEF Under, Calm, State, IsCleared, IsMarked
<1>19. q \in State /\ b \in State
  BY <1>2, <1>8 DEF Calm, IsCleared, IsMarked
<1>20. Does(<<Either(<<>>, Hidden(Drawn(Mark("entry")))), Wait({BUTTON, M1}), If(M1,
        <<If("entry", Hidden(Drawn(Clear("entry"))), <<>>)>>, Evnt_do_button
           \o <<Unselect("entry"), Remember("closebox")>>)>>, q, q)
  BY <1>17, <1>18, <1>19, UnderSelf, Weaker
<1> QED
  BY <1>20 DEF handle_drop_down

\* A title of the menu bar.
LEMMA TitleKeeps ==
  ASSUME NEW q \in Calm, MayBegin(q, "MCTRL")
  PROVE  Does(handle_selected_title, q, q)
<1>1. PICK a : IsMarked(q, "title", a) /\ Does(Hidden(Drawn(Mark("title"))), q, a)
  BY Marks1 DEF Thing
<1>2. PICK b : IsBegun(a, "MCTRL", b) /\ Does(<<BEG("MCTRL")>>, a, b)
  BY <1>1, Begins1 DEF MayBegin, Calm, State, IsMarked
<1>3. PICK c : IsBegun(b, "UPDATE", c) /\ Does(<<BEG("UPDATE")>>, b, c)
  BY <1>1, <1>2, BeginsUpdate DEF IsBegun, IsMarked
<1>4. Does(<<BEG("MCTRL"), BEG("UPDATE")>>, a, c)
  BY <1>2, <1>3, Two
<1>5. PICK d : IsMarked(c, "saved", d) /\ Does(Hidden(<<Mark("saved")>>), c, d)
  BY <1>1, <1>2, <1>3, Marks1 DEF Thing, IsBegun, IsMarked
<1>6. PICK e : /\ IsMarked(d, "box", e)
               /\ Does(Drawn(Mark("box")), d, e)
               /\ Does(Hidden(Drawn(Mark("box"))), d, e)
  BY <1>1, <1>2, <1>3, <1>5, Marks1 DEF Thing, IsBegun, IsMarked
<1>7. Does(<<Either(Drawn(Mark("box")), Hidden(Drawn(Mark("box"))))>>, d, e)
  BY <1>6, <1>6, EitherDoes
<1>8. Does(<<Wait({M1})>>, e, e)
  BY <1>1, <1>2, <1>3, <1>5, <1>6, WaitKeeps DEF IsBegun, IsMarked
<1>9. Does(<<Remember("closebox")>>, e, e)
  BY <1>1, <1>2, <1>3, <1>5, <1>6, NoteKeeps DEF BUTTON, IsBegun, IsMarked
<1>10. Does(handle_drop_down, e, e)
  BY <1>1, <1>2, <1>3, <1>5, <1>6, DropDownKeeps DEF IsBegun, IsMarked
<1>11. Does(<<Either(<<Remember("closebox")>>, handle_drop_down)>>, e, e)
  BY <1>9, <1>10, EitherDoes
<1>12. Does(<<Wait({M1}), Either(<<Remember("closebox")>>, handle_drop_down)>>, e, e)
  BY <1>8, <1>11, Two
<1>13. e.pressed = "maybe"
  BY <1>1, <1>2, <1>3, <1>5, <1>6 DEF Calm, IsBegun, IsMarked
<1>14. Does(<<Until("closebox", <<Wait({M1}), Either(<<Remember("closebox")>>,
        handle_drop_down)>>)>>, e, e)
  BY <1>13, <1>12, UntilDoes
<1>15. PICK f : IsCleared(e, "title", f) /\ Does(Hidden(Drawn(Clear("title"))), e, f)
  BY <1>1, <1>2, <1>3, <1>5, <1>6, Clears1 DEF IsBegun, IsMarked
<1>16. PICK g : IsCleared(f, "saved", g) /\ Does(Hidden(<<Clear("saved")>>), f, g)
  BY <1>1, <1>2, <1>3, <1>5, <1>6, <1>15, Clears1 DEF IsBegun, IsCleared, IsMarked
<1>17. q.update \in Nat /\ q.mctrl \in Nat
  BY DEF Calm, State
<1>18. PICK h : IsEnded(g, "UPDATE", h) /\ Does(<<END("UPDATE")>>, g, h)
  BY <1>1, <1>2, <1>3, <1>5, <1>6, <1>15, <1>16, <1>17, Ends1 DEF Count, IsBegun,
    IsCleared, IsMarked
<1>19. PICK i : IsEnded(h, "MCTRL", i) /\ Does(<<END("MCTRL")>>, h, i)
  BY <1>1, <1>2, <1>3, <1>5, <1>6, <1>15, <1>16, <1>18, <1>17, Ends1 DEF Count, IsBegun,
    IsCleared, IsEnded, IsMarked
<1>20. PICK j : IsCleared(i, "box", j) /\ Does(<<Unselect("box")>>, i, j)
  BY <1>1, <1>2, <1>3, <1>5, <1>6, <1>15, <1>16, <1>18, <1>19, Clears1 DEF IsBegun,
    IsCleared, IsEnded, IsMarked
<1>21. Does(<<END("UPDATE"), END("MCTRL"), Unselect("box")>>, g, j)
  BY <1>18, <1>19, <1>20, Three
<1>22. Does(Hidden(Drawn(Mark("title"))) \o <<BEG("MCTRL"), BEG("UPDATE")>>
           \o Hidden(<<Mark("saved")>>)
           \o <<Either(Drawn(Mark("box")), Hidden(Drawn(Mark("box"))))>>
           \o <<Until("closebox", <<Wait({M1}), Either(<<Remember("closebox")>>,
                   handle_drop_down)>>)>>, q, e)
  BY <1>1, <1>4, <1>5, <1>7, <1>14, Chain5
<1>23. Does(Hidden(Drawn(Mark("title"))) \o <<BEG("MCTRL"), BEG("UPDATE")>>
           \o Hidden(<<Mark("saved")>>)
           \o <<Either(Drawn(Mark("box")), Hidden(Drawn(Mark("box"))))>>
           \o <<Until("closebox", <<Wait({M1}), Either(<<Remember("closebox")>>,
                   handle_drop_down)>>)>>
           \o Hidden(Drawn(Clear("title"))) \o Hidden(<<Clear("saved")>>)
           \o <<END("UPDATE"), END("MCTRL"), Unselect("box")>>, q, j)
  BY <1>22, <1>15, <1>16, <1>21, Chain4
<1>24. Under(j, q)
  BY <1>1, <1>2, <1>3, <1>5, <1>6, <1>15, <1>16, <1>18, <1>19, <1>20 DEF Under, Calm,
    State, IsBegun, IsCleared, IsEnded, IsMarked
<1>25. q \in State /\ j \in State
  BY <1>1, <1>2, <1>3, <1>5, <1>6, <1>15, <1>16, <1>18, <1>19, <1>20 DEF Calm, IsBegun,
    IsCleared, IsEnded, IsMarked
<1>26. Does(Hidden(Drawn(Mark("title"))) \o <<BEG("MCTRL"), BEG("UPDATE")>>
           \o Hidden(<<Mark("saved")>>)
           \o <<Either(Drawn(Mark("box")), Hidden(Drawn(Mark("box"))))>>
           \o <<Until("closebox", <<Wait({M1}), Either(<<Remember("closebox")>>,
                   handle_drop_down)>>)>>
           \o Hidden(Drawn(Clear("title"))) \o Hidden(<<Clear("saved")>>)
           \o <<END("UPDATE"), END("MCTRL"), Unselect("box")>>, q, q)
  BY <1>23, <1>24, <1>25, UnderSelf, Weaker
<1> QED
  BY <1>26 DEF handle_selected_title

\* The menu bar.
LEMMA MenuKeeps ==
  ASSUME NEW q \in Calm, MayBegin(q, "MCTRL")
  PROVE  Does(Evhd_handle_menu, q, q)
<1>1. Does(<<>>, q, q)
  BY NothingKeeps
<1>2. Does(handle_selected_title, q, q)
  BY TitleKeeps
<1>3. Does(<<Tell("menu")>>, q, q)
  BY MenuDoes DEF Calm
<1>4. Does(<<Either(<<>>, <<Tell("menu")>>)>>, q, q)
  BY <1>1, <1>3, EitherDoes
<1>5. Does(handle_selected_title \o <<Either(<<>>, <<Tell("menu")>>)>>, q, q)
  BY <1>2, <1>4, Thereafter
<1>6. Does(<<Either(<<>>, handle_selected_title
           \o <<Either(<<>>, <<Tell("menu")>>)>>)>>, q, q)
  BY <1>1, <1>5, EitherDoes
<1> QED
  BY <1>6 DEF Evhd_handle_menu

\* The text cursor is taken away, and put somewhere else.
LEMMA EditDoes ==
  ASSUME NEW q \in Calm
  PROVE  /\ \E a : IsCleared(q, "cursor", a) /\ Does(Objc_do_edit(<<>>), q, a)
         /\ "cursor" \in q.marks => Does(Objc_do_edit(<<Mark("cursor")>>), q, q)
<1>1. PICK a : IsCleared(q, "cursor", a) /\ Does(<<Clear("cursor")>>, q, a)
  BY Clears1
<1>2. a \in Calm
  BY <1>1 DEF IsCleared
<1>3. Does(<<>>, a, a)
  BY <1>2, NothingKeeps
<1>4. Does(<<If("cursor", <<Clear("cursor")>>, <<>>)>>, q, a)
  BY <1>1, <1>3, MarkedTest DEF BUTTON
<1>5. Does(Objc_do_edit(<<>>), q, a)
  BY <1>3, <1>4, Thereafter DEF Objc_do_edit
<1>6. ASSUME "cursor" \in q.marks
      PROVE  Does(Objc_do_edit(<<Mark("cursor")>>), q, q)
  <2>1. PICK b : IsMarked(a, "cursor", b) /\ Does(<<Mark("cursor")>>, a, b)
    BY <1>2, Marks1 DEF Thing
  <2>2. q \in State /\ b \in State /\ Under(b, q)
    BY <1>1, <1>6, <2>1 DEF Calm, State, Under, IsCleared, IsMarked
  <2>3. Does(Objc_do_edit(<<Mark("cursor")>>), q, b)
    BY <1>4, <2>1, Thereafter DEF Objc_do_edit
  <2> QED
    BY <2>2, <2>3, UnderSelf, Weaker
<1> QED
  BY <1>1, <1>5, <1>6

\* What is the application's is drawn again, or not at all.
LEMMA OwnKeeps ==
  ASSUME NEW q \in State, "own" \in q.marks
  PROVE  /\ Does(Drawn(Mark("own")), q, q) /\ Does(<<Bare("own")>>, q, q)
         /\ Does(<<Either(<<>>, Drawn(Mark("own")))>>, q, q) /\ Does(<<>>, q, q)
<1>1. PICK a : a = Marked(q, "own")
  OBVIOUS
<1>2. a = q
  BY <1>1 DEF Marked, State
<1>3. Does(Drawn(Mark("own")), q, q)
  BY <1>1, <1>2, DrawnMark DEF Thing
<1>4. Does(<<Bare("own")>>, q, q)
  BY <1>1, <1>2, BareDoes DEF Marked, Thing
<1>5. Does(<<>>, q, q)
  BY UnderSelf, Nothing
<1>6. Does(<<Either(<<>>, Drawn(Mark("own")))>>, q, q)
  BY <1>3, <1>5, EitherDoes
<1> QED
  BY <1>3, <1>4, <1>5, <1>6

\* On its own workstation, or on another.
LEMMA AstrayKeeps ==
  ASSUME NEW q \in State, "own" \in q.marks
  PROVE  Does(Astray("own"), q, q)
BY OwnKeeps, EitherDoes DEF Astray

\* A letter in a text: the cursor is taken off, and put somewhere else.
LEMMA CharKeeps ==
  ASSUME NEW q \in Calm, "cursor" \in q.marks, "own" \in q.marks
  PROVE  Does(handle_ed_char, q, q) /\ Does(Objc_do_edit(<<>>), q, q)
<1>1. PICK a : IsCleared(q, "cursor", a) /\ Does(<<Clear("cursor")>>, q, a)
  BY Clears1
<1>2. a \in Calm /\ a \in State /\ q \in State /\ Under(a, q) /\ "own" \in a.marks
  BY <1>1 DEF IsCleared, Calm, State, Under
<1>3. Does(<<>>, a, a)
  BY <1>2, NothingKeeps
<1>4. Does(<<If("cursor", <<Clear("cursor")>>, <<>>)>>, q, a)
  BY <1>1, <1>3, MarkedTest DEF BUTTON
<1>5. Does(<<Either(<<>>, Drawn(Mark("own")))>>, a, a)
  BY <1>2, OwnKeeps
<1>6. PICK b : IsMarked(a, "cursor", b) /\ Does(<<Mark("cursor")>>, a, b)
  BY <1>2, Marks1 DEF Thing
<1>7. b \in State /\ Under(b, q)
  BY <1>1, <1>2, <1>6 DEF Calm, State, Under, IsCleared, IsMarked
<1>8. Does(<<Mark("cursor")>>, a, q)
  BY <1>2, <1>6, <1>7, UnderSelf, Weaker
<1>9. Does(handle_ed_char, q, q)
  BY <1>4, <1>5, <1>8, Three DEF handle_ed_char
<1>10. Does(<<If("cursor", <<Clear("cursor")>>, <<>>)>> \o <<>>, q, a)
  BY <1>3, <1>4, Thereafter
<1>11. Does(Objc_do_edit(<<>>), q, q)
  BY <1>2, <1>10, UnderSelf, Weaker DEF Objc_do_edit
<1> QED
  BY <1>9, <1>11

\* A key in a dialog.
LEMMA FormKeybdKeeps ==
  ASSUME NEW q \in Calm, "cursor" \in q.marks, "own" \in q.marks
  PROVE  Does(Form_do_keybd, q, q)
<1>1. q \in State
  BY DEF Calm
<1>2. Does(Astray("own"), q, q)
  BY <1>1, AstrayKeeps
<1>3. Does(<<Remember("exit")>>, q, q)
  BY NoteKeeps DEF BUTTON
<1>4. Does(Astray("own") \o <<Remember("exit")>>, q, q)
  BY <1>2, <1>3, Thereafter
<1>5. Does(<<>>, q, q)
  BY NothingKeeps
<1>6. Does(Objc_do_edit(<<Mark("cursor")>>), q, q)
  BY EditDoes
<1>7. Does(handle_ed_char, q, q) /\ Does(Objc_do_edit(<<>>), q, q)
  BY CharKeeps
<1>8. Does(<<Either(Objc_do_edit(<<Mark("cursor")>>), handle_ed_char)>>, q, q)
  BY <1>6, <1>7, EitherDoes
<1>9. Does(<<Either(Objc_do_edit(<<>>),
                <<Either(Objc_do_edit(<<Mark("cursor")>>), handle_ed_char)>>)>>, q, q)
  BY <1>7, <1>8, EitherDoes
<1>10. Does(<<Either(<<>>, <<Either(Objc_do_edit(<<>>),
                <<Either(Objc_do_edit(<<Mark("cursor")>>), handle_ed_char)>>)>>)>>, q, q)
  BY <1>5, <1>9, EitherDoes
<1> QED
  BY <1>4, <1>10, EitherDoes DEF Form_do_keybd

\* A click in a dialog.
LEMMA FormButtonKeeps ==
  ASSUME NEW q \in Calm, MayBegin(q, "MCTRL"), "cursor" \in q.marks, "own" \in q.marks
  PROVE  Does(Form_do_button, q, q)
<1>1. q \in State
  BY DEF Calm
<1>2. Does(<<>>, q, q)
  BY NothingKeeps
<1>3. Does(Astray("own"), q, q)
  BY <1>1, AstrayKeeps
<1>4. Does(<<Either(<<>>, Astray("own"))>>, q, q)
  BY <1>2, <1>3, EitherDoes
<1>5. Does(Evnt_do_button, q, q)
  BY ButtonKeeps
<1>6. Does(<<Either(<<>>, Astray("own"))>> \o Evnt_do_button, q, q)
  BY <1>4, <1>5, Thereafter
<1>7. PICK b : IsMarked(q, "own", b) /\ Does(Graf_do_watchbox("own"), q, b)
  BY Watched DEF Thing
<1>8. b \in State /\ Under(b, q)
  BY <1>7 DEF Under, Calm, State, IsMarked
<1>9. Does(Graf_do_watchbox("own"), q, q)
  BY <1>1, <1>7, <1>8, UnderSelf, Weaker
<1>10. Does(<<Either(<<Either(<<>>, Astray("own"))>> \o Evnt_do_button,
                     Graf_do_watchbox("own"))>>, q, q)
  BY <1>6, <1>9, EitherDoes
<1>11. Does(<<Remember("exit")>>, q, q)
  BY NoteKeeps DEF BUTTON
<1>12. Does(<<Either(<<Remember("exit")>>, <<>>)>>, q, q)
  BY <1>2, <1>11, EitherDoes
<1>13. Does(<<Either(<<Either(<<>>, Astray("own"))>> \o Evnt_do_button,
                     Graf_do_watchbox("own")),
              Either(<<Remember("exit")>>, <<>>)>>, q, q)
  BY <1>10, <1>12, Two
<1>14. Does(Objc_do_edit(<<Mark("cursor")>>), q, q)
  BY EditDoes
<1>15. Does(<<Either(<<>>, Objc_do_edit(<<Mark("cursor")>>))>>, q, q)
  BY <1>2, <1>14, EitherDoes
<1>16. Does(<<Either(<<Remember("exit")>>,
                <<Either(<<>>, Objc_do_edit(<<Mark("cursor")>>))>>)>>, q, q)
  BY <1>11, <1>15, EitherDoes
<1> QED
  BY <1>13, <1>16, EitherDoes DEF Form_do_button

\* A dialog.
LEMMA FormKeeps ==
  ASSUME NEW q \in Calm, MayBegin(q, "MCTRL"), "own" \in q.marks
  PROVE  Does(Form_do_do, q, q)
<1>1. Does(<<>>, q, q)
  BY NothingKeeps
<1>2. PICK a : IsMarked(q, "cursor", a) /\ Does(<<Mark("cursor")>>, q, a)
  BY Marks1 DEF Thing
<1>3. Under(q, a)
  BY <1>2 DEF Under, Calm, State, IsMarked
<1>4. q \in State /\ a \in State
  BY <1>2 DEF Calm, IsMarked
<1>5. Does(<<>>, q, a)
  BY <1>1, <1>3, <1>4, UnderSelf, Weaker
<1>6. Does(<<Either(<<>>, <<Mark("cursor")>>)>>, q, a)
  BY <1>5, <1>2, EitherDoes
<1>7. PICK b : IsBegun(a, "MCTRL", b) /\ Does(<<BEG("MCTRL")>>, a, b)
  BY <1>2, Begins1 DEF MayBegin, Calm, State, IsMarked
<1>8. Does(<<Wait({BUTTON, KEYBD})>>, b, b)
  BY <1>2, <1>7, WaitKeeps DEF IsBegun, IsMarked
<1>9. Does(Form_do_button, b, b)
  BY <1>2, <1>7, FormButtonKeeps DEF MayBegin, Calm, State, IsBegun, IsMarked
<1>10. Does(Form_do_keybd, b, b)
  BY <1>2, <1>7, FormKeybdKeeps DEF IsBegun, IsMarked
<1>11. Does(<<>>, b, b)
  BY <1>2, <1>7, NothingKeeps DEF IsBegun, IsMarked
<1>12. b \in State /\ b.pressed = "maybe"
  BY <1>2, <1>7 DEF Calm, IsBegun, IsMarked
<1>13. Does(<<If("exit", <<>>, Form_do_keybd)>>, b, b)
  BY <1>12, <1>11, <1>10, IfDoes
<1>14. Does(Form_do_button \o <<If("exit", <<>>, Form_do_keybd)>>, b, b)
  BY <1>9, <1>13, Thereafter
<1>15. b \in State /\ b.pressed = "maybe"
  BY <1>2, <1>7 DEF Calm, IsBegun, IsMarked
<1>16. Does(<<If(KEYBD, Form_do_button
           \o <<If("exit", <<>>, Form_do_keybd)>>, Form_do_button)>>, b, b)
  BY <1>15, <1>14, <1>9, IfDoes
<1>17. b \in State /\ b.pressed = "maybe"
  BY <1>2, <1>7 DEF Calm, IsBegun, IsMarked
<1>18. Does(<<If(BUTTON, <<If(KEYBD, Form_do_button
           \o <<If("exit", <<>>, Form_do_keybd)>>, Form_do_button)>>, Form_do_keybd)>>, b, b)
  BY <1>17, <1>16, <1>10, IfDoes
<1>19. Does(<<Wait({BUTTON, KEYBD}), If(BUTTON, <<If(KEYBD, Form_do_button
           \o <<If("exit", <<>>, Form_do_keybd)>>, Form_do_button)>>, Form_do_keybd)>>, b, b)
  BY <1>8, <1>18, Two
<1>20. b.pressed = "maybe"
  BY <1>2, <1>7 DEF Calm, IsBegun, IsMarked
<1>21. Does(<<Until("exit", <<Wait({BUTTON, KEYBD}), If(BUTTON, <<If(KEYBD, Form_do_button
           \o <<If("exit", <<>>, Form_do_keybd)>>, Form_do_button)>>, Form_do_keybd)>>)>>, b, b)
  BY <1>20, <1>19, UntilDoes
<1>22. Does(<<Either(<<>>, <<Mark("cursor")>>), BEG("MCTRL"), Until("exit", <<Wait({BUTTON,
        KEYBD}), If(BUTTON, <<If(KEYBD, Form_do_button
           \o <<If("exit", <<>>, Form_do_keybd)>>, Form_do_button)>>, Form_do_keybd)>>)>>, q, b)
  BY <1>6, <1>7, <1>21, Three
<1>23. PICK c : IsCleared(b, "cursor", c) /\ Does(Objc_do_edit(<<>>), b, c)
  BY <1>2, <1>7, EditDoes DEF IsBegun, IsMarked
<1>24. q.update \in Nat /\ q.mctrl \in Nat
  BY DEF Calm, State
<1>25. PICK d : IsEnded(c, "MCTRL", d) /\ Does(<<END("MCTRL")>>, c, d)
  BY <1>2, <1>7, <1>23, <1>24, Ends1 DEF Count, IsBegun, IsCleared, IsMarked
<1>26. Does(<<Either(<<>>, <<Mark("cursor")>>), BEG("MCTRL"), Until("exit", <<Wait({BUTTON,
        KEYBD}), If(BUTTON, <<If(KEYBD, Form_do_button
           \o <<If("exit", <<>>, Form_do_keybd)>>, Form_do_button)>>, Form_do_keybd)>>)>>
           \o Objc_do_edit(<<>>) \o <<END("MCTRL")>>, q, d)
  BY <1>22, <1>23, <1>25, Chain3
<1>27. Under(d, q)
  BY <1>2, <1>7, <1>23, <1>25 DEF Under, Calm, State, IsBegun, IsCleared, IsEnded,
    IsMarked
<1>28. q \in State /\ d \in State
  BY <1>2, <1>7, <1>23, <1>25 DEF Calm, IsBegun, IsCleared, IsEnded, IsMarked
<1>29. Does(<<Either(<<>>, <<Mark("cursor")>>), BEG("MCTRL"), Until("exit", <<Wait({BUTTON,
        KEYBD}), If(BUTTON, <<If(KEYBD, Form_do_button
           \o <<If("exit", <<>>, Form_do_keybd)>>, Form_do_button)>>, Form_do_keybd)>>)>>
           \o Objc_do_edit(<<>>) \o <<END("MCTRL")>>, q, q)
  BY <1>26, <1>27, <1>28, UnderSelf, Weaker
<1> QED
  BY <1>29 DEF Form_do_do

\* A pop-up menu.
LEMMA SelectionKeeps ==
  ASSUME NEW q \in Calm, "own" \in q.marks
  PROVE  Does(wait_for_selection, q, q)
<1>1. Does(<<Wait({BUTTON, M1})>>, q, q)
  BY WaitKeeps
<1>2. PICK a : /\ IsCleared(q, "own", a)
               /\ Does(<<Unselect("own")>>, q, a)
               /\ Does(Drawn(Clear("own")), q, a)
  BY Clears1
<1>3. Under(a, q)
  BY <1>2 DEF Under, Calm, State, IsCleared
<1>4. q \in State /\ a \in State
  BY <1>2 DEF Calm, IsCleared
<1>5. Does(<<Unselect("own")>>, q, q)
  BY <1>2, <1>3, <1>4, UnderSelf, Weaker
<1>6. PICK b : IsMarked(a, "own", b) /\ Does(Drawn(Mark("own")), a, b)
  BY <1>2, Marks1 DEF Thing, IsCleared
<1>7. Does(Drawn(Clear("own")) \o Drawn(Mark("own")), q, b)
  BY <1>2, <1>6, Thereafter
<1>8. Under(b, q)
  BY <1>2, <1>6 DEF Under, Calm, State, IsCleared, IsMarked
<1>9. q \in State /\ b \in State
  BY <1>2, <1>6 DEF Calm, IsCleared, IsMarked
<1>10. Does(Drawn(Clear("own")) \o Drawn(Mark("own")), q, q)
  BY <1>7, <1>8, <1>9, UnderSelf, Weaker
<1>11. Does(<<Remember("left")>>, q, q)
  BY NoteKeeps DEF BUTTON
<1>12. Does(<<Unselect("own"), Remember("left")>>, q, q)
  BY <1>5, <1>11, Two
<1>13. Does(<<Either(<<Remember("left")>>, Drawn(Clear("own"))
           \o Drawn(Mark("own")))>>, q, q)
  BY <1>11, <1>10, EitherDoes
<1>14. q \in State /\ q.pressed = "maybe"
  BY q \in Calm DEF Calm
<1>15. Does(<<If(BUTTON, <<Unselect("own"), Remember("left")>>,
        <<Either(<<Remember("left")>>, Drawn(Clear("own"))
           \o Drawn(Mark("own")))>>)>>, q, q)
  BY <1>14, <1>12, <1>13, IfDoes
<1>16. Does(<<Wait({BUTTON, M1}), If(BUTTON, <<Unselect("own"), Remember("left")>>,
        <<Either(<<Remember("left")>>, Drawn(Clear("own"))
           \o Drawn(Mark("own")))>>)>>, q, q)
  BY <1>1, <1>15, Two
<1>17. q.pressed = "maybe"
  BY q \in Calm DEF Calm
<1>18. Does(<<Until("left", <<Wait({BUTTON, M1}), If(BUTTON, <<Unselect("own"),
        Remember("left")>>, <<Either(<<Remember("left")>>, Drawn(Clear("own"))
           \o Drawn(Mark("own")))>>)>>)>>, q, q)
  BY <1>17, <1>16, UntilDoes
<1> QED
  BY <1>18 DEF wait_for_selection

\* The same with both locks.
LEMMA PopupKeeps ==
  ASSUME NEW q \in Calm, MayBegin(q, "MCTRL"), "own" \in q.marks
  PROVE  Does(Menu_do_popup, q, q)
<1>1. PICK a : IsBegun(q, "MCTRL", a) /\ Does(<<BEG("MCTRL")>>, q, a)
  BY Begins1 DEF MayBegin, Calm, State
<1>2. PICK b : IsBegun(a, "UPDATE", b) /\ Does(<<BEG("UPDATE")>>, a, b)
  BY <1>1, BeginsUpdate DEF IsBegun
<1>3. Does(<<BEG("MCTRL"), BEG("UPDATE")>>, q, b)
  BY <1>1, <1>2, Two
<1>4. PICK c : IsMarked(b, "own", c) /\ Does(Drawn(Mark("own")), b, c)
  BY <1>1, <1>2, Marks1 DEF Thing, IsBegun
<1>5. Does(wait_for_selection, c, c)
  BY <1>1, <1>2, <1>4, SelectionKeeps DEF IsBegun, IsMarked
<1>6. q.update \in Nat /\ q.mctrl \in Nat
  BY DEF Calm, State
<1>7. PICK d : IsEnded(c, "UPDATE", d) /\ Does(<<END("UPDATE")>>, c, d)
  BY <1>1, <1>2, <1>4, <1>6, Ends1 DEF Count, IsBegun, IsMarked
<1>8. PICK e : IsEnded(d, "MCTRL", e) /\ Does(<<END("MCTRL")>>, d, e)
  BY <1>1, <1>2, <1>4, <1>7, <1>6, Ends1 DEF Count, IsBegun, IsEnded, IsMarked
<1>9. Does(<<END("UPDATE"), END("MCTRL")>>, c, e)
  BY <1>7, <1>8, Two
<1>10. Does(<<BEG("MCTRL"), BEG("UPDATE")>> \o Drawn(Mark("own")) \o wait_for_selection
           \o <<END("UPDATE"), END("MCTRL")>>, q, e)
  BY <1>3, <1>4, <1>5, <1>9, Chain4
<1>11. Under(e, q)
  BY <1>1, <1>2, <1>4, <1>7, <1>8 DEF Under, Calm, State, IsBegun, IsEnded, IsMarked
<1>12. q \in State /\ e \in State
  BY <1>1, <1>2, <1>4, <1>7, <1>8 DEF Calm, IsBegun, IsEnded, IsMarked
<1>13. Does(<<BEG("MCTRL"), BEG("UPDATE")>> \o Drawn(Mark("own")) \o wait_for_selection
           \o <<END("UPDATE"), END("MCTRL")>>, q, q)
  BY <1>10, <1>11, <1>12, UnderSelf, Weaker
<1> QED
  BY <1>13 DEF Menu_do_popup

\* A loop that ends with the button, and keeps what is known until then.
LEMMA PressedDoes ==
  ASSUME NEW A, NEW E, NEW q \in Calm, NEW r \in Calm,
         \A x, y \in State : /\ x = [q EXCEPT !.pressed = "yes"]
                             /\ y = [r EXCEPT !.pressed = "yes"]
                             => Does(A, x, y),
         \A x \in State : x = [q EXCEPT !.pressed = "no"] => Does(E, x, x)
  PROVE  Does(<<Until(BUTTON, <<Wait({BUTTON, M1}), If(BUTTON, A, E)>>)>>, q, r)
<1>1. PICK s : s = Until(BUTTON, <<Wait({BUTTON, M1}), If(BUTTON, A, E)>>)
  OBVIOUS
<1>2. PICK w : w = Wait({BUTTON, M1})
  OBVIOUS
<1>3. PICK i : i = If(BUTTON, A, E)
  OBVIOUS
<1>4. PICK body : body = <<w, i>>
  OBVIOUS
<1>5. PICK g : g = [still |-> BUTTON, body |-> body]
  OBVIOUS
<1>6. /\ DOMAIN s = {"until", "body"} /\ s.until = BUTTON /\ s.body = body
      /\ DOMAIN w = {"wait"} /\ w.wait = {BUTTON, M1} /\ {BUTTON, M1} # {BUTTON}
      /\ DOMAIN i = {"when", "then", "else"} /\ i.when = BUTTON /\ i.then = A /\ i.else = E
      /\ DOMAIN g = {"still", "body"} /\ g.still = BUTTON /\ g.body = body
  <2>1. DOMAIN s = {"until", "body"} /\ s.until = BUTTON /\ s.body = body
    BY <1>1, <1>2, <1>3, <1>4 DEF Until
  <2>2. DOMAIN w = {"wait"} /\ w.wait = {BUTTON, M1} /\ {BUTTON, M1} # {BUTTON}
    BY <1>2 DEF Wait, BUTTON, M1
  <2>3. DOMAIN i = {"when", "then", "else"} /\ i.when = BUTTON /\ i.then = A /\ i.else = E
    BY <1>3 DEF If
  <2>4. DOMAIN g = {"still", "body"} /\ g.still = BUTTON /\ g.body = body
    BY <1>5
  <2> QED
    BY <2>1, <2>2, <2>3, <2>4
<1>7. /\ q \in State /\ r \in State /\ q.hidden = 0
      /\ q.pressed = "maybe" /\ r.pressed = "maybe"
  BY DEF Calm
<1>8. PICK x : x = [q EXCEPT !.pressed = "yes"]
  OBVIOUS
<1>9. PICK n : n = [q EXCEPT !.pressed = "no"]
  OBVIOUS
<1>10. PICK y : y = [r EXCEPT !.pressed = "yes"]
  OBVIOUS
<1>11. PICK z : z = [r EXCEPT !.pressed = "no"]
  OBVIOUS
<1>12. /\ x \in State /\ n \in State /\ y \in State /\ z \in State
       /\ y.pressed = "yes" /\ n.pressed = "no" /\ Under(n, q) /\ Under(z, r)
  BY <1>7, <1>8, <1>9, <1>10, <1>11 DEF State, Under
<1>13. Does(A, x, y) /\ Does(E, n, n)
  BY <1>8, <1>9, <1>10, <1>12
<1>14. IsSteps(A) /\ IsSteps(body) /\ IsSteps(E)
  <2>1. IsSteps(<<w>> \o <<i>>)
    BY Steps
  <2>2. body = <<w>> \o <<i>>
    BY <1>4, Join2
  <2> QED
    BY <1>13, <2>1, <2>2, Steps DEF Does
<1> SUFFICES ASSUME NEW t, NEW X, IsSteps(t), Reaches(t, r, X)
             PROVE  \E S : ClosedIn(S, X) /\ Reaches(<<s>> \o t, q, S \cup X)
  <2>1. Does(<<s>>, q, r)
    BY <1>7, Steps DEF Does
  <2> QED
    BY <1>1, <2>1
<1>15. PICK v : v = <<g>> \o t
  OBVIOUS
<1>16. v # <<>> /\ Head(v) = g /\ Tail(v) = t /\ IsSteps(v)
  BY <1>15, Ends2, Steps
<1>17. PICK Y : Y = {<<v, y>>, <<v, n>>} \cup X
  OBVIOUS
<1>18. Reaches(v, y, Y) /\ Reaches(v, n, Y)
  BY <1>12, <1>17, UnderSelf DEF Reaches
\* the button is down, or something else has happened
<1>19. PICK B : ClosedIn(B, Y) /\ Reaches(A \o v, x, B \cup Y)
  BY <1>13, <1>16, <1>18 DEF Does
<1>e. PICK M : ClosedIn(M, Y) /\ Reaches(E \o v, n, M \cup Y)
  BY <1>13, <1>16, <1>18 DEF Does
<1>20. PICK b : b = <<i>> \o v
  OBVIOUS
<1>21. b # <<>> /\ Head(b) = i /\ Tail(b) = v /\ IsSteps(b)
  BY <1>16, <1>20, Ends2, Steps
<1>22. PICK C : C = (B \cup M) \cup {<<b, q>>}
  OBVIOUS
<1>23. May(b, q, C \cup Y)
  <2>1. B \cup Y \subseteq C \cup Y /\ M \cup Y \subseteq C \cup Y
    BY <1>22
  <2>2. Reaches(A \o v, x, C \cup Y)
    BY <1>12, <1>19, <2>1, UnderSelf, ReachesMore
  <2>3. PICK m : m = [q EXCEPT !.marks = @ \ {BUTTON}, !.pressed = "no"]
    OBVIOUS
  <2>4. m \in State /\ Under(m, n)
    <3>1. m \in State
      BY <1>7, <2>3 DEF State
    <3>2. Under(m, n)
      BY <1>7, <1>9, <2>3 DEF State, Under
    <3> QED
      BY <3>1, <3>2
  <2>5. Reaches(E \o v, m, C \cup Y)
    BY <1>12, <1>e, <2>1, <2>4, ReachesMore
  <2> QED
    BY <1>6, <1>8, <1>21, <2>2, <2>3, <2>5 DEF May
<1>24. ClosedIn(C, Y) /\ Reaches(b, q, C \cup Y)
  <2>1. ClosedIn(B \cup M, {<<b, q>>} \cup Y)
    <3>1. B \cup Y \subseteq B \cup (M \cup ({<<b, q>>} \cup Y))
      OBVIOUS
    <3>2. ClosedIn(B, M \cup ({<<b, q>>} \cup Y))
      BY <1>19, <3>1, MayMore DEF ClosedIn
    <3>3. M \cup Y \subseteq M \cup ({<<b, q>>} \cup Y)
      OBVIOUS
    <3>4. ClosedIn(M, {<<b, q>>} \cup Y)
      BY <1>e, <3>3, MayMore DEF ClosedIn
    <3> QED
      BY <3>2, <3>4, BothClosed
  <2> QED
    BY <1>7, <1>21, <1>22, <1>23, <2>1, OneMore
\* what is waited for
<1>25. PICK a : a = body \o v
  OBVIOUS
<1>26. a # <<>> /\ Head(a) = w /\ Tail(a) = b /\ IsSteps(a)
  <2>1. body = <<w>> \o <<i>>
    BY <1>4, Join2
  <2>2. IsSteps(<<w>>) /\ IsSteps(<<i>>)
    BY Steps
  <2>3. a = <<w>> \o b
    BY <1>16, <1>20, <1>25, <2>1, <2>2, Together3
  <2> QED
    BY <1>21, <2>3, Ends2, Steps
<1>27. PICK D : D = C \cup {<<a, q>>}
  OBVIOUS
<1>28. May(a, q, D \cup Y)
  <2>1. C \cup Y \subseteq D \cup Y
    BY <1>27
  <2>2. Reaches(b, q, D \cup Y)
    BY <1>7, <1>24, <2>1, UnderSelf, ReachesMore
  <2>3. [q EXCEPT !.pressed = "maybe"] = q
    BY <1>7 DEF State
  <2> QED
    BY <1>6, <1>7, <1>26, <2>2, <2>3 DEF May
<1>29. ClosedIn(D, Y) /\ Reaches(a, q, D \cup Y)
  <2>1. ClosedIn(C, {<<a, q>>} \cup Y)
    <3>1. C \cup Y \subseteq C \cup ({<<a, q>>} \cup Y)
      OBVIOUS
    <3> QED
      BY <1>24, <3>1, MayMore DEF ClosedIn
  <2> QED
    BY <1>7, <1>26, <1>27, <1>28, <2>1, OneMore
\* once more, or not
<1>30. PICK F : F = D \cup {<<v, y>>, <<v, n>>}
  OBVIOUS
<1>31. F \cup X = D \cup Y
  BY <1>17, <1>30
<1>32. (body \o <<g>>) \o t = a
  <2>1. IsSteps(<<g>>)
    BY Steps
  <2>2. (body \o <<g>>) \o t = body \o (<<g>> \o t)
    BY <1>14, <2>1, Together3
  <2> QED
    BY <1>15, <1>25, <2>2
<1>33. Reaches(t, z, F \cup X)
  BY <1>7, <1>12, <1>30, ReachesMore
<1>34. May(v, y, F \cup X)
  <2>1. z = [y EXCEPT !.pressed = "no"]
    BY <1>7, <1>10, <1>11 DEF State
  <2> QED
    BY <1>6, <1>12, <1>16, <1>33, <2>1 DEF May
<1>35. May(v, n, F \cup X)
  <2>1. D \cup Y \subseteq F \cup X
    BY <1>31
  <2>2. Reaches(a, n, F \cup X)
    BY <1>7, <1>12, <1>29, <2>1, ReachesMore
  <2>3. (g.body \o <<g>>) \o t = a
    BY <1>6, <1>32
  <2> QED
    BY <1>6, <1>12, <1>16, <2>2, <2>3 DEF May
<1>36. ClosedIn(F, X)
  <2> SUFFICES ASSUME NEW u, NEW p, <<u, p>> \in F
               PROVE  p \in State /\ IsSteps(u) /\ May(u, p, F \cup X)
    BY DEF ClosedIn
  <2>1. CASE <<u, p>> \in D
    BY <1>29, <1>31, <2>1 DEF ClosedIn
  <2>2. CASE <<u, p>> = <<v, y>>
    BY <1>12, <1>16, <1>34, <2>2
  <2>3. CASE <<u, p>> = <<v, n>>
    BY <1>12, <1>16, <1>35, <2>3
  <2> QED
    BY <1>30, <2>1, <2>2, <2>3
\* the first time
<1>37. PICK u : u = <<s>> \o t
  OBVIOUS
<1>38. u # <<>> /\ Head(u) = s /\ Tail(u) = t /\ IsSteps(u)
  BY <1>37, Ends2, Steps
<1>39. PICK G : G = (F \cup {<<u, q>>}) \cup X
  OBVIOUS
<1>40. Reaches((body \o <<g>>) \o t, q, G)
  <2>1. D \cup Y \subseteq G
    BY <1>31, <1>39
  <2> QED
    BY <1>7, <1>29, <1>32, <2>1, UnderSelf, ReachesMore
<1>41. May(u, q, G)
  BY <1>5, <1>6, <1>38, <1>40 DEF May
<1>42. ClosedIn(F, {<<u, q>>} \cup X)
  <2>1. F \cup X \subseteq F \cup ({<<u, q>>} \cup X)
    OBVIOUS
  <2> QED
    BY <1>36, <2>1, MayMore DEF ClosedIn
<1> QED
  BY <1>7, <1>37, <1>38, <1>39, <1>41, <1>42, OneMore

\* The slider of the file selector is released.
LEMMA ReleaseDoes ==
  ASSUME NEW q \in Calm, q.free, "own" \in q.marks, NEW a, IsCleared(q, "fslider", a),
         NEW r, IsFormed(a, "M_RESTORE", r),
         NEW x \in State, x = [q EXCEPT !.pressed = "yes"],
         NEW y \in State, y = [r EXCEPT !.pressed = "yes"]
  PROVE  Does(Drawn(Clear("fslider")) \o <<Form("M_RESTORE"),
                Either(<<>>, Drawn(Mark("own")) \o <<Either(<<>>, Evnt_do_button)>>)>>, x, y)
<1>1. PICK b : b = Cleared(x, "fslider")
  OBVIOUS
<1>2. b \in State /\ Does(Drawn(Clear("fslider")), x, b)
  BY <1>1, DrawnClear
<1>3. /\ q \in State /\ r \in State /\ x.free /\ x.marks = q.marks /\ x.form = q.form
      /\ x.update = q.update /\ x.mctrl = q.mctrl /\ x.doing = q.doing /\ x.lines = q.lines
      /\ x.clicks = q.clicks /\ x.asked = q.asked /\ x.pressed = "yes" /\ x.hidden = 0
  BY DEF Calm, State, IsFormed
<1>4. /\ b.free /\ b.marks = q.marks \ {"fslider"} /\ b.form = q.form
      /\ b.update = q.update /\ b.mctrl = q.mctrl /\ b.doing = q.doing /\ b.lines = q.lines
      /\ b.clicks = q.clicks /\ b.asked = q.asked /\ b.pressed = "yes" /\ b.hidden = 0
      /\ b.free = q.free
  BY <1>1, <1>3 DEF Cleared, State
<1>5. PICK v : v = Whose("M_RESTORE", q.form)
  OBVIOUS
<1>6. v \in {"own", "last", "any"}
  BY <1>5 DEF Whose
<1>7. PICK f : f = Formed(b, "M_RESTORE")
  OBVIOUS
<1>8. f = [b EXCEPT !.hidden = 0, !.form = v]
  BY <1>4, <1>5, <1>7 DEF Formed, Whose
<1>9. f \in State
  BY <1>2, <1>6, <1>8 DEF State
<1>10. Under(f, y)
  <2>1. /\ r.marks = q.marks \ {"fslider"} /\ r.form = v /\ r.update = q.update
        /\ r.mctrl = q.mctrl /\ r.doing = q.doing /\ r.lines = q.lines /\ r.hidden = 0
        /\ r.clicks = q.clicks /\ r.asked = q.asked /\ r.free = q.free
    BY <1>5 DEF IsCleared, IsFormed, Calm
  <2>2. /\ y.marks = r.marks /\ y.form = r.form /\ y.update = r.update
        /\ y.mctrl = r.mctrl /\ y.doing = r.doing /\ y.lines = r.lines /\ y.hidden = r.hidden
        /\ y.clicks = r.clicks /\ y.asked = r.asked /\ y.free = r.free /\ y.pressed = "yes"
    BY <1>3 DEF State
  <2>3. /\ f.marks = b.marks /\ f.form = v /\ f.update = b.update
        /\ f.mctrl = b.mctrl /\ f.doing = b.doing /\ f.lines = b.lines /\ f.hidden = 0
        /\ f.clicks = b.clicks /\ f.asked = b.asked /\ f.free = b.free /\ f.pressed = b.pressed
    BY <1>2, <1>8 DEF State
  <2>4. y.clicks \in Nat
    BY DEF State
  <2>5. /\ f.update = y.update /\ f.mctrl = y.mctrl /\ f.doing = y.doing /\ f.lines = y.lines
        /\ f.hidden = y.hidden /\ f.marks = y.marks /\ f.form = y.form /\ f.free = y.free
    BY ZenonT(60), <1>4, <2>1, <2>2, <2>3
  <2>6. f.clicks = y.clicks /\ f.asked = y.asked /\ f.pressed = y.pressed
    BY <1>4, <2>1, <2>2, <2>3
  <2> QED
    BY <2>4, <2>5, <2>6 DEF Under
<1>11. Does(<<Form("M_RESTORE")>>, b, f)
  BY <1>2, <1>4, <1>7, FormDoes
<1>12. Does(<<Form("M_RESTORE")>>, b, y)
  BY <1>2, <1>9, <1>10, <1>11, UnderSelf, Weaker
<1>13. Does(<<>>, y, y)
  BY UnderSelf, Nothing
<1>14. Does(Evnt_do_button, y, y)
  <2>1. y.hidden = 0 /\ y.pressed = "yes"
    BY <1>3 DEF State, IsFormed, Calm
  <2>2. y = [y EXCEPT !.pressed = IF {BUTTON} = {BUTTON} THEN "yes" ELSE "maybe"]
    BY <2>1 DEF State
  <2> QED
    BY <2>1, <2>2, WaitDoes DEF Evnt_do_button
<1>15. Does(<<Either(<<>>, Evnt_do_button)>>, y, y)
  BY <1>13, <1>14, EitherDoes
<1>16. "own" \in y.marks
  <2>1. "own" \in r.marks
    BY DEF IsCleared, IsFormed
  <2> QED
    BY <1>3, <2>1 DEF State
<1>17. Does(Drawn(Mark("own")), y, y)
  BY <1>16, OwnKeeps
<1>18. Does(Drawn(Mark("own")) \o <<Either(<<>>, Evnt_do_button)>>, y, y)
  BY <1>15, <1>17, Thereafter
<1>19. Does(<<Either(<<>>, Drawn(Mark("own")) \o <<Either(<<>>, Evnt_do_button)>>)>>, y, y)
  BY <1>13, <1>18, EitherDoes
<1>20. Does(<<Form("M_RESTORE"),
              Either(<<>>, Drawn(Mark("own")) \o <<Either(<<>>, Evnt_do_button)>>)>>, b, y)
  BY <1>12, <1>19, Two
<1> QED
  BY <1>2, <1>20, Thereafter

\* The slider of the file selector.
LEMMA FileSliderKeeps ==
  ASSUME NEW q \in Calm, MayBegin(q, "MCTRL"), q.free, q.form = "own", "own" \in q.marks
  PROVE  Does(slider_handle, q, q)
<1> DEFINE A == Drawn(Clear("fslider")) \o <<Form("M_RESTORE"),
                  Either(<<>>, Drawn(Mark("own")) \o <<Either(<<>>, Evnt_do_button)>>)>>
           E == <<Either(<<>>, Drawn(Mark("own")))>>
           W == Until(BUTTON, <<Wait({BUTTON, M1}), If(BUTTON, A, E)>>)
<1>1. PICK a : IsBegun(q, "MCTRL", a) /\ Does(<<BEG("MCTRL")>>, q, a)
  BY Begins1 DEF MayBegin, Calm, State
<1>2. PICK b : IsFormed(a, "FLAT_HAND", b) /\ Does(<<Form("FLAT_HAND")>>, a, b)
  BY <1>1, Forms1 DEF IsBegun
<1>3. Does(<<BEG("MCTRL"), Form("FLAT_HAND")>>, q, b)
  BY <1>1, <1>2, Two
<1>4. PICK c : IsMarked(b, "fslider", c) /\ Does(Drawn(Mark("fslider")), b, c)
  BY <1>1, <1>2, Marks1 DEF Thing, IsBegun, IsFormed
<1>5. PICK d : IsCleared(c, "fslider", d) /\ Does(Drawn(Clear("fslider")), c, d)
  BY <1>1, <1>2, <1>4, Clears1 DEF IsBegun, IsFormed, IsMarked
<1>6. PICK e : IsFormed(d, "M_RESTORE", e) /\ Does(<<Form("M_RESTORE")>>, d, e)
  BY <1>1, <1>2, <1>4, <1>5, Forms1 DEF IsBegun, IsCleared, IsFormed, IsMarked
<1>7. c \in Calm /\ c.free /\ e \in Calm /\ "own" \in c.marks
  BY <1>1, <1>2, <1>4, <1>5, <1>6 DEF IsBegun, IsCleared, IsFormed, IsMarked
<1>8. Does(<<W>>, c, e)
  <2>1. ASSUME NEW x \in State, NEW y \in State, x = [c EXCEPT !.pressed = "yes"],
               y = [e EXCEPT !.pressed = "yes"]
        PROVE  Does(A, x, y)
    BY <1>5, <1>6, <1>7, <2>1, ReleaseDoes
  <2>2. ASSUME NEW x \in State, x = [c EXCEPT !.pressed = "no"]
        PROVE  Does(E, x, x)
    <3>1. "own" \in x.marks
      BY <1>7, <2>2 DEF Calm, State
    <3> QED
      BY <3>1, OwnKeeps
  <2> HIDE DEF A, E
  <2> QED
    BY <1>7, <2>1, <2>2, PressedDoes
<1>9. q.update \in Nat /\ q.mctrl \in Nat
  BY DEF Calm, State
<1>10. PICK f : IsEnded(e, "MCTRL", f) /\ Does(<<END("MCTRL")>>, e, f)
  BY <1>1, <1>2, <1>4, <1>5, <1>6, <1>9, Ends1 DEF Count, IsBegun, IsCleared, IsFormed,
    IsMarked
<1> HIDE DEF W
<1>11. Does(<<W, END("MCTRL")>>, c, f)
  BY <1>8, <1>10, Two
<1>12. Does(<<BEG("MCTRL"), Form("FLAT_HAND")>> \o Drawn(Mark("fslider"))
            \o <<W, END("MCTRL")>>, q, f)
  BY <1>3, <1>4, <1>11, Chain3
<1>13. Under(f, q)
  BY <1>1, <1>2, <1>4, <1>5, <1>6, <1>10 DEF Under, Calm, State, Whose, IsBegun,
    IsCleared, IsEnded, IsFormed, IsMarked
<1>14. q \in State /\ f \in State
  BY <1>1, <1>2, <1>4, <1>5, <1>6, <1>10 DEF Calm, IsBegun, IsCleared, IsEnded, IsFormed,
    IsMarked
<1>15. Does(<<BEG("MCTRL"), Form("FLAT_HAND")>> \o Drawn(Mark("fslider"))
            \o <<W, END("MCTRL")>>, q, q)
  BY <1>12, <1>13, <1>14, UnderSelf, Weaker
<1>16. Does(<<>>, q, q)
  BY NothingKeeps
<1>17. Does(<<Either(<<>>, <<BEG("MCTRL"), Form("FLAT_HAND")>> \o Drawn(Mark("fslider"))
            \o <<W, END("MCTRL")>>)>>, q, q)
  BY <1>15, <1>16, EitherDoes
<1> QED
  BY <1>17 DEF slider_handle, W

\* The file selector reads a directory, or scrolls its list.
LEMMA FilePickKeeps ==
  ASSUME NEW q \in Calm, q.free, q.form = "own", "own" \in q.marks
  PROVE  Does(Fsel_scroll, q, q) /\ Does(Fsel_pick, q, q)
<1>1. q \in State
  BY DEF Calm
<1>2. /\ Does(Drawn(Mark("own")), q, q) /\ Does(<<Bare("own")>>, q, q) /\ Does(<<>>, q, q)
      /\ Does(<<Either(<<>>, Drawn(Mark("own")))>>, q, q)
  BY <1>1, OwnKeeps
<1>3. Does(Drawn(Mark("own")) \o <<Bare("own")>> \o Drawn(Mark("own")), q, q)
  BY <1>2, Chain3
<1>4. Does(Fsel_scroll, q, q)
  BY <1>2, <1>3, EitherDoes DEF Fsel_scroll
<1>5. Does(<<Remember("done")>>, q, q)
  BY NoteKeeps DEF BUTTON
<1>6. PICK c : IsFormed(q, "BUSY_BEE", c) /\ Does(<<Form("BUSY_BEE")>>, q, c)
  BY Forms1
<1>7. PICK d : IsFormed(c, "M_RESTORE", d) /\ Does(<<Form("M_RESTORE")>>, c, d)
  BY <1>6, Forms1 DEF IsFormed
<1>8. Under(d, q)
  BY <1>6, <1>7 DEF Under, Calm, State, Whose, IsFormed
<1>9. c \in State /\ d \in State /\ "own" \in c.marks
  BY <1>6, <1>7 DEF Calm, IsFormed
<1>10. Does(<<Form("M_RESTORE")>>, c, q)
  BY <1>1, <1>7, <1>8, <1>9, UnderSelf, Weaker
<1>11. Does(Drawn(Mark("own")), c, c)
  BY <1>9, OwnKeeps
<1>12. Does(<<Form("BUSY_BEE")>> \o Drawn(Mark("own")) \o <<Form("M_RESTORE")>>, q, q)
  BY <1>6, <1>10, <1>11, Chain3
<1>13. Does(<<Either(<<>>, <<Form("BUSY_BEE")>> \o Drawn(Mark("own"))
                           \o <<Form("M_RESTORE")>>)>>, q, q)
  BY <1>2, <1>12, EitherDoes
<1>14. Does(<<Either(<<Remember("done")>>,
            <<Either(<<>>, <<Form("BUSY_BEE")>> \o Drawn(Mark("own"))
                           \o <<Form("M_RESTORE")>>)>>)>>, q, q)
  BY <1>5, <1>13, EitherDoes
<1>15. Does(Fsel_pick, q, q)
  BY <1>2, <1>14, Two DEF Fsel_pick
<1> QED
  BY <1>4, <1>15

\* The file selector.
LEMMA FileSelectorKeeps ==
  ASSUME NEW q \in Calm, MayBegin(q, "MCTRL"), q.free, q.form = "own", "own" \in q.marks
  PROVE  Does(Fsel_do_exinput, q, q)
<1> DEFINE body == Form_do_do \o <<Either(slider_handle, <<Either(Fsel_scroll, Fsel_pick)>>)>>
<1>1. PICK a : IsFormed(q, "BUSY_BEE", a) /\ Does(<<Form("BUSY_BEE")>>, q, a)
  BY Forms1
<1>2. PICK b : IsFormed(a, "ARROW", b) /\ Does(<<Form("ARROW")>>, a, b)
  BY <1>1, Forms1 DEF IsFormed
<1>3. Under(b, q)
  BY <1>1, <1>2 DEF Under, Calm, State, Whose, IsFormed
<1>4. a \in State /\ q \in State /\ b \in State /\ "own" \in a.marks
  BY <1>1, <1>2 DEF Calm, IsFormed
<1>5. Does(<<Form("ARROW")>>, a, q)
  BY <1>2, <1>3, <1>4, UnderSelf, Weaker
<1>6. Does(Drawn(Mark("own")), a, a)
  BY <1>4, OwnKeeps
<1>7. Does(Form_do_do, q, q) /\ Does(slider_handle, q, q)
  BY FormKeeps, FileSliderKeeps
<1>8. Does(<<Either(Fsel_scroll, Fsel_pick)>>, q, q)
  BY FilePickKeeps, EitherDoes
<1>9. Does(<<Either(slider_handle, <<Either(Fsel_scroll, Fsel_pick)>>)>>, q, q)
  BY <1>7, <1>8, EitherDoes
<1>10. Does(body, q, q)
  BY <1>7, <1>9, Thereafter
<1>11. q.pressed = "maybe"
  BY DEF Calm
<1> HIDE DEF body
<1>12. Does(<<Until("done", body)>>, q, q)
  BY <1>10, <1>11, UntilDoes
<1>13. Does(<<Form("ARROW"), Until("done", body)>>, a, q)
  BY <1>5, <1>12, Two
<1>14. Does(<<Form("BUSY_BEE")>> \o Drawn(Mark("own"))
            \o <<Form("ARROW"), Until("done", body)>>, q, q)
  BY <1>1, <1>6, <1>13, Chain3
<1> QED
  BY <1>14 DEF Fsel_do_exinput, body

\* Six steps.
LEMMA Six ==
  ASSUME NEW a, NEW b, NEW c, NEW d, NEW e, NEW f, NEW q, NEW r, NEW s, NEW t,
         Does(<<a>>, q, r), Does(<<b, c, d, e>>, r, s), Does(<<f>>, s, t)
  PROVE  Does(<<a, b, c, d, e, f>>, q, t)
<1>1. PICK T : T = {a, b, c, d, e, f}
  OBVIOUS
<1>2. a \in T /\ b \in T /\ c \in T /\ d \in T /\ e \in T /\ f \in T
  BY <1>1
<1>3. /\ <<a>> \in Seq(T) /\ <<b, c, d, e>> \in Seq(T) /\ <<f>> \in Seq(T)
      /\ <<a, b, c, d, e>> \in Seq(T) /\ <<a, b, c, d, e, f>> \in Seq(T)
  BY <1>2
<1>4. <<a>> \o <<b, c, d, e>> = <<a, b, c, d, e>>
  <2>1. <<a>> \o <<b, c, d, e>> \in Seq(T)
    BY <1>3
  <2>2. /\ Len(<<a>> \o <<b, c, d, e>>) = 5
        /\ (<<a>> \o <<b, c, d, e>>)[1] = a /\ (<<a>> \o <<b, c, d, e>>)[2] = b
        /\ (<<a>> \o <<b, c, d, e>>)[3] = c /\ (<<a>> \o <<b, c, d, e>>)[4] = d
        /\ (<<a>> \o <<b, c, d, e>>)[5] = e
    BY <1>3
  <2>3. /\ Len(<<a, b, c, d, e>>) = 5
        /\ <<a, b, c, d, e>>[1] = a /\ <<a, b, c, d, e>>[2] = b /\ <<a, b, c, d, e>>[3] = c
        /\ <<a, b, c, d, e>>[4] = d /\ <<a, b, c, d, e>>[5] = e
    OBVIOUS
  <2>4. \A x, y \in Seq(T) : /\ Len(x) = 5 /\ Len(y) = 5
                             /\ x[1] = y[1] /\ x[2] = y[2] /\ x[3] = y[3] /\ x[4] = y[4]
                             /\ x[5] = y[5]
                             => x = y
    OBVIOUS
  <2> QED
    BY <1>3, <2>1, <2>2, <2>3, <2>4
<1>5. <<a, b, c, d, e>> \o <<f>> = <<a, b, c, d, e, f>>
  <2>1. <<a, b, c, d, e>> \o <<f>> \in Seq(T)
    BY <1>3
  <2>2. /\ Len(<<a, b, c, d, e>> \o <<f>>) = 6
        /\ (<<a, b, c, d, e>> \o <<f>>)[1] = a /\ (<<a, b, c, d, e>> \o <<f>>)[2] = b
        /\ (<<a, b, c, d, e>> \o <<f>>)[3] = c /\ (<<a, b, c, d, e>> \o <<f>>)[4] = d
        /\ (<<a, b, c, d, e>> \o <<f>>)[5] = e /\ (<<a, b, c, d, e>> \o <<f>>)[6] = f
    BY <1>3
  <2>3. /\ Len(<<a, b, c, d, e, f>>) = 6
        /\ <<a, b, c, d, e, f>>[1] = a /\ <<a, b, c, d, e, f>>[2] = b
        /\ <<a, b, c, d, e, f>>[3] = c /\ <<a, b, c, d, e, f>>[4] = d
        /\ <<a, b, c, d, e, f>>[5] = e /\ <<a, b, c, d, e, f>>[6] = f
    OBVIOUS
  <2>4. \A x, y \in Seq(T) : /\ Len(x) = 6 /\ Len(y) = 6
                             /\ x[1] = y[1] /\ x[2] = y[2] /\ x[3] = y[3] /\ x[4] = y[4]
                             /\ x[5] = y[5] /\ x[6] = y[6]
                             => x = y
    BY SMTT(30)
  <2> QED
    BY <1>3, <2>1, <2>2, <2>3, <2>4
<1>6. Does(<<a>> \o <<b, c, d, e>> \o <<f>>, q, t)
  BY Chain3
<1> QED
  BY <1>4, <1>5, <1>6

\* A box that grows or shrinks.
LEMMA GrowKeeps ==
  ASSUME NEW q \in Calm
  PROVE  Does(Graf_do_grmobox, q, q)
<1>1. PICK a : IsBegun(q, "UPDATE", a) /\ Does(<<BEG("UPDATE")>>, q, a)
  BY BeginsUpdate
<1>2. PICK b : b = [a EXCEPT !.hidden = 1]
  OBVIOUS
<1>3. PICK c : c = [b EXCEPT !.lines = ~@]
  OBVIOUS
<1>4. PICK d : d = [c EXCEPT !.lines = ~@]
  OBVIOUS
<1>5. a \in State /\ a.hidden = 0 /\ b \in State /\ c \in State /\ d \in State
  BY ZenonT(60), <1>1, <1>2, <1>3, <1>4 DEF Calm, State, IsBegun
<1>6. Does(<<Mouse("v_hide_c")>>, a, b)
  <2>1. Shown(a.hidden, "v_hide_c") = 1
    BY <1>5 DEF Shown
  <2>2. b = [a EXCEPT !.hidden = Shown(@, "v_hide_c")]
    BY <1>2, <1>5, <2>1 DEF State
  <2> QED
    BY <1>5, <2>2, MouseDoes
<1>7. b.hidden = 1 /\ c.hidden = 1
  BY <1>2, <1>3, <1>5 DEF State
<1>8. Does(<<Line>>, b, c) /\ Does(<<Line>>, c, b)
  <2>1. Does(<<Line>>, b, c)
    BY <1>3, <1>5, <1>7, LineDoes
  <2>2. Does(<<Line>>, c, d)
    BY <1>4, <1>5, <1>7, LineDoes
  <2>3. Under(d, b)
    BY <1>3, <1>4, <1>5 DEF State, Under
  <2> QED
    BY <1>5, <2>1, <2>2, <2>3, UnderSelf, Weaker
<1>9. Does(<<Mouse("v_show_c")>>, b, a)
  <2>1. Shown(b.hidden, "v_show_c") = 0
    BY <1>7 DEF Shown
  <2>2. a = [b EXCEPT !.hidden = Shown(@, "v_show_c")]
    BY <1>2, <1>5, <2>1 DEF State
  <2> QED
    BY <1>5, <2>2, MouseDoes
<1>10. Does(<<Mouse("v_hide_c"), Line, Line, Mouse("v_show_c")>>, a, a)
  BY <1>6, <1>8, <1>9, Four
<1>11. PICK e : IsEnded(a, "UPDATE", e) /\ Does(<<END("UPDATE")>>, a, e)
  <2>1. q.update \in Nat
    BY DEF Calm, State
  <2> QED
    BY <1>1, <2>1, Ends1 DEF Count, IsBegun
<1>12. q \in State /\ e \in State /\ Under(e, q)
  BY <1>1, <1>11 DEF Calm, State, IsBegun, IsEnded, Under
<1>13. Does(Graf_do_grmobox, q, e)
  BY <1>1, <1>10, <1>11, Six DEF Graf_do_grmobox
<1> QED
  BY <1>12, <1>13, UnderSelf, Weaker

\* The elements of a window are drawn again, with the cursor hidden first.
LEMMA RedrawKeeps ==
  ASSUME NEW q \in Calm, q.doing = "other"
  PROVE  Does(RedrawElements, q, q)
<1>1. PICK m : IsMinded(q, "redraw", m) /\ Does(<<Doing("redraw")>>, q, m)
  BY Minds1 DEF Errand
<1>2. PICK a : a = [m EXCEPT !.hidden = 1]
  OBVIOUS
<1>3. m \in Calm /\ m \in State /\ a \in State /\ a.doing = "redraw" /\ a.update \in Nat
  BY <1>1, <1>2 DEF IsMinded, Calm, State
<1>4. PICK b : b = Begun(a, "UPDATE")
  OBVIOUS
<1>5. b \in State /\ b.hidden = a.hidden
  BY <1>3, <1>4 DEF Begun, State
<1>6. Does(<<BEG("UPDATE")>>, a, b)
  BY <1>3, <1>4, BegDoes DEF MayBegin
<1>7. PICK c : c = Marked(b, "border")
  OBVIOUS
<1>8. c \in State /\ Does(Drawn(Mark("border")), b, c)
  BY <1>5, <1>7, DrawnMark DEF Thing
<1>9. PICK d : d = [c EXCEPT !.marks = @ \ {"border"}]
  OBVIOUS
<1>10. d \in State /\ Does(<<Unselect("border")>>, c, d)
  <2>1. d \in State
    BY <1>8, <1>9 DEF State
  <2> QED
    BY <1>8, <1>9, <2>1, UnselectDoes
<1>11. PICK e : e = Ended(d, "UPDATE")
  OBVIOUS
<1>12. d.update = a.update + 1
  BY <1>3, <1>4, <1>5, <1>7, <1>8, <1>9 DEF Begun, Marked, State
<1>13. e \in State /\ Under(e, a)
  <2>1. e \in State
    BY <1>3, <1>10, <1>11, <1>12 DEF Ended, State
  <2>2. /\ b.mctrl = a.mctrl /\ b.doing = a.doing /\ b.hidden = a.hidden /\ b.lines = a.lines
        /\ b.marks = a.marks /\ b.clicks = a.clicks /\ b.form = a.form /\ b.free = a.free
        /\ b.asked = a.asked /\ b.pressed = a.pressed
    BY <1>3, <1>4 DEF Begun, State
  <2>3. /\ d.mctrl = b.mctrl /\ d.doing = b.doing /\ d.hidden = b.hidden /\ d.lines = b.lines
        /\ d.marks \subseteq b.marks /\ d.clicks = b.clicks /\ d.form = b.form /\ d.free = b.free
        /\ d.asked = b.asked /\ d.pressed = b.pressed
    BY <1>5, <1>7, <1>8, <1>9 DEF Marked, State
  <2>4. /\ e.mctrl = d.mctrl /\ e.doing = d.doing /\ e.hidden = d.hidden /\ e.lines = d.lines
        /\ e.marks = d.marks /\ e.clicks = d.clicks /\ e.form = d.form /\ e.free = d.free
        /\ e.asked = d.asked /\ e.pressed = d.pressed /\ e.update = a.update
    BY <1>3, <1>10, <1>11, <1>12 DEF Ended, State
  <2>5. /\ e.mctrl = a.mctrl /\ e.doing = a.doing /\ e.hidden = a.hidden /\ e.lines = a.lines
        /\ e.marks \subseteq a.marks /\ e.clicks = a.clicks /\ e.form = a.form /\ e.free = a.free
        /\ e.asked = a.asked /\ e.pressed = a.pressed /\ e.update = a.update
    BY <2>2, <2>3, <2>4
  <2>6. a.clicks \in Nat
    BY <1>3 DEF State
  <2> QED
    BY <2>1, <2>5, <2>6 DEF Under
<1>14. Does(<<END("UPDATE")>>, d, a)
  <2>1. Count(d, "UPDATE") > 0
    BY <1>3, <1>12 DEF Count
  <2>2. Does(<<END("UPDATE")>>, d, e)
    BY <1>10, <1>11, <2>1, EndDoes
  <2> QED
    BY <1>3, <1>10, <1>13, <2>2, UnderSelf, Weaker
<1>15. Does(<<Unselect("border"), END("UPDATE")>>, c, a)
  BY <1>10, <1>14, Two
<1>16. PICK steps : steps = <<BEG("UPDATE")>> \o Drawn(Mark("border"))
                            \o <<Unselect("border"), END("UPDATE")>>
  OBVIOUS
<1>17. Does(steps, a, a)
  BY <1>6, <1>8, <1>15, <1>16, Chain3
<1>18. Does(Hidden(steps), m, m)
  BY <1>2, <1>3, <1>17, HiddenDoes
<1>19. PICK n : IsMinded(m, "other", n) /\ Does(<<Doing("other")>>, m, n)
  BY <1>3, Minds1 DEF Errand
<1>20. q \in State /\ n \in State /\ Under(n, q)
  BY <1>1, <1>19 DEF Calm, State, IsMinded, Under
<1>21. Does(<<Doing("redraw")>> \o Hidden(steps) \o <<Doing("other")>>, q, n)
  BY <1>1, <1>18, <1>19, Chain3
<1>22. Does(RedrawElements, q, n)
  BY <1>16, <1>21 DEF RedrawElements
<1> QED
  BY <1>20, <1>22, UnderSelf, Weaker

\* A message is read.
LEMMA ReadKeeps ==
  ASSUME NEW q \in Calm, q.doing = "other", MESAG \in q.asked, NEW m \in Message
  PROVE  Does(Read(m), q, q)
<1>1. PICK a : a = IF m \in {"WM_REDRAW", "desk"} THEN RedrawElements ELSE <<>>
  OBVIOUS
<1>2. PICK b : b = IF m = "desk" THEN <<>> ELSE <<Report({MESAG})>>
  OBVIOUS
<1>3. Does(<<>>, q, q)
  BY NothingKeeps
<1>4. Does(a, q, q)
  BY <1>1, <1>3, RedrawKeeps
<1>5. q \in State /\ {MESAG} \subseteq q.asked /\ BUTTON \notin {MESAG}
  BY DEF Calm, MESAG, BUTTON
<1>6. Does(<<Report({MESAG})>>, q, q)
  BY <1>5, ReportDoes
<1>7. Does(b, q, q)
  BY <1>2, <1>3, <1>6
<1>8. Does(a \o b, q, q)
  BY <1>4, <1>7, Thereafter
<1> QED
  BY <1>1, <1>2, <1>8 DEF Read

\* Both locks, and nothing else.
LEMMA LocksKeep ==
  ASSUME NEW q \in Calm, MayBegin(q, "MCTRL")
  PROVE  Does(Wind_update, q, q)
<1>1. PICK a : IsBegun(q, "MCTRL", a) /\ Does(<<BEG("MCTRL")>>, q, a)
  BY Begins1 DEF MayBegin, Calm, State
<1>2. PICK b : IsBegun(a, "UPDATE", b) /\ Does(<<BEG("UPDATE")>>, a, b)
  BY <1>1, BeginsUpdate DEF IsBegun
<1>3. q.update \in Nat /\ q.mctrl \in Nat
  BY DEF Calm, State
<1>4. PICK c : IsEnded(b, "UPDATE", c) /\ Does(<<END("UPDATE")>>, b, c)
  BY <1>1, <1>2, <1>3, Ends1 DEF Count, IsBegun
<1>5. PICK d : IsEnded(c, "MCTRL", d) /\ Does(<<END("MCTRL")>>, c, d)
  BY <1>1, <1>2, <1>4, <1>3, Ends1 DEF Count, IsBegun, IsEnded
<1>6. PICK e : IsEnded(b, "MCTRL", e) /\ Does(<<END("MCTRL")>>, b, e)
  BY <1>1, <1>2, <1>3, Ends1 DEF Count, IsBegun
<1>7. PICK f : IsEnded(e, "UPDATE", f) /\ Does(<<END("UPDATE")>>, e, f)
  BY <1>1, <1>2, <1>6, <1>3, Ends1 DEF Count, IsBegun, IsEnded
<1>8. q \in State /\ c \in State /\ e \in State /\ d \in State /\ f \in State
      /\ Under(d, q) /\ Under(f, q)
  BY <1>1, <1>2, <1>4, <1>5, <1>6, <1>7 DEF Under, Calm, State, IsBegun, IsEnded
<1>9. Does(<<END("MCTRL")>>, c, q) /\ Does(<<END("UPDATE")>>, e, q)
  BY <1>5, <1>7, <1>8, UnderSelf, Weaker
<1>10. Does(<<END("UPDATE"), END("MCTRL")>>, b, q) /\ Does(<<END("MCTRL"), END("UPDATE")>>, b, q)
  BY <1>4, <1>6, <1>9, Two
<1>11. Does(<<Either(<<END("UPDATE"), END("MCTRL")>>, <<END("MCTRL"), END("UPDATE")>>)>>, b, q)
  BY <1>10, EitherDoes
<1>12. Does(<<BEG("MCTRL"), BEG("UPDATE")>>, q, b)
  BY <1>1, <1>2, Two
<1> QED
  BY <1>11, <1>12, Thereafter DEF Wind_update

\* The application's own UPDATE, with other steps inside.
LEMMA UpdatedKeeps ==
  ASSUME NEW q \in Calm, q.doing = "other", NEW steps,
         \A r \in Calm : MayBegin(r, "MCTRL") /\ r.marks = q.marks => Does(steps, r, r)
  PROVE  Does(Updated(steps), q, q)
<1>1. PICK a : IsMinded(q, "application", a) /\ Does(<<Doing("application")>>, q, a)
  BY Minds1 DEF Errand
<1>2. PICK b : IsBegun(a, "UPDATE", b) /\ Does(<<BEG("UPDATE")>>, a, b)
  BY <1>1, BeginsUpdate DEF IsMinded
<1>3. Does(<<Doing("application"), BEG("UPDATE")>>, q, b)
  BY <1>1, <1>2, Two
<1>4. b \in Calm /\ MayBegin(b, "MCTRL") /\ b.marks = q.marks
  BY <1>1, <1>2 DEF IsMinded, IsBegun, MayBegin, Foremost, Calm
<1>5. Does(steps, b, b)
  BY <1>4
<1>6. q.update \in Nat
  BY DEF Calm, State
<1>7. PICK c : IsEnded(b, "UPDATE", c) /\ Does(<<END("UPDATE")>>, b, c)
  BY <1>1, <1>2, <1>6, Ends1 DEF Count, IsMinded, IsBegun
<1>8. PICK d : IsMinded(c, "other", d) /\ Does(<<Doing("other")>>, c, d)
  BY <1>7, Minds1 DEF Errand, IsEnded
<1>9. q \in State /\ c \in State /\ d \in State /\ Under(d, q)
  BY <1>1, <1>2, <1>6, <1>7, <1>8 DEF Under, Calm, State, IsMinded, IsBegun, IsEnded
<1>10. Does(<<Doing("other")>>, c, q)
  BY <1>8, <1>9, UnderSelf, Weaker
<1>11. Does(<<END("UPDATE"), Doing("other")>>, b, q)
  BY <1>7, <1>10, Two
<1> QED
  BY <1>3, <1>5, <1>11, Chain3 DEF Updated

\* MCTRL alone.
LEMMA MouseKeeps ==
  ASSUME NEW q \in Calm, MayBegin(q, "MCTRL")
  PROVE  Does(<<BEG("MCTRL"), END("MCTRL")>>, q, q)
<1>1. PICK a : IsBegun(q, "MCTRL", a) /\ Does(<<BEG("MCTRL")>>, q, a)
  BY Begins1 DEF MayBegin, Calm, State
<1>2. q.mctrl \in Nat
  BY DEF Calm, State
<1>3. PICK b : IsEnded(a, "MCTRL", b) /\ Does(<<END("MCTRL")>>, a, b)
  BY <1>1, <1>2, Ends1 DEF Count, IsBegun
<1>4. q \in State /\ a \in State /\ b \in State /\ Under(b, q)
  BY <1>1, <1>2, <1>3 DEF Under, Calm, State, IsBegun, IsEnded
<1>5. Does(<<END("MCTRL")>>, a, q)
  BY <1>3, <1>4, UnderSelf, Weaker
<1> QED
  BY <1>1, <1>5, Two

\* The routines of the library.
LEMMA RoutineKeeps ==
  ASSUME NEW q \in Calm, q.update = 0, q.doing = "other", q.form = "own", "own" \in q.marks,
         NEW f \in DOMAIN Routine, f = "Fsel_input" => q.free
  PROVE  Does(Routine[f], q, q)
<1>1. MayBegin(q, "MCTRL")
  BY DEF MayBegin, Calm
<1>2. CASE f = "Graf_rubberbox"
  BY <1>1, <1>2, BoxKeeps DEF Routine
<1>3. CASE f = "Graf_dragbox"
  BY <1>1, <1>3, BoxKeeps DEF Routine
<1>4. CASE f = "Graf_growbox"
  BY <1>4, GrowKeeps DEF Routine
<1>5. CASE f = "Graf_watchbox"
  <2>1. PICK a : IsMarked(q, "own", a) /\ Does(Graf_do_watchbox("own"), q, a)
    BY <1>1, Watched DEF Thing
  <2>2. q \in State /\ a \in State /\ Under(a, q)
    BY <2>1 DEF Calm, State, IsMarked, Under
  <2>3. Does(Graf_do_watchbox("own"), q, q)
    BY <2>1, <2>2, UnderSelf, Weaker
  <2> QED
    BY <1>5, <2>3 DEF Routine
<1>6. CASE f = "Graf_slidebox"
  BY <1>1, <1>6, BoxKeeps DEF Routine
<1>7. CASE f = "Form_do"
  BY <1>1, <1>7, FormKeeps DEF Routine
<1>8. CASE f = "Menu_popup"
  BY <1>1, <1>8, PopupKeeps DEF Routine
<1>9. CASE f = "Fsel_input"
  BY <1>1, <1>9, FileSelectorKeeps DEF Routine
<1>10. CASE f = "Evnt_button"
  BY <1>10, ButtonKeeps DEF Routine
<1>11. CASE f = "Wind_update"
  BY <1>1, <1>11, LocksKeep DEF Routine
<1>12. CASE f = "Update_first"
  BY <1>12, UpdatedKeeps, MouseKeeps DEF Routine, Update_first
<1>13. CASE f = "Update_form"
  BY <1>13, UpdatedKeeps, FormKeeps DEF Routine, Update_form
<1> QED
  BY <1>2, <1>3, <1>4, <1>5, <1>6, <1>7, <1>8, <1>9, <1>10, <1>11, <1>12, <1>13 DEF Routine

\* Steps that lead to where an application may stay.
LEMMA Complete ==
  ASSUME NEW p, NEW q, NEW r, Does(p, q, r), NEW t, IsSteps(t), May(t, r, {})
  PROVE  \E S : ClosedIn(S, {}) /\ Reaches(p \o t, q, S)
<1>1. PICK X : X = {<<t, r>>}
  OBVIOUS
<1>2. r \in State
  BY DEF Does
<1>3. Reaches(t, r, X)
  BY <1>1, <1>2, UnderSelf DEF Reaches
<1>4. PICK S : ClosedIn(S, X) /\ Reaches(p \o t, q, S \cup X)
  BY <1>3 DEF Does
<1>5. ClosedIn(X, {})
  <2>1. May(t, r, X \cup {})
    BY <1>2, MayMore
  <2> QED
    BY <1>1, <1>2, <2>1 DEF ClosedIn
<1>6. X \cup {} = X
  OBVIOUS
<1>7. ClosedIn(S \cup X, {})
  BY <1>4, <1>5, <1>6, BothClosed
<1> QED
  BY <1>4, <1>7

\* What one answer of the server leads to.
LEMMA AnswerDoes ==
  ASSUME NEW q, Clicked(q), ~q.lines, q.marks \subseteq {"own"},
         NEW R, R \subseteq q.asked \cup {MENU, BUTTON}, NEW m \in Message, NEW p \in Target
  PROVE  \E S : /\ ClosedIn(S, {})
                /\ Reaches((IF MENU \in R THEN Evhd_handle_menu ELSE <<>>)
                           \o (IF MESAG \in R THEN Read(m) ELSE <<>>)
                           \o (IF BUTTON \in R THEN Evhd_handle_button(p, q.asked) ELSE <<>>)
                           \o <<Report(R \ {MENU, MESAG, BUTTON}), [unless |-> Multi]>>, q, S)
<1>1. PICK a : a = IF MENU \in R THEN Evhd_handle_menu ELSE <<>>
  OBVIOUS
<1>2. PICK b : b = IF MESAG \in R THEN Read(m) ELSE <<>>
  OBVIOUS
<1>3. PICK c : c = IF BUTTON \in R THEN Evhd_handle_button(p, q.asked) ELSE <<>>
  OBVIOUS
<1>4. PICK d : d = Report(R \ {MENU, MESAG, BUTTON})
  OBVIOUS
<1>5. PICK u : u = [unless |-> Multi]
  OBVIOUS
<1>6. PICK r : r = Used(q)
  OBVIOUS
<1>7. q \in Calm /\ q \in State /\ q.clicks > 0 /\ q.doing = "other"
  BY DEF Clicked, Calm
<1>8. IsUsed(q, r)
  BY <1>6, <1>7, UsedIs
<1>9. r \in State /\ r \in Calm /\ Under(q, r) /\ r.asked = q.asked
  BY <1>7, <1>8 DEF IsUsed, Calm, State, Under
<1>10. Does(<<>>, q, q) /\ Does(<<>>, q, r)
  BY <1>7, <1>9, NothingKeeps, Nothing
<1>11. Does(a, q, q)
  <2>1. MayBegin(q, "MCTRL")
    BY DEF Clicked, Calm, MayBegin
  <2> QED
    BY <1>1, <1>7, <1>10, <2>1, MenuKeeps
<1>12. Does(b, q, q)
  <2>1. MESAG \in R => MESAG \in q.asked
    BY DEF MESAG, MENU, BUTTON
  <2> QED
    BY <1>2, <1>7, <1>10, <2>1, ReadKeeps
<1>13. Does(c, q, r)
  BY <1>3, <1>8, <1>10, PlaceDoes
<1>14. Does(<<d>>, r, r)
  <2>1. PICK E : E = R \ {MENU, MESAG, BUTTON}
    OBVIOUS
  <2>2. E \subseteq r.asked /\ BUTTON \notin E
    BY <1>9, <2>1
  <2> QED
    BY <1>4, <1>9, <2>1, <2>2, ReportDoes
<1>15. Does(a \o b \o c \o <<d>>, q, r)
  BY <1>11, <1>12, <1>13, <1>14, Chain4
<1>16. IsSteps(<<u>>) /\ May(<<u>>, r, {})
  <2>1. Home(r) /\ r.free
    BY <1>8, <1>9 DEF Home, Clicked, Calm, IsUsed
  <2>2. DOMAIN u = {"unless"}
    BY <1>5
  <2>3. <<u>> # <<>> /\ Head(<<u>>) = u /\ Tail(<<u>>) = <<>> /\ IsSteps(<<u>>)
    <3>1. <<u>> \o <<>> = <<u>>
      BY Steps, Ends2
    <3> QED
      BY <3>1, Steps, Ends2
  <2> QED
    BY <1>5, <2>1, <2>2, <2>3 DEF May
<1>17. PICK S : ClosedIn(S, {}) /\ Reaches((a \o b \o c \o <<d>>) \o <<u>>, q, S)
  BY <1>15, <1>16, Complete
<1>18. (a \o b \o c \o <<d>>) \o <<u>> = (a \o b \o c) \o <<d, u>>
  <2>1. IsSteps(a) /\ IsSteps(b) /\ IsSteps(c)
    BY <1>11, <1>12, <1>13 DEF Does
  <2>2. IsSteps(a \o b \o c) /\ IsSteps(<<d>>) /\ IsSteps(<<u>>)
    BY <2>1, Steps
  <2>3. <<d>> \o <<u>> = <<d, u>>
    BY Join2
  <2> QED
    BY <2>2, <2>3, Together3
<1>19. Reaches((a \o b \o c) \o <<d, u>>, q, S)
  BY <1>17, <1>18
<1> QED
  BY <1>1, <1>2, <1>3, <1>4, <1>5, <1>17, <1>19

-----------------------------------------------------------------------------
(* The invariant.                                                          *)

IsFn(f) == \E T : f \in [Client -> T]

\* A lock: one inside, the others in line, each once.
Names(w) == {w[i] : i \in DOMAIN w}
Sound(d, w) ==
  /\ d \in [Client -> Nat] /\ w \in Seq(Client)
  /\ \A a, b \in Client : d[a] > 0 /\ d[b] > 0 => a = b
  /\ \A i, j \in DOMAIN w : w[i] = w[j] => i = j
  /\ \A i \in DOMAIN w : d[w[i]] = 0

Depth(l) == IF l = "UPDATE" THEN updateDepth ELSE mctrlDepth
Queue(l) == IF l = "UPDATE" THEN updateLine ELSE mctrlLine
Locks == {"UPDATE", "MCTRL"}

\* No other application changes the form.
Alone(c) == \A d \in Client \ {c} : ~ChangesForm(d)

\* What state q says of application c is so.
Known(c, q) ==
  /\ doing[c] = q.doing /\ hidden[c] = q.hidden /\ lines[c] = q.lines
  /\ marked[c] \subseteq q.marks
  /\ used[c] \in Nat /\ used[c] + q.clicks <= 1
  /\ asked[c] = q.asked /\ out[c] \subseteq q.asked
  /\ (q.pressed = "yes" => BUTTON \in got[c]) /\ (q.pressed = "no" => BUTTON \notin got[c])
  /\ q.free = ChangesForm(c)
  /\ Alone(c) => (q.form = "own" => form[1] = "ARROW") /\ (q.form = "last" => form[2] = "ARROW")

\* What an application does next, as soon as it has the lock it waits for.
Left(c) == IF At(c, "granted") THEN Tail(todo[c]) ELSE todo[c]

Holds(c, q, l) ==
  IF c \in Names(Queue(l))
  THEN At(c, "granted") /\ Next1(c).granted = l /\ Count(q, l) = 1
  ELSE Depth(l)[c] = Count(q, l)

Stands(c, q) ==
  At(c, "granted") =>
    /\ DOMAIN Next1(c) = {"granted"} /\ Next1(c).granted \in Locks
    /\ Count(q, Next1(c).granted) = 1
    /\ q.hidden = 0 \/ q.doing = "redraw"
    /\ Next1(c).granted = "MCTRL" => q.update = 0 \/ q.doing \in Foremost

Follows(c, q, S) ==
  /\ ClosedIn(S, {}) /\ <<Left(c), q>> \in S
  /\ Known(c, q) /\ Stands(c, q) /\ \A l \in Locks : Holds(c, q, l)

Idle(c) == call[c] = "none" => todo[c] = <<>> /\ out[c] = {} /\ used[c] = 0

Functions ==
  /\ IsFn(todo) /\ IsFn(call) /\ IsFn(asked) /\ IsFn(out) /\ IsFn(got) /\ IsFn(used)
  /\ IsFn(hidden) /\ IsFn(marked) /\ IsFn(lines) /\ IsFn(doing)

LocksSound == Sound(updateDepth, updateLine) /\ Sound(mctrlDepth, mctrlLine)

Inv ==
  /\ Functions /\ LocksSound
  /\ \A c \in Client : Idle(c) /\ \E S : \E q \in State : Follows(c, q, S)

-----------------------------------------------------------------------------
Assigned(g, f, c, v) == g = [f EXCEPT ![c] = v]
Changed(g, f, c, v) == IsFn(g) /\ g[c] = v /\ \A d \in Client \ {c} : g[d] = f[d]

\* One value of a function is changed.
LEMMA Except ==
  ASSUME NEW f, IsFn(f), NEW c \in Client, NEW v, NEW g, Assigned(g, f, c, v)
  PROVE  Changed(g, f, c, v)
<1>1. PICK T : f \in [Client -> T]
  BY DEF IsFn
<1>2. g \in [Client -> T \cup {v}]
  BY <1>1 DEF Assigned
<1>3. IsFn(g)
  BY <1>2 DEF IsFn
<1> QED
  BY <1>1, <1>3 DEF Assigned, Changed

\* Less is known.
LEMMA KnownUnder ==
  ASSUME NEW c \in Client, NEW q \in State, NEW r \in State, Under(q, r)
  PROVE  (Known(c, q) => Known(c, r)) /\ (Known(c, q)' => Known(c, r)')
<1>1. /\ r.doing = q.doing /\ r.hidden = q.hidden /\ r.lines = q.lines /\ r.free = q.free
      /\ r.asked = q.asked /\ q.marks \subseteq r.marks /\ r.clicks <= q.clicks
      /\ r.form \in {q.form, "any"} /\ r.pressed \in {q.pressed, "maybe"}
      /\ q.clicks \in Nat /\ r.clicks \in Nat
  BY DEF Under, State
<1>2. Known(c, q) => Known(c, r)
  BY <1>1 DEF Known
<1>3. Known(c, q)' => Known(c, r)'
  BY <1>1 DEF Known
<1> QED
  BY <1>2, <1>3

\* Less is known, but not of the locks.
LEMMA CountUnder ==
  ASSUME NEW q, NEW r, Under(q, r), NEW l
  PROVE  Count(r, l) = Count(q, l)
BY DEF Under, Count

-----------------------------------------------------------------------------
(* The locks. *)

\* What happens to the others when application c begins or ends.
Elsewhere(c, d, w, e, x) ==
  \A b \in Client \ {c} :
    /\ b \in Names(x) => b \in Names(w) /\ e[b] = d[b]
    /\ b \notin Names(x) /\ b \in Names(w) => e[b] = 1
    /\ b \notin Names(x) /\ b \notin Names(w) => e[b] = d[b]

\* Application c begins, or begins again, and is inside.
LEMMA Grows ==
  ASSUME NEW d, NEW w, Sound(d, w), NEW c \in Client, c \notin Names(w),
         \A a \in Client \ {c} : d[a] = 0, NEW e, e = [d EXCEPT ![c] = @ + 1]
  PROVE  /\ Sound(e, w) /\ Elsewhere(c, d, w, e, w)
         /\ e[c] = d[c] + 1 /\ c \notin Names(w)
<1>1. d \in [Client -> Nat] /\ w \in Seq(Client)
  BY DEF Sound
<1>2. e \in [Client -> Nat] /\ e[c] = d[c] + 1 /\ \A a \in Client \ {c} : e[a] = d[a]
  BY <1>1
<1>3. \A i \in DOMAIN w : w[i] \in Client \ {c}
  BY <1>1 DEF Names
<1>4. Sound(e, w)
  BY <1>1, <1>2, <1>3 DEF Sound
<1>5. Elsewhere(c, d, w, e, w)
  BY <1>2 DEF Elsewhere
<1> QED
  BY <1>2, <1>4, <1>5

\* Application c stands in line.
LEMMA Queues ==
  ASSUME NEW d, NEW w, Sound(d, w), NEW c \in Client, c \notin Names(w),
         NEW a \in Client \ {c}, d[a] > 0, NEW x, x = Append(w, c)
  PROVE  Sound(d, x) /\ Elsewhere(c, d, w, d, x) /\ c \in Names(x) /\ d[c] = 0
<1>1. d \in [Client -> Nat] /\ w \in Seq(Client) /\ x \in Seq(Client)
  BY DEF Sound
<1>2. d[c] = 0
  BY <1>1 DEF Sound
<1>3. /\ DOMAIN w = 1 .. Len(w) /\ DOMAIN x = 1 .. Len(w) + 1 /\ x[Len(w) + 1] = c
      /\ \A i \in DOMAIN w : x[i] = w[i] /\ w[i] # c
  BY <1>1 DEF Names
<1>4. \A i \in DOMAIN x : i \in DOMAIN w \/ i = Len(w) + 1
  BY <1>1, <1>3
<1>5. \A i, j \in DOMAIN x : x[i] = x[j] => i = j
  <2> SUFFICES ASSUME NEW i \in DOMAIN x, NEW j \in DOMAIN x, x[i] = x[j]
               PROVE  i = j
    OBVIOUS
  <2>1. CASE i \in DOMAIN w /\ j \in DOMAIN w
    BY <1>3, <2>1 DEF Sound
  <2>2. CASE i = Len(w) + 1 /\ j \in DOMAIN w
    BY <1>3, <2>2
  <2>3. CASE i \in DOMAIN w /\ j = Len(w) + 1
    BY <1>3, <2>3
  <2> QED
    BY <1>4, <2>1, <2>2, <2>3
<1>6. \A i \in DOMAIN x : d[x[i]] = 0
  BY <1>2, <1>3, <1>4 DEF Sound
<1>7. Sound(d, x)
  BY <1>1, <1>5, <1>6 DEF Sound
<1>8. Names(x) = Names(w) \cup {c}
  <2>1. Names(x) \subseteq Names(w) \cup {c}
    BY <1>3, <1>4 DEF Names
  <2>2. Names(w) \cup {c} \subseteq Names(x)
    <3>1. Len(w) + 1 \in DOMAIN x /\ DOMAIN w \subseteq DOMAIN x
      BY <1>1, <1>3
    <3> QED
      BY <1>3, <3>1 DEF Names
  <2> QED
    BY <2>1, <2>2
<1>9. Elsewhere(c, d, w, d, x)
  BY <1>8 DEF Elsewhere
<1> QED
  BY <1>2, <1>7, <1>8, <1>9

\* Application c ends an inner pair.
LEMMA Shrinks ==
  ASSUME NEW d, NEW w, Sound(d, w), NEW c \in Client, d[c] > 1, NEW e,
         e = [d EXCEPT ![c] = @ - 1]
  PROVE  /\ Sound(e, w) /\ Elsewhere(c, d, w, e, w)
         /\ e[c] = d[c] - 1 /\ c \notin Names(w)
<1>1. d \in [Client -> Nat] /\ w \in Seq(Client)
  BY DEF Sound
<1>2. e \in [Client -> Nat] /\ e[c] = d[c] - 1 /\ \A a \in Client \ {c} : e[a] = d[a]
  BY <1>1
<1>3. c \notin Names(w)
  BY DEF Sound, Names
<1>4. \A i \in DOMAIN w : w[i] \in Client \ {c}
  BY <1>1, <1>3 DEF Names
<1>5. Sound(e, w)
  BY <1>1, <1>2, <1>4 DEF Sound
<1>6. Elsewhere(c, d, w, e, w)
  BY <1>2 DEF Elsewhere
<1> QED
  BY <1>2, <1>3, <1>5, <1>6

\* Application c leaves, and the first in line enters.
LEMMA Leaves ==
  ASSUME NEW d, NEW w, Sound(d, w), NEW c \in Client, d[c] = 1, NEW e, NEW x,
         IF w = <<>> THEN e = [d EXCEPT ![c] = 0] /\ x = w
         ELSE e = [d EXCEPT ![c] = 0, ![Head(w)] = 1] /\ x = Tail(w)
  PROVE  /\ Sound(e, x) /\ Elsewhere(c, d, w, e, x)
         /\ e[c] = d[c] - 1 /\ c \notin Names(x)
<1>1. d \in [Client -> Nat] /\ w \in Seq(Client)
  BY DEF Sound
<1>2. c \notin Names(w)
  BY DEF Sound, Names
<1>3. \A a \in Client \ {c} : d[a] = 0
  BY <1>1 DEF Sound
<1>4. CASE w = <<>>
  <2>1. e \in [Client -> Nat] /\ e[c] = 0 /\ \A a \in Client \ {c} : e[a] = d[a]
    BY <1>1, <1>4
  <2>2. x = w /\ Names(w) = {}
    BY <1>4 DEF Names
  <2>3. Sound(e, x)
    BY <1>1, <1>3, <1>4, <2>1, <2>2 DEF Sound
  <2>4. Elsewhere(c, d, w, e, x)
    BY <2>1, <2>2 DEF Elsewhere
  <2> QED
    BY <2>1, <2>2, <2>3, <2>4
<1>5. CASE w # <<>>
  <2>1. PICK h : h = Head(w)
    OBVIOUS
  <2>2. /\ h \in Client /\ h = w[1] /\ x \in Seq(Client) /\ 1 \in DOMAIN w
        /\ DOMAIN x = 1 .. Len(w) - 1 /\ DOMAIN w = 1 .. Len(w) /\ Len(w) \in Nat
        /\ \A i \in DOMAIN x : x[i] = w[i + 1] /\ i + 1 \in DOMAIN w
    <3>1. x = Tail(w) /\ w \in Seq(Client) /\ Len(w) \in Nat /\ Len(w) > 0
      BY <1>1, <1>5
    <3>2. DOMAIN w = 1 .. Len(w) /\ 1 \in DOMAIN w /\ h = w[1] /\ h \in Client
      BY <1>1, <2>1, <3>1
    <3>3. x \in Seq(Client) /\ Len(x) = Len(w) - 1 /\ DOMAIN x = 1 .. Len(w) - 1
      BY <3>1
    <3>4. \A i \in DOMAIN x : x[i] = w[i + 1] /\ i + 1 \in DOMAIN w
      BY <3>1, <3>2, <3>3
    <3> QED
      BY <3>1, <3>2, <3>3, <3>4
  <2>3. h # c
    BY <1>2, <2>2 DEF Names
  <2>4. e = [d EXCEPT ![c] = 0, ![h] = 1]
    BY <1>5, <2>1
  <2>5. e \in [Client -> Nat] /\ e[c] = 0 /\ e[h] = 1 /\ \A a \in Client \ {c, h} : e[a] = d[a]
    BY <1>1, <2>2, <2>3, <2>4
  <2>6. \A i \in DOMAIN x : x[i] # h /\ x[i] \in Client \ {c, h} /\ x[i] \in Names(w)
    <3> SUFFICES ASSUME NEW i \in DOMAIN x
                 PROVE  x[i] # h /\ x[i] \in Client \ {c, h} /\ x[i] \in Names(w)
      OBVIOUS
    <3>1. i \in Nat /\ i > 0 /\ x[i] = w[i + 1] /\ i + 1 \in DOMAIN w /\ i + 1 # 1
      BY <2>2
    <3>2. x[i] # h
      BY <2>2, <3>1 DEF Sound
    <3>3. x[i] \in Names(w)
      BY <3>1 DEF Names
    <3>4. x[i] \in Client /\ x[i] # c
      BY <1>1, <1>2, <3>1, <3>3
    <3> QED
      BY <3>2, <3>3, <3>4
  <2>7. \A i, j \in DOMAIN x : x[i] = x[j] => i = j
    <3> SUFFICES ASSUME NEW i \in DOMAIN x, NEW j \in DOMAIN x, x[i] = x[j]
                 PROVE  i = j
      OBVIOUS
    <3>1. i + 1 \in DOMAIN w /\ j + 1 \in DOMAIN w /\ w[i + 1] = w[j + 1] /\ i \in Int /\ j \in Int
      BY <2>2
    <3>2. i + 1 = j + 1
      BY <3>1 DEF Sound
    <3> QED
      BY <3>1, <3>2
  <2>8. Sound(e, x)
    <3>1. \A a, b \in Client : e[a] > 0 /\ e[b] > 0 => a = b
      BY <1>3, <2>3, <2>5
    <3>2. \A i \in DOMAIN x : e[x[i]] = 0
      BY <1>3, <2>5, <2>6
    <3> QED
      BY <2>2, <2>5, <2>7, <3>1, <3>2 DEF Sound
  <2>9. Names(w) \subseteq Names(x) \cup {h} /\ Names(x) \subseteq Names(w) \ {h}
    <3>1. Names(x) \subseteq Names(w) \ {h}
      BY <2>6 DEF Names
    <3>2. ASSUME NEW n \in Names(w)
          PROVE  n \in Names(x) \cup {h}
      <4>1. PICK i \in DOMAIN w : n = w[i]
        BY <3>2 DEF Names
      <4>2. CASE i = 1
        BY <2>2, <4>1, <4>2
      <4>3. CASE i # 1
        <5>1. i - 1 \in DOMAIN x /\ (i - 1) + 1 = i
          BY <2>2, <4>1, <4>3
        <5>2. x[i - 1] = n
          BY <2>2, <4>1, <5>1
        <5> QED
          BY <5>1, <5>2 DEF Names
      <4> QED
        BY <4>2, <4>3
    <3> QED
      BY <3>1, <3>2
  <2>10. Elsewhere(c, d, w, e, x)
    <3> SUFFICES ASSUME NEW b \in Client \ {c}
                 PROVE  /\ b \in Names(x) => b \in Names(w) /\ e[b] = d[b]
                        /\ b \notin Names(x) /\ b \in Names(w) => e[b] = 1
                        /\ b \notin Names(x) /\ b \notin Names(w) => e[b] = d[b]
      BY DEF Elsewhere
    <3>1. h \in Names(w)
      BY <2>2 DEF Names
    <3>2. CASE b = h
      BY <2>5, <2>9, <3>1, <3>2
    <3>3. CASE b # h
      BY <2>5, <2>9, <3>3
    <3> QED
      BY <3>2, <3>3
  <2>11. c \notin Names(x)
    BY <1>2, <2>9
  <2> QED
    BY <2>5, <2>8, <2>10, <2>11
<1> QED
  BY <1>4, <1>5

-----------------------------------------------------------------------------
(* One step of one application. *)

\* The other applications go on as they are.
Others(c) ==
  \A d \in Client \ {c} :
    /\ todo'[d] = todo[d] /\ call'[d] = call[d] /\ asked'[d] = asked[d] /\ out'[d] = out[d]
    /\ got'[d] = got[d] /\ used'[d] = used[d] /\ hidden'[d] = hidden[d]
    /\ marked'[d] = marked[d] /\ lines'[d] = lines[d] /\ doing'[d] = doing[d]

\* They only see how the locks move, and the form if the one that moves may change it.
Apart(c) ==
  /\ Functions' /\ LocksSound' /\ Others(c)
  /\ form' = form \/ ChangesForm(c)
  /\ Elsewhere(c, updateDepth, updateLine, updateDepth', updateLine')
  /\ Elsewhere(c, mctrlDepth, mctrlLine, mctrlDepth', mctrlLine')

\* What is known of another application stays known.
LEMMA OtherFollows ==
  ASSUME NEW c \in Client, NEW d \in Client \ {c}, Apart(c), NEW S, NEW q \in State,
         Follows(d, q, S)
  PROVE  Follows(d, q, S)'
<1>1. /\ todo'[d] = todo[d] /\ call'[d] = call[d] /\ asked'[d] = asked[d] /\ out'[d] = out[d]
      /\ got'[d] = got[d] /\ used'[d] = used[d] /\ hidden'[d] = hidden[d]
      /\ marked'[d] = marked[d] /\ lines'[d] = lines[d] /\ doing'[d] = doing[d]
  BY DEF Apart, Others
<1>2. At(d, "granted")' = At(d, "granted") /\ Next1(d)' = Next1(d) /\ Left(d)' = Left(d)
  BY <1>1 DEF At, Next1, Left
<1>3. Known(d, q)'
  <2>1. Alone(d) => form' = form
    BY DEF Apart, Alone
  <2> QED
    BY <1>1, <2>1 DEF Follows, Known
<1>4. Stands(d, q)'
  BY <1>2 DEF Follows, Stands
<1>5. ASSUME NEW l \in Locks
      PROVE  Holds(d, q, l)'
  <2>1. PICK a : a = Depth(l)
    OBVIOUS
  <2>2. PICK w : w = Queue(l)
    OBVIOUS
  <2>3. PICK e : e = Depth(l)'
    OBVIOUS
  <2>4. PICK x : x = Queue(l)'
    OBVIOUS
  <2>5. Elsewhere(c, a, w, e, x)
    BY <2>1, <2>2, <2>3, <2>4 DEF Apart, Depth, Queue, Locks
  <2>6. /\ d \in Names(w) => At(d, "granted") /\ Next1(d).granted = l /\ Count(q, l) = 1
        /\ d \notin Names(w) => a[d] = Count(q, l)
    BY <2>1, <2>2 DEF Follows, Holds
  <2>7. d \in Names(x) => At(d, "granted") /\ Next1(d).granted = l /\ Count(q, l) = 1
    BY <2>5, <2>6 DEF Elsewhere
  <2>8. d \notin Names(x) => e[d] = Count(q, l)
    BY <2>5, <2>6 DEF Elsewhere
  <2>9. /\ d \in Names(x) => At(d, "granted")' /\ Next1(d)'.granted = l /\ Count(q, l) = 1
        /\ d \notin Names(x) => e[d] = Count(q, l)
    BY <1>2, <2>7, <2>8
  <2> QED
    BY <2>3, <2>4, <2>9 DEF Holds
<1>6. ClosedIn(S, {}) /\ <<Left(d), q>> \in S
  BY DEF Follows
<1> QED
  BY <1>2, <1>3, <1>4, <1>5, <1>6 DEF Follows

\* A step of one application keeps the invariant if it keeps its own part.
LEMMA OneKept ==
  ASSUME Inv, NEW c \in Client, Apart(c), Idle(c)', \E S : \E q \in State : Follows(c, q, S)'
  PROVE  Inv'
<1>1. ASSUME NEW d \in Client
      PROVE  Idle(d)' /\ \E S : \E q \in State : Follows(d, q, S)'
  <2>1. CASE d = c
    BY <2>1
  <2>2. CASE d # c
    <3>1. Idle(d)'
      BY <2>2 DEF Inv, Idle, Apart, Others
    <3>2. PICK S : \E q \in State : Follows(d, q, S)
      BY DEF Inv
    <3>3. PICK q \in State : Follows(d, q, S)
      BY <3>2
    <3>4. Follows(d, q, S)'
      BY <2>2, <3>3, OtherFollows
    <3> QED
      BY <3>1, <3>4
  <2> QED
    BY <2>1, <2>2
<1>2. Functions' /\ LocksSound'
  BY DEF Apart
<1> QED
  BY <1>1, <1>2 DEF Inv

\* No lock is waited for.
Free(c, q) == \A l \in Locks : c \notin Names(Queue(l)) /\ Depth(l)[c] = Count(q, l)

\* Application c is at step s of kind k, in state q, and steps t are left.
From(c, k, s, t, S, q) ==
  /\ call[c] # "none" /\ todo[c] # <<>> /\ Next1(c) = s /\ Head(todo[c]) = s
  /\ k \in DOMAIN s /\ Tail(todo[c]) = t /\ IsSteps(t) /\ <<>> \o t = t
  /\ q \in State /\ ClosedIn(S, {}) /\ <<todo[c], q>> \in S /\ May(todo[c], q, S)
  /\ Known(c, q) /\ Free(c, q)

\* An application at a step.
LEMMA Going ==
  ASSUME Inv, NEW c \in Client, NEW k, At(c, k), k # "granted"
  PROVE  \E s, t, S, q : From(c, k, s, t, S, q)
<1>1. call[c] # "none"
  BY DEF Inv, Idle, At
<1>2. PICK S : \E q \in State : Follows(c, q, S)
  BY DEF Inv
<1>3. PICK q \in State : Follows(c, q, S)
  BY <1>2
<1>4. ~At(c, "granted")
  BY <1>3 DEF Follows, Stands, At, Next1
<1>5. Left(c) = todo[c] /\ todo[c] # <<>>
  BY <1>4 DEF Left, At
<1>6. ClosedIn(S, {}) /\ <<todo[c], q>> \in S
  BY <1>3, <1>5 DEF Follows
<1>7. IsSteps(todo[c]) /\ May(todo[c], q, S)
  <2>1. S \cup {} = S
    OBVIOUS
  <2>2. IsSteps(todo[c]) /\ May(todo[c], q, S \cup {})
    BY <1>6 DEF ClosedIn
  <2> QED
    BY <2>1, <2>2
<1>8. IsSteps(Tail(todo[c])) /\ <<>> \o Tail(todo[c]) = Tail(todo[c])
  <2>1. PICK T : todo[c] \in Seq(T)
    BY <1>7 DEF IsSteps
  <2>2. Tail(todo[c]) \in Seq(T)
    BY <1>5, <2>1
  <2>3. IsSteps(Tail(todo[c]))
    BY <2>2 DEF IsSteps
  <2> QED
    BY <2>3, Ends2
<1>9. Known(c, q) /\ Free(c, q)
  BY <1>3, <1>4 DEF Follows, Free, Holds
<1> QED
  BY <1>1, <1>5, <1>6, <1>7, <1>8, <1>9 DEF At, Next1, From

\* Where it goes, with the locks it has.
LEMMA Goes ==
  ASSUME Inv, NEW c \in Client, Apart(c), call'[c] # "none" \/ Idle(c)',
         NEW S, NEW p \in State, NEW t, ClosedIn(S, {}), Reaches(t, p, S), todo'[c] = t,
         Known(c, p)', Free(c, p)'
  PROVE  Inv'
<1>1. PICK r \in State : Under(p, r) /\ <<t, r>> \in S
  BY DEF Reaches
<1>2. Known(c, r)'
  BY <1>1, KnownUnder
<1>3. May(t, r, S \cup {})
  BY <1>1 DEF ClosedIn
<1>4. ~At(c, "granted")'
  BY <1>3 DEF At, May
<1>5. Left(c)' = t
  BY <1>4 DEF Left
<1>6. Stands(c, r)'
  BY <1>4 DEF Stands
<1>7. \A l \in Locks : Holds(c, r, l)'
  <2> SUFFICES ASSUME NEW l \in Locks
               PROVE  Holds(c, r, l)'
    OBVIOUS
  <2>1. (c \notin Names(Queue(l)))' /\ Depth(l)'[c] = Count(p, l)
    BY DEF Free
  <2>2. Count(r, l) = Count(p, l)
    BY <1>1, CountUnder
  <2> QED
    BY <2>1, <2>2 DEF Holds
<1>8. Follows(c, r, S)'
  BY <1>1, <1>2, <1>5, <1>6, <1>7 DEF Follows
<1>9. Idle(c)'
  BY DEF Idle
<1> QED
  BY <1>8, <1>9, OneKept

\* The locks stay as they are.
LEMMA LocksStay ==
  ASSUME Inv, NEW c \in Client, UNCHANGED locks
  PROVE  /\ LocksSound'
         /\ Elsewhere(c, updateDepth, updateLine, updateDepth', updateLine')
         /\ Elsewhere(c, mctrlDepth, mctrlLine, mctrlDepth', mctrlLine')
         /\ \A q : Free(c, q) => Free(c, q)'
<1>1. /\ updateDepth' = updateDepth /\ updateLine' = updateLine
      /\ mctrlDepth' = mctrlDepth /\ mctrlLine' = mctrlLine
  BY DEF locks
<1>2. LocksSound'
  BY <1>1 DEF Inv, LocksSound
<1>3. \A q : Free(c, q) => Free(c, q)'
  BY <1>1 DEF Free, Queue, Depth
<1> QED
  BY <1>1, <1>2, <1>3 DEF Elsewhere

\* The steps, one after the other.
LEMMA WaitsKept ==
  ASSUME Inv, NEW c \in Client, Waits(c)
  PROVE  Inv'
<1>1. At(c, "wait")
  BY DEF Waits
<1>2. PICK s, t, S, q : From(c, "wait", s, t, S, q)
  BY <1>1, Going
<1>3. PICK R : got' = [got EXCEPT ![c] = R] /\ R \subseteq s.wait /\ R # {}
  BY <1>2 DEF Waits, From
<1>4. PICK vgot : vgot = R
  OBVIOUS
<1>5. Assigned(got', got, c, vgot)
  BY <1>3, <1>4 DEF Assigned
<1>6. IsFn(got)
  BY DEF Inv, Functions
<1>7. Changed(got', got, c, vgot)
  BY <1>5, <1>6, Except
<1>8. IsFn(got') /\ got'[c] = vgot /\ \A b \in Client \ {c} : got'[b] = got[b]
  BY <1>7 DEF Changed
<1>9. PICK vtodo : vtodo = t
  OBVIOUS
<1>10. Assigned(todo', todo, c, vtodo)
  BY <1>2, <1>9 DEF Assigned, Waits, Then, From
<1>11. IsFn(todo)
  BY DEF Inv, Functions
<1>12. Changed(todo', todo, c, vtodo)
  BY <1>10, <1>11, Except
<1>13. IsFn(todo') /\ todo'[c] = vtodo /\ \A b \in Client \ {c} : todo'[b] = todo[b]
  BY <1>12 DEF Changed
<1>14. /\ call' = call /\ asked' = asked /\ out' = out /\ used' = used
       /\ hidden' = hidden /\ marked' = marked /\ lines' = lines /\ doing' = doing
       /\ form' = form
  BY DEF Waits, events, shown, locks, screenVars
<1>15. UNCHANGED locks
  BY DEF Waits
<1>16. Apart(c)
  BY <1>8, <1>4, <1>13, <1>9, <1>14, <1>15, LocksStay DEF Apart, Functions, Others, Inv
<1>17. PICK p : p = [q EXCEPT !.pressed = IF s.wait = {BUTTON} THEN "yes" ELSE "maybe"]
  OBVIOUS
<1>18. Reaches(t, p, S)
  BY <1>2, <1>3, <1>17 DEF From, May
<1>19. p \in State
  BY <1>2, <1>3, <1>17 DEF From, State
<1>20. Known(c, p)'
  BY <1>2, <1>3, <1>8, <1>4, <1>13, <1>9, <1>14, <1>17 DEF From, Known, State, Thing
<1>21. Free(c, p)'
  <2>1. Free(c, p)
    BY <1>2, <1>17 DEF From, Free, Count, State
  <2> QED
    BY <1>15, <2>1, LocksStay
<1>22. call'[c] # "none" /\ ClosedIn(S, {}) /\ todo'[c] = t
  BY <1>2, <1>8, <1>4, <1>13, <1>9, <1>14 DEF From
<1> QED
  BY <1>16, <1>18, <1>19, <1>20, <1>21, <1>22, Goes

\* A note.
LEMMA NotesKept ==
  ASSUME Inv, NEW c \in Client, Notes(c)
  PROVE  Inv'
<1>1. At(c, "note")
  BY DEF Notes
<1>2. PICK s, t, S, q : From(c, "note", s, t, S, q)
  BY <1>1, Going
<1>3. PICK vgot : vgot = got[c] \cup {s.note}
  OBVIOUS
<1>4. Assigned(got', got, c, vgot)
  BY <1>2, <1>3 DEF Assigned, Notes, From
<1>5. IsFn(got)
  BY DEF Inv, Functions
<1>6. Changed(got', got, c, vgot)
  BY <1>4, <1>5, Except
<1>7. IsFn(got') /\ got'[c] = vgot /\ \A b \in Client \ {c} : got'[b] = got[b]
  BY <1>6 DEF Changed
<1>8. PICK vtodo : vtodo = t
  OBVIOUS
<1>9. Assigned(todo', todo, c, vtodo)
  BY <1>2, <1>8 DEF Assigned, Notes, Then, From
<1>10. IsFn(todo)
  BY DEF Inv, Functions
<1>11. Changed(todo', todo, c, vtodo)
  BY <1>9, <1>10, Except
<1>12. IsFn(todo') /\ todo'[c] = vtodo /\ \A b \in Client \ {c} : todo'[b] = todo[b]
  BY <1>11 DEF Changed
<1>13. /\ call' = call /\ asked' = asked /\ out' = out /\ used' = used
       /\ hidden' = hidden /\ marked' = marked /\ lines' = lines /\ doing' = doing
       /\ form' = form
  BY DEF Notes, events, shown, locks, screenVars
<1>14. UNCHANGED locks
  BY DEF Notes
<1>15. Apart(c)
  BY <1>7, <1>3, <1>12, <1>8, <1>13, <1>14, LocksStay DEF Apart, Functions, Others, Inv
<1>16. PICK p : p = q
  OBVIOUS
<1>17. Reaches(t, p, S)
  BY <1>2, <1>16 DEF From, May
<1>18. p \in State
  BY <1>2, <1>16 DEF From, State
<1>19. Known(c, p)'
  <2>1. s.note # BUTTON
    BY <1>2 DEF From, May
  <2> QED
    BY <1>2, <2>1, <1>7, <1>3, <1>12, <1>8, <1>13, <1>16 DEF From, Known
<1>20. Free(c, p)'
  <2>1. Free(c, p)
    BY <1>2, <1>16 DEF From, Free, Count, State
  <2> QED
    BY <1>14, <2>1, LocksStay
<1>21. call'[c] # "none" /\ ClosedIn(S, {}) /\ todo'[c] = t
  BY <1>2, <1>7, <1>3, <1>12, <1>8, <1>13 DEF From
<1> QED
  BY <1>15, <1>17, <1>18, <1>19, <1>20, <1>21, Goes

\* One of two ways.
LEMMA BranchesKept ==
  ASSUME Inv, NEW c \in Client, Branches(c)
  PROVE  Inv'
<1>1. At(c, "either")
  BY DEF Branches
<1>2. PICK s, t, S, q : From(c, "either", s, t, S, q)
  BY <1>1, Going
<1>3. PICK k \in {1, 2} : todo' = [todo EXCEPT ![c] = s.either[k] \o Tail(@)]
  BY <1>2 DEF Branches, Then, From
<1>4. PICK vtodo : vtodo = s.either[k] \o t
  OBVIOUS
<1>5. Assigned(todo', todo, c, vtodo)
  BY <1>2, <1>3, <1>4 DEF Assigned, From
<1>6. IsFn(todo)
  BY DEF Inv, Functions
<1>7. Changed(todo', todo, c, vtodo)
  BY <1>5, <1>6, Except
<1>8. IsFn(todo') /\ todo'[c] = vtodo /\ \A b \in Client \ {c} : todo'[b] = todo[b]
  BY <1>7 DEF Changed
<1>9. /\ call' = call /\ asked' = asked /\ out' = out /\ got' = got /\ used' = used
      /\ hidden' = hidden /\ marked' = marked /\ lines' = lines /\ doing' = doing
      /\ form' = form
  BY DEF Branches, events, shown, locks, screenVars
<1>10. UNCHANGED locks
  BY DEF Branches
<1>11. Apart(c)
  BY <1>8, <1>4, <1>9, <1>10, LocksStay DEF Apart, Functions, Others, Inv
<1>12. PICK p : p = q
  OBVIOUS
<1>13. Reaches(s.either[k] \o t, p, S)
  BY <1>2, <1>3, <1>12 DEF From, May
<1>14. p \in State
  BY <1>2, <1>3, <1>12 DEF From, State
<1>15. Known(c, p)'
  BY <1>2, <1>3, <1>8, <1>4, <1>9, <1>12 DEF From, Known, State, Thing
<1>16. Free(c, p)'
  <2>1. Free(c, p)
    BY <1>2, <1>12 DEF From, Free, Count, State
  <2> QED
    BY <1>10, <2>1, LocksStay
<1>17. call'[c] # "none" /\ ClosedIn(S, {}) /\ todo'[c] = s.either[k] \o t
  BY <1>2, <1>8, <1>4, <1>9 DEF From
<1> QED
  BY <1>11, <1>13, <1>14, <1>15, <1>16, <1>17, Goes

\* A loop is entered.
LEMMA LoopsKept ==
  ASSUME Inv, NEW c \in Client, Loops(c)
  PROVE  Inv'
<1>1. At(c, "until")
  BY DEF Loops
<1>2. PICK s, t, S, q : From(c, "until", s, t, S, q)
  BY <1>1, Going
<1>3. PICK vtodo : vtodo = (s.body \o <<[still |-> s.until, body |-> s.body]>>) \o t
  OBVIOUS
<1>4. Assigned(todo', todo, c, vtodo)
  BY <1>2, <1>3 DEF Assigned, Loops, Then, From
<1>5. IsFn(todo)
  BY DEF Inv, Functions
<1>6. Changed(todo', todo, c, vtodo)
  BY <1>4, <1>5, Except
<1>7. IsFn(todo') /\ todo'[c] = vtodo /\ \A b \in Client \ {c} : todo'[b] = todo[b]
  BY <1>6 DEF Changed
<1>8. /\ call' = call /\ asked' = asked /\ out' = out /\ got' = got /\ used' = used
      /\ hidden' = hidden /\ marked' = marked /\ lines' = lines /\ doing' = doing
      /\ form' = form
  BY DEF Loops, events, shown, locks, screenVars
<1>9. UNCHANGED locks
  BY DEF Loops
<1>10. Apart(c)
  BY <1>7, <1>3, <1>8, <1>9, LocksStay DEF Apart, Functions, Others, Inv
<1>11. PICK p : p = q
  OBVIOUS
<1>12. Reaches((s.body \o <<[still |-> s.until, body |-> s.body]>>) \o t, p, S)
  BY <1>2, <1>11 DEF From, May
<1>13. p \in State
  BY <1>2, <1>11 DEF From, State
<1>14. Known(c, p)'
  BY <1>2, <1>7, <1>3, <1>8, <1>11 DEF From, Known, State, Thing
<1>15. Free(c, p)'
  <2>1. Free(c, p)
    BY <1>2, <1>11 DEF From, Free, Count, State
  <2> QED
    BY <1>9, <2>1, LocksStay
<1>16. call'[c] # "none" /\ ClosedIn(S, {}) /\ todo'[c] = (s.body \o <<[still |-> s.until,
        body |-> s.body]>>) \o t
  BY <1>2, <1>7, <1>3, <1>8 DEF From
<1> QED
  BY <1>10, <1>12, <1>13, <1>14, <1>15, <1>16, Goes

\* What is done is told apart.
LEMMA EntersKept ==
  ASSUME Inv, NEW c \in Client, Enters(c)
  PROVE  Inv'
<1>1. At(c, "doing")
  BY DEF Enters
<1>2. PICK s, t, S, q : From(c, "doing", s, t, S, q)
  BY <1>1, Going
<1>3. PICK vdoing : vdoing = s.doing
  OBVIOUS
<1>4. Assigned(doing', doing, c, vdoing)
  BY <1>2, <1>3 DEF Assigned, Enters, From
<1>5. IsFn(doing)
  BY DEF Inv, Functions
<1>6. Changed(doing', doing, c, vdoing)
  BY <1>4, <1>5, Except
<1>7. IsFn(doing') /\ doing'[c] = vdoing /\ \A b \in Client \ {c} : doing'[b] = doing[b]
  BY <1>6 DEF Changed
<1>8. PICK vtodo : vtodo = t
  OBVIOUS
<1>9. Assigned(todo', todo, c, vtodo)
  BY <1>2, <1>8 DEF Assigned, Enters, Then, From
<1>10. IsFn(todo)
  BY DEF Inv, Functions
<1>11. Changed(todo', todo, c, vtodo)
  BY <1>9, <1>10, Except
<1>12. IsFn(todo') /\ todo'[c] = vtodo /\ \A b \in Client \ {c} : todo'[b] = todo[b]
  BY <1>11 DEF Changed
<1>13. /\ call' = call /\ asked' = asked /\ out' = out /\ got' = got /\ used' = used
       /\ hidden' = hidden /\ marked' = marked /\ lines' = lines /\ form' = form
  BY DEF Enters, events, shown, locks, screenVars
<1>14. UNCHANGED locks
  BY DEF Enters
<1>15. Apart(c)
  BY <1>7, <1>3, <1>12, <1>8, <1>13, <1>14, LocksStay DEF Apart, Functions, Others, Inv
<1>16. PICK p : p = [q EXCEPT !.doing = s.doing]
  OBVIOUS
<1>17. Reaches(t, p, S)
  BY <1>2, <1>16 DEF From, May
<1>18. p \in State
  BY <1>2, <1>16 DEF From, State, May, Errand
<1>19. Known(c, p)'
  BY <1>2, <1>7, <1>3, <1>12, <1>8, <1>13, <1>16 DEF From, Known, State, Thing
<1>20. Free(c, p)'
  <2>1. Free(c, p)
    BY <1>2, <1>16 DEF From, Free, Count, State
  <2> QED
    BY <1>14, <2>1, LocksStay
<1>21. call'[c] # "none" /\ ClosedIn(S, {}) /\ todo'[c] = t
  BY <1>2, <1>7, <1>3, <1>12, <1>8, <1>13 DEF From
<1> QED
  BY <1>15, <1>17, <1>18, <1>19, <1>20, <1>21, Goes

\* The cursor is hidden, or shown.
LEMMA MouseKept ==
  ASSUME Inv, NEW c \in Client, Graf_do_mouse(c)
  PROVE  Inv'
<1>1. At(c, "mouse")
  BY DEF Graf_do_mouse
<1>2. PICK s, t, S, q : From(c, "mouse", s, t, S, q)
  BY <1>1, Going
<1>3. s.mouse \in {"M_OFF", "v_hide_c", "M_ON", "v_show_c"} /\ q.hidden \in Nat
  BY <1>2 DEF From, May, State
<1>4. Shown(q.hidden, s.mouse) \in Nat
  BY <1>3 DEF Shown
<1>5. PICK vhidden : vhidden = Shown(hidden[c], s.mouse)
  OBVIOUS
<1>6. Assigned(hidden', hidden, c, vhidden)
  BY <1>2, <1>5 DEF Assigned, Graf_do_mouse, From
<1>7. IsFn(hidden)
  BY DEF Inv, Functions
<1>8. Changed(hidden', hidden, c, vhidden)
  BY <1>6, <1>7, Except
<1>9. IsFn(hidden') /\ hidden'[c] = vhidden /\ \A b \in Client \ {c} : hidden'[b] = hidden[b]
  BY <1>8 DEF Changed
<1>10. PICK vtodo : vtodo = t
  OBVIOUS
<1>11. Assigned(todo', todo, c, vtodo)
  BY <1>2, <1>10 DEF Assigned, Graf_do_mouse, Then, From
<1>12. IsFn(todo)
  BY DEF Inv, Functions
<1>13. Changed(todo', todo, c, vtodo)
  BY <1>11, <1>12, Except
<1>14. IsFn(todo') /\ todo'[c] = vtodo /\ \A b \in Client \ {c} : todo'[b] = todo[b]
  BY <1>13 DEF Changed
<1>15. /\ call' = call /\ asked' = asked /\ out' = out /\ got' = got /\ used' = used
       /\ marked' = marked /\ lines' = lines /\ doing' = doing /\ form' = form
  BY DEF Graf_do_mouse, events, shown, locks, screenVars
<1>16. UNCHANGED locks
  BY DEF Graf_do_mouse
<1>17. Apart(c)
  BY <1>9, <1>5, <1>14, <1>10, <1>15, <1>16, LocksStay DEF Apart, Functions, Others, Inv
<1>18. PICK p : p = [q EXCEPT !.hidden = Shown(@, s.mouse)]
  OBVIOUS
<1>19. Reaches(t, p, S)
  BY <1>2, <1>3, <1>4, <1>18 DEF From, May
<1>20. p \in State
  BY <1>2, <1>3, <1>4, <1>18 DEF From, State
<1>21. Known(c, p)'
  BY <1>2, <1>3, <1>4, <1>9, <1>5, <1>14, <1>10, <1>15, <1>18 DEF From, Known, State, Thing
<1>22. Free(c, p)'
  <2>1. Free(c, p)
    BY <1>2, <1>18 DEF From, Free, Count, State
  <2> QED
    BY <1>16, <2>1, LocksStay
<1>23. call'[c] # "none" /\ ClosedIn(S, {}) /\ todo'[c] = t
  BY <1>2, <1>9, <1>5, <1>14, <1>10, <1>15 DEF From
<1> QED
  BY <1>17, <1>19, <1>20, <1>21, <1>22, <1>23, Goes

\* A message of the menu is sent.
LEMMA MenuIsWritten ==
  ASSUME Inv, NEW c \in Client, Appl_do_write(c), Next1(c).send = "menu"
  PROVE  Inv'
<1>1. At(c, "send")
  BY DEF Appl_do_write
<1>2. PICK s, t, S, q : From(c, "send", s, t, S, q)
  BY <1>1, Going
<1>3. s.send = "menu"
  BY <1>2 DEF From
<1>4. PICK vused : vused = used[c]
  OBVIOUS
<1>5. Assigned(used', used, c, vused)
  BY <1>2, <1>4 DEF Assigned, Appl_do_write, From
<1>6. IsFn(used)
  BY DEF Inv, Functions
<1>7. Changed(used', used, c, vused)
  BY <1>5, <1>6, Except
<1>8. IsFn(used') /\ used'[c] = vused /\ \A b \in Client \ {c} : used'[b] = used[b]
  BY <1>7 DEF Changed
<1>9. PICK vtodo : vtodo = t
  OBVIOUS
<1>10. Assigned(todo', todo, c, vtodo)
  BY <1>2, <1>9 DEF Assigned, Appl_do_write, Then, From
<1>11. IsFn(todo)
  BY DEF Inv, Functions
<1>12. Changed(todo', todo, c, vtodo)
  BY <1>10, <1>11, Except
<1>13. IsFn(todo') /\ todo'[c] = vtodo /\ \A b \in Client \ {c} : todo'[b] = todo[b]
  BY <1>12 DEF Changed
<1>14. /\ call' = call /\ asked' = asked /\ out' = out /\ got' = got
       /\ hidden' = hidden /\ marked' = marked /\ lines' = lines /\ doing' = doing
       /\ form' = form
  BY DEF Appl_do_write, events, shown, locks, screenVars
<1>15. UNCHANGED locks
  BY DEF Appl_do_write
<1>16. Apart(c)
  BY <1>8, <1>4, <1>13, <1>9, <1>14, <1>15, LocksStay DEF Apart, Functions, Others, Inv
<1>17. PICK p : p = q
  OBVIOUS
<1>18. Reaches(t, p, S)
  BY <1>2, <1>3, <1>17 DEF From, May
<1>19. p \in State
  BY <1>2, <1>3, <1>17 DEF From, State
<1>20. Known(c, p)'
  BY <1>2, <1>3, <1>8, <1>4, <1>13, <1>9, <1>14, <1>17 DEF From, Known, State, Thing
<1>21. Free(c, p)'
  <2>1. Free(c, p)
    BY <1>2, <1>17 DEF From, Free, Count, State
  <2> QED
    BY <1>15, <2>1, LocksStay
<1>22. call'[c] # "none" /\ ClosedIn(S, {}) /\ todo'[c] = t
  BY <1>2, <1>8, <1>4, <1>13, <1>9, <1>14 DEF From
<1> QED
  BY <1>16, <1>18, <1>19, <1>20, <1>21, <1>22, Goes

\* Another message is sent, for a click.
LEMMA OtherIsWritten ==
  ASSUME Inv, NEW c \in Client, Appl_do_write(c), Next1(c).send # "menu"
  PROVE  Inv'
<1>1. At(c, "send")
  BY DEF Appl_do_write
<1>2. PICK s, t, S, q : From(c, "send", s, t, S, q)
  BY <1>1, Going
<1>3. s.send # "menu"
  BY <1>2 DEF From
<1>4. q.clicks > 0 /\ q.clicks \in Nat
  BY <1>2, <1>3 DEF From, May, State
<1>5. PICK vused : vused = used[c] + 1
  OBVIOUS
<1>6. Assigned(used', used, c, vused)
  BY <1>2, <1>5 DEF Assigned, Appl_do_write, From
<1>7. IsFn(used)
  BY DEF Inv, Functions
<1>8. Changed(used', used, c, vused)
  BY <1>6, <1>7, Except
<1>9. IsFn(used') /\ used'[c] = vused /\ \A b \in Client \ {c} : used'[b] = used[b]
  BY <1>8 DEF Changed
<1>10. PICK vtodo : vtodo = t
  OBVIOUS
<1>11. Assigned(todo', todo, c, vtodo)
  BY <1>2, <1>10 DEF Assigned, Appl_do_write, Then, From
<1>12. IsFn(todo)
  BY DEF Inv, Functions
<1>13. Changed(todo', todo, c, vtodo)
  BY <1>11, <1>12, Except
<1>14. IsFn(todo') /\ todo'[c] = vtodo /\ \A b \in Client \ {c} : todo'[b] = todo[b]
  BY <1>13 DEF Changed
<1>15. /\ call' = call /\ asked' = asked /\ out' = out /\ got' = got
       /\ hidden' = hidden /\ marked' = marked /\ lines' = lines /\ doing' = doing
       /\ form' = form
  BY DEF Appl_do_write, events, shown, locks, screenVars
<1>16. UNCHANGED locks
  BY DEF Appl_do_write
<1>17. Apart(c)
  BY <1>9, <1>5, <1>14, <1>10, <1>15, <1>16, LocksStay DEF Apart, Functions, Others, Inv
<1>18. PICK p : p = [q EXCEPT !.clicks = @ - 1]
  OBVIOUS
<1>19. Reaches(t, p, S)
  BY <1>2, <1>3, <1>4, <1>18 DEF From, May
<1>20. p \in State
  BY <1>2, <1>3, <1>4, <1>18 DEF From, State
<1>21. Known(c, p)'
  BY <1>2, <1>3, <1>4, <1>9, <1>5, <1>14, <1>10, <1>15, <1>18 DEF From, Known, State, Thing
<1>22. Free(c, p)'
  <2>1. Free(c, p)
    BY <1>2, <1>18 DEF From, Free, Count, State
  <2> QED
    BY <1>16, <2>1, LocksStay
<1>23. call'[c] # "none" /\ ClosedIn(S, {}) /\ todo'[c] = t
  BY <1>2, <1>9, <1>5, <1>14, <1>10, <1>15 DEF From
<1> QED
  BY <1>17, <1>19, <1>20, <1>21, <1>22, <1>23, Goes

\* Events are reported, for a click.
LEMMA ClickIsReported ==
  ASSUME Inv, NEW c \in Client, Reports(c), BUTTON \in Next1(c).report
  PROVE  Inv'
<1>1. At(c, "report")
  BY DEF Reports
<1>2. PICK s, t, S, q : From(c, "report", s, t, S, q)
  BY <1>1, Going
<1>3. BUTTON \in s.report
  BY <1>2 DEF From
<1>4. q.clicks > 0 /\ q.clicks \in Nat /\ s.report \subseteq q.asked
  BY <1>2, <1>3 DEF From, May, State
<1>5. PICK vout : vout = out[c] \cup s.report
  OBVIOUS
<1>6. Assigned(out', out, c, vout)
  BY <1>2, <1>5 DEF Assigned, Reports, From
<1>7. IsFn(out)
  BY DEF Inv, Functions
<1>8. Changed(out', out, c, vout)
  BY <1>6, <1>7, Except
<1>9. IsFn(out') /\ out'[c] = vout /\ \A b \in Client \ {c} : out'[b] = out[b]
  BY <1>8 DEF Changed
<1>10. PICK vused : vused = used[c] + 1
  OBVIOUS
<1>11. Assigned(used', used, c, vused)
  BY <1>2, <1>10 DEF Assigned, Reports, From
<1>12. IsFn(used)
  BY DEF Inv, Functions
<1>13. Changed(used', used, c, vused)
  BY <1>11, <1>12, Except
<1>14. IsFn(used') /\ used'[c] = vused /\ \A b \in Client \ {c} : used'[b] = used[b]
  BY <1>13 DEF Changed
<1>15. PICK vtodo : vtodo = t
  OBVIOUS
<1>16. Assigned(todo', todo, c, vtodo)
  BY <1>2, <1>15 DEF Assigned, Reports, Then, From
<1>17. IsFn(todo)
  BY DEF Inv, Functions
<1>18. Changed(todo', todo, c, vtodo)
  BY <1>16, <1>17, Except
<1>19. IsFn(todo') /\ todo'[c] = vtodo /\ \A b \in Client \ {c} : todo'[b] = todo[b]
  BY <1>18 DEF Changed
<1>20. /\ call' = call /\ asked' = asked /\ got' = got /\ hidden' = hidden
       /\ marked' = marked /\ lines' = lines /\ doing' = doing /\ form' = form
  BY DEF Reports, events, shown, locks, screenVars
<1>21. UNCHANGED locks
  BY DEF Reports
<1>22. Apart(c)
  BY <1>9, <1>5, <1>14, <1>10, <1>19, <1>15, <1>20, <1>21, LocksStay DEF Apart, Functions,
          Others, Inv
<1>23. PICK p : p = [q EXCEPT !.clicks = @ - 1]
  OBVIOUS
<1>24. Reaches(t, p, S)
  BY <1>2, <1>3, <1>4, <1>23 DEF From, May
<1>25. p \in State
  BY <1>2, <1>3, <1>4, <1>23 DEF From, State
<1>26. Known(c, p)'
  BY <1>2, <1>3, <1>4, <1>9, <1>5, <1>14, <1>10, <1>19, <1>15, <1>20, <1>23 DEF From, Known,
          State, Thing
<1>27. Free(c, p)'
  <2>1. Free(c, p)
    BY <1>2, <1>23 DEF From, Free, Count, State
  <2> QED
    BY <1>21, <2>1, LocksStay
<1>28. call'[c] # "none" /\ ClosedIn(S, {}) /\ todo'[c] = t
  BY <1>2, <1>9, <1>5, <1>14, <1>10, <1>19, <1>15, <1>20 DEF From
<1> QED
  BY <1>22, <1>24, <1>25, <1>26, <1>27, <1>28, Goes

\* Other events are reported.
LEMMA OtherIsReported ==
  ASSUME Inv, NEW c \in Client, Reports(c), BUTTON \notin Next1(c).report
  PROVE  Inv'
<1>1. At(c, "report")
  BY DEF Reports
<1>2. PICK s, t, S, q : From(c, "report", s, t, S, q)
  BY <1>1, Going
<1>3. BUTTON \notin s.report
  BY <1>2 DEF From
<1>4. s.report \subseteq q.asked
  BY <1>2, <1>3 DEF From, May
<1>5. PICK vout : vout = out[c] \cup s.report
  OBVIOUS
<1>6. Assigned(out', out, c, vout)
  BY <1>2, <1>5 DEF Assigned, Reports, From
<1>7. IsFn(out)
  BY DEF Inv, Functions
<1>8. Changed(out', out, c, vout)
  BY <1>6, <1>7, Except
<1>9. IsFn(out') /\ out'[c] = vout /\ \A b \in Client \ {c} : out'[b] = out[b]
  BY <1>8 DEF Changed
<1>10. PICK vused : vused = used[c]
  OBVIOUS
<1>11. Assigned(used', used, c, vused)
  BY <1>2, <1>10 DEF Assigned, Reports, From
<1>12. IsFn(used)
  BY DEF Inv, Functions
<1>13. Changed(used', used, c, vused)
  BY <1>11, <1>12, Except
<1>14. IsFn(used') /\ used'[c] = vused /\ \A b \in Client \ {c} : used'[b] = used[b]
  BY <1>13 DEF Changed
<1>15. PICK vtodo : vtodo = t
  OBVIOUS
<1>16. Assigned(todo', todo, c, vtodo)
  BY <1>2, <1>15 DEF Assigned, Reports, Then, From
<1>17. IsFn(todo)
  BY DEF Inv, Functions
<1>18. Changed(todo', todo, c, vtodo)
  BY <1>16, <1>17, Except
<1>19. IsFn(todo') /\ todo'[c] = vtodo /\ \A b \in Client \ {c} : todo'[b] = todo[b]
  BY <1>18 DEF Changed
<1>20. /\ call' = call /\ asked' = asked /\ got' = got /\ hidden' = hidden
       /\ marked' = marked /\ lines' = lines /\ doing' = doing /\ form' = form
  BY DEF Reports, events, shown, locks, screenVars
<1>21. UNCHANGED locks
  BY DEF Reports
<1>22. Apart(c)
  BY <1>9, <1>5, <1>14, <1>10, <1>19, <1>15, <1>20, <1>21, LocksStay DEF Apart, Functions,
          Others, Inv
<1>23. PICK p : p = q
  OBVIOUS
<1>24. Reaches(t, p, S)
  BY <1>2, <1>3, <1>4, <1>23 DEF From, May
<1>25. p \in State
  BY <1>2, <1>3, <1>4, <1>23 DEF From, State
<1>26. Known(c, p)'
  BY <1>2, <1>3, <1>4, <1>9, <1>5, <1>14, <1>10, <1>19, <1>15, <1>20, <1>23 DEF From, Known,
          State, Thing
<1>27. Free(c, p)'
  <2>1. Free(c, p)
    BY <1>2, <1>23 DEF From, Free, Count, State
  <2> QED
    BY <1>21, <2>1, LocksStay
<1>28. call'[c] # "none" /\ ClosedIn(S, {}) /\ todo'[c] = t
  BY <1>2, <1>9, <1>5, <1>14, <1>10, <1>19, <1>15, <1>20 DEF From
<1> QED
  BY <1>22, <1>24, <1>25, <1>26, <1>27, <1>28, Goes

\* What is tested holds.
LEMMA TestHolds ==
  ASSUME Inv, NEW c \in Client, Tests(c), Next1(c).when \in got[c] \cup marked[c]
  PROVE  Inv'
<1>1. At(c, "when")
  BY DEF Tests
<1>2. PICK s, t, S, q : From(c, "when", s, t, S, q)
  BY <1>1, Going
<1>3. s.when \in got[c] \cup marked[c]
  BY <1>2 DEF From
<1>4. s.when = BUTTON => BUTTON \in got[c] /\ q.pressed # "no"
  BY <1>2, <1>3 DEF From, Known, State, Thing, BUTTON
<1>5. PICK vtodo : vtodo = s.then \o t
  OBVIOUS
<1>6. Assigned(todo', todo, c, vtodo)
  BY <1>2, <1>5 DEF Assigned, Tests, Then, From
<1>7. IsFn(todo)
  BY DEF Inv, Functions
<1>8. Changed(todo', todo, c, vtodo)
  BY <1>6, <1>7, Except
<1>9. IsFn(todo') /\ todo'[c] = vtodo /\ \A b \in Client \ {c} : todo'[b] = todo[b]
  BY <1>8 DEF Changed
<1>10. /\ call' = call /\ asked' = asked /\ out' = out /\ got' = got /\ used' = used
       /\ hidden' = hidden /\ marked' = marked /\ lines' = lines /\ doing' = doing
       /\ form' = form
  BY DEF Tests, events, shown, locks, screenVars
<1>11. UNCHANGED locks
  BY DEF Tests
<1>12. Apart(c)
  BY <1>9, <1>5, <1>10, <1>11, LocksStay DEF Apart, Functions, Others, Inv
<1>13. PICK p : p = [q EXCEPT !.pressed = IF s.when = BUTTON THEN "yes" ELSE @]
  OBVIOUS
<1>14. Reaches(s.then \o t, p, S)
  BY <1>2, <1>3, <1>4, <1>13 DEF From, May
<1>15. p \in State
  BY <1>2, <1>3, <1>4, <1>13 DEF From, State
<1>16. Known(c, p)'
  BY <1>2, <1>3, <1>4, <1>9, <1>5, <1>10, <1>13 DEF From, Known, State, Thing
<1>17. Free(c, p)'
  <2>1. Free(c, p)
    BY <1>2, <1>13 DEF From, Free, Count, State
  <2> QED
    BY <1>11, <2>1, LocksStay
<1>18. call'[c] # "none" /\ ClosedIn(S, {}) /\ todo'[c] = s.then \o t
  BY <1>2, <1>9, <1>5, <1>10 DEF From
<1> QED
  BY <1>12, <1>14, <1>15, <1>16, <1>17, <1>18, Goes

\* What is tested does not hold.
LEMMA TestFails ==
  ASSUME Inv, NEW c \in Client, Tests(c), Next1(c).when \notin got[c] \cup marked[c]
  PROVE  Inv'
<1>1. At(c, "when")
  BY DEF Tests
<1>2. PICK s, t, S, q : From(c, "when", s, t, S, q)
  BY <1>1, Going
<1>3. s.when \notin got[c] \cup marked[c]
  BY <1>2 DEF From
<1>4. s.when = BUTTON => BUTTON \notin got[c] /\ q.pressed # "yes"
  BY <1>2, <1>3 DEF From, Known
<1>5. PICK vtodo : vtodo = s.else \o t
  OBVIOUS
<1>6. Assigned(todo', todo, c, vtodo)
  BY <1>2, <1>5 DEF Assigned, Tests, Then, From
<1>7. IsFn(todo)
  BY DEF Inv, Functions
<1>8. Changed(todo', todo, c, vtodo)
  BY <1>6, <1>7, Except
<1>9. IsFn(todo') /\ todo'[c] = vtodo /\ \A b \in Client \ {c} : todo'[b] = todo[b]
  BY <1>8 DEF Changed
<1>10. /\ call' = call /\ asked' = asked /\ out' = out /\ got' = got /\ used' = used
       /\ hidden' = hidden /\ marked' = marked /\ lines' = lines /\ doing' = doing
       /\ form' = form
  BY DEF Tests, events, shown, locks, screenVars
<1>11. UNCHANGED locks
  BY DEF Tests
<1>12. Apart(c)
  BY <1>9, <1>5, <1>10, <1>11, LocksStay DEF Apart, Functions, Others, Inv
<1>13. PICK p : p = [q EXCEPT !.marks = @ \ {s.when},
        !.pressed = IF s.when = BUTTON THEN "no" ELSE @]
  OBVIOUS
<1>14. Reaches(s.else \o t, p, S)
  BY <1>2, <1>3, <1>4, <1>13 DEF From, May
<1>15. p \in State
  BY <1>2, <1>3, <1>4, <1>13 DEF From, State
<1>16. Known(c, p)'
  BY <1>2, <1>3, <1>4, <1>9, <1>5, <1>10, <1>13 DEF From, Known, State, Thing
<1>17. Free(c, p)'
  <2>1. Free(c, p)
    BY <1>2, <1>13 DEF From, Free, Count, State
  <2> QED
    BY <1>11, <2>1, LocksStay
<1>18. call'[c] # "none" /\ ClosedIn(S, {}) /\ todo'[c] = s.else \o t
  BY <1>2, <1>9, <1>5, <1>10 DEF From
<1> QED
  BY <1>12, <1>14, <1>15, <1>16, <1>17, <1>18, Goes

\* A loop is left.
LEMMA LoopIsLeft ==
  ASSUME Inv, NEW c \in Client, Repeats(c), Next1(c).still \in got[c]
  PROVE  Inv'
<1>1. At(c, "still")
  BY DEF Repeats
<1>2. PICK s, t, S, q : From(c, "still", s, t, S, q)
  BY <1>1, Going
<1>3. s.still \in got[c]
  BY <1>2 DEF From
<1>4. ~ (s.still = BUTTON /\ q.pressed = "no")
  BY <1>2, <1>3 DEF From, Known
<1>5. PICK vtodo : vtodo = t
  OBVIOUS
<1>6. Assigned(todo', todo, c, vtodo)
  BY <1>2, <1>5 DEF Assigned, Repeats, Then, From
<1>7. IsFn(todo)
  BY DEF Inv, Functions
<1>8. Changed(todo', todo, c, vtodo)
  BY <1>6, <1>7, Except
<1>9. IsFn(todo') /\ todo'[c] = vtodo /\ \A b \in Client \ {c} : todo'[b] = todo[b]
  BY <1>8 DEF Changed
<1>10. PICK vgot : vgot = {}
  OBVIOUS
<1>11. Assigned(got', got, c, vgot)
  BY <1>2, <1>10 DEF Assigned, Repeats, From
<1>12. IsFn(got)
  BY DEF Inv, Functions
<1>13. Changed(got', got, c, vgot)
  BY <1>11, <1>12, Except
<1>14. IsFn(got') /\ got'[c] = vgot /\ \A b \in Client \ {c} : got'[b] = got[b]
  BY <1>13 DEF Changed
<1>15. /\ call' = call /\ asked' = asked /\ out' = out /\ used' = used
       /\ hidden' = hidden /\ marked' = marked /\ lines' = lines /\ doing' = doing
       /\ form' = form
  BY DEF Repeats, events, shown, locks, screenVars
<1>16. UNCHANGED locks
  BY DEF Repeats
<1>17. Apart(c)
  BY <1>9, <1>5, <1>14, <1>10, <1>15, <1>16, LocksStay DEF Apart, Functions, Others, Inv
<1>18. PICK p : p = [q EXCEPT !.pressed = "no"]
  OBVIOUS
<1>19. Reaches(t, p, S)
  BY <1>2, <1>3, <1>4, <1>18 DEF From, May
<1>20. p \in State
  BY <1>2, <1>3, <1>4, <1>18 DEF From, State
<1>21. Known(c, p)'
  BY <1>2, <1>3, <1>4, <1>9, <1>5, <1>14, <1>10, <1>15, <1>18 DEF From, Known, State, Thing
<1>22. Free(c, p)'
  <2>1. Free(c, p)
    BY <1>2, <1>18 DEF From, Free, Count, State
  <2> QED
    BY <1>16, <2>1, LocksStay
<1>23. call'[c] # "none" /\ ClosedIn(S, {}) /\ todo'[c] = t
  BY <1>2, <1>9, <1>5, <1>14, <1>10, <1>15 DEF From
<1> QED
  BY <1>17, <1>19, <1>20, <1>21, <1>22, <1>23, Goes

\* A loop goes on.
LEMMA LoopGoesOn ==
  ASSUME Inv, NEW c \in Client, Repeats(c), Next1(c).still \notin got[c]
  PROVE  Inv'
<1>1. At(c, "still")
  BY DEF Repeats
<1>2. PICK s, t, S, q : From(c, "still", s, t, S, q)
  BY <1>1, Going
<1>3. s.still \notin got[c]
  BY <1>2 DEF From
<1>4. ~ (s.still = BUTTON /\ q.pressed = "yes")
  BY <1>2, <1>3 DEF From, Known
<1>5. PICK vtodo : vtodo = (s.body \o <<s>>) \o t
  OBVIOUS
<1>6. Assigned(todo', todo, c, vtodo)
  BY <1>2, <1>5 DEF Assigned, Repeats, Then, From
<1>7. IsFn(todo)
  BY DEF Inv, Functions
<1>8. Changed(todo', todo, c, vtodo)
  BY <1>6, <1>7, Except
<1>9. IsFn(todo') /\ todo'[c] = vtodo /\ \A b \in Client \ {c} : todo'[b] = todo[b]
  BY <1>8 DEF Changed
<1>10. /\ call' = call /\ asked' = asked /\ out' = out /\ got' = got /\ used' = used
       /\ hidden' = hidden /\ marked' = marked /\ lines' = lines /\ doing' = doing
       /\ form' = form
  BY DEF Repeats, events, shown, locks, screenVars
<1>11. UNCHANGED locks
  BY DEF Repeats
<1>12. Apart(c)
  BY <1>9, <1>5, <1>10, <1>11, LocksStay DEF Apart, Functions, Others, Inv
<1>13. PICK p : p = q
  OBVIOUS
<1>14. Reaches((s.body \o <<s>>) \o t, p, S)
  BY <1>2, <1>3, <1>4, <1>13 DEF From, May
<1>15. p \in State
  BY <1>2, <1>3, <1>4, <1>13 DEF From, State
<1>16. Known(c, p)'
  BY <1>2, <1>3, <1>4, <1>9, <1>5, <1>10, <1>13 DEF From, Known, State, Thing
<1>17. Free(c, p)'
  <2>1. Free(c, p)
    BY <1>2, <1>13 DEF From, Free, Count, State
  <2> QED
    BY <1>11, <2>1, LocksStay
<1>18. call'[c] # "none" /\ ClosedIn(S, {}) /\ todo'[c] = (s.body \o <<s>>) \o t
  BY <1>2, <1>9, <1>5, <1>10 DEF From
<1> QED
  BY <1>12, <1>14, <1>15, <1>16, <1>17, <1>18, Goes

\* An object is selected.
LEMMA MarkIsDrawn ==
  ASSUME Inv, NEW c \in Client, Draws(c), At(c, "mark"), UNCHANGED lines,
         marked' = [marked EXCEPT ![c] = @ \cup {Next1(c).mark}]
  PROVE  Inv'
<1>1. At(c, "mark")
  BY DEF Draws
<1>2. PICK s, t, S, q : From(c, "mark", s, t, S, q)
  BY <1>1, Going
<1>3. s.mark \in Thing
  BY <1>2 DEF From, May
<1>4. PICK vmarked : vmarked = marked[c] \cup {s.mark}
  OBVIOUS
<1>5. Assigned(marked', marked, c, vmarked)
  BY <1>2, <1>4 DEF Assigned, From
<1>6. IsFn(marked)
  BY DEF Inv, Functions
<1>7. Changed(marked', marked, c, vmarked)
  BY <1>5, <1>6, Except
<1>8. IsFn(marked') /\ marked'[c] = vmarked /\ \A b \in Client \ {c} : marked'[b] = marked[b]
  BY <1>7 DEF Changed
<1>9. PICK vtodo : vtodo = t
  OBVIOUS
<1>10. Assigned(todo', todo, c, vtodo)
  BY <1>2, <1>9 DEF Assigned, Draws, Then, From
<1>11. IsFn(todo)
  BY DEF Inv, Functions
<1>12. Changed(todo', todo, c, vtodo)
  BY <1>10, <1>11, Except
<1>13. IsFn(todo') /\ todo'[c] = vtodo /\ \A b \in Client \ {c} : todo'[b] = todo[b]
  BY <1>12 DEF Changed
<1>14. /\ call' = call /\ asked' = asked /\ out' = out /\ got' = got /\ used' = used
       /\ hidden' = hidden /\ lines' = lines /\ doing' = doing /\ form' = form
  BY DEF Draws, events, shown, locks, screenVars
<1>15. UNCHANGED locks
  BY DEF Draws
<1>16. Apart(c)
  BY <1>8, <1>4, <1>13, <1>9, <1>14, <1>15, LocksStay DEF Apart, Functions, Others, Inv
<1>17. PICK p : p = [q EXCEPT !.marks = @ \cup {s.mark}]
  OBVIOUS
<1>18. Reaches(t, p, S)
  BY <1>2, <1>3, <1>17 DEF From, May
<1>19. p \in State
  BY <1>2, <1>3, <1>17 DEF From, State
<1>20. Known(c, p)'
  BY <1>2, <1>3, <1>8, <1>4, <1>13, <1>9, <1>14, <1>17 DEF From, Known, State, Thing
<1>21. Free(c, p)'
  <2>1. Free(c, p)
    BY <1>2, <1>17 DEF From, Free, Count, State
  <2> QED
    BY <1>15, <2>1, LocksStay
<1>22. call'[c] # "none" /\ ClosedIn(S, {}) /\ todo'[c] = t
  BY <1>2, <1>8, <1>4, <1>13, <1>9, <1>14 DEF From
<1> QED
  BY <1>16, <1>18, <1>19, <1>20, <1>21, <1>22, Goes

\* An object is drawn as it was.
LEMMA MarkIsCleared ==
  ASSUME Inv, NEW c \in Client, Draws(c), At(c, "clear"), UNCHANGED lines,
         marked' = [marked EXCEPT ![c] = @ \ {Next1(c).clear}]
  PROVE  Inv'
<1>1. At(c, "clear")
  BY DEF Draws
<1>2. PICK s, t, S, q : From(c, "clear", s, t, S, q)
  BY <1>1, Going
<1>3. PICK vmarked : vmarked = marked[c] \ {s.clear}
  OBVIOUS
<1>4. Assigned(marked', marked, c, vmarked)
  BY <1>2, <1>3 DEF Assigned, From
<1>5. IsFn(marked)
  BY DEF Inv, Functions
<1>6. Changed(marked', marked, c, vmarked)
  BY <1>4, <1>5, Except
<1>7. IsFn(marked') /\ marked'[c] = vmarked /\ \A b \in Client \ {c} : marked'[b] = marked[b]
  BY <1>6 DEF Changed
<1>8. PICK vtodo : vtodo = t
  OBVIOUS
<1>9. Assigned(todo', todo, c, vtodo)
  BY <1>2, <1>8 DEF Assigned, Draws, Then, From
<1>10. IsFn(todo)
  BY DEF Inv, Functions
<1>11. Changed(todo', todo, c, vtodo)
  BY <1>9, <1>10, Except
<1>12. IsFn(todo') /\ todo'[c] = vtodo /\ \A b \in Client \ {c} : todo'[b] = todo[b]
  BY <1>11 DEF Changed
<1>13. /\ call' = call /\ asked' = asked /\ out' = out /\ got' = got /\ used' = used
       /\ hidden' = hidden /\ lines' = lines /\ doing' = doing /\ form' = form
  BY DEF Draws, events, shown, locks, screenVars
<1>14. UNCHANGED locks
  BY DEF Draws
<1>15. Apart(c)
  BY <1>7, <1>3, <1>12, <1>8, <1>13, <1>14, LocksStay DEF Apart, Functions, Others, Inv
<1>16. PICK p : p = [q EXCEPT !.marks = @ \ {s.clear}]
  OBVIOUS
<1>17. Reaches(t, p, S)
  BY <1>2, <1>16 DEF From, May
<1>18. p \in State
  BY <1>2, <1>16 DEF From, State
<1>19. Known(c, p)'
  BY <1>2, <1>7, <1>3, <1>12, <1>8, <1>13, <1>16 DEF From, Known, State, Thing
<1>20. Free(c, p)'
  <2>1. Free(c, p)
    BY <1>2, <1>16 DEF From, Free, Count, State
  <2> QED
    BY <1>14, <2>1, LocksStay
<1>21. call'[c] # "none" /\ ClosedIn(S, {}) /\ todo'[c] = t
  BY <1>2, <1>7, <1>3, <1>12, <1>8, <1>13 DEF From
<1> QED
  BY <1>15, <1>17, <1>18, <1>19, <1>20, <1>21, Goes

\* An object is no longer selected.
LEMMA MarkIsTakenOff ==
  ASSUME Inv, NEW c \in Client, Draws(c), At(c, "unselect"), UNCHANGED lines,
         marked' = [marked EXCEPT ![c] = @ \ {Next1(c).unselect}]
  PROVE  Inv'
<1>1. At(c, "unselect")
  BY DEF Draws
<1>2. PICK s, t, S, q : From(c, "unselect", s, t, S, q)
  BY <1>1, Going
<1>3. PICK vmarked : vmarked = marked[c] \ {s.unselect}
  OBVIOUS
<1>4. Assigned(marked', marked, c, vmarked)
  BY <1>2, <1>3 DEF Assigned, From
<1>5. IsFn(marked)
  BY DEF Inv, Functions
<1>6. Changed(marked', marked, c, vmarked)
  BY <1>4, <1>5, Except
<1>7. IsFn(marked') /\ marked'[c] = vmarked /\ \A b \in Client \ {c} : marked'[b] = marked[b]
  BY <1>6 DEF Changed
<1>8. PICK vtodo : vtodo = t
  OBVIOUS
<1>9. Assigned(todo', todo, c, vtodo)
  BY <1>2, <1>8 DEF Assigned, Draws, Then, From
<1>10. IsFn(todo)
  BY DEF Inv, Functions
<1>11. Changed(todo', todo, c, vtodo)
  BY <1>9, <1>10, Except
<1>12. IsFn(todo') /\ todo'[c] = vtodo /\ \A b \in Client \ {c} : todo'[b] = todo[b]
  BY <1>11 DEF Changed
<1>13. /\ call' = call /\ asked' = asked /\ out' = out /\ got' = got /\ used' = used
       /\ hidden' = hidden /\ lines' = lines /\ doing' = doing /\ form' = form
  BY DEF Draws, events, shown, locks, screenVars
<1>14. UNCHANGED locks
  BY DEF Draws
<1>15. Apart(c)
  BY <1>7, <1>3, <1>12, <1>8, <1>13, <1>14, LocksStay DEF Apart, Functions, Others, Inv
<1>16. PICK p : p = [q EXCEPT !.marks = @ \ {s.unselect}]
  OBVIOUS
<1>17. Reaches(t, p, S)
  BY <1>2, <1>16 DEF From, May
<1>18. p \in State
  BY <1>2, <1>16 DEF From, State
<1>19. Known(c, p)'
  BY <1>2, <1>7, <1>3, <1>12, <1>8, <1>13, <1>16 DEF From, Known, State, Thing
<1>20. Free(c, p)'
  <2>1. Free(c, p)
    BY <1>2, <1>16 DEF From, Free, Count, State
  <2> QED
    BY <1>14, <2>1, LocksStay
<1>21. call'[c] # "none" /\ ClosedIn(S, {}) /\ todo'[c] = t
  BY <1>2, <1>7, <1>3, <1>12, <1>8, <1>13 DEF From
<1> QED
  BY <1>15, <1>17, <1>18, <1>19, <1>20, <1>21, Goes

\* Lines are drawn, or taken off.
LEMMA LineIsDrawn ==
  ASSUME Inv, NEW c \in Client, Draws(c), At(c, "line"), UNCHANGED marked,
         lines' = [lines EXCEPT ![c] = ~@]
  PROVE  Inv'
<1>1. At(c, "line")
  BY DEF Draws
<1>2. PICK s, t, S, q : From(c, "line", s, t, S, q)
  BY <1>1, Going
<1>3. PICK vlines : vlines = (~lines[c])
  OBVIOUS
<1>4. Assigned(lines', lines, c, vlines)
  BY <1>2, <1>3 DEF Assigned, From
<1>5. IsFn(lines)
  BY DEF Inv, Functions
<1>6. Changed(lines', lines, c, vlines)
  BY <1>4, <1>5, Except
<1>7. IsFn(lines') /\ lines'[c] = vlines /\ \A b \in Client \ {c} : lines'[b] = lines[b]
  BY <1>6 DEF Changed
<1>8. PICK vtodo : vtodo = t
  OBVIOUS
<1>9. Assigned(todo', todo, c, vtodo)
  BY <1>2, <1>8 DEF Assigned, Draws, Then, From
<1>10. IsFn(todo)
  BY DEF Inv, Functions
<1>11. Changed(todo', todo, c, vtodo)
  BY <1>9, <1>10, Except
<1>12. IsFn(todo') /\ todo'[c] = vtodo /\ \A b \in Client \ {c} : todo'[b] = todo[b]
  BY <1>11 DEF Changed
<1>13. /\ call' = call /\ asked' = asked /\ out' = out /\ got' = got /\ used' = used
       /\ hidden' = hidden /\ marked' = marked /\ doing' = doing /\ form' = form
  BY DEF Draws, events, shown, locks, screenVars
<1>14. UNCHANGED locks
  BY DEF Draws
<1>15. Apart(c)
  BY <1>7, <1>3, <1>12, <1>8, <1>13, <1>14, LocksStay DEF Apart, Functions, Others, Inv
<1>16. PICK p : p = [q EXCEPT !.lines = ~@]
  OBVIOUS
<1>17. Reaches(t, p, S)
  BY <1>2, <1>16 DEF From, May
<1>18. p \in State
  BY <1>2, <1>16 DEF From, State
<1>19. Known(c, p)'
  BY <1>2, <1>7, <1>3, <1>12, <1>8, <1>13, <1>16 DEF From, Known, State, Thing
<1>20. Free(c, p)'
  <2>1. Free(c, p)
    BY <1>2, <1>16 DEF From, Free, Count, State
  <2> QED
    BY <1>14, <2>1, LocksStay
<1>21. call'[c] # "none" /\ ClosedIn(S, {}) /\ todo'[c] = t
  BY <1>2, <1>7, <1>3, <1>12, <1>8, <1>13 DEF From
<1> QED
  BY <1>15, <1>17, <1>18, <1>19, <1>20, <1>21, Goes

\* The form is set, or restored.
LEMMA FormIsSet ==
  ASSUME Inv, NEW c \in Client, srv_graf_mouse(c)
  PROVE  Inv'
<1>1. At(c, "form")
  BY DEF srv_graf_mouse
<1>2. PICK s, t, S, q : From(c, "form", s, t, S, q)
  BY <1>1, Going
<1>3. q.free /\ ChangesForm(c)
  BY <1>2 DEF From, May, Known
<1>4. PICK vhidden : vhidden = 0
  OBVIOUS
<1>5. Assigned(hidden', hidden, c, vhidden)
  BY <1>2, <1>4 DEF Assigned, srv_graf_mouse, From
<1>6. IsFn(hidden)
  BY DEF Inv, Functions
<1>7. Changed(hidden', hidden, c, vhidden)
  BY <1>5, <1>6, Except
<1>8. IsFn(hidden') /\ hidden'[c] = vhidden /\ \A b \in Client \ {c} : hidden'[b] = hidden[b]
  BY <1>7 DEF Changed
<1>9. PICK vtodo : vtodo = t
  OBVIOUS
<1>10. Assigned(todo', todo, c, vtodo)
  BY <1>2, <1>9 DEF Assigned, srv_graf_mouse, Then, From
<1>11. IsFn(todo)
  BY DEF Inv, Functions
<1>12. Changed(todo', todo, c, vtodo)
  BY <1>10, <1>11, Except
<1>13. IsFn(todo') /\ todo'[c] = vtodo /\ \A b \in Client \ {c} : todo'[b] = todo[b]
  BY <1>12 DEF Changed
<1>14. /\ call' = call /\ asked' = asked /\ out' = out /\ got' = got /\ used' = used
       /\ marked' = marked /\ lines' = lines /\ doing' = doing
  BY DEF srv_graf_mouse, events, shown
<1>15. UNCHANGED locks
  BY DEF srv_graf_mouse
<1>16. Apart(c)
  BY <1>3, <1>8, <1>4, <1>13, <1>9, <1>14, <1>15, LocksStay DEF Apart, Functions, Others, Inv
<1>17. PICK p : p = Formed(q, s.form)
  OBVIOUS
<1>18. Reaches(t, p, S)
  BY <1>2, <1>17 DEF From, May
<1>19. PICK e : e = IF s.form = "ARROW" \/ (s.form = "M_RESTORE" /\ q.form = "last") THEN "own"
                    ELSE IF q.form = "own" THEN "last" ELSE "any"
  OBVIOUS
<1>20. p = [q EXCEPT !.hidden = 0, !.form = e]
  BY <1>17, <1>19 DEF Formed
<1>21. p \in State
  BY <1>2, <1>19, <1>20 DEF From, State
<1>22. Alone(c) => (e = "own" => form'[1] = "ARROW") /\ (e = "last" => form'[2] = "ARROW")
  <2>1. /\ s.form = "M_RESTORE" => form'[1] = form[2] /\ form'[2] = form[1]
        /\ s.form # "M_RESTORE" => form'[1] = s.form /\ form'[2] = form[1]
    BY <1>2 DEF srv_graf_mouse, From
  <2> QED
    BY <1>2, <1>19, <2>1 DEF From, Known
<1>23. Known(c, p)'
  <2>1. /\ p.doing = q.doing /\ p.hidden = 0 /\ p.lines = q.lines /\ p.marks = q.marks
        /\ p.clicks = q.clicks /\ p.asked = q.asked /\ p.pressed = q.pressed /\ p.free = q.free
        /\ p.form = e
    BY <1>2, <1>20 DEF From, State
  <2> QED
    BY <1>2, <1>8, <1>4, <1>13, <1>9, <1>14, <1>22, <2>1 DEF From, Known, Alone
<1>24. Free(c, p)'
  <2>1. Free(c, p)
    BY <1>2, <1>20 DEF From, Free, Count, State
  <2> QED
    BY <1>15, <2>1, LocksStay
<1>25. call'[c] # "none" /\ ClosedIn(S, {}) /\ todo'[c] = t
  BY <1>2, <1>8, <1>4, <1>13, <1>9, <1>14 DEF From
<1> QED
  BY <1>16, <1>18, <1>21, <1>23, <1>24, <1>25, Goes

-----------------------------------------------------------------------------
(* The locks are begun and ended. *)

\* UPDATE is begun, and it is free or the application's own.
LEMMA ScreenIsBegun ==
  ASSUME Inv, NEW c \in Client, Begins(c), At(c, "beg"), Next1(c).beg = "UPDATE",
         UPDATE!Enter(c) \/ UPDATE!EnterAgain(c), Then(c, <<>>), UNCHANGED <<mctrlDepth,
                 mctrlLine>>
  PROVE  Inv'
<1>1. PICK s, t, S, q : From(c, "beg", s, t, S, q)
  BY Going
<1>2. PICK d : d = updateDepth
  OBVIOUS
<1>3. PICK w : w = updateLine
  OBVIOUS
<1>4. PICK e : e = updateDepth'
  OBVIOUS
<1>5. Sound(d, w) /\ d \in [Client -> Nat]
  BY <1>2, <1>3 DEF Inv, LocksSound, Sound
<1>6. c \notin Names(w) /\ d[c] = q.update
  BY <1>1, <1>2, <1>3 DEF From, Free, Locks, Queue, Depth, Count
<1>7. (\A a \in Client \ {c} : d[a] = 0) /\ e = [d EXCEPT ![c] = @ + 1] /\ updateLine' = w
  <2>1. CASE UPDATE!Enter(c)
    <3>1. \A a \in Client : d[a] = 0
      BY <1>2, <1>5, <2>1 DEF UPDATE!Enter, UPDATE!Inside
    <3>2. e = [d EXCEPT ![c] = 1] /\ updateLine' = w
      BY <1>2, <1>3, <1>4, <2>1 DEF UPDATE!Enter
    <3>3. d[c] = 0 /\ d[c] + 1 = 1
      BY <3>1
    <3>4. e = [d EXCEPT ![c] = @ + 1]
      BY <3>2, <3>3
    <3> QED
      BY <3>1, <3>2, <3>4
  <2>2. CASE UPDATE!EnterAgain(c)
    <3>1. d[c] > 0 /\ updateDepth' = [updateDepth EXCEPT ![c] = @ + 1] /\ updateLine' = updateLine
      BY <1>2, <2>2 DEF UPDATE!EnterAgain, UPDATE!Inside
    <3>2. \A a \in Client \ {c} : d[a] = 0
      BY <1>5, <3>1 DEF Sound
    <3> QED
      BY <1>2, <1>3, <1>4, <3>1, <3>2
  <2> QED
    BY <2>1, <2>2
<1>8. /\ Sound(e, w) /\ Elsewhere(c, d, w, e, w)
      /\ e[c] = d[c] + 1
  BY <1>5, <1>6, <1>7, Grows
<1>9. /\ Sound(updateDepth', updateLine') /\ Elsewhere(c, updateDepth, updateLine,
        updateDepth', updateLine')
       /\ updateDepth'[c] = q.update + 1 /\ c \notin Names(updateLine')
  BY <1>2, <1>3, <1>4, <1>6, <1>7, <1>8
<1>10. /\ Sound(mctrlDepth', mctrlLine') /\ Elsewhere(c, mctrlDepth, mctrlLine, mctrlDepth',
        mctrlLine')
       /\ mctrlDepth'[c] = q.mctrl /\ c \notin Names(mctrlLine')
  BY <1>1 DEF Inv, LocksSound, Elsewhere, From, Free, Locks, Queue, Depth, Count
<1>11. PICK vtodo : vtodo = t
  OBVIOUS
<1>12. Assigned(todo', todo, c, vtodo)
  BY <1>1, <1>11 DEF Assigned, Then, From
<1>13. IsFn(todo)
  BY DEF Inv, Functions
<1>14. Changed(todo', todo, c, vtodo)
  BY <1>12, <1>13, Except
<1>15. IsFn(todo') /\ todo'[c] = vtodo /\ \A b \in Client \ {c} : todo'[b] = todo[b]
  BY <1>14 DEF Changed
<1>16. /\ call' = call /\ asked' = asked /\ out' = out /\ got' = got /\ used' = used
       /\ hidden' = hidden /\ marked' = marked /\ lines' = lines /\ doing' = doing
       /\ form' = form
  BY DEF Begins, events, shown
<1>17. Apart(c)
  BY <1>15, <1>11, <1>16, <1>9, <1>10 DEF Apart, Functions, Others, Inv, LocksSound
<1>18. PICK p : p = Begun(q, "UPDATE")
  OBVIOUS
<1>19. Reaches(t, p, S)
  BY <1>1, <1>18 DEF From, May
<1>20. p = [q EXCEPT !.update = @ + 1]
  BY <1>18 DEF Begun
<1>21. p \in State
  BY <1>1, <1>20 DEF From, State
<1>22. Known(c, p)'
  BY <1>1, <1>15, <1>11, <1>16, <1>20 DEF From, Known, State
<1>23. Free(c, p)'
  <2>1. p.update = q.update + 1 /\ p.mctrl = q.mctrl
    BY <1>1, <1>20 DEF From, State
  <2> QED
    BY <1>9, <1>10, <2>1 DEF Free, Locks, Queue, Depth, Count
<1>24. call'[c] # "none" /\ ClosedIn(S, {}) /\ todo'[c] = t
  BY <1>1, <1>15, <1>11, <1>16 DEF From
<1> QED
  BY <1>17, <1>19, <1>21, <1>22, <1>23, <1>24, Goes

\* UPDATE is begun, and another application has it.
LEMMA ScreenIsAwaited ==
  ASSUME Inv, NEW c \in Client, Begins(c), At(c, "beg"), Next1(c).beg = "UPDATE",
         UPDATE!StandInLine(c), Then(c, <<[granted |-> "UPDATE"]>>), UNCHANGED <<mctrlDepth,
                 mctrlLine>>
  PROVE  Inv'
<1>1. PICK s, t, S, q : From(c, "beg", s, t, S, q)
  BY Going
<1>2. PICK d : d = updateDepth
  OBVIOUS
<1>3. PICK w : w = updateLine
  OBVIOUS
<1>4. PICK x : x = updateLine'
  OBVIOUS
<1>5. Sound(d, w) /\ d \in [Client -> Nat]
  BY <1>2, <1>3 DEF Inv, LocksSound, Sound
<1>6. c \notin Names(w) /\ d[c] = q.update
  BY <1>1, <1>2, <1>3 DEF From, Free, Locks, Queue, Depth, Count
<1>7. PICK a \in Client \ {c} : d[a] > 0
  BY <1>2 DEF UPDATE!StandInLine, UPDATE!Inside
<1>8. x = Append(w, c) /\ updateDepth' = d
  BY <1>2, <1>3, <1>4 DEF UPDATE!StandInLine
<1>9. Sound(d, x) /\ Elsewhere(c, d, w, d, x) /\ c \in Names(x) /\ d[c] = 0
  BY <1>5, <1>6, <1>7, <1>8, Queues
<1>10. /\ Sound(updateDepth', updateLine') /\ Elsewhere(c, updateDepth, updateLine,
        updateDepth', updateLine')
       /\ q.update = 0 /\ c \in Names(updateLine')
  BY <1>2, <1>3, <1>4, <1>6, <1>8, <1>9
<1>11. /\ Sound(mctrlDepth', mctrlLine') /\ Elsewhere(c, mctrlDepth, mctrlLine, mctrlDepth',
        mctrlLine')
       /\ mctrlDepth'[c] = q.mctrl /\ c \notin Names(mctrlLine')
  BY <1>1 DEF Inv, LocksSound, Elsewhere, From, Free, Locks, Queue, Depth, Count
<1>12. PICK vtodo : vtodo = <<[granted |-> "UPDATE"]>> \o t
  OBVIOUS
<1>13. Assigned(todo', todo, c, vtodo)
  BY <1>1, <1>12 DEF Assigned, Then, From
<1>14. IsFn(todo)
  BY DEF Inv, Functions
<1>15. Changed(todo', todo, c, vtodo)
  BY <1>13, <1>14, Except
<1>16. IsFn(todo') /\ todo'[c] = vtodo /\ \A b \in Client \ {c} : todo'[b] = todo[b]
  BY <1>15 DEF Changed
<1>17. /\ call' = call /\ asked' = asked /\ out' = out /\ got' = got /\ used' = used
       /\ hidden' = hidden /\ marked' = marked /\ lines' = lines /\ doing' = doing
       /\ form' = form
  BY DEF Begins, events, shown
<1>18. Apart(c)
  BY <1>16, <1>12, <1>17, <1>10, <1>11 DEF Apart, Functions, Others, Inv, LocksSound
<1>19. PICK p : p = Begun(q, "UPDATE")
  OBVIOUS
<1>20. Reaches(t, p, S) /\ MayBegin(q, "UPDATE")
  BY <1>1, <1>19 DEF From, May
<1>21. p = [q EXCEPT !.update = @ + 1]
  BY <1>19 DEF Begun
<1>22. p \in State
  BY SMTT(30), <1>1, <1>21 DEF From, State
<1>23. Known(c, p)'
  BY <1>1, <1>16, <1>12, <1>17, <1>21 DEF From, Known, State
<1>24. PICK r \in State : Under(p, r) /\ <<t, r>> \in S
  BY <1>20 DEF Reaches
<1>25. Known(c, r)'
  BY <1>22, <1>23, <1>24, KnownUnder
<1>26. r.update = 1 /\ r.mctrl = q.mctrl /\ r.hidden = q.hidden /\ r.doing = q.doing
  <2>1. p.update = q.update + 1 /\ p.mctrl = q.mctrl /\ p.hidden = q.hidden /\ p.doing = q.doing
    BY <1>1, <1>21 DEF From, State
  <2> QED
    BY <1>10, <1>24, <2>1 DEF Under
<1>27. PICK g : g = [granted |-> "UPDATE"]
  OBVIOUS
<1>28. At(c, "granted")' /\ Next1(c)' = g /\ Left(c)' = t
  <2>1. todo'[c] = <<g>> \o t
    BY <1>27, <1>16, <1>12, <1>17
  <2>2. <<g>> \o t # <<>> /\ Head(<<g>> \o t) = g /\ Tail(<<g>> \o t) = t
    BY <1>1, Ends2 DEF From
  <2>3. "granted" \in DOMAIN g
    BY <1>27
  <2>4. At(c, "granted")' /\ Next1(c)' = g
    BY <2>1, <2>2, <2>3 DEF At, Next1
  <2> QED
    BY <2>1, <2>2, <2>4 DEF Left
<1>29. Stands(c, r)'
  <2>1. DOMAIN g = {"granted"} /\ g.granted = "UPDATE"
    BY <1>27
  <2>2. q.hidden = 0 \/ q.doing = "redraw"
    BY <1>20 DEF MayBegin
  <2>3. "UPDATE" = "MCTRL" => q.mctrl = 0 \/ q.doing \in Foremost
    BY <1>10, <1>20 DEF MayBegin
  <2>4. Count(r, "UPDATE") = 1 /\ ("UPDATE" = "MCTRL" => r.update = 0 \/ r.doing \in Foremost)
    BY <1>26, <2>3 DEF Count
  <2> QED
    BY <1>26, <1>28, <2>1, <2>2, <2>4 DEF Stands, Locks
<1>30. \A l \in Locks : Holds(c, r, l)'
  <2>1. Holds(c, r, "UPDATE")'
    BY <1>10, <1>26, <1>27, <1>28 DEF Holds, Queue, Count
  <2>2. Holds(c, r, "MCTRL")'
    BY <1>11, <1>26 DEF Holds, Queue, Depth, Count
  <2> QED
    BY <2>1, <2>2 DEF Locks
<1>31. ClosedIn(S, {})
  BY <1>1 DEF From
<1>32. Follows(c, r, S)'
  BY <1>24, <1>25, <1>28, <1>29, <1>30, <1>31 DEF Follows
<1>33. Idle(c)'
  BY <1>1, <1>16, <1>12, <1>17 DEF Idle, From
<1> QED
  BY <1>18, <1>32, <1>33, OneKept

\* UPDATE is ended: an inner pair, or the outermost.
LEMMA ScreenIsEnded ==
  ASSUME Inv, NEW c \in Client, Ends(c), At(c, "end"), Next1(c).end = "UPDATE", Then(c, <<>>),
         IF updateDepth[c] = 1 THEN UPDATE!Leave(c) ELSE UPDATE!LeaveInner(c),
                 UNCHANGED <<mctrlDepth, mctrlLine>>
  PROVE  Inv'
<1>1. PICK s, t, S, q : From(c, "end", s, t, S, q)
  BY Going
<1>2. PICK d : d = updateDepth
  OBVIOUS
<1>3. PICK w : w = updateLine
  OBVIOUS
<1>4. PICK e : e = updateDepth'
  OBVIOUS
<1>5. PICK x : x = updateLine'
  OBVIOUS
<1>6. Sound(d, w) /\ d \in [Client -> Nat]
  BY <1>2, <1>3 DEF Inv, LocksSound, Sound
<1>7. d[c] = q.update /\ q.update > 0 /\ Reaches(t, Ended(q, "UPDATE"), S)
  <2>1. d[c] = Count(q, "UPDATE")
    BY <1>1, <1>2 DEF From, Free, Locks, Depth
  <2>2. Count(q, "UPDATE") > 0 /\ Reaches(t, Ended(q, "UPDATE"), S)
    BY <1>1 DEF From, May
  <2> QED
    BY <2>1, <2>2 DEF Count
<1>8. /\ Sound(e, x) /\ Elsewhere(c, d, w, e, x)
      /\ e[c] = d[c] - 1 /\ c \notin Names(x)
  <2>1. CASE d[c] = 1
    <3>1. IF w = <<>> THEN e = [d EXCEPT ![c] = 0] /\ x = w
          ELSE e = [d EXCEPT ![c] = 0, ![Head(w)] = 1] /\ x = Tail(w)
      BY <1>2, <1>3, <1>4, <1>5, <2>1 DEF UPDATE!Leave
    <3> QED
      BY <1>6, <2>1, <3>1, Leaves
  <2>2. CASE d[c] # 1
    <3>1. d[c] > 1 /\ e = [d EXCEPT ![c] = @ - 1] /\ x = w
      BY <1>2, <1>3, <1>4, <1>5, <2>2 DEF UPDATE!LeaveInner
    <3> QED
      BY <1>6, <3>1, Shrinks
  <2> QED
    BY <2>1, <2>2
<1>9. /\ Sound(updateDepth', updateLine') /\ Elsewhere(c, updateDepth, updateLine,
        updateDepth', updateLine')
       /\ updateDepth'[c] = q.update - 1 /\ c \notin Names(updateLine')
  BY <1>2, <1>3, <1>4, <1>5, <1>7, <1>8
<1>10. /\ Sound(mctrlDepth', mctrlLine') /\ Elsewhere(c, mctrlDepth, mctrlLine, mctrlDepth',
        mctrlLine')
       /\ mctrlDepth'[c] = q.mctrl /\ c \notin Names(mctrlLine')
  BY <1>1 DEF Inv, LocksSound, Elsewhere, From, Free, Locks, Queue, Depth, Count
<1>11. PICK vtodo : vtodo = t
  OBVIOUS
<1>12. Assigned(todo', todo, c, vtodo)
  BY <1>1, <1>11 DEF Assigned, Then, From
<1>13. IsFn(todo)
  BY DEF Inv, Functions
<1>14. Changed(todo', todo, c, vtodo)
  BY <1>12, <1>13, Except
<1>15. IsFn(todo') /\ todo'[c] = vtodo /\ \A b \in Client \ {c} : todo'[b] = todo[b]
  BY <1>14 DEF Changed
<1>16. /\ call' = call /\ asked' = asked /\ out' = out /\ got' = got /\ used' = used
       /\ hidden' = hidden /\ marked' = marked /\ lines' = lines /\ doing' = doing
       /\ form' = form
  BY DEF Ends, events, shown
<1>17. Apart(c)
  BY <1>15, <1>11, <1>16, <1>9, <1>10 DEF Apart, Functions, Others, Inv, LocksSound
<1>18. PICK p : p = Ended(q, "UPDATE")
  OBVIOUS
<1>19. Reaches(t, p, S)
  BY <1>7, <1>18
<1>20. p = [q EXCEPT !.update = @ - 1] /\ q.update - 1 \in Nat
  BY <1>1, <1>7, <1>18 DEF Ended, From, State
<1>21. p \in State
  BY <1>1, <1>20 DEF From, State
<1>22. Known(c, p)'
  BY <1>1, <1>15, <1>11, <1>16, <1>20 DEF From, Known, State
<1>23. Free(c, p)'
  <2>1. p.update = q.update - 1 /\ p.mctrl = q.mctrl
    BY <1>1, <1>20 DEF From, State
  <2> QED
    BY <1>9, <1>10, <2>1 DEF Free, Locks, Queue, Depth, Count
<1>24. call'[c] # "none" /\ ClosedIn(S, {}) /\ todo'[c] = t
  BY <1>1, <1>15, <1>11, <1>16 DEF From
<1> QED
  BY <1>17, <1>19, <1>21, <1>22, <1>23, <1>24, Goes

\* MCTRL is begun, and it is free or the application's own.
LEMMA MouseIsBegun ==
  ASSUME Inv, NEW c \in Client, Begins(c), At(c, "beg"), Next1(c).beg = "MCTRL",
         MCTRL!Enter(c) \/ MCTRL!EnterAgain(c), Then(c, <<>>), UNCHANGED <<updateDepth,
                 updateLine>>
  PROVE  Inv'
<1>1. PICK s, t, S, q : From(c, "beg", s, t, S, q)
  BY Going
<1>2. PICK d : d = mctrlDepth
  OBVIOUS
<1>3. PICK w : w = mctrlLine
  OBVIOUS
<1>4. PICK e : e = mctrlDepth'
  OBVIOUS
<1>5. Sound(d, w) /\ d \in [Client -> Nat]
  BY <1>2, <1>3 DEF Inv, LocksSound, Sound
<1>6. c \notin Names(w) /\ d[c] = q.mctrl
  BY <1>1, <1>2, <1>3 DEF From, Free, Locks, Queue, Depth, Count
<1>7. (\A a \in Client \ {c} : d[a] = 0) /\ e = [d EXCEPT ![c] = @ + 1] /\ mctrlLine' = w
  <2>1. CASE MCTRL!Enter(c)
    <3>1. \A a \in Client : d[a] = 0
      BY <1>2, <1>5, <2>1 DEF MCTRL!Enter, MCTRL!Inside
    <3>2. e = [d EXCEPT ![c] = 1] /\ mctrlLine' = w
      BY <1>2, <1>3, <1>4, <2>1 DEF MCTRL!Enter
    <3>3. d[c] = 0 /\ d[c] + 1 = 1
      BY <3>1
    <3>4. e = [d EXCEPT ![c] = @ + 1]
      BY <3>2, <3>3
    <3> QED
      BY <3>1, <3>2, <3>4
  <2>2. CASE MCTRL!EnterAgain(c)
    <3>1. d[c] > 0 /\ mctrlDepth' = [mctrlDepth EXCEPT ![c] = @ + 1] /\ mctrlLine' = mctrlLine
      BY <1>2, <2>2 DEF MCTRL!EnterAgain, MCTRL!Inside
    <3>2. \A a \in Client \ {c} : d[a] = 0
      BY <1>5, <3>1 DEF Sound
    <3> QED
      BY <1>2, <1>3, <1>4, <3>1, <3>2
  <2> QED
    BY <2>1, <2>2
<1>8. /\ Sound(e, w) /\ Elsewhere(c, d, w, e, w)
      /\ e[c] = d[c] + 1
  BY <1>5, <1>6, <1>7, Grows
<1>9. /\ Sound(mctrlDepth', mctrlLine') /\ Elsewhere(c, mctrlDepth, mctrlLine, mctrlDepth',
        mctrlLine')
       /\ mctrlDepth'[c] = q.mctrl + 1 /\ c \notin Names(mctrlLine')
  BY <1>2, <1>3, <1>4, <1>6, <1>7, <1>8
<1>10. /\ Sound(updateDepth', updateLine') /\ Elsewhere(c, updateDepth, updateLine,
        updateDepth', updateLine')
       /\ updateDepth'[c] = q.update /\ c \notin Names(updateLine')
  BY <1>1 DEF Inv, LocksSound, Elsewhere, From, Free, Locks, Queue, Depth, Count
<1>11. PICK vtodo : vtodo = t
  OBVIOUS
<1>12. Assigned(todo', todo, c, vtodo)
  BY <1>1, <1>11 DEF Assigned, Then, From
<1>13. IsFn(todo)
  BY DEF Inv, Functions
<1>14. Changed(todo', todo, c, vtodo)
  BY <1>12, <1>13, Except
<1>15. IsFn(todo') /\ todo'[c] = vtodo /\ \A b \in Client \ {c} : todo'[b] = todo[b]
  BY <1>14 DEF Changed
<1>16. /\ call' = call /\ asked' = asked /\ out' = out /\ got' = got /\ used' = used
       /\ hidden' = hidden /\ marked' = marked /\ lines' = lines /\ doing' = doing
       /\ form' = form
  BY DEF Begins, events, shown
<1>17. Apart(c)
  BY <1>15, <1>11, <1>16, <1>9, <1>10 DEF Apart, Functions, Others, Inv, LocksSound
<1>18. PICK p : p = Begun(q, "MCTRL")
  OBVIOUS
<1>19. Reaches(t, p, S)
  BY <1>1, <1>18 DEF From, May
<1>20. p = [q EXCEPT !.mctrl = @ + 1]
  BY <1>18 DEF Begun
<1>21. p \in State
  BY SMTT(40), <1>1, <1>20 DEF From, State
<1>22. Known(c, p)'
  BY <1>1, <1>15, <1>11, <1>16, <1>20 DEF From, Known, State
<1>23. Free(c, p)'
  <2>1. p.mctrl = q.mctrl + 1 /\ p.update = q.update
    BY <1>1, <1>20 DEF From, State
  <2> QED
    BY <1>9, <1>10, <2>1 DEF Free, Locks, Queue, Depth, Count
<1>24. call'[c] # "none" /\ ClosedIn(S, {}) /\ todo'[c] = t
  BY <1>1, <1>15, <1>11, <1>16 DEF From
<1> QED
  BY <1>17, <1>19, <1>21, <1>22, <1>23, <1>24, Goes

\* MCTRL is begun, and another application has it.
LEMMA MouseIsAwaited ==
  ASSUME Inv, NEW c \in Client, Begins(c), At(c, "beg"), Next1(c).beg = "MCTRL",
         MCTRL!StandInLine(c), Then(c, <<[granted |-> "MCTRL"]>>), UNCHANGED <<updateDepth,
                 updateLine>>
  PROVE  Inv'
<1>1. PICK s, t, S, q : From(c, "beg", s, t, S, q)
  BY Going
<1>2. PICK d : d = mctrlDepth
  OBVIOUS
<1>3. PICK w : w = mctrlLine
  OBVIOUS
<1>4. PICK x : x = mctrlLine'
  OBVIOUS
<1>5. Sound(d, w) /\ d \in [Client -> Nat]
  BY <1>2, <1>3 DEF Inv, LocksSound, Sound
<1>6. c \notin Names(w) /\ d[c] = q.mctrl
  BY <1>1, <1>2, <1>3 DEF From, Free, Locks, Queue, Depth, Count
<1>7. PICK a \in Client \ {c} : d[a] > 0
  BY <1>2 DEF MCTRL!StandInLine, MCTRL!Inside
<1>8. x = Append(w, c) /\ mctrlDepth' = d
  BY <1>2, <1>3, <1>4 DEF MCTRL!StandInLine
<1>9. Sound(d, x) /\ Elsewhere(c, d, w, d, x) /\ c \in Names(x) /\ d[c] = 0
  BY <1>5, <1>6, <1>7, <1>8, Queues
<1>10. /\ Sound(mctrlDepth', mctrlLine') /\ Elsewhere(c, mctrlDepth, mctrlLine, mctrlDepth',
        mctrlLine')
       /\ q.mctrl = 0 /\ c \in Names(mctrlLine')
  BY <1>2, <1>3, <1>4, <1>6, <1>8, <1>9
<1>11. /\ Sound(updateDepth', updateLine') /\ Elsewhere(c, updateDepth, updateLine,
        updateDepth', updateLine')
       /\ updateDepth'[c] = q.update /\ c \notin Names(updateLine')
  BY <1>1 DEF Inv, LocksSound, Elsewhere, From, Free, Locks, Queue, Depth, Count
<1>12. PICK vtodo : vtodo = <<[granted |-> "MCTRL"]>> \o t
  OBVIOUS
<1>13. Assigned(todo', todo, c, vtodo)
  BY <1>1, <1>12 DEF Assigned, Then, From
<1>14. IsFn(todo)
  BY DEF Inv, Functions
<1>15. Changed(todo', todo, c, vtodo)
  BY <1>13, <1>14, Except
<1>16. IsFn(todo') /\ todo'[c] = vtodo /\ \A b \in Client \ {c} : todo'[b] = todo[b]
  BY <1>15 DEF Changed
<1>17. /\ call' = call /\ asked' = asked /\ out' = out /\ got' = got /\ used' = used
       /\ hidden' = hidden /\ marked' = marked /\ lines' = lines /\ doing' = doing
       /\ form' = form
  BY DEF Begins, events, shown
<1>18. Apart(c)
  BY <1>16, <1>12, <1>17, <1>10, <1>11 DEF Apart, Functions, Others, Inv, LocksSound
<1>19. PICK p : p = Begun(q, "MCTRL")
  OBVIOUS
<1>20. Reaches(t, p, S) /\ MayBegin(q, "MCTRL")
  BY <1>1, <1>19 DEF From, May
<1>21. p = [q EXCEPT !.mctrl = @ + 1]
  BY <1>19 DEF Begun
<1>22. p \in State
  BY SMTT(30), <1>1, <1>21 DEF From, State
<1>23. Known(c, p)'
  BY <1>1, <1>16, <1>12, <1>17, <1>21 DEF From, Known, State
<1>24. PICK r \in State : Under(p, r) /\ <<t, r>> \in S
  BY <1>20 DEF Reaches
<1>25. Known(c, r)'
  BY <1>22, <1>23, <1>24, KnownUnder
<1>26. r.mctrl = 1 /\ r.update = q.update /\ r.hidden = q.hidden /\ r.doing = q.doing
  <2>1. p.mctrl = q.mctrl + 1 /\ p.update = q.update /\ p.hidden = q.hidden /\ p.doing = q.doing
    BY <1>1, <1>21 DEF From, State
  <2> QED
    BY <1>10, <1>24, <2>1 DEF Under
<1>27. PICK g : g = [granted |-> "MCTRL"]
  OBVIOUS
<1>28. At(c, "granted")' /\ Next1(c)' = g /\ Left(c)' = t
  <2>1. todo'[c] = <<g>> \o t
    BY <1>27, <1>16, <1>12, <1>17
  <2>2. <<g>> \o t # <<>> /\ Head(<<g>> \o t) = g /\ Tail(<<g>> \o t) = t
    BY <1>1, Ends2 DEF From
  <2>3. "granted" \in DOMAIN g
    BY <1>27
  <2>4. At(c, "granted")' /\ Next1(c)' = g
    BY <2>1, <2>2, <2>3 DEF At, Next1
  <2> QED
    BY <2>1, <2>2, <2>4 DEF Left
<1>29. Stands(c, r)'
  <2>1. DOMAIN g = {"granted"} /\ g.granted = "MCTRL"
    BY <1>27
  <2>2. q.hidden = 0 \/ q.doing = "redraw"
    BY <1>20 DEF MayBegin
  <2>3. "MCTRL" = "MCTRL" => q.update = 0 \/ q.doing \in Foremost
    BY <1>10, <1>20 DEF MayBegin
  <2>4. Count(r, "MCTRL") = 1 /\ ("MCTRL" = "MCTRL" => r.update = 0 \/ r.doing \in Foremost)
    BY <1>26, <2>3 DEF Count
  <2> QED
    BY <1>26, <1>28, <2>1, <2>2, <2>4 DEF Stands, Locks
<1>30. \A l \in Locks : Holds(c, r, l)'
  <2>1. Holds(c, r, "MCTRL")'
    BY <1>10, <1>26, <1>27, <1>28 DEF Holds, Queue, Count
  <2>2. Holds(c, r, "UPDATE")'
    BY <1>11, <1>26 DEF Holds, Queue, Depth, Count
  <2> QED
    BY <2>1, <2>2 DEF Locks
<1>31. ClosedIn(S, {})
  BY <1>1 DEF From
<1>32. Follows(c, r, S)'
  BY <1>24, <1>25, <1>28, <1>29, <1>30, <1>31 DEF Follows
<1>33. Idle(c)'
  BY <1>1, <1>16, <1>12, <1>17 DEF Idle, From
<1> QED
  BY <1>18, <1>32, <1>33, OneKept

\* MCTRL is ended: an inner pair, or the outermost.
LEMMA MouseIsEnded ==
  ASSUME Inv, NEW c \in Client, Ends(c), At(c, "end"), Next1(c).end = "MCTRL", Then(c, <<>>),
         IF mctrlDepth[c] = 1 THEN MCTRL!Leave(c) ELSE MCTRL!LeaveInner(c),
                 UNCHANGED <<updateDepth, updateLine>>
  PROVE  Inv'
<1>1. PICK s, t, S, q : From(c, "end", s, t, S, q)
  BY Going
<1>2. PICK d : d = mctrlDepth
  OBVIOUS
<1>3. PICK w : w = mctrlLine
  OBVIOUS
<1>4. PICK e : e = mctrlDepth'
  OBVIOUS
<1>5. PICK x : x = mctrlLine'
  OBVIOUS
<1>6. Sound(d, w) /\ d \in [Client -> Nat]
  BY <1>2, <1>3 DEF Inv, LocksSound, Sound
<1>7. d[c] = q.mctrl /\ q.mctrl > 0 /\ Reaches(t, Ended(q, "MCTRL"), S)
  <2>1. d[c] = Count(q, "MCTRL")
    BY <1>1, <1>2 DEF From, Free, Locks, Depth
  <2>2. Count(q, "MCTRL") > 0 /\ Reaches(t, Ended(q, "MCTRL"), S)
    BY <1>1 DEF From, May
  <2> QED
    BY <2>1, <2>2 DEF Count
<1>8. /\ Sound(e, x) /\ Elsewhere(c, d, w, e, x)
      /\ e[c] = d[c] - 1 /\ c \notin Names(x)
  <2>1. CASE d[c] = 1
    <3>1. IF w = <<>> THEN e = [d EXCEPT ![c] = 0] /\ x = w
          ELSE e = [d EXCEPT ![c] = 0, ![Head(w)] = 1] /\ x = Tail(w)
      BY <1>2, <1>3, <1>4, <1>5, <2>1 DEF MCTRL!Leave
    <3> QED
      BY <1>6, <2>1, <3>1, Leaves
  <2>2. CASE d[c] # 1
    <3>1. d[c] > 1 /\ e = [d EXCEPT ![c] = @ - 1] /\ x = w
      BY <1>2, <1>3, <1>4, <1>5, <2>2 DEF MCTRL!LeaveInner
    <3> QED
      BY <1>6, <3>1, Shrinks
  <2> QED
    BY <2>1, <2>2
<1>9. /\ Sound(mctrlDepth', mctrlLine') /\ Elsewhere(c, mctrlDepth, mctrlLine, mctrlDepth',
        mctrlLine')
       /\ mctrlDepth'[c] = q.mctrl - 1 /\ c \notin Names(mctrlLine')
  BY <1>2, <1>3, <1>4, <1>5, <1>7, <1>8
<1>10. /\ Sound(updateDepth', updateLine') /\ Elsewhere(c, updateDepth, updateLine,
        updateDepth', updateLine')
       /\ updateDepth'[c] = q.update /\ c \notin Names(updateLine')
  BY <1>1 DEF Inv, LocksSound, Elsewhere, From, Free, Locks, Queue, Depth, Count
<1>11. PICK vtodo : vtodo = t
  OBVIOUS
<1>12. Assigned(todo', todo, c, vtodo)
  BY <1>1, <1>11 DEF Assigned, Then, From
<1>13. IsFn(todo)
  BY DEF Inv, Functions
<1>14. Changed(todo', todo, c, vtodo)
  BY <1>12, <1>13, Except
<1>15. IsFn(todo') /\ todo'[c] = vtodo /\ \A b \in Client \ {c} : todo'[b] = todo[b]
  BY <1>14 DEF Changed
<1>16. /\ call' = call /\ asked' = asked /\ out' = out /\ got' = got /\ used' = used
       /\ hidden' = hidden /\ marked' = marked /\ lines' = lines /\ doing' = doing
       /\ form' = form
  BY DEF Ends, events, shown
<1>17. Apart(c)
  BY <1>15, <1>11, <1>16, <1>9, <1>10 DEF Apart, Functions, Others, Inv, LocksSound
<1>18. PICK p : p = Ended(q, "MCTRL")
  OBVIOUS
<1>19. Reaches(t, p, S)
  BY <1>7, <1>18
<1>20. p = [q EXCEPT !.mctrl = @ - 1] /\ q.mctrl - 1 \in Nat
  BY <1>1, <1>7, <1>18 DEF Ended, From, State
<1>21. p \in State
  BY <1>1, <1>20 DEF From, State
<1>22. Known(c, p)'
  BY <1>1, <1>15, <1>11, <1>16, <1>20 DEF From, Known, State
<1>23. Free(c, p)'
  <2>1. p.mctrl = q.mctrl - 1 /\ p.update = q.update
    BY <1>1, <1>20 DEF From, State
  <2> QED
    BY <1>9, <1>10, <2>1 DEF Free, Locks, Queue, Depth, Count
<1>24. call'[c] # "none" /\ ClosedIn(S, {}) /\ todo'[c] = t
  BY <1>1, <1>15, <1>11, <1>16 DEF From
<1> QED
  BY <1>17, <1>19, <1>21, <1>22, <1>23, <1>24, Goes

\* A lock that was waited for is there.
LEMMA GrantedIsKept ==
  ASSUME Inv, NEW c \in Client, Granted(c)
  PROVE  Inv'
<1>1. At(c, "granted") /\ call[c] # "none"
  BY DEF Inv, Idle, At, Granted
<1>2. PICK S : \E q \in State : Follows(c, q, S)
  BY DEF Inv
<1>3. PICK q \in State : Follows(c, q, S)
  BY <1>2
<1>4. PICK t : t = Tail(todo[c])
  OBVIOUS
<1>5. <<t, q>> \in S /\ ClosedIn(S, {}) /\ IsSteps(t)
  BY <1>1, <1>3, <1>4 DEF Follows, Left, ClosedIn
<1>6. <<>> \o t = t /\ t = Tail(todo[c])
  BY <1>4, <1>5, Ends2
<1>7. PICK m : m = Next1(c).granted
  OBVIOUS
<1>8. m \in Locks /\ c \in Inside(m) /\ Count(q, m) = 1
  BY <1>1, <1>3, <1>7 DEF Follows, Stands, Granted
<1>9. c \notin Names(Queue(m))
  <2>1. CASE m = "UPDATE"
    <3>1. updateDepth[c] > 0 /\ Sound(updateDepth, updateLine)
      BY <1>8, <2>1 DEF Inside, UPDATE!Inside, Inv, LocksSound
    <3> QED
      BY <2>1, <3>1 DEF Sound, Names, Queue
  <2>2. CASE m = "MCTRL"
    <3>1. mctrlDepth[c] > 0 /\ Sound(mctrlDepth, mctrlLine)
      BY <1>8, <2>2 DEF Inside, MCTRL!Inside, Inv, LocksSound
    <3> QED
      BY <2>2, <3>1 DEF Sound, Names, Queue
  <2> QED
    BY <1>8, <2>1, <2>2 DEF Locks
<1>10. Known(c, q) /\ Free(c, q)
  <2>1. ASSUME NEW l \in Locks
        PROVE  c \notin Names(Queue(l)) /\ Depth(l)[c] = Count(q, l)
    <3>1. Holds(c, q, l)
      BY <1>3 DEF Follows
    <3>2. c \notin Names(Queue(l))
      BY <1>7, <1>9, <3>1 DEF Holds
    <3> QED
      BY <3>1, <3>2 DEF Holds
  <2> QED
    BY <1>3, <2>1 DEF Follows, Free
<1>11. PICK vtodo : vtodo = t
  OBVIOUS
<1>12. Assigned(todo', todo, c, vtodo)
  BY <1>6, <1>11 DEF Assigned, Granted, Then
<1>13. IsFn(todo)
  BY DEF Inv, Functions
<1>14. Changed(todo', todo, c, vtodo)
  BY <1>12, <1>13, Except
<1>15. IsFn(todo') /\ todo'[c] = vtodo /\ \A b \in Client \ {c} : todo'[b] = todo[b]
  BY <1>14 DEF Changed
<1>16. /\ call' = call /\ asked' = asked /\ out' = out /\ got' = got /\ used' = used
       /\ hidden' = hidden /\ marked' = marked /\ lines' = lines /\ doing' = doing
       /\ form' = form
  BY DEF Granted, events, shown
<1>17. UNCHANGED locks
  BY DEF Granted
<1>18. Apart(c)
  BY <1>15, <1>11, <1>16, <1>17, LocksStay DEF Apart, Functions, Others, Inv
<1>19. Reaches(t, q, S)
  BY <1>5, UnderSelf DEF Reaches
<1>20. Known(c, q)'
  BY <1>10, <1>15, <1>11, <1>16 DEF Known
<1>21. Free(c, q)'
  BY <1>10, <1>17, LocksStay
<1>22. call'[c] # "none" /\ ClosedIn(S, {}) /\ todo'[c] = t
  BY <1>1, <1>5, <1>15, <1>11, <1>16
<1> QED
  BY <1>18, <1>19, <1>20, <1>21, <1>22, Goes

-----------------------------------------------------------------------------
(* Calls, answers and the end of a call. *)

\* An application that has no steps left.
LEMMA Resting ==
  ASSUME Inv, NEW c \in Client, todo[c] = <<>>
  PROVE  \E q \in State : Home(q) /\ Known(c, q) /\ Free(c, q)
<1>1. PICK S : \E q \in State : Follows(c, q, S)
  BY DEF Inv
<1>2. PICK q \in State : Follows(c, q, S)
  BY <1>1
<1>3. ~At(c, "granted")
  BY DEF At
<1>4. <<todo[c], q>> \in S /\ ClosedIn(S, {})
  BY <1>2, <1>3 DEF Follows, Left
<1>5. May(todo[c], q, S \cup {})
  BY <1>4 DEF ClosedIn
<1>6. Home(q)
  BY <1>5 DEF May
<1>7. Known(c, q) /\ Free(c, q)
  BY <1>2, <1>3 DEF Follows, Free, Holds
<1> QED
  BY <1>6, <1>7

\* Nothing is left to do, or to ask for events again.
LEMMA Ending ==
  ASSUME NEW q \in State, Home(q)
  PROVE  /\ ClosedIn({<<<<>>, q>>}, {}) /\ Reaches(<<>>, q, {<<<<>>, q>>})
         /\ q.free => \E S : /\ ClosedIn(S, {}) /\ Reaches(<<Multi>>, q, S)
                             /\ Reaches(<<>>, q, S)
<1>1. PICK X : X = {<<<<>>, q>>}
  OBVIOUS
<1>2. IsSteps(<<>>) /\ \A S : May(<<>>, q, S)
  BY Steps DEF May
<1>3. ClosedIn(X, {})
  BY <1>1, <1>2 DEF ClosedIn
<1>4. Reaches(<<>>, q, X)
  BY <1>1, UnderSelf DEF Reaches
<1>5. ASSUME q.free
      PROVE  \E S : ClosedIn(S, {}) /\ Reaches(<<Multi>>, q, S) /\ Reaches(<<>>, q, S)
  <2>1. PICK m : m = <<Multi>>
    OBVIOUS
  <2>2. PICK S : S = {<<<<>>, q>>, <<m, q>>}
    OBVIOUS
  <2>3. DOMAIN Multi = {"multi"}
    BY DEF Multi
  <2>4. IsSteps(m) /\ m # <<>> /\ Head(m) = Multi /\ Tail(m) = <<>>
    <3>1. <<Multi>> \o <<>> = <<Multi>>
      BY Steps, Ends2
    <3> QED
      BY <2>1, <3>1, Steps, Ends2
  <2>5. \A Y : May(m, q, Y)
    BY <1>5, <2>3, <2>4 DEF May
  <2>6. ClosedIn(S, {})
    BY <1>2, <2>2, <2>4, <2>5 DEF ClosedIn
  <2>7. Reaches(m, q, S) /\ Reaches(<<>>, q, S)
    BY <2>2, UnderSelf DEF Reaches
  <2> QED
    BY <2>1, <2>6, <2>7
<1> QED
  BY <1>1, <1>3, <1>4, <1>5

\* The application asks for events.
LEMMA EventsAreAsked ==
  ASSUME Inv, NEW c \in Client, NEW E \in Asks[c], CallEvents(c, E)
  PROVE  Inv'
<1>1. call[c] = "none" /\ todo[c] = <<>> /\ out[c] = {} /\ used[c] = 0
  BY DEF CallEvents, Inv, Idle
<1>2. PICK q \in State : Home(q) /\ Known(c, q) /\ Free(c, q)
  BY <1>1, Resting
<1>3. E \subseteq Event /\ ChangesForm(c)
  BY DEF Event, ChangesForm
<1>4. PICK vcall : vcall = "Evnt_multi"
  OBVIOUS
<1>5. Assigned(call', call, c, vcall)
  BY <1>4 DEF Assigned, CallEvents
<1>6. IsFn(call)
  BY DEF Inv, Functions
<1>7. Changed(call', call, c, vcall)
  BY <1>5, <1>6, Except
<1>8. IsFn(call') /\ call'[c] = vcall /\ \A b \in Client \ {c} : call'[b] = call[b]
  BY <1>7 DEF Changed
<1>9. PICK vasked : vasked = E
  OBVIOUS
<1>10. Assigned(asked', asked, c, vasked)
  BY <1>9 DEF Assigned, CallEvents
<1>11. IsFn(asked)
  BY DEF Inv, Functions
<1>12. Changed(asked', asked, c, vasked)
  BY <1>10, <1>11, Except
<1>13. IsFn(asked') /\ asked'[c] = vasked /\ \A b \in Client \ {c} : asked'[b] = asked[b]
  BY <1>12 DEF Changed
<1>14. PICK vtodo : vtodo = <<Multi>>
  OBVIOUS
<1>15. Assigned(todo', todo, c, vtodo)
  BY <1>14 DEF Assigned, CallEvents
<1>16. IsFn(todo)
  BY DEF Inv, Functions
<1>17. Changed(todo', todo, c, vtodo)
  BY <1>15, <1>16, Except
<1>18. IsFn(todo') /\ todo'[c] = vtodo /\ \A b \in Client \ {c} : todo'[b] = todo[b]
  BY <1>17 DEF Changed
<1>19. /\ out' = out /\ got' = got /\ used' = used /\ hidden' = hidden
       /\ marked' = marked /\ lines' = lines /\ doing' = doing /\ form' = form
  BY DEF CallEvents, events, shown
<1>20. UNCHANGED locks
  BY DEF CallEvents
<1>21. Apart(c)
  BY <1>8, <1>4, <1>13, <1>9, <1>18, <1>14, <1>19, <1>20, LocksStay DEF Apart, Functions,
          Others, Inv
<1>22. PICK p : p = [q EXCEPT !.asked = E, !.clicks = 0, !.pressed = "maybe"]
  OBVIOUS
<1>23. p \in State
  BY <1>3, <1>22 DEF State
<1>24. /\ p.asked = E /\ p.clicks = 0 /\ p.pressed = "maybe" /\ p.doing = q.doing
       /\ p.hidden = q.hidden /\ p.lines = q.lines /\ p.marks = q.marks /\ p.form = q.form
       /\ p.free = q.free /\ p.update = q.update /\ p.mctrl = q.mctrl
  BY <1>22 DEF State
<1>25. Home(p) /\ p.free
  BY <1>2, <1>3, <1>24 DEF Home, Known
<1>26. PICK S : ClosedIn(S, {}) /\ Reaches(<<Multi>>, p, S)
  BY <1>23, <1>25, Ending
<1>27. Known(c, p)'
  BY <1>1, <1>2, <1>8, <1>4, <1>13, <1>9, <1>18, <1>14, <1>19, <1>24 DEF Known
<1>28. Free(c, p)'
  <2>1. Free(c, p)
    BY <1>2, <1>24 DEF Free, Count
  <2> QED
    BY <1>20, <2>1, LocksStay
<1>29. call'[c] # "none" /\ todo'[c] = <<Multi>>
  BY <1>8, <1>4, <1>13, <1>9, <1>18, <1>14, <1>19
<1> QED
  BY <1>21, <1>23, <1>26, <1>27, <1>28, <1>29, Goes

\* The application calls another function.
LEMMA OtherIsCalled ==
  ASSUME Inv, NEW c \in Client, NEW f \in Calls[c], CallOther(c, f)
  PROVE  Inv'
<1>1. call[c] = "none" /\ todo[c] = <<>> /\ out[c] = {} /\ used[c] = 0
  BY DEF CallOther, Inv, Idle
<1>2. PICK q \in State : Home(q) /\ Known(c, q) /\ Free(c, q)
  BY <1>1, Resting
<1>3. f \in DOMAIN Routine /\ f # "none"
  <2>1. f \in DOMAIN Routine
    BY CallsAssumption
  <2>2. "none" \notin DOMAIN Routine
    BY DEF Routine
  <2> QED
    BY <2>1, <2>2
<1>4. f = "Fsel_input" => ChangesForm(c)
  BY DEF ChangesForm
<1>5. PICK vcall : vcall = f
  OBVIOUS
<1>6. Assigned(call', call, c, vcall)
  BY <1>5 DEF Assigned, CallOther
<1>7. IsFn(call)
  BY DEF Inv, Functions
<1>8. Changed(call', call, c, vcall)
  BY <1>6, <1>7, Except
<1>9. IsFn(call') /\ call'[c] = vcall /\ \A b \in Client \ {c} : call'[b] = call[b]
  BY <1>8 DEF Changed
<1>10. PICK vtodo : vtodo = Routine[f]
  OBVIOUS
<1>11. Assigned(todo', todo, c, vtodo)
  BY <1>10 DEF Assigned, CallOther
<1>12. IsFn(todo)
  BY DEF Inv, Functions
<1>13. Changed(todo', todo, c, vtodo)
  BY <1>11, <1>12, Except
<1>14. IsFn(todo') /\ todo'[c] = vtodo /\ \A b \in Client \ {c} : todo'[b] = todo[b]
  BY <1>13 DEF Changed
<1>15. /\ asked' = asked /\ out' = out /\ got' = got /\ used' = used
       /\ hidden' = hidden /\ marked' = marked /\ lines' = lines /\ doing' = doing
       /\ form' = form
  BY DEF CallOther, events, shown
<1>16. UNCHANGED locks
  BY DEF CallOther
<1>17. Apart(c)
  BY <1>9, <1>5, <1>14, <1>10, <1>15, <1>16, LocksStay DEF Apart, Functions, Others, Inv
<1>18. PICK p : p = [q EXCEPT !.marks = {"own"}, !.clicks = 0, !.pressed = "maybe"]
  OBVIOUS
<1>19. p \in State
  BY <1>18 DEF State, Thing
<1>20. /\ p.asked = q.asked /\ p.clicks = 0 /\ p.pressed = "maybe" /\ p.doing = q.doing
       /\ p.hidden = q.hidden /\ p.lines = q.lines /\ p.marks = {"own"} /\ p.form = q.form
       /\ p.free = q.free /\ p.update = q.update /\ p.mctrl = q.mctrl
  BY <1>18 DEF State
<1>21. Home(p) /\ (f = "Fsel_input" => p.free)
  BY <1>2, <1>4, <1>20 DEF Home, Known
<1>22. p \in Calm /\ p.update = 0 /\ p.doing = "other" /\ p.form = "own" /\ "own" \in p.marks
  BY <1>19, <1>20, <1>21 DEF Home, Calm
<1>23. Does(Routine[f], p, p)
  BY <1>3, <1>21, <1>22, RoutineKeeps
<1>24. IsSteps(<<>>) /\ May(<<>>, p, {}) /\ Routine[f] \o <<>> = Routine[f]
  BY <1>21, <1>23, Steps, Ends2 DEF May, Does
<1>25. PICK S : ClosedIn(S, {}) /\ Reaches(Routine[f] \o <<>>, p, S)
  BY <1>23, <1>24, Complete
<1>26. PICK t : t = Routine[f]
  OBVIOUS
<1>27. Reaches(t, p, S)
  BY <1>24, <1>25, <1>26
<1>28. Known(c, p)'
  BY <1>1, <1>2, <1>9, <1>5, <1>14, <1>10, <1>15, <1>20 DEF Known, Home
<1>29. Free(c, p)'
  <2>1. Free(c, p)
    BY <1>2, <1>20 DEF Free, Count
  <2> QED
    BY <1>16, <2>1, LocksStay
<1>30. call'[c] # "none" /\ todo'[c] = t
  BY <1>3, <1>9, <1>5, <1>14, <1>10, <1>15, <1>26
<1> QED
  BY <1>17, <1>19, <1>25, <1>27, <1>28, <1>29, <1>30, Goes

\* A call returns.
LEMMA CallReturns ==
  ASSUME Inv, NEW c \in Client, Return(c)
  PROVE  Inv'
<1>1. todo[c] = <<>>
  BY DEF Return
<1>2. PICK q \in State : Home(q) /\ Known(c, q) /\ Free(c, q)
  BY <1>1, Resting
<1>3. PICK vcall : vcall = "none"
  OBVIOUS
<1>4. Assigned(call', call, c, vcall)
  BY <1>3 DEF Assigned, Return
<1>5. IsFn(call)
  BY DEF Inv, Functions
<1>6. Changed(call', call, c, vcall)
  BY <1>4, <1>5, Except
<1>7. IsFn(call') /\ call'[c] = vcall /\ \A b \in Client \ {c} : call'[b] = call[b]
  BY <1>6 DEF Changed
<1>8. PICK vasked : vasked = {}
  OBVIOUS
<1>9. Assigned(asked', asked, c, vasked)
  BY <1>8 DEF Assigned, Return
<1>10. IsFn(asked)
  BY DEF Inv, Functions
<1>11. Changed(asked', asked, c, vasked)
  BY <1>9, <1>10, Except
<1>12. IsFn(asked') /\ asked'[c] = vasked /\ \A b \in Client \ {c} : asked'[b] = asked[b]
  BY <1>11 DEF Changed
<1>13. PICK vout : vout = {}
  OBVIOUS
<1>14. Assigned(out', out, c, vout)
  BY <1>13 DEF Assigned, Return
<1>15. IsFn(out)
  BY DEF Inv, Functions
<1>16. Changed(out', out, c, vout)
  BY <1>14, <1>15, Except
<1>17. IsFn(out') /\ out'[c] = vout /\ \A b \in Client \ {c} : out'[b] = out[b]
  BY <1>16 DEF Changed
<1>18. PICK vused : vused = 0
  OBVIOUS
<1>19. Assigned(used', used, c, vused)
  BY <1>18 DEF Assigned, Return
<1>20. IsFn(used)
  BY DEF Inv, Functions
<1>21. Changed(used', used, c, vused)
  BY <1>19, <1>20, Except
<1>22. IsFn(used') /\ used'[c] = vused /\ \A b \in Client \ {c} : used'[b] = used[b]
  BY <1>21 DEF Changed
<1>23. PICK vgot : vgot = {}
  OBVIOUS
<1>24. Assigned(got', got, c, vgot)
  BY <1>23 DEF Assigned, Return
<1>25. IsFn(got)
  BY DEF Inv, Functions
<1>26. Changed(got', got, c, vgot)
  BY <1>24, <1>25, Except
<1>27. IsFn(got') /\ got'[c] = vgot /\ \A b \in Client \ {c} : got'[b] = got[b]
  BY <1>26 DEF Changed
<1>28. /\ todo' = todo /\ hidden' = hidden /\ marked' = marked /\ lines' = lines
       /\ doing' = doing /\ form' = form
  BY DEF Return, events, shown
<1>29. UNCHANGED locks
  BY DEF Return
<1>30. Apart(c)
  BY <1>7, <1>3, <1>12, <1>8, <1>17, <1>13, <1>22, <1>18, <1>27, <1>23, <1>28, <1>29,
          LocksStay DEF Apart, Functions, Others, Inv
<1>31. PICK p : p = [q EXCEPT !.asked = {}, !.clicks = 0, !.pressed = "maybe"]
  OBVIOUS
<1>32. p \in State
  BY <1>31 DEF State
<1>33. /\ p.asked = {} /\ p.clicks = 0 /\ p.pressed = "maybe" /\ p.doing = q.doing
       /\ p.hidden = q.hidden /\ p.lines = q.lines /\ p.marks = q.marks /\ p.form = q.form
       /\ p.free = q.free /\ p.update = q.update /\ p.mctrl = q.mctrl
  BY <1>31 DEF State
<1>34. Home(p)
  BY <1>2, <1>33 DEF Home
<1>35. PICK S : S = {<<<<>>, p>>}
  OBVIOUS
<1>36. ClosedIn(S, {}) /\ Reaches(<<>>, p, S)
  BY <1>32, <1>34, <1>35, Ending
<1>37. Known(c, p)'
  BY <1>2, <1>7, <1>3, <1>12, <1>8, <1>17, <1>13, <1>22, <1>18, <1>27, <1>23, <1>28,
          <1>33 DEF Known
<1>38. Free(c, p)'
  <2>1. Free(c, p)
    BY <1>2, <1>33 DEF Free, Count
  <2> QED
    BY <1>29, <2>1, LocksStay
<1>39. Idle(c)' /\ todo'[c] = <<>>
  BY <1>1, <1>7, <1>3, <1>12, <1>8, <1>17, <1>13, <1>22, <1>18, <1>27, <1>23, <1>28 DEF Idle
<1> QED
  BY <1>30, <1>32, <1>36, <1>37, <1>38, <1>39, Goes

\* Evnt_do_multi() returns, or asks again.
LEMMA AskedAgain ==
  ASSUME Inv, NEW c \in Client, Again(c)
  PROVE  Inv'
<1>1. At(c, "unless")
  BY DEF Again
<1>2. PICK s, t, R, q : From(c, "unless", s, t, R, q)
  BY <1>1, Going
<1>3. t = <<>> /\ Home(q) /\ q.free
  BY <1>2 DEF From, May
<1>4. PICK vtodo : vtodo = (IF out[c] = {} THEN <<Multi>> ELSE <<>>) \o t
  OBVIOUS
<1>5. Assigned(todo', todo, c, vtodo)
  BY <1>2, <1>4 DEF Assigned, Again, Then, From
<1>6. IsFn(todo)
  BY DEF Inv, Functions
<1>7. Changed(todo', todo, c, vtodo)
  BY <1>5, <1>6, Except
<1>8. IsFn(todo') /\ todo'[c] = vtodo /\ \A b \in Client \ {c} : todo'[b] = todo[b]
  BY <1>7 DEF Changed
<1>9. /\ call' = call /\ asked' = asked /\ out' = out /\ got' = got /\ used' = used
       /\ hidden' = hidden /\ marked' = marked /\ lines' = lines /\ doing' = doing
       /\ form' = form
  BY DEF Again, events, shown
<1>10. UNCHANGED locks
  BY DEF Again
<1>11. Apart(c)
  BY <1>8, <1>4, <1>9, <1>10, LocksStay DEF Apart, Functions, Others, Inv
<1>12. q \in State
  BY <1>2 DEF From
<1>13. PICK S : ClosedIn(S, {}) /\ Reaches(<<Multi>>, q, S) /\ Reaches(<<>>, q, S)
  BY <1>3, <1>12, Ending
<1>14. PICK u : u = (IF out[c] = {} THEN <<Multi>> ELSE <<>>) \o t
  OBVIOUS
<1>15. u \in {<<Multi>>, <<>>}
  <2>1. <<Multi>> \o <<>> = <<Multi>> /\ <<>> \o <<>> = <<>>
    BY Steps, Ends2
  <2> QED
    BY <1>3, <1>14, <2>1
<1>16. Reaches(u, q, S)
  BY <1>13, <1>15
<1>17. Known(c, q)'
  BY <1>2, <1>8, <1>4, <1>9 DEF From, Known
<1>18. Free(c, q)'
  BY <1>2, <1>10, LocksStay DEF From
<1>19. call'[c] # "none" /\ todo'[c] = u
  BY <1>2, <1>8, <1>4, <1>9, <1>14 DEF From
<1> QED
  BY <1>11, <1>12, <1>13, <1>16, <1>17, <1>18, <1>19, Goes

\* An answer of the server.
LEMMA EventsAreHandled ==
  ASSUME Inv, NEW c \in Client, HandlesEvents(c)
  PROVE  Inv'
<1>1. At(c, "multi")
  BY DEF HandlesEvents
<1>2. PICK s, t, X, q : From(c, "multi", s, t, X, q)
  BY <1>1, Going
<1>3. t = <<>> /\ Home(q) /\ q.free /\ q.asked = asked[c]
  BY <1>2 DEF From, May, Known
<1>4. PICK p : p = [q EXCEPT !.clicks = 1, !.pressed = "maybe"]
  OBVIOUS
<1>5. /\ p \in State /\ p.asked = q.asked /\ p.clicks = 1 /\ p.pressed = "maybe"
      /\ p.doing = q.doing /\ p.hidden = q.hidden /\ p.lines = q.lines /\ p.marks = q.marks
      /\ p.form = q.form /\ p.free = q.free /\ p.update = q.update /\ p.mctrl = q.mctrl
  BY <1>2, <1>4 DEF State, From
<1>6. PICK R \in SUBSET (asked[c] \cup {MENU, BUTTON}), m \in Message, o \in Places :
        todo' = [todo EXCEPT ![c] =
          (IF MENU \in R THEN Evhd_handle_menu ELSE <<>>)
          \o (IF MESAG \in R THEN Read(m) ELSE <<>>)
          \o (IF BUTTON \in R THEN Evhd_handle_button(o, asked[c]) ELSE <<>>)
          \o <<Report(R \ {MENU, MESAG, BUTTON}), [unless |-> Multi]>>]
  BY DEF HandlesEvents
<1>7. PICK u : u = (IF MENU \in R THEN Evhd_handle_menu ELSE <<>>)
                   \o (IF MESAG \in R THEN Read(m) ELSE <<>>)
                   \o (IF BUTTON \in R THEN Evhd_handle_button(o, asked[c]) ELSE <<>>)
                   \o <<Report(R \ {MENU, MESAG, BUTTON}), [unless |-> Multi]>>
  OBVIOUS
<1>8. Clicked(p) /\ ~p.lines /\ p.marks \subseteq {"own"}
  BY <1>3, <1>5 DEF Clicked, Calm, Home
<1>9. R \subseteq p.asked \cup {MENU, BUTTON} /\ o \in Target
  BY <1>3, <1>5, <1>6, PlacesAssumption
<1>10. PICK S : ClosedIn(S, {}) /\ Reaches(u, p, S)
  <2>1. asked[c] = p.asked
    BY <1>3, <1>5
  <2> QED
    BY <1>7, <1>8, <1>9, <2>1, AnswerDoes
<1>11. PICK vused : vused = 0
  OBVIOUS
<1>12. Assigned(used', used, c, vused)
  BY <1>11 DEF Assigned, HandlesEvents
<1>13. IsFn(used)
  BY DEF Inv, Functions
<1>14. Changed(used', used, c, vused)
  BY <1>12, <1>13, Except
<1>15. IsFn(used') /\ used'[c] = vused /\ \A b \in Client \ {c} : used'[b] = used[b]
  BY <1>14 DEF Changed
<1>16. PICK vtodo : vtodo = u
  OBVIOUS
<1>17. Assigned(todo', todo, c, vtodo)
  BY <1>6, <1>7, <1>16 DEF Assigned
<1>18. IsFn(todo)
  BY DEF Inv, Functions
<1>19. Changed(todo', todo, c, vtodo)
  BY <1>17, <1>18, Except
<1>20. IsFn(todo') /\ todo'[c] = vtodo /\ \A b \in Client \ {c} : todo'[b] = todo[b]
  BY <1>19 DEF Changed
<1>21. /\ call' = call /\ asked' = asked /\ out' = out /\ got' = got
       /\ hidden' = hidden /\ marked' = marked /\ lines' = lines /\ doing' = doing
       /\ form' = form
  BY DEF HandlesEvents, events, shown
<1>22. UNCHANGED locks
  BY DEF HandlesEvents
<1>23. Apart(c)
  BY <1>15, <1>11, <1>20, <1>16, <1>21, <1>22, LocksStay DEF Apart, Functions, Others, Inv
<1>24. Known(c, p)'
  BY <1>2, <1>15, <1>11, <1>20, <1>16, <1>21, <1>5 DEF From, Known
<1>25. Free(c, p)'
  <2>1. Free(c, p)
    BY <1>2, <1>5 DEF From, Free, Count
  <2> QED
    BY <1>22, <2>1, LocksStay
<1>26. call'[c] # "none" /\ todo'[c] = u
  BY <1>2, <1>15, <1>11, <1>20, <1>16, <1>21 DEF From
<1> QED
  BY <1>5, <1>10, <1>23, <1>24, <1>25, <1>26, Goes

-----------------------------------------------------------------------------
(* Every step. *)

\* Messages, tests, loops and reports, whatever is sent, tested and reported.
LEMMA TestsKept ==
  ASSUME Inv, NEW c \in Client, Tests(c) \/ Repeats(c) \/ Appl_do_write(c) \/ Reports(c)
  PROVE  Inv'
<1>1. CASE Tests(c)
  BY <1>1, TestHolds, TestFails
<1>2. CASE Repeats(c)
  BY <1>2, LoopIsLeft, LoopGoesOn
<1>3. CASE Appl_do_write(c)
  BY <1>3, MenuIsWritten, OtherIsWritten
<1>4. CASE Reports(c)
  BY <1>4, ClickIsReported, OtherIsReported
<1> QED
  BY <1>1, <1>2, <1>3, <1>4

\* What is drawn.
LEMMA DrawsKept ==
  ASSUME Inv, NEW c \in Client, Draws(c)
  PROVE  Inv'
<1>1. CASE At(c, "mark") /\ marked' = [marked EXCEPT ![c] = @ \cup {Next1(c).mark}]
           /\ UNCHANGED lines
  BY <1>1, MarkIsDrawn
<1>2. CASE At(c, "clear") /\ marked' = [marked EXCEPT ![c] = @ \ {Next1(c).clear}]
           /\ UNCHANGED lines
  BY <1>2, MarkIsCleared
<1>3. CASE At(c, "unselect") /\ marked' = [marked EXCEPT ![c] = @ \ {Next1(c).unselect}]
           /\ UNCHANGED lines
  BY <1>3, MarkIsTakenOff
<1>4. CASE At(c, "line") /\ lines' = [lines EXCEPT ![c] = ~@] /\ UNCHANGED marked
  BY <1>4, LineIsDrawn
<1> QED
  BY <1>1, <1>2, <1>3, <1>4 DEF Draws

\* The locks.
LEMMA LocksKept ==
  ASSUME Inv, NEW c \in Client, Begins(c) \/ Ends(c)
  PROVE  Inv'
<1>1. CASE Begins(c)
  <2>1. CASE At(c, "beg") /\ Next1(c).beg = "UPDATE" /\ UNCHANGED <<mctrlDepth, mctrlLine>>
             /\ (UPDATE!Enter(c) \/ UPDATE!EnterAgain(c)) /\ Then(c, <<>>)
    BY <1>1, <2>1, ScreenIsBegun
  <2>2. CASE At(c, "beg") /\ Next1(c).beg = "UPDATE" /\ UNCHANGED <<mctrlDepth, mctrlLine>>
             /\ UPDATE!StandInLine(c) /\ Then(c, <<[granted |-> "UPDATE"]>>)
    BY <1>1, <2>2, ScreenIsAwaited
  <2>3. CASE At(c, "beg") /\ Next1(c).beg = "MCTRL" /\ UNCHANGED <<updateDepth, updateLine>>
             /\ (MCTRL!Enter(c) \/ MCTRL!EnterAgain(c)) /\ Then(c, <<>>)
    BY <1>1, <2>3, MouseIsBegun
  <2>4. CASE At(c, "beg") /\ Next1(c).beg = "MCTRL" /\ UNCHANGED <<updateDepth, updateLine>>
             /\ MCTRL!StandInLine(c) /\ Then(c, <<[granted |-> "MCTRL"]>>)
    BY <1>1, <2>4, MouseIsAwaited
  <2> QED
    BY <1>1, <2>1, <2>2, <2>3, <2>4 DEF Begins
<1>2. CASE Ends(c)
  <2>1. CASE At(c, "end") /\ Next1(c).end = "UPDATE" /\ UNCHANGED <<mctrlDepth, mctrlLine>>
             /\ IF updateDepth[c] = 1 THEN UPDATE!Leave(c) ELSE UPDATE!LeaveInner(c)
    <3>1. Then(c, <<>>)
      BY <1>2 DEF Ends
    <3> QED
      BY <1>2, <2>1, <3>1, ScreenIsEnded
  <2>2. CASE At(c, "end") /\ Next1(c).end = "MCTRL" /\ UNCHANGED <<updateDepth, updateLine>>
             /\ IF mctrlDepth[c] = 1 THEN MCTRL!Leave(c) ELSE MCTRL!LeaveInner(c)
    <3>1. Then(c, <<>>)
      BY <1>2 DEF Ends
    <3> QED
      BY <1>2, <2>2, <3>1, MouseIsEnded
  <2> QED
    BY <1>2, <2>1, <2>2 DEF Ends
<1> QED
  BY <1>1, <1>2

\* Nothing happens.
LEMMA Stutters ==
  ASSUME Inv, UNCHANGED screenVars
  PROVE  Inv'
<1>1. /\ todo' = todo /\ call' = call /\ asked' = asked /\ out' = out /\ used' = used
      /\ got' = got /\ hidden' = hidden /\ marked' = marked /\ lines' = lines
      /\ doing' = doing /\ form' = form
      /\ updateDepth' = updateDepth /\ updateLine' = updateLine
      /\ mctrlDepth' = mctrlDepth /\ mctrlLine' = mctrlLine
  BY DEF screenVars, events, shown, locks
<1>2. Functions' /\ LocksSound'
  BY <1>1 DEF Inv, Functions, LocksSound
<1>3. ASSUME NEW c \in Client
      PROVE  Idle(c)' /\ \E S : \E q \in State : Follows(c, q, S)'
  <2>1. Idle(c)'
    BY <1>1 DEF Inv, Idle
  <2>2. PICK S : \E q \in State : Follows(c, q, S)
    BY DEF Inv
  <2>3. PICK q \in State : Follows(c, q, S)
    BY <2>2
  <2>4. At(c, "granted")' = At(c, "granted") /\ Next1(c)' = Next1(c) /\ Left(c)' = Left(c)
    BY <1>1 DEF At, Next1, Left
  <2>5. Known(c, q)' /\ Stands(c, q)'
    BY <1>1, <2>3, <2>4 DEF Follows, Known, Stands
  <2>6. \A l \in Locks : Holds(c, q, l)'
    BY <1>1, <2>3, <2>4 DEF Follows, Holds, Queue, Depth
  <2>7. Follows(c, q, S)'
    BY <2>3, <2>4, <2>5, <2>6 DEF Follows
  <2> QED
    BY <2>1, <2>7
<1> QED
  BY <1>2, <1>3 DEF Inv

\* The invariant holds at first.
LEMMA InitInv == ScreenInit => Inv
<1> SUFFICES ASSUME ScreenInit
             PROVE  Inv
  OBVIOUS
<1>1. Functions
  <2>1. /\ todo \in [Client -> {<<>>}] /\ call \in [Client -> {"none"}]
        /\ asked \in [Client -> {{}}] /\ out \in [Client -> {{}}] /\ got \in [Client -> {{}}]
        /\ used \in [Client -> {0}] /\ hidden \in [Client -> {0}]
        /\ marked \in [Client -> {{}}] /\ lines \in [Client -> {FALSE}]
        /\ doing \in [Client -> {"other"}]
    BY DEF ScreenInit
  <2>2. IsFn(todo) /\ IsFn(call) /\ IsFn(asked) /\ IsFn(out)
    BY <2>1 DEF IsFn
  <2>3. IsFn(got) /\ IsFn(used) /\ IsFn(hidden)
    BY <2>1 DEF IsFn
  <2>4. IsFn(marked) /\ IsFn(lines) /\ IsFn(doing)
    BY <2>1 DEF IsFn
  <2> QED
    BY <2>2, <2>3, <2>4 DEF Functions
<1>2. /\ updateDepth = [c \in Client |-> 0] /\ updateLine = <<>>
      /\ mctrlDepth = [c \in Client |-> 0] /\ mctrlLine = <<>>
  BY DEF ScreenInit, UPDATE!LockInit, MCTRL!LockInit
<1>3. LocksSound
  <2>1. Sound([c \in Client |-> 0], <<>>)
    BY DEF Sound
  <2> QED
    BY <1>2, <2>1 DEF LocksSound
<1>4. ASSUME NEW c \in Client
      PROVE  Idle(c) /\ \E S : \E q \in State : Follows(c, q, S)
  <2>1. /\ todo[c] = <<>> /\ asked[c] = {} /\ out[c] = {} /\ used[c] = 0 /\ hidden[c] = 0
        /\ marked[c] = {} /\ lines[c] = FALSE /\ doing[c] = "other" /\ form[1] = "ARROW"
    BY DEF ScreenInit
  <2>2. Idle(c) /\ ~At(c, "granted")
    BY <2>1 DEF Idle, At
  <2>3. PICK b \in BOOLEAN : b = ChangesForm(c)
    BY DEF ChangesForm
  <2>4. PICK q : q = [update |-> 0, mctrl |-> 0, doing |-> "other", hidden |-> 0,
                      lines |-> FALSE, marks |-> {}, clicks |-> 0, form |-> "own",
                      free |-> b, asked |-> {}, pressed |-> "maybe"]
    OBVIOUS
  <2>5. q \in State
    BY <2>4 DEF State, Errand
  <2>6. Home(q)
    BY <2>4 DEF Home
  <2>7. PICK S : S = {<<<<>>, q>>}
    OBVIOUS
  <2>8. ClosedIn(S, {})
    BY <2>5, <2>6, <2>7, Ending
  <2>9. Known(c, q)
    <3>1. /\ q.doing = "other" /\ q.hidden = 0 /\ q.lines = FALSE /\ q.marks = {}
          /\ q.clicks = 0 /\ q.form = "own" /\ q.free = b /\ q.asked = {}
          /\ q.pressed = "maybe"
      BY <2>4
    <3>2. lines[c] = q.lines
      BY <2>1, <3>1
    <3>3. q.free = ChangesForm(c)
      BY <2>3, <3>1
    <3> QED
      BY <2>1, <3>1, <3>2, <3>3 DEF Known
  <2>10. Stands(c, q) /\ <<Left(c), q>> \in S
    BY <2>1, <2>2, <2>7 DEF Stands, Left
  <2>11. \A l \in Locks : Holds(c, q, l)
    BY <1>2, <2>4 DEF Holds, Locks, Queue, Depth, Count, Names
  <2>12. Follows(c, q, S)
    BY <2>8, <2>9, <2>10, <2>11 DEF Follows
  <2> QED
    BY <2>2, <2>5, <2>12
<1> QED
  BY <1>1, <1>3, <1>4 DEF Inv

\* Every step keeps the invariant.
LEMMA NextInv == Inv /\ [ScreenNext]_screenVars => Inv'
<1> SUFFICES ASSUME Inv, [ScreenNext]_screenVars
             PROVE  Inv'
  OBVIOUS
<1>1. ASSUME NEW c \in Client, Step(c)
      PROVE  Inv'
  <2>1. CASE \E E \in Asks[c] : CallEvents(c, E)
    BY <2>1, EventsAreAsked
  <2>2. CASE \E f \in Calls[c] : CallOther(c, f)
    BY <2>2, OtherIsCalled
  <2>3. CASE Return(c)
    BY <2>3, CallReturns
  <2>4. CASE HandlesEvents(c)
    BY <2>4, EventsAreHandled
  <2>5. CASE Again(c)
    BY <2>5, AskedAgain
  <2>6. CASE Waits(c)
    BY <2>6, WaitsKept
  <2>7. CASE Notes(c)
    BY <2>7, NotesKept
  <2>8. CASE Branches(c)
    BY <2>8, BranchesKept
  <2>9. CASE Loops(c)
    BY <2>9, LoopsKept
  <2>10. CASE Tests(c) \/ Repeats(c) \/ Appl_do_write(c) \/ Reports(c)
    BY <2>10, TestsKept
  <2>11. CASE Graf_do_mouse(c)
    BY <2>11, MouseKept
  <2>12. CASE srv_graf_mouse(c)
    BY <2>12, FormIsSet
  <2>13. CASE Draws(c)
    BY <2>13, DrawsKept
  <2>14. CASE Enters(c)
    BY <2>14, EntersKept
  <2>15. CASE Granted(c)
    BY <2>15, GrantedIsKept
  <2>16. CASE Begins(c) \/ Ends(c)
    BY <2>16, LocksKept
  <2> QED
    BY <1>1, <2>1, <2>2, <2>3, <2>4, <2>5, <2>6, <2>7, <2>8, <2>9, <2>10, <2>11, <2>12, <2>13,
       <2>14, <2>15, <2>16 DEF Step
<1> QED
  BY <1>1, Stutters DEF ScreenNext

-----------------------------------------------------------------------------
(* What follows. *)

\* Wherever an application is, its state of the proof says what is so.
LEMMA Located ==
  ASSUME Inv, NEW c \in Client
  PROVE  \E q \in State : Known(c, q) /\ Stands(c, q) /\ \A l \in Locks : Holds(c, q, l)
<1>1. PICK S : \E q \in State : Follows(c, q, S)
  BY DEF Inv
<1> QED
  BY <1>1 DEF Follows

\* The application has the screen back when it is not in a call.
LEMMA InvGivesBack == Inv => GivenBack
<1> SUFFICES ASSUME Inv, NEW c \in Client, call[c] = "none"
             PROVE  /\ \A l \in {"UPDATE", "MCTRL"} : c \notin Inside(l) \union InLine(l)
                    /\ hidden[c] = 0 /\ ~lines[c] /\ marked[c] \subseteq {"own"}
                    /\ (\A d \in Client \ {c} : ~ChangesForm(d)) => form[1] = "ARROW"
  BY DEF GivenBack
<1>1. todo[c] = <<>>
  BY DEF Inv, Idle
<1>2. PICK q \in State : Home(q) /\ Known(c, q) /\ Free(c, q)
  BY <1>1, Resting
<1>3. updateDepth[c] = 0 /\ mctrlDepth[c] = 0 /\ c \notin Names(updateLine)
      /\ c \notin Names(mctrlLine)
  BY <1>2 DEF Free, Home, Locks, Queue, Depth, Count
<1>4. \A l \in {"UPDATE", "MCTRL"} : c \notin Inside(l) \union InLine(l)
  BY <1>3 DEF Inside, InLine, UPDATE!Inside, MCTRL!Inside, UPDATE!InLine, MCTRL!InLine, Names
<1>5. hidden[c] = 0 /\ ~lines[c] /\ marked[c] \subseteq {"own"}
  BY <1>2 DEF Known, Home
<1>6. (\A d \in Client \ {c} : ~ChangesForm(d)) => form[1] = "ARROW"
  BY <1>2 DEF Known, Home, Alone
<1> QED
  BY <1>4, <1>5, <1>6

\* The cursor is there when the application waits, and away when it draws.
LEMMA InvKeepsCursor == Inv => CursorIsKept
<1> SUFFICES ASSUME Inv, NEW c \in Client
             PROVE  /\ At(c, "wait") \/ At(c, "multi")
                         \/ (At(c, "granted") /\ doing[c] # "redraw")
                         => hidden[c] = 0
                    /\ At(c, "line")
                         \/ (At(c, "mark") /\ ~At(c, "bare") /\ Next1(c).mark # "cursor")
                         \/ (At(c, "clear") /\ Next1(c).clear # "cursor")
                         => hidden[c] > 0
  BY DEF CursorIsKept
<1>1. ASSUME At(c, "granted"), doing[c] # "redraw"
      PROVE  hidden[c] = 0
  <2>1. PICK q \in State : Known(c, q) /\ Stands(c, q)
    BY Located
  <2> QED
    BY <1>1, <2>1 DEF Known, Stands
<1>2. ASSUME At(c, "wait") \/ At(c, "multi")
      PROVE  hidden[c] = 0
  <2>1. CASE At(c, "wait")
    <3>1. PICK s, t, S, q : From(c, "wait", s, t, S, q)
      BY <2>1, Going
    <3> QED
      BY <3>1 DEF From, May, Known
  <2>2. CASE At(c, "multi")
    <3>1. PICK s, t, S, q : From(c, "multi", s, t, S, q)
      BY <2>2, Going
    <3> QED
      BY <3>1 DEF From, May, Known, Home
  <2> QED
    BY <1>2, <2>1, <2>2
<1>3. ASSUME At(c, "line")
      PROVE  hidden[c] > 0
  <2>1. PICK s, t, S, q : From(c, "line", s, t, S, q)
    BY <1>3, Going
  <2> QED
    BY <2>1 DEF From, May, Known
<1>4. ASSUME At(c, "mark"), ~At(c, "bare"), Next1(c).mark # "cursor"
      PROVE  hidden[c] > 0
  <2>1. PICK s, t, S, q : From(c, "mark", s, t, S, q)
    BY <1>4, Going
  <2> QED
    BY <1>4, <2>1 DEF From, May, Known, At, Next1
<1>5. ASSUME At(c, "clear"), Next1(c).clear # "cursor"
      PROVE  hidden[c] > 0
  <2>1. PICK s, t, S, q : From(c, "clear", s, t, S, q)
    BY <1>5, Going
  <2> QED
    BY <1>5, <2>1 DEF From, May, Known
<1> QED
  BY <1>1, <1>2, <1>3, <1>4, <1>5

\* Who waits for MCTRL inside UPDATE drags a slider, or is in an UPDATE of its own.
LEMMA InvOrdersLocks == Inv => LocksAreOrdered
<1> SUFFICES ASSUME Inv, NEW b \in Client, b \in Inside("UPDATE"), b \in InLine("MCTRL")
             PROVE  doing[b] \in {"slider", "application"}
  BY DEF LocksAreOrdered
<1>1. PICK q \in State : Known(b, q) /\ Stands(b, q) /\ \A l \in Locks : Holds(b, q, l)
  BY Located
<1>2. b \in Names(mctrlLine) /\ updateDepth[b] > 0
  BY DEF Inside, InLine, UPDATE!Inside, MCTRL!InLine, Names
<1>3. At(b, "granted") /\ Next1(b).granted = "MCTRL"
  BY <1>1, <1>2 DEF Holds, Locks, Queue
<1>4. updateDepth[b] = q.update
  <2>1. Holds(b, q, "UPDATE")
    BY <1>1 DEF Locks
  <2> QED
    BY <1>3, <2>1 DEF Holds, Queue, Depth, Count
<1>5. q.update = 0 \/ q.doing \in Foremost
  BY <1>1, <1>3 DEF Stands
<1> QED
  BY <1>1, <1>2, <1>4, <1>5 DEF Known, State, Foremost

\* Clicks are used once.
LEMMA InvUsesClicksOnce == Inv => ClicksAreUsedOnce
<1> SUFFICES ASSUME Inv, NEW c \in Client
             PROVE  out[c] \subseteq asked[c] /\ used[c] <= 1
  BY DEF ClicksAreUsedOnce
<1>1. PICK q \in State : Known(c, q)
  BY Located
<1> QED
  BY <1>1 DEF Known, State

-----------------------------------------------------------------------------
\* The library gives the screen back: after every call no lock of it is held or
\* waited for, the cursor shows, nothing that was drawn is left, and the form of
\* the mouse is the application's, if no other application changes it.
THEOREM ScreenIsGivenBack == ScreenSpec => []GivenBack
<1>1. Inv => GivenBack
  BY InvGivesBack
<1> QED
  BY <1>1, InitInv, NextInv, PTL DEF ScreenSpec

\* evnt_multi(), the dragged boxes, the menus and the dialogs wait with the cursor
\* shown and draw with the cursor hidden, but for the text cursor, the file list
\* that is scrolled, and the buttons that form.c draws on workstation "apid".
THEOREM CursorIsRight == ScreenSpec => []CursorIsKept
<1>1. Inv => CursorIsKept
  BY InvKeepsCursor
<1> QED
  BY <1>1, InitInv, NextInv, PTL DEF ScreenSpec

\* Two applications can wait for each other's lock only if one of them drags the
\* slider of a window or has begun an UPDATE of its own: everything else begins
\* MCTRL before UPDATE.
THEOREM LocksAreTakenInOrder == ScreenSpec => []LocksAreOrdered
<1>1. Inv => LocksAreOrdered
  BY InvOrdersLocks
<1> QED
  BY <1>1, InitInv, NextInv, PTL DEF ScreenSpec

\* Evnt_do_multi() reports only what was asked for, and a click leads to one
\* message or one event.
THEOREM ClicksLeadToOneThing == ScreenSpec => []ClicksAreUsedOnce
<1>1. Inv => ClicksAreUsedOnce
  BY InvUsesClicksOnce
<1> QED
  BY <1>1, InitInv, NextInv, PTL DEF ScreenSpec

=============================================================================
