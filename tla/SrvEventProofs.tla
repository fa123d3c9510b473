--------------------------- MODULE SrvEventProofs ---------------------------
(***************************************************************************)
(* The event distribution never leaves an application waiting for what is  *)
(* there already, for every set of applications, calls and bounds.         *)
(***************************************************************************)
EXTENDS SrvEvent, FiniteSetTheorems, WellFoundedInduction, TLAPS

(***************************************************************************)
(* Lemmas about numbers and about the operators of the model.              *)
(***************************************************************************)

\* A set of naturals has a least element.
LEMMA LeastExists ==
  ASSUME NEW S \in SUBSET Nat, S # {}
  PROVE  \E m \in S : \A n \in S : m <= n
<1>1. PICK m \in S : \A n \in S : <<n, m>> \notin OpToRel(<, Nat)
  BY WFMin, NatLessThanWellFounded, Zenon
<1>2. \A n \in S : ~ (n < m)
  BY <1>1, Zenon DEF OpToRel
<1>3. \A n \in S : m <= n
  BY <1>2
<1> QED
  BY <1>3

\* What the assumptions on the bounds say.
LEMMA Constants == MaxTick \in Nat /\ MAX_TIMER_COUNT = MaxTick + 1 /\ MaxMessage \in Nat \ {0}
  BY BoundAssumption DEF MAX_TIMER_COUNT

\* The next timer event is not later than that of any application in S.
LEMMA NextAfterBound ==
  ASSUME timer_event \in [Apid -> 0..MaxTick], NEW S \in SUBSET Apid
  PROVE  /\ NextAfter(S) \in 0..MAX_TIMER_COUNT
         /\ \A a \in S : NextAfter(S) <= timer_event[a]
<1> DEFINE Due(t) == /\ \A a \in S : t <= timer_event[a]
                     /\ t = MAX_TIMER_COUNT \/ \E a \in S : t = timer_event[a]
<1>1. \E t \in 0..MAX_TIMER_COUNT : Due(t)
  <2>1. CASE S = {}
    BY <2>1, Constants
  <2>2. CASE S # {}
    <3> DEFINE T == {timer_event[a] : a \in S}
    <3>1. T \in SUBSET Nat /\ T # {}
      BY <2>2
    <3>2. PICK t \in T : \A n \in T : t <= n
      <4> HIDE DEF T
      <4> QED BY <3>1, LeastExists
    <3>3. t \in 0..MAX_TIMER_COUNT
      BY Constants
    <3> QED
      BY <3>2, <3>3
  <2> QED
    BY <2>1, <2>2
<1>2. NextAfter(S) = CHOOSE t \in 0..MAX_TIMER_COUNT : Due(t)
  BY DEF NextAfter
<1> QED
  BY <1>1, <1>2

\* With a menu installed, the top menu owner is an application.
LEMMA MenuOwnerIsAppl ==
  ASSUME NEW s \in Seq(Apid), NEW m, \E i \in DOMAIN s : s[i] \in m
  PROVE  get_top_menu_owner(s, m) \in Apid
<1> DEFINE T == {i \in DOMAIN s : s[i] \in m}
           First(i) == s[i] \in m /\ \A j \in 1..(i - 1) : s[j] \notin m
<1>1. T \in SUBSET Nat /\ T # {}
  OBVIOUS
<1>2. PICK i \in T : \A n \in T : i <= n
  <2> HIDE DEF T
  <2> QED BY <1>1, LeastExists
<1>3. i \in DOMAIN s /\ First(i)
  BY <1>2
<1>4. (CHOOSE k \in DOMAIN s : First(k)) \in DOMAIN s
  BY <1>3
<1>5. get_top_menu_owner(s, m) = s[CHOOSE k \in DOMAIN s : First(k)]
  BY <1>3 DEF get_top_menu_owner
<1> HIDE DEF First
<1> QED
  BY <1>4, <1>5

\* The owner of the menu is an application, or nobody.
LEMMA MenuOwnerType ==
  ASSUME NEW s \in Seq(Apid), NEW m
  PROVE  get_top_menu_owner(s, m) \in Apid \cup {TOP_APPL}
<1>1. CASE \E i \in DOMAIN s : s[i] \in m
  BY <1>1, MenuOwnerIsAppl
<1>2. CASE ~ \E i \in DOMAIN s : s[i] \in m
  BY <1>2 DEF get_top_menu_owner
<1> QED
  BY <1>1, <1>2

(***************************************************************************)
(* The inductive invariant.                                                *)
(***************************************************************************)

\* Every application is in the list ap_pri.
Listed == \A a \in Apid : \E i \in DOMAIN ap_pri : ap_pri[i] = a

\* The entries of the waiting list are the calls that are not answered: what
\* the list is for, and no more than the shape of the answers.
BlockedIsWaiting == waiting = DOMAIN call

MenuInv == Listed /\ (~ NoMenu => menu # {})

Inv ==
  /\ TypeOK
  /\ BlockedIsWaiting
  /\ NextTimerIsEarliest
  /\ NoUnreadInput
  /\ MenuInv
  /\ ~ NoMenu => NoUnreadMessage

\* What the type of call means.
LEMMA CallType ==
  ASSUME TypeOK
  PROVE  /\ DOMAIN call \subseteq Apid
         /\ \A a \in DOMAIN call : call[a] \in EventIn
  BY RequestAssumption DEF TypeOK

\* The numbers of the model are naturals below their bounds.
LEMMA NumberTypes ==
  ASSUME TypeOK
  PROVE  /\ timer_counter \in Nat /\ timer_counter <= MaxTick
         /\ next_timer_event \in Nat /\ next_timer_event <= MAX_TIMER_COUNT
         /\ timer_event \in [Apid -> 0..MaxTick]
         /\ messages \in [Apid -> 0..MaxMessage]
         /\ clicks \in [Apid -> Nat] /\ keys \in [Apid -> Nat]
<1>1. /\ timer_counter \in 0..MaxTick
      /\ next_timer_event \in 0..MAX_TIMER_COUNT
      /\ timer_event \in [Apid -> 0..MaxTick]
      /\ messages \in [Apid -> 0..MaxMessage]
      /\ clicks \in [Apid -> Nat] /\ keys \in [Apid -> Nat]
  BY DEF TypeOK
<1> QED
  BY <1>1, Constants

\* The topped application is one of the applications.
LEMMA TopIsAppl ==
  ASSUME NEW s \in Seq(Apid), s # <<>>
  PROVE  s[1] \in Apid
  OBVIOUS

\* Answering removes from the list exactly the applications with events.
LEMMA WakeLemma ==
  ASSUME TypeOK, BlockedIsWaiting, NEW ev, Wake(ev)
  PROVE  /\ waiting' = DOMAIN call'
         /\ waiting' \subseteq waiting
         /\ call' \in UNION {[S -> Request] : S \in SUBSET Apid}
         /\ \A a \in waiting' : call'[a] = call[a] /\ ev[a] = {}
<1> DEFINE D == DOMAIN call \ {a \in waiting : ev[a] # {}}
<1>1. call' = [a \in D |-> call[a]] /\ waiting' = D
  BY DEF Wake, SRV_REPLY, dequeue_appl, BlockedIsWaiting
<1>2. call' \in [D -> Request] /\ D \in SUBSET Apid
  BY <1>1 DEF TypeOK
<1>4. call' \in UNION {[S -> Request] : S \in SUBSET Apid}
  BY <1>2
<1>5. \A a \in waiting' : call'[a] = call[a] /\ ev[a] = {}
  BY <1>1 DEF BlockedIsWaiting
<1>6. waiting' = DOMAIN call' /\ waiting' \subseteq waiting
  BY <1>1 DEF BlockedIsWaiting
<1> QED
  BY <1>4, <1>5, <1>6

\* A message is delivered without an addressee being left waiting for it, if
\* it is not sent to an alias.
LEMMA DeliverLemma ==
  ASSUME Inv, NEW addr \in Apid \cup {TOP_APPL}, NEW s \in Seq(Apid), s # <<>>,
         Deliver(addr, s), ~ NoMenu => addr \in Apid
  PROVE  /\ waiting' = DOMAIN call'
         /\ waiting' \subseteq waiting
         /\ call' \in UNION {[S -> Request] : S \in SUBSET Apid}
         /\ messages' \in [Apid -> 0..MaxMessage]
         /\ \A a \in waiting' : call'[a] = call[a]
         /\ ~ NoMenu => NoUnreadMessage'
<1> DEFINE to == IF addr = TOP_APPL THEN s[1] ELSE addr
           fits == messages[to] < MaxMessage
           woken == {a \in waiting : fits /\ a = addr /\ "MU_MESAG" \in call[a].events}
           ev == [a \in Apid |-> IF a \in woken THEN {"MU_MESAG"} ELSE {}]
<1>1. to \in Apid
  BY TopIsAppl
<1>2. messages' = [messages EXCEPT ![to] = IF fits /\ woken = {} THEN @ + 1 ELSE @]
  BY DEF Deliver
<1>3. messages' \in [Apid -> 0..MaxMessage]
  <2>1. messages \in [Apid -> 0..MaxMessage]
    BY DEF Inv, TypeOK
  <2>2. fits => messages[to] + 1 \in 0..MaxMessage
    BY <1>1, <2>1, Constants
  <2> HIDE DEF to, woken, fits
  <2> QED BY <1>1, <1>2, <2>1, <2>2
<1>4. Wake(ev)
  BY DEF Deliver
<1>5. /\ waiting' = DOMAIN call' /\ waiting' \subseteq waiting
      /\ call' \in UNION {[S -> Request] : S \in SUBSET Apid}
      /\ \A a \in waiting' : call'[a] = call[a] /\ ev[a] = {}
  <2> HIDE DEF ev
  <2> QED BY <1>4, WakeLemma DEF Inv
<1>6. ASSUME ~ NoMenu PROVE NoUnreadMessage'
  <2>1. addr \in Apid /\ to = addr
    BY <1>6, ApplAssumption
  <2>2. SUFFICES ASSUME NEW a \in waiting', "MU_MESAG" \in call'[a].events
                 PROVE  messages'[a] = 0
    BY DEF NoUnreadMessage
  <2>3. a \in waiting /\ a \in Apid /\ call'[a] = call[a] /\ a \notin woken
    BY <1>5, <2>2 DEF Inv, TypeOK
  <2>4. messages[a] = 0
    BY <1>6, <2>2, <2>3 DEF Inv, NoUnreadMessage
  <2>5. a # addr
    BY <2>2, <2>3, <2>4, Constants, <2>1
  <2> QED
    BY <1>2, <2>1, <2>3, <2>4, <2>5 DEF Inv, TypeOK
<1> QED
  BY <1>3, <1>5, <1>6

\* The menu bar is redrawn by an application while there is one with a menu.
LEMMA RedrawAddressee ==
  ASSUME NEW s \in Seq(Apid), NEW m \in SUBSET Apid,
         \A a \in Apid : \E i \in DOMAIN s : s[i] = a,
         ~ NoMenu => m # {}
  PROVE  /\ get_top_menu_owner(s, m) \in Apid \cup {TOP_APPL}
         /\ ~ NoMenu => get_top_menu_owner(s, m) \in Apid
<1>1. get_top_menu_owner(s, m) \in Apid \cup {TOP_APPL}
  BY MenuOwnerType
<1>2. ASSUME ~ NoMenu PROVE \E i \in DOMAIN s : s[i] \in m
  BY <1>2
<1> QED
  BY <1>1, <1>2, MenuOwnerIsAppl

\* Topping an application only changes the order.
LEMMA ToFrontLemma ==
  ASSUME NEW s \in Seq(Apid), s # <<>>, NEW k \in DOMAIN s
  PROVE  /\ ToFront(s, k) \in Seq(Apid) /\ ToFront(s, k) # <<>>
         /\ \A i \in DOMAIN s : \E j \in DOMAIN ToFront(s, k) : ToFront(s, k)[j] = s[i]
<1>1. DOMAIN s = 1..Len(s) /\ Len(s) \in Nat /\ Len(s) > 0 /\ k \in 1..Len(s)
  OBVIOUS
<1>2. \A i \in 1..Len(s) : (IF i = 1 THEN s[k] ELSE IF i <= k THEN s[i - 1] ELSE s[i]) \in Apid
  BY <1>1
<1>3. ToFront(s, k) \in [1..Len(s) -> Apid]
  BY <1>1, <1>2 DEF ToFront
<1>4. ToFront(s, k) \in Seq(Apid) /\ ToFront(s, k) # <<>>
  <2>1. DOMAIN ToFront(s, k) # {}
    BY <1>1, <1>3
  <2>2. DOMAIN <<>> = {}
    OBVIOUS
  <2> QED BY <1>1, <1>3, <2>1, <2>2
<1>5. ASSUME NEW i \in DOMAIN s PROVE \E j \in DOMAIN s : ToFront(s, k)[j] = s[i]
  <2>1. CASE i = k
    <3>1. ToFront(s, k)[1] = s[i] BY <1>1, <2>1 DEF ToFront
    <3> QED BY <1>1, <3>1
  <2>2. CASE i < k
    <3>1. i + 1 \in DOMAIN s /\ ToFront(s, k)[i + 1] = s[i] BY <1>1, <2>2 DEF ToFront
    <3> QED BY <3>1
  <2>3. CASE i > k
    <3>1. ToFront(s, k)[i] = s[i] BY <1>1, <2>3 DEF ToFront
    <3> QED BY <3>1
  <2> QED BY <1>1, <2>1, <2>2, <2>3
<1> QED
  BY <1>1, <1>3, <1>4, <1>5

\* The invariant holds in the initial states.
LEMMA InitInv == Init => Inv
<1> SUFFICES ASSUME Init PROVE Inv
  OBVIOUS
<1>1. Cardinality(Apid) \in Nat \ {0}
  BY ApplAssumption, FS_CardinalityType, FS_EmptySet
<1>2. ap_pri \in Seq(Apid) /\ ap_pri # <<>> /\ ap_pri[1] \in Apid /\ Listed
  <2>1. ap_pri \in [1..Cardinality(Apid) -> Apid] /\ Listed
    BY DEF Init, Listed
  <2>2. DOMAIN ap_pri # {} /\ DOMAIN <<>> = {}
    BY <1>1, <2>1
  <2> QED BY <1>1, <2>1, <2>2
<1>3. call \in UNION {[S -> Request] : S \in SUBSET Apid} /\ DOMAIN call = {}
  <2>1. call \in [{} -> Request]
    BY DEF Init
  <2> QED BY <2>1
<1>4. menu \subseteq Apid /\ (~ NoMenu => menu # {})
  BY <1>2 DEF Init
<1>5. TypeOK
  <2>1. {pos_new, pos_last} \subseteq Pos /\ click_owner \in ClickOwner
    BY DEF Init
  <2>2. /\ timer_counter \in 0..MaxTick /\ next_timer_event \in 0..MAX_TIMER_COUNT
        /\ timer_event \in [Apid -> 0..MaxTick]
    BY Constants DEF Init
  <2>3. messages \in [Apid -> 0..MaxMessage] /\ clicks \in [Apid -> Nat] /\ keys \in [Apid -> Nat]
    BY Constants DEF Init
  <2>4. /\ pc \in {"get", "motion", "buttons", "keys", "timer"}
        /\ {buttons_new, buttons_last} \subseteq SUBSET Button
        /\ waiting \subseteq Apid
    BY DEF Init
  <2> QED
    BY <1>2, <1>3, <1>4, <2>1, <2>2, <2>3, <2>4 DEF TypeOK
<1>6. BlockedIsWaiting /\ NextTimerIsEarliest /\ NoUnreadInput /\ NoUnreadMessage
  BY <1>3 DEF Init, BlockedIsWaiting, NextTimerIsEarliest, NoUnreadInput, NoUnreadMessage
<1> QED
  BY <1>2, <1>4, <1>5, <1>6 DEF Inv, MenuInv

(***************************************************************************)
(* The steps.                                                              *)
(***************************************************************************)

\* Who goes on waiting, with the same call, keeps what the invariant says of
\* the variables that do not change.
LEMMA FewerWaiting ==
  ASSUME Inv, waiting' \subseteq waiting, \A a \in waiting' : call'[a] = call[a]
  PROVE  /\ UNCHANGED <<next_timer_event, timer_event>> => NextTimerIsEarliest'
         /\ UNCHANGED <<clicks, keys>> => NoUnreadInput'
         /\ UNCHANGED messages => (~ NoMenu => NoUnreadMessage')
         /\ UNCHANGED <<ap_pri, menu>> => MenuInv'
  BY DEF Inv, NextTimerIsEarliest, NoUnreadInput, NoUnreadMessage, MenuInv, Listed

\* An interrupt keeps the invariant.
LEMMA InterruptStep ==
  ASSUME Inv,
         \/ \E p \in Pos : catch_mouse_motion(p)
         \/ \E b \in SUBSET Button : catch_mouse_buttons(b)
         \/ catch_timer_click
  PROVE  Inv'
<1> USE DEF Interrupt, buffer, list, screen, input, timer
<1>1. TypeOK'
  <2>1. CASE \E p \in Pos : catch_mouse_motion(p)
    BY <2>1 DEF Inv, TypeOK, catch_mouse_motion
  <2>2. CASE \E b \in SUBSET Button : catch_mouse_buttons(b)
    BY <2>2 DEF Inv, TypeOK, catch_mouse_buttons
  <2>3. CASE catch_timer_click
    <3>1. timer_counter' \in 0..MaxTick
      BY <2>3, Constants, NumberTypes DEF Inv, catch_timer_click
    <3> QED
      BY <2>3, <3>1 DEF Inv, TypeOK, catch_timer_click
  <2> QED
    BY <2>1, <2>2, <2>3
<1>2. UNCHANGED <<next_timer_event, timer_event, clicks, keys, messages, waiting, call, ap_pri, menu>>
  BY DEF catch_mouse_motion, catch_mouse_buttons, catch_timer_click
<1> QED
  BY <1>1, <1>2, FewerWaiting DEF Inv, BlockedIsWaiting

\* A call of evnt_multi() keeps the invariant.
LEMMA WaitStep ==
  ASSUME Inv, NEW a \in Apid, NEW req \in Request, srv_wait_for_event(a, req)
  PROVE  Inv'
<1> DEFINE events == check_for_messages(a, req) \cup check_mouse_buttons(a, req)
                     \cup check_keys(a, req) \cup check_mouse_motion(a, req, pos_new)
           due == timer_counter + req.count
<1>1. req \in EventIn
  BY RequestAssumption
<1>2. a \notin DOMAIN call /\ a \notin waiting
  BY DEF Inv, BlockedIsWaiting, srv_wait_for_event, Running
<1>3. /\ messages' = Less(messages, a, Count("MU_MESAG", events))
      /\ clicks' = Less(clicks, a, IF clicks[a] > 0 THEN 1 ELSE 0)
      /\ keys' = Less(keys, a, Count("MU_KEYBD", events))
  BY DEF srv_wait_for_event
<1>4. /\ "MU_MESAG" \in events => messages[a] > 0
      /\ "MU_KEYBD" \in events => keys[a] > 0
  BY DEF check_for_messages, check_mouse_buttons, check_keys, check_mouse_motion, Motion
<1>5. /\ messages' \in [Apid -> 0..MaxMessage]
      /\ clicks' \in [Apid -> Nat]
      /\ keys' \in [Apid -> Nat]
  <2>1. /\ messages \in [Apid -> 0..MaxMessage]
        /\ clicks \in [Apid -> Nat] /\ keys \in [Apid -> Nat]
    BY NumberTypes DEF Inv
  <2> HIDE DEF events
  <2>2. messages[a] - Count("MU_MESAG", events) \in 0..MaxMessage
    BY <1>4, <2>1, Constants DEF Count
  <2>3. keys[a] - Count("MU_KEYBD", events) \in Nat
    BY <1>4, <2>1 DEF Count
  <2>4. clicks[a] - (IF clicks[a] > 0 THEN 1 ELSE 0) \in Nat
    BY <2>1
  <2> QED BY <1>3, <2>1, <2>2, <2>3, <2>4 DEF Less
<1>6. /\ timer_event' \in [Apid -> 0..MaxTick]
      /\ next_timer_event' \in 0..MAX_TIMER_COUNT
      /\ next_timer_event' <= next_timer_event
      /\ "MU_TIMER" \in req.events => next_timer_event' <= timer_event'[a]
      /\ \A b \in Apid \ {a} : timer_event'[b] = timer_event[b]
  <2>1. due \in Nat
    BY <1>1, NumberTypes DEF Inv, EventIn
  <2>2. CASE "MU_TIMER" \in req.events
    <3>1. /\ due < MaxTick
          /\ timer_event' = [timer_event EXCEPT ![a] = due]
          /\ next_timer_event' = IF due < next_timer_event THEN due ELSE next_timer_event
      BY <2>2 DEF srv_wait_for_event
    <3> HIDE DEF due
    <3>2. due \in 0..MaxTick
      BY <2>1, <3>1, Constants
    <3> HIDE DEF due
    <3>3. /\ timer_event' \in [Apid -> 0..MaxTick] /\ timer_event'[a] = due
          /\ \A b \in Apid \ {a} : timer_event'[b] = timer_event[b]
      BY <3>1, <3>2, NumberTypes DEF Inv
    <3>4. /\ next_timer_event' \in 0..MAX_TIMER_COUNT
          /\ next_timer_event' <= next_timer_event /\ next_timer_event' <= due
      <4>1. next_timer_event \in Nat /\ next_timer_event <= MAX_TIMER_COUNT
        BY NumberTypes DEF Inv
      <4>2. due \in 0..MAX_TIMER_COUNT /\ due \in Nat
        BY <3>2, Constants
      <4>3. next_timer_event \in 0..MAX_TIMER_COUNT
        BY <4>1, Constants
      <4>4. CASE due < next_timer_event
        BY <3>1, <4>1, <4>2, <4>4
      <4>5. CASE ~ (due < next_timer_event)
        BY <3>1, <4>1, <4>2, <4>3, <4>5
      <4> QED BY <4>4, <4>5
    <3> QED BY <3>3, <3>4
  <2>3. CASE "MU_TIMER" \notin req.events
    <3>1. UNCHANGED <<timer_event, next_timer_event>>
      BY <2>3 DEF srv_wait_for_event
    <3> QED BY <2>3, <3>1, Constants, NumberTypes DEF Inv
  <2> QED BY <2>2, <2>3
<1>7. /\ waiting' = DOMAIN call' /\ waiting' \subseteq waiting \cup {a}
      /\ call' \in UNION {[S -> Request] : S \in SUBSET Apid}
      /\ \A b \in waiting' \ {a} : call'[b] = call[b]
      /\ a \in waiting' => events = {} /\ call'[a] = req
  <2>1. CASE events = {}
    <3>1. /\ waiting' = waiting \cup {a}
          /\ call' = [b \in DOMAIN call \cup {a} |-> IF b = a THEN req ELSE call[b]]
      BY <2>1 DEF srv_wait_for_event
    <3>2. call' \in [DOMAIN call \cup {a} -> Request] /\ DOMAIN call \cup {a} \in SUBSET Apid
      <4>1. \A b \in DOMAIN call : call[b] \in Request /\ b \in Apid
        BY DEF Inv, TypeOK
      <4> QED BY <3>1, <4>1
    <3>3. call' \in UNION {[S -> Request] : S \in SUBSET Apid}
      BY <3>2
    <3> HIDE DEF events
    <3> QED BY <2>1, <3>1, <3>3 DEF Inv, TypeOK, BlockedIsWaiting
  <2>2. CASE events # {}
    <3>1. UNCHANGED <<waiting, call>>
      BY <2>2 DEF srv_wait_for_event
    <3> QED BY <1>2, <3>1 DEF Inv, TypeOK, BlockedIsWaiting
  <2> QED BY <2>1, <2>2
<1>8. UNCHANGED <<pos_new, pos_last, buttons_new, buttons_last, timer_counter, ap_pri, menu, click_owner>>
      /\ pc' = "motion"
  BY DEF srv_wait_for_event, Running, input, screen
<1>9. TypeOK' /\ BlockedIsWaiting' /\ MenuInv'
  BY <1>5, <1>6, <1>7, <1>8 DEF Inv, TypeOK, BlockedIsWaiting, MenuInv, Listed
<1>10. ASSUME NEW b \in waiting'
       PROVE  /\ b \in Apid
              /\ "MU_TIMER" \in call'[b].events => next_timer_event' <= timer_event'[b]
              /\ clicks'[b] = 0
              /\ "MU_KEYBD" \in call'[b].events => keys'[b] = 0
              /\ ~ NoMenu /\ "MU_MESAG" \in call'[b].events => messages'[b] = 0
  <2>1. b \in Apid
    BY <1>7 DEF Inv, TypeOK
  <2>2. CASE b = a
    <3>1. events = {} /\ call'[a] = req
      BY <1>7, <2>2
    <3>2. /\ ~ (clicks[a] > 0)
          /\ "MU_KEYBD" \in req.events => ~ (keys[a] > 0)
          /\ "MU_MESAG" \in req.events => ~ (messages[a] > 0)
      BY <3>1 DEF check_for_messages, check_mouse_buttons, check_keys
    <3>3. /\ clicks'[a] = clicks[a] /\ keys'[a] = keys[a] /\ messages'[a] = messages[a]
      <4>1. "MU_KEYBD" \notin events /\ "MU_MESAG" \notin events
        BY <3>1
      <4> HIDE DEF events
      <4> QED BY <1>3, <3>2, <4>1 DEF Less, Count, Inv, TypeOK
    <3>4. messages[a] \in Nat /\ clicks[a] \in Nat /\ keys[a] \in Nat
      BY NumberTypes, Constants DEF Inv
    <3> HIDE DEF events
    <3> QED BY <1>6, <2>2, <3>1, <3>2, <3>3, <3>4
  <2>3. CASE b # a
    <3>1. b \in waiting /\ call'[b] = call[b]
      BY <1>7, <2>3
    <3>2. clicks'[b] = clicks[b] /\ keys'[b] = keys[b] /\ messages'[b] = messages[b]
      <4> HIDE DEF events
      <4> QED BY <1>3, <2>1, <2>3 DEF Less, Inv, TypeOK
    <3>3. "MU_TIMER" \in call[b].events => next_timer_event <= timer_event[b]
      BY <3>1 DEF Inv, NextTimerIsEarliest
    <3>4. next_timer_event' \in Nat /\ next_timer_event \in Nat /\ timer_event[b] \in Nat
      BY <1>6, <2>1, Constants DEF Inv, TypeOK
    <3>5. "MU_TIMER" \in call[b].events => next_timer_event' <= timer_event'[b]
      BY <1>6, <2>1, <2>3, <3>3, <3>4
    <3> QED
      BY <2>1, <3>1, <3>2, <3>5 DEF Inv, NoUnreadInput, NoUnreadMessage
  <2> QED BY <2>2, <2>3
<1>11. NextTimerIsEarliest' /\ NoUnreadInput' /\ (~ NoMenu => NoUnreadMessage')
  BY <1>10 DEF NextTimerIsEarliest, NoUnreadInput, NoUnreadMessage
<1> QED
  BY <1>9, <1>11 DEF Inv

\* The calls that deliver a message, or none.
LEMMA DeliverStep ==
  ASSUME Inv, NEW addr \in Apid \cup {TOP_APPL}, NEW s \in Seq(Apid), s # <<>>,
         ~ NoMenu => addr \in Apid,
         Deliver(addr, s) \/ UNCHANGED <<input, timer, buffer, list>>,
         pc' = "motion", ap_pri' \in Seq(Apid), ap_pri' # <<>>, menu' \subseteq Apid,
         click_owner' \in ClickOwner, MenuInv'
  PROVE  Inv'
<1>1. /\ waiting' = DOMAIN call' /\ waiting' \subseteq waiting
      /\ call' \in UNION {[S -> Request] : S \in SUBSET Apid}
      /\ messages' \in [Apid -> 0..MaxMessage]
      /\ \A a \in waiting' : call'[a] = call[a]
      /\ ~ NoMenu => NoUnreadMessage'
  <2>1. CASE Deliver(addr, s)
    BY <2>1, DeliverLemma
  <2>2. CASE UNCHANGED <<input, timer, buffer, list>>
    BY <2>2 DEF buffer, list, Inv, TypeOK, BlockedIsWaiting, NoUnreadMessage
  <2> QED BY <2>1, <2>2
<1>2. UNCHANGED <<pos_new, pos_last, buttons_new, buttons_last, timer_counter,
                  next_timer_event, timer_event, clicks, keys>>
  BY DEF Deliver, input, timer, buffer
<1>3. TypeOK' /\ BlockedIsWaiting'
  BY <1>1, <1>2 DEF Inv, TypeOK, BlockedIsWaiting
<1>4. NextTimerIsEarliest' /\ NoUnreadInput'
  BY <1>1, <1>2, FewerWaiting
<1> QED
  BY <1>1, <1>3, <1>4 DEF Inv

\* The other calls keep the invariant.
LEMMA CallStep ==
  ASSUME Inv, Call
  PROVE  Inv'
<1> PICK a \in Apid :
      \/ \E req \in Request : srv_wait_for_event(a, req)
      \/ \E b \in Apid : srv_appl_write(a, b)
      \/ \E k \in DOMAIN ap_pri \ {1} : top_appl(a, k)
      \/ menu_bar_install(a) \/ menu_bar_remove(a) \/ ChangeClickOwner(a)
  BY DEF Call
<1>1. /\ ap_pri \in Seq(Apid) /\ ap_pri # <<>> /\ menu \subseteq Apid
      /\ click_owner \in ClickOwner /\ Listed /\ (~ NoMenu => menu # {})
  BY DEF Inv, TypeOK, MenuInv
<1>2. CASE \E req \in Request : srv_wait_for_event(a, req)
  BY <1>2, WaitStep
<1>3. ASSUME NEW b \in Apid, srv_appl_write(a, b) PROVE Inv'
  <2>1. /\ Deliver(b, ap_pri) /\ pc' = "motion"
        /\ UNCHANGED <<ap_pri, menu, click_owner>>
    BY <1>3 DEF srv_appl_write, Running, screen
  <2>2. MenuInv'
    BY <1>1, <2>1 DEF MenuInv, Listed
  <2> QED BY <1>1, <2>1, <2>2, DeliverStep
<1>4. ASSUME NEW k \in DOMAIN ap_pri, top_appl(a, k) PROVE Inv'
  <2> DEFINE owner == get_top_menu_owner(ap_pri', menu)
  <2>1. /\ ap_pri' = ToFront(ap_pri, k) /\ pc' = "motion"
        /\ Deliver(owner, ap_pri')
        /\ UNCHANGED <<menu, click_owner>>
    BY <1>4 DEF top_appl, Running, redraw_menu_bar
  <2>2. ap_pri' \in Seq(Apid) /\ ap_pri' # <<>> /\ Listed'
    BY <1>1, <2>1, ToFrontLemma DEF Listed
  <2>3. owner \in Apid \cup {TOP_APPL} /\ (~ NoMenu => owner \in Apid)
    BY <1>1, <2>2, RedrawAddressee DEF Listed
  <2>4. MenuInv'
    BY <1>1, <2>1, <2>2 DEF MenuInv
  <2> HIDE DEF owner
  <2> QED BY <1>1, <2>1, <2>2, <2>3, <2>4, DeliverStep
<1>5. ASSUME menu_bar_install(a) \/ menu_bar_remove(a) PROVE Inv'
  <2> DEFINE owner == get_top_menu_owner(ap_pri, menu')
  <2>1. /\ UNCHANGED <<ap_pri, click_owner>> /\ pc' = "motion"
        /\ menu' \subseteq Apid /\ (~ NoMenu => menu' # {})
        /\ Deliver(owner, ap_pri) \/ UNCHANGED <<input, timer, buffer, list>>
    BY <1>1, <1>5 DEF menu_bar_install, menu_bar_remove, Running, redraw_menu_bar
  <2>2. owner \in Apid \cup {TOP_APPL} /\ (~ NoMenu => owner \in Apid)
    BY <1>1, <2>1, RedrawAddressee DEF Listed
  <2>3. MenuInv'
    BY <1>1, <2>1 DEF MenuInv, Listed
  <2> HIDE DEF owner
  <2> QED BY <1>1, <2>1, <2>2, <2>3, DeliverStep
<1>6. ASSUME ChangeClickOwner(a) PROVE Inv'
  <2>1. /\ UNCHANGED <<input, timer, buffer, list>> /\ UNCHANGED <<ap_pri, menu>>
        /\ pc' = "motion" /\ click_owner' \in ClickOwner
    BY <1>6 DEF ChangeClickOwner, Running
  <2>2. MenuInv'
    BY <1>1, <2>1 DEF MenuInv, Listed
  <2> QED BY <1>1, <2>1, <2>2, DeliverStep
<1> QED
  BY <1>2, <1>3, <1>4, <1>5, <1>6

\* Handling the mouse's motion keeps the invariant.
LEMMA MotionStep ==
  ASSUME Inv, handle_mouse_motion
  PROVE  Inv'
<1>1. UNCHANGED <<buttons_new, buttons_last, timer_counter, next_timer_event, timer_event,
                  messages, clicks, keys, ap_pri, menu, click_owner>> /\ pc' = "buttons"
  BY DEF handle_mouse_motion, timer, buffer, screen
<1>2. /\ waiting' = DOMAIN call' /\ waiting' \subseteq waiting
      /\ call' \in UNION {[S -> Request] : S \in SUBSET Apid}
      /\ \A a \in waiting' : call'[a] = call[a]
      /\ {pos_new', pos_last'} \subseteq Pos
  <2>1. CASE pos_new = pos_last
    BY <2>1 DEF handle_mouse_motion, list, Inv, TypeOK, BlockedIsWaiting
  <2>2. CASE pos_new # pos_last
    <3>1. PICK late \in Late(pos_new, Pos), seen \in SUBSET waiting :
            /\ Wake([a \in Apid |->
                 IF a \in waiting
                 THEN check_mouse_motion(a, call[a], IF a \in seen THEN late ELSE pos_new)
                 ELSE {}])
            /\ pos_new' = late
            /\ pos_last' = late
      BY <2>2 DEF handle_mouse_motion
    <3>2. late \in Pos
      BY DEF Late, Inv, TypeOK
    <3> DEFINE ev == [a \in Apid |->
                       IF a \in waiting
                       THEN check_mouse_motion(a, call[a], IF a \in seen THEN late ELSE pos_new)
                       ELSE {}]
    <3>3. Wake(ev)
      BY <3>1
    <3> HIDE DEF ev
    <3> QED BY <3>1, <3>2, <3>3, WakeLemma DEF Inv
  <2> QED BY <2>1, <2>2
<1>3. TypeOK' /\ BlockedIsWaiting'
  BY <1>1, <1>2 DEF Inv, TypeOK, BlockedIsWaiting
<1> QED
  BY <1>1, <1>2, <1>3, FewerWaiting DEF Inv

\* Handling the mouse's buttons keeps the invariant.
LEMMA ButtonsStep ==
  ASSUME Inv, handle_mouse_buttons
  PROVE  Inv'
<1> DEFINE owner == click_owner[pos_last]
           ev == [a \in Apid |-> IF a = owner THEN {"MU_BUTTON"} ELSE {}]
<1>1. UNCHANGED <<pos_new, pos_last, timer_counter, next_timer_event, timer_event,
                  messages, keys, ap_pri, menu, click_owner>> /\ pc' = "keys"
  BY DEF handle_mouse_buttons, timer, screen
<1>2. CASE buttons_new = buttons_last
  <2>1. UNCHANGED <<buttons_new, buttons_last, clicks, waiting, call>>
    BY <1>2 DEF handle_mouse_buttons, list
  <2>2. TypeOK' /\ BlockedIsWaiting'
    BY <1>1, <2>1 DEF Inv, TypeOK, BlockedIsWaiting
  <2> QED BY <1>1, <2>1, <2>2, FewerWaiting DEF Inv
<1>3. CASE buttons_new # buttons_last
  <2>1. owner \in Apid
    BY ScreenAssumption DEF Inv, TypeOK
  <2>2. PICK late \in Late(buttons_new, SUBSET Button) :
          buttons_new' = late /\ buttons_last' = late
    BY <1>3 DEF handle_mouse_buttons
  <2>3. /\ clicks' = IF owner \in waiting THEN clicks ELSE [clicks EXCEPT ![owner] = @ + 1]
        /\ Wake(ev)
    BY <1>3 DEF handle_mouse_buttons
  <2>4. late \in SUBSET Button
    BY <2>3 DEF Late, Inv, TypeOK
  <2>5. /\ waiting' = DOMAIN call' /\ waiting' \subseteq waiting
        /\ call' \in UNION {[S -> Request] : S \in SUBSET Apid}
        /\ \A a \in waiting' : call'[a] = call[a] /\ ev[a] = {}
    <3> HIDE DEF ev
    <3> QED BY <2>3, WakeLemma DEF Inv
  <2>6. owner \notin waiting'
    BY <2>1, <2>5
  <2>7. clicks' \in [Apid -> Nat] /\ \A a \in Apid \ {owner} : clicks'[a] = clicks[a]
    <3>1. clicks \in [Apid -> Nat]
      BY NumberTypes DEF Inv
    <3> HIDE DEF owner
    <3> QED BY <2>1, <2>3, <3>1
  <2>8. NoUnreadInput'
    <3> HIDE DEF owner, ev
    <3> QED BY <1>1, <2>5, <2>6, <2>7 DEF Inv, TypeOK, NoUnreadInput
  <2>9. TypeOK' /\ BlockedIsWaiting'
    BY <1>1, <2>2, <2>4, <2>5, <2>7 DEF Inv, TypeOK, BlockedIsWaiting
  <2> QED BY <1>1, <2>5, <2>8, <2>9, FewerWaiting DEF Inv
<1> QED
  BY <1>2, <1>3

\* Handling the keys keeps the invariant.
LEMMA KeysStep ==
  ASSUME Inv, NEW n \in 0..MaxKey, handle_keys(n)
  PROVE  Inv'
<1> DEFINE topped == ap_pri[1]
           ready == topped \in waiting /\ n > 0 /\ "MU_KEYBD" \in call[topped].events
           ev == [a \in Apid |-> IF a = topped /\ ready THEN {"MU_KEYBD"} ELSE {}]
<1>1. topped \in Apid
  BY TopIsAppl DEF Inv, TypeOK
<1>2. /\ UNCHANGED <<pos_new, pos_last, buttons_new, buttons_last, timer_counter,
                     next_timer_event, timer_event, messages, clicks, ap_pri, menu, click_owner>>
      /\ pc' = "timer"
      /\ keys' = [keys EXCEPT ![topped] = @ + n - (IF ready THEN 1 ELSE 0)]
      /\ Wake(ev)
  BY DEF handle_keys, input, timer, screen
<1>3. /\ waiting' = DOMAIN call' /\ waiting' \subseteq waiting
      /\ call' \in UNION {[S -> Request] : S \in SUBSET Apid}
      /\ \A a \in waiting' : call'[a] = call[a] /\ ev[a] = {}
  <2> HIDE DEF ev
  <2> QED BY <1>2, WakeLemma DEF Inv
<1>4. /\ keys' \in [Apid -> Nat]
      /\ \A a \in Apid \ {topped} : keys'[a] = keys[a]
      /\ n = 0 => keys'[topped] = keys[topped]
  <2>1. keys \in [Apid -> Nat] /\ n \in Nat
    BY NumberTypes, BoundAssumption DEF Inv
  <2>2. keys[topped] + n - (IF ready THEN 1 ELSE 0) \in Nat
    BY <1>1, <2>1
  <2>3. n = 0 => keys[topped] + n - (IF ready THEN 1 ELSE 0) = keys[topped]
    BY <1>1, <2>1
  <2> HIDE DEF topped, ready
  <2> QED BY <1>1, <1>2, <2>1, <2>2, <2>3
<1>5. NoUnreadInput'
  <2>1. SUFFICES ASSUME NEW a \in waiting'
                 PROVE  clicks'[a] = 0 /\ ("MU_KEYBD" \in call'[a].events => keys'[a] = 0)
    BY DEF NoUnreadInput
  <2>2. a \in waiting /\ a \in Apid /\ call'[a] = call[a] /\ ev[a] = {}
    BY <1>3 DEF Inv, TypeOK
  <2>3. clicks[a] = 0 /\ ("MU_KEYBD" \in call[a].events => keys[a] = 0)
    BY <2>2 DEF Inv, NoUnreadInput
  <2>4. a = topped /\ "MU_KEYBD" \in call[a].events => n = 0
    <3>1. ~ (a = topped /\ ready)
      BY <2>2
    <3>2. n \in Nat
      BY BoundAssumption
    <3> QED BY <2>2, <3>1, <3>2
  <2> HIDE DEF topped, ready, ev
  <2> QED BY <1>2, <1>4, <2>2, <2>3, <2>4
<1>6. TypeOK' /\ BlockedIsWaiting'
  BY <1>2, <1>3, <1>4 DEF Inv, TypeOK, BlockedIsWaiting
<1> QED
  BY <1>2, <1>3, <1>5, <1>6, FewerWaiting DEF Inv

\* Handling the timer keeps the invariant.
LEMMA TimerStep ==
  ASSUME Inv, handle_timer
  PROVE  Inv'
<1> DEFINE ev == [a \in Apid |-> IF a \in waiting THEN check_timer(a, call[a]) ELSE {}]
           rest == {a \in waiting : ev[a] = {}}
<1>1. UNCHANGED <<pos_new, pos_last, buttons_new, buttons_last, timer_counter, timer_event,
                  messages, clicks, keys, ap_pri, menu, click_owner>> /\ pc' = "get"
  BY DEF handle_timer, input, buffer, screen
<1>2. CASE ~ (timer_counter > next_timer_event)
  <2>1. UNCHANGED <<next_timer_event, waiting, call>>
    BY <1>2 DEF handle_timer, list
  <2>2. TypeOK' /\ BlockedIsWaiting'
    BY <1>1, <2>1 DEF Inv, TypeOK, BlockedIsWaiting
  <2> QED BY <1>1, <2>1, <2>2, FewerWaiting DEF Inv
<1>3. CASE timer_counter > next_timer_event
  <2>1. Wake(ev) /\ next_timer_event' = NextAfter(rest)
    BY <1>3 DEF handle_timer
  <2>2. /\ waiting' = DOMAIN call' /\ waiting' \subseteq waiting
        /\ call' \in UNION {[S -> Request] : S \in SUBSET Apid}
        /\ \A a \in waiting' : call'[a] = call[a] /\ ev[a] = {}
    <3> HIDE DEF ev
    <3> QED BY <2>1, WakeLemma DEF Inv
  <2>3. /\ next_timer_event' \in 0..MAX_TIMER_COUNT
        /\ \A a \in rest : next_timer_event' <= timer_event[a]
    <3>1. rest \in SUBSET Apid /\ timer_event \in [Apid -> 0..MaxTick]
      BY DEF Inv, TypeOK
    <3> HIDE DEF rest
    <3> QED BY <2>1, <3>1, NextAfterBound
  <2>4. waiting' \subseteq rest
    BY <2>2
  <2>5. NextTimerIsEarliest'
    <3> HIDE DEF rest
    <3> QED BY <1>1, <2>3, <2>4 DEF NextTimerIsEarliest
  <2>6. TypeOK' /\ BlockedIsWaiting'
    BY <1>1, <2>2, <2>3 DEF Inv, TypeOK, BlockedIsWaiting
  <2> QED BY <1>1, <2>2, <2>5, <2>6, FewerWaiting DEF Inv
<1> QED
  BY <1>2, <1>3

\* The end of a round keeps the invariant.
LEMMA IdleStep ==
  ASSUME Inv, NoCall \/ UNCHANGED vars
  PROVE  Inv'
<1>1. UNCHANGED <<input, timer, buffer, list, screen>> /\ pc' \in {"motion", pc}
  BY DEF NoCall, vars
<1>2. TypeOK' /\ BlockedIsWaiting'
  BY <1>1 DEF input, timer, buffer, list, screen, Inv, TypeOK, BlockedIsWaiting
<1> QED
  BY <1>1, <1>2, FewerWaiting DEF timer, buffer, list, screen, Inv

\* Every step keeps the invariant.
LEMMA NextInv == Inv /\ [Next]_vars => Inv'
<1> SUFFICES ASSUME Inv, [Next]_vars PROVE Inv'
  OBVIOUS
<1>1. CASE srv_handle_events
  BY <1>1, MotionStep, ButtonsStep, KeysStep, TimerStep DEF srv_handle_events
<1> QED
  BY <1>1, InterruptStep, CallStep, IdleStep DEF Next

(***************************************************************************)
(* Interrupts between two rounds only: no motion is missed.  What is kept  *)
(* is said of pos_last, the position that was handled last.  After a call  *)
(* it holds only if the mouse has not moved, as srv_wait_for_event() looks *)
(* at the new position; handle_mouse_motion() makes good for it.           *)
(***************************************************************************)

\* The areas that a call asks about and position p answers.
Areas(req, p) == {e \in Motion \cap req.events : (p \in req[e].r) # req[e].leave}

Handled ==
  pc # "motion" \/ pos_new = pos_last =>
    \A a \in waiting : Areas(call[a], pos_last) = {}

\* What the server looks for contains the areas.
LEMMA AreasAreChecked ==
  ASSUME NEW a, NEW req, NEW p
  PROVE  /\ Areas(req, p) \subseteq check_mouse_motion(a, req, p)
         /\ check_mouse_motion(a, req, p) \cap Motion = Areas(req, p)
  BY DEF Areas, check_mouse_motion, Motion

\* It is kept where nothing moves and nobody new waits.
LEMMA HandledByFewer ==
  ASSUME Inv, Handled, pc # "motion", UNCHANGED pos_last,
         waiting' \subseteq waiting, \A a \in waiting' : call'[a] = call[a]
  PROVE  Handled'
  BY DEF Handled

\* An interrupt comes before the call of a round and leaves pos_last alone.
LEMMA InterruptHandled ==
  ASSUME Inv, Handled, ~ Async,
         \/ \E p \in Pos : catch_mouse_motion(p)
         \/ \E b \in SUBSET Button : catch_mouse_buttons(b)
         \/ catch_timer_click
  PROVE  Handled'
<1>1. pc = "get" /\ UNCHANGED <<waiting, call, pos_last>>
  BY DEF catch_mouse_motion, catch_mouse_buttons, catch_timer_click, Interrupt, list, input
<1> QED
  BY <1>1, HandledByFewer

\* An application that begins to wait has been told of the areas it is in.
LEMMA WaitHandled ==
  ASSUME Inv, Handled, NEW a \in Apid, NEW req \in Request, srv_wait_for_event(a, req)
  PROVE  Handled'
<1>1. pc = "get" /\ UNCHANGED <<pos_new, pos_last>>
  BY DEF srv_wait_for_event, Running, input
<1>2. ASSUME pos_new = pos_last, NEW b \in waiting'
      PROVE  Areas(call'[b], pos_last) = {}
  <2>1. CASE UNCHANGED <<waiting, call>>
    BY <1>1, <1>2, <2>1 DEF Handled
  <2>2. CASE /\ check_mouse_motion(a, req, pos_new) = {}
             /\ waiting' = waiting \cup {a}
             /\ call' = [c \in DOMAIN call \cup {a} |-> IF c = a THEN req ELSE call[c]]
    <3>1. CASE b = a
      BY <1>2, <2>2, <3>1, AreasAreChecked
    <3>2. CASE b # a
      <4>1. b \in waiting /\ b \in DOMAIN call
        BY <1>2, <2>2, <3>2 DEF Inv, BlockedIsWaiting
      <4>2. call'[b] = call[b]
        BY <2>2, <3>2, <4>1
      <4> QED BY <1>1, <4>1, <4>2 DEF Handled
    <3> QED BY <3>1, <3>2
  <2> QED
    BY <2>1, <2>2 DEF srv_wait_for_event
<1> QED
  BY <1>1, <1>2 DEF Handled, srv_wait_for_event, Running

\* The other calls only answer applications.
LEMMA CallHandled ==
  ASSUME Inv, Handled, Call
  PROVE  Handled'
<1> PICK a \in Apid :
      \/ \E req \in Request : srv_wait_for_event(a, req)
      \/ \E b \in Apid : srv_appl_write(a, b)
      \/ \E k \in DOMAIN ap_pri \ {1} : top_appl(a, k)
      \/ menu_bar_install(a) \/ menu_bar_remove(a) \/ ChangeClickOwner(a)
  BY DEF Call
<1>1. CASE \E req \in Request : srv_wait_for_event(a, req)
  BY <1>1, WaitHandled
<1>2. ASSUME Running(a), NEW addr, NEW s, Deliver(addr, s) \/ UNCHANGED <<input, timer, buffer, list>>
      PROVE  Handled'
  <2>1. /\ pc = "get" /\ UNCHANGED pos_last
        /\ waiting' \subseteq waiting /\ \A b \in waiting' : call'[b] = call[b]
    <3>1. CASE UNCHANGED <<input, timer, buffer, list>>
      BY <1>2, <3>1 DEF input, list, Running
    <3>2. CASE Deliver(addr, s)
      <4>1. PICK ev : Wake(ev)
        BY <3>2 DEF Deliver
      <4>2. waiting' \subseteq waiting /\ \A b \in waiting' : call'[b] = call[b]
        BY <4>1, WakeLemma DEF Inv
      <4> QED BY <1>2, <3>2, <4>2 DEF Deliver, input, Running
    <3> QED BY <1>2, <3>1, <3>2
  <2> QED BY <2>1, HandledByFewer
<1>3. CASE \E b \in Apid : srv_appl_write(a, b)
  BY <1>2, <1>3 DEF srv_appl_write
<1>4. CASE \E k \in DOMAIN ap_pri \ {1} : top_appl(a, k)
  BY <1>2, <1>4 DEF top_appl, redraw_menu_bar
<1>5. CASE menu_bar_install(a) \/ menu_bar_remove(a)
  BY <1>2, <1>5 DEF menu_bar_install, menu_bar_remove, redraw_menu_bar
<1>6. CASE ChangeClickOwner(a)
  BY <1>2, <1>6 DEF ChangeClickOwner
<1> QED
  BY <1>1, <1>3, <1>4, <1>5, <1>6

\* After the motion was handled nobody waits for an area the mouse is in.
LEMMA MotionHandled ==
  ASSUME Inv, Handled, ~ Async, handle_mouse_motion
  PROVE  Handled'
<1>1. CASE pos_new = pos_last
  BY <1>1 DEF handle_mouse_motion, list, Handled
<1>2. CASE pos_new # pos_last
  <2>1. PICK late \in Late(pos_new, Pos), seen \in SUBSET waiting :
          /\ Wake([a \in Apid |->
               IF a \in waiting
               THEN check_mouse_motion(a, call[a], IF a \in seen THEN late ELSE pos_new)
               ELSE {}])
          /\ pos_new' = late
          /\ pos_last' = late
    BY <1>2 DEF handle_mouse_motion
  <2>2. late = pos_new
    BY DEF Late
  <2> DEFINE ev == [a \in Apid |->
                     IF a \in waiting
                     THEN check_mouse_motion(a, call[a], IF a \in seen THEN late ELSE pos_new)
                     ELSE {}]
  <2>3. Wake(ev)
    BY <2>1
  <2>4. waiting' \subseteq waiting /\ \A a \in waiting' : call'[a] = call[a] /\ ev[a] = {}
    <3> HIDE DEF ev
    <3> QED BY <2>3, WakeLemma DEF Inv
  <2>5. ASSUME NEW a \in waiting' PROVE Areas(call'[a], pos_last') = {}
    <3>1. a \in waiting /\ a \in Apid /\ call'[a] = call[a] /\ ev[a] = {}
      BY <2>4 DEF Inv, TypeOK
    <3>2. check_mouse_motion(a, call[a], pos_new) = {}
      BY <2>2, <3>1
    <3> QED BY <2>1, <2>2, <3>1, <3>2, AreasAreChecked
  <2> QED BY <2>5 DEF Handled
<1> QED
  BY <1>1, <1>2

\* Buttons, keys and the timer only answer applications.
LEMMA OtherHandlersHandled ==
  ASSUME Inv, Handled,
         handle_mouse_buttons \/ (\E n \in 0..MaxKey : handle_keys(n)) \/ handle_timer
  PROVE  Handled'
<1>1. pc # "motion" /\ UNCHANGED pos_last
  BY DEF handle_mouse_buttons, handle_keys, handle_timer, input
<1>2. (\E ev : Wake(ev)) \/ UNCHANGED list
  BY DEF handle_mouse_buttons, handle_keys, handle_timer
<1>3. waiting' \subseteq waiting /\ \A a \in waiting' : call'[a] = call[a]
  BY <1>2, WakeLemma DEF Inv, list
<1> QED
  BY <1>1, <1>3, HandledByFewer

\* Every step keeps it.
LEMMA NextHandled == ~ Async /\ Inv /\ Handled /\ [Next]_vars => Handled'
<1> SUFFICES ASSUME ~ Async, Inv, Handled, [Next]_vars PROVE Handled'
  OBVIOUS
<1>1. CASE srv_handle_events
  BY <1>1, MotionHandled, OtherHandlersHandled DEF srv_handle_events
<1>2. CASE NoCall
  BY <1>2, HandledByFewer DEF NoCall, input, list
<1>3. CASE UNCHANGED vars
  BY <1>3 DEF vars, input, list, Handled
<1> QED
  BY <1>1, <1>2, <1>3, InterruptHandled, CallHandled DEF Next

(***************************************************************************)
(* The theorems.                                                           *)
(***************************************************************************)

\* The invariant holds in every reachable state.
THEOREM Invariance == Spec => []Inv
<1> QED
  BY InitInv, NextInv, PTL DEF Spec

\* The variables of srv_event.c keep their types and bounds.
THEOREM TypeCorrect == Spec => []TypeOK
<1>1. Inv => TypeOK
  BY DEF Inv
<1> QED
  BY <1>1, Invariance, PTL

\* handle_timer() may leave the list alone until next_timer_event has passed.
THEOREM TimerShortcut == Spec => []NextTimerIsEarliest
<1>1. Inv => NextTimerIsEarliest
  BY DEF Inv
<1> QED
  BY <1>1, Invariance, PTL

\* No application waits for a key or a click that is in its buffer.
THEOREM InputIsRead == Spec => []NoUnreadInput
<1>1. Inv => NoUnreadInput
  BY DEF Inv
<1> QED
  BY <1>1, Invariance, PTL

\* While some application has a menu, no application waits for a message that
\* is in its buffer.
THEOREM MessagesAreRead == ~ NoMenu /\ Spec => []NoUnreadMessage
<1>1. ~ NoMenu /\ Inv => NoUnreadMessage
  BY DEF Inv
<1>2. CASE ~ NoMenu
  BY <1>1, <1>2, Invariance, PTL
<1>3. CASE NoMenu
  BY <1>3
<1> QED
  BY <1>2, <1>3

\* If interrupts come between two rounds only, no application waits for the
\* mouse to be where it is.
THEOREM MotionIsSeen == ~ Async /\ Spec => []MotionReported
<1>1. Init => Handled
  BY DEF Init, Handled
<1>2. Handled => MotionReported
  <2> SUFFICES ASSUME Handled, pc = "get", pos_new = pos_last, NEW a \in waiting
               PROVE  check_mouse_motion(a, call[a], pos_new) \cap Motion = {}
    BY DEF MotionReported
  <2>1. Areas(call[a], pos_new) = {}
    BY DEF Handled
  <2> QED BY <2>1, AreasAreChecked
<1>3. CASE ~ Async
  <2>1. Inv /\ Handled /\ [Next]_vars => Handled'
    BY <1>3, NextHandled
  <2> QED BY <1>1, <1>2, <2>1, Invariance, PTL DEF Spec
<1>4. CASE Async
  BY <1>4
<1> QED
  BY <1>3, <1>4
=============================================================================
