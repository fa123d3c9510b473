------------------------------ MODULE SrvEvent ------------------------------
(***************************************************************************)
(* The event distribution of the server (srv_event.c), with what wakes an  *)
(* application from elsewhere: appl_write() (srv_appl.c), the redraw of    *)
(* the menu bar (srv_menu.c) and a change of the topped application.       *)
(*                                                                         *)
(* Three interrupts leave their news in global variables.  The server      *)
(* takes one call of a client, then looks at the news: motion, buttons,    *)
(* keys, timer (the loop of srv.c).  An application that asks for events   *)
(* is answered at once or waits in a list until one of its events comes.   *)
(*                                                                         *)
(* Input is counted, not stored: the buffers that hold clicks and keys are *)
(* outside the model, the links of the list are the subject of WaitList.   *)
(***************************************************************************)
EXTENDS Naturals, Sequences, FiniteSets

CONSTANTS
  Apid,        \* the registered applications
  TOP_APPL,    \* -1, the alias of the topped application in a message
  Pos,         \* positions of the mouse
  MenuBar,     \* the positions in the menu bar
  Button,      \* mouse buttons
  ClickOwner,  \* the ways in which the positions are owned, as windows move
  Request,     \* the calls of evnt_multi() that clients make
  MaxMessage,  \* MSG_BUFFER_SIZE / MSG_LENGTH, 64 in the code
  MaxKey,      \* bound: keys buffered for one application
  MaxClick,    \* bound: clicks buffered for one application
  MaxTick,     \* bound: timer clicks
  Async,       \* may an interrupt come while the server is working?
  NoMenu       \* may there be no application with a menu?

Motion == {"MU_M1", "MU_M2"}
Event  == Motion \cup {"MU_MESAG", "MU_BUTTON", "MU_KEYBD", "MU_TIMER", "MU_MENU_BAR"}
Area   == [leave : BOOLEAN, r : SUBSET Pos]
EventIn == [events : SUBSET Event, MU_M1 : Area, MU_M2 : Area,
            any : BOOLEAN, bmask : SUBSET Button, bstate : SUBSET Button,
            count : Nat]

\* 0xffffffff in the code: later than any timer event.
MAX_TIMER_COUNT == MaxTick + 1

ASSUME ApplAssumption == IsFiniteSet(Apid) /\ Apid # {} /\ TOP_APPL \notin Apid
ASSUME RequestAssumption == Request \subseteq EventIn
ASSUME ScreenAssumption == Pos # {} /\ MenuBar \subseteq Pos /\ ClickOwner \subseteq [Pos -> Apid]
ASSUME BoundAssumption ==
  {MaxMessage, MaxKey, MaxClick, MaxTick} \subseteq Nat /\ MaxMessage > 0
ASSUME ModeAssumption == {Async, NoMenu} \subseteq BOOLEAN

VARIABLES
  pc,                \* where the loop of the server is
  pos_new, pos_last, \* x_new, y_new and x_last, y_last
  buttons_new, buttons_last,
  timer_counter, next_timer_event,
  timer_event,       \* APPL_LIST.timer_event
  waiting,           \* the list waiting_appl (is_waiting of its entries)
  call,              \* the calls of evnt_multi() not answered yet (par)
  messages,          \* AP_INFO.message_size / MSG_LENGTH
  clicks,            \* APPL_LIST.mouse_size
  keys,              \* APPL_LIST.key_size
  ap_pri,            \* the applications, the topped one first
  menu,              \* the applications whose AP_INFO.menu is set
  click_owner        \* srv_click_owner(): who owns a position

input  == <<pos_new, pos_last, buttons_new, buttons_last>>
timer  == <<timer_counter, next_timer_event, timer_event>>
buffer == <<messages, clicks, keys>>
list   == <<waiting, call>>
screen == <<ap_pri, menu, click_owner>>
vars == <<pc, input, timer, buffer, list, screen>>

TypeOK ==
  /\ pc \in {"get", "motion", "buttons", "keys", "timer"}
  /\ {pos_new, pos_last} \subseteq Pos
  /\ {buttons_new, buttons_last} \subseteq SUBSET Button
  /\ timer_counter \in 0..MaxTick
  /\ next_timer_event \in 0..MAX_TIMER_COUNT
  /\ timer_event \in [Apid -> 0..MaxTick]
  /\ waiting \subseteq Apid
  /\ call \in UNION {[S -> Request] : S \in SUBSET Apid}
  /\ messages \in [Apid -> 0..MaxMessage]
  /\ clicks \in [Apid -> Nat] /\ keys \in [Apid -> Nat]
  /\ ap_pri \in Seq(Apid) /\ ap_pri # <<>>
  /\ menu \subseteq Apid
  /\ click_owner \in ClickOwner

Init ==
  /\ pc = "get"
  /\ \E p \in Pos : pos_new = p /\ pos_last = p
  /\ buttons_new = {} /\ buttons_last = {}
  /\ timer_counter = 0
  /\ next_timer_event = MAX_TIMER_COUNT
  /\ timer_event = [a \in Apid |-> 0]
  /\ waiting = {} /\ call = [a \in {} |-> 0]
  /\ messages = [a \in Apid |-> 0]
  /\ clicks = [a \in Apid |-> 0]
  /\ keys = [a \in Apid |-> 0]
  /\ ap_pri \in {s \in [1..Cardinality(Apid) -> Apid] :
                  \A a \in Apid : \E i \in DOMAIN s : s[i] = a}
  /\ menu = IF NoMenu THEN {} ELSE {ap_pri[1]}
  /\ click_owner \in ClickOwner

-----------------------------------------------------------------------------
(* The interrupts.                                                         *)

Interrupt == (pc = "get" \/ Async) /\ UNCHANGED <<pc, buffer, list, screen>>

catch_mouse_motion(p) ==
  /\ Interrupt
  /\ p # pos_new
  /\ pos_new' = p
  /\ UNCHANGED <<pos_last, buttons_new, buttons_last, timer>>

catch_mouse_buttons(b) ==
  /\ Interrupt
  /\ b # buttons_new
  /\ \A a \in Apid : clicks[a] < MaxClick
  /\ buttons_new' = b
  /\ UNCHANGED <<pos_new, pos_last, buttons_last, timer>>

catch_timer_click ==
  /\ Interrupt
  /\ timer_counter < MaxTick
  /\ timer_counter' = timer_counter + 1
  /\ UNCHANGED <<input, next_timer_event, timer_event>>

-----------------------------------------------------------------------------
(* The checks: which events are there for application a, which asks with   *)
(* the call req?                                                           *)

check_for_messages(a, req) ==
  {e \in {"MU_MESAG"} \cap req.events : messages[a] > 0}

ButtonStateMatches(req) ==
  IF req.any THEN req.bmask \cap buttons_last # {}
             ELSE req.bmask \cap buttons_last = req.bstate

\* A buffered click is returned whether it was asked for or not.
check_mouse_buttons(a, req) ==
  {e \in {"MU_BUTTON"} :
     \/ clicks[a] > 0
     \/ /\ e \in req.events
        /\ click_owner[pos_last] = a
        /\ ButtonStateMatches(req)}

\* The first application of a list s that has a menu; -1 if none has.
get_top_menu_owner(s, m) ==
  IF \E i \in DOMAIN s : s[i] \in m
  THEN s[CHOOSE i \in DOMAIN s : s[i] \in m /\ \A j \in 1..(i - 1) : s[j] \notin m]
  ELSE TOP_APPL

check_mouse_motion(a, req, p) ==
  {e \in Motion \cap req.events : (p \in req[e].r) # req[e].leave}
  \cup {e \in {"MU_MENU_BAR"} \cap req.events :
          a = get_top_menu_owner(ap_pri, menu) /\ p \in MenuBar}

check_keys(a, req) == {e \in {"MU_KEYBD"} \cap req.events : keys[a] > 0}

check_timer(a, req) ==
  {e \in {"MU_TIMER"} \cap req.events : timer_event[a] <= timer_counter}

-----------------------------------------------------------------------------
(* Answering.  Five places of the code do both of this for every waiting   *)
(* application a that has events, ev[a] # {}; it is written once here.     *)

SRV_REPLY(answered) == call' = [a \in DOMAIN call \ answered |-> call[a]]
dequeue_appl(answered) == waiting' = waiting \ answered

Wake(ev) ==
  LET answered == {a \in waiting : ev[a] # {}}
  IN  SRV_REPLY(answered) /\ dequeue_appl(answered)

\* f with n less at a.
Less(f, a, n) == [f EXCEPT ![a] = @ - n]

Count(e, events) == IF e \in events THEN 1 ELSE 0

-----------------------------------------------------------------------------
(* The calls.  The server takes one, then looks for news.                  *)

Running(a) == pc = "get" /\ a \notin DOMAIN call /\ pc' = "motion"

\* Mutant: the next timer event is not brought forward.
WaitForgetsTimer(a, req) ==
  /\ Running(a)
  /\ timer_counter + req.count < MaxTick
  /\ timer_event' = [timer_event EXCEPT ![a] = timer_counter + req.count]
  /\ waiting' = waiting \cup {a}
  /\ call' = [b \in DOMAIN call \cup {a} |-> IF b = a THEN req ELSE call[b]]
  /\ UNCHANGED <<input, timer_counter, next_timer_event, buffer, screen>>

srv_wait_for_event(a, req) ==
  LET events == check_for_messages(a, req) \cup check_mouse_buttons(a, req)
                \cup check_keys(a, req) \cup check_mouse_motion(a, req, pos_new)
      due    == timer_counter + req.count
  IN
  /\ Running(a)
  /\ messages' = Less(messages, a, Count("MU_MESAG", events))
  /\ clicks' = Less(clicks, a, IF clicks[a] > 0 THEN 1 ELSE 0)
  /\ keys' = Less(keys, a, Count("MU_KEYBD", events))
  /\ IF "MU_TIMER" \in req.events
     THEN /\ due < MaxTick
          /\ timer_event' = [timer_event EXCEPT ![a] = due]
          /\ next_timer_event' = IF due < next_timer_event THEN due
                                                           ELSE next_timer_event
     ELSE UNCHANGED <<timer_event, next_timer_event>>
  /\ \/ /\ events = {}
        /\ waiting' = waiting \cup {a}
        /\ call' = [b \in DOMAIN call \cup {a} |-> IF b = a THEN req ELSE call[b]]
     \/ /\ events # {}
        /\ UNCHANGED <<waiting, call>>
  /\ UNCHANGED <<input, timer_counter, screen>>

\* Mutant: nobody is woken.
DeliverOnly(addr, s) ==
  LET to == IF addr = TOP_APPL THEN s[1] ELSE addr IN
  /\ messages[to] < MaxMessage
  /\ messages' = [messages EXCEPT ![to] = @ + 1]
  /\ UNCHANGED <<input, timer, clicks, keys, list>>

\* srv_appl_write(): the message goes to the application that addr stands for
\* in the list s, or is dropped if its buffer is full; then
\* srv_wake_appl_if_waiting_for_msg(addr).  No entry of the waiting list has
\* the index -1.
Deliver(addr, s) ==
  LET to    == IF addr = TOP_APPL THEN s[1] ELSE addr
      fits  == messages[to] < MaxMessage
      woken == {a \in waiting : fits /\ a = addr /\ "MU_MESAG" \in call[a].events}
  IN
  /\ messages' = [messages EXCEPT ![to] = IF fits /\ woken = {} THEN @ + 1 ELSE @]
  /\ Wake([a \in Apid |-> IF a \in woken THEN {"MU_MESAG"} ELSE {}])
  /\ UNCHANGED <<input, timer, clicks, keys>>

srv_appl_write(a, addr) ==
  /\ Running(a)
  /\ Deliver(addr, ap_pri)
  /\ UNCHANGED screen

redraw_menu_bar(s, m) == Deliver(get_top_menu_owner(s, m), s)

ToFront(s, k) ==
  [i \in DOMAIN s |-> IF i = 1 THEN s[k] ELSE IF i <= k THEN s[i - 1] ELSE s[i]]

\* srv_appl_control() with APC_TOP or APC_TOPNEXT for the application at k,
\* which is not the topped one and has no window to be topped with it.
top_appl(a, k) ==
  /\ Running(a)
  /\ ap_pri' = ToFront(ap_pri, k)
  /\ redraw_menu_bar(ap_pri', menu)
  /\ UNCHANGED <<menu, click_owner>>

menu_bar_install(a) ==
  /\ Running(a)
  /\ menu' = menu \cup {a}
  /\ IF get_top_menu_owner(ap_pri, menu') = a
     THEN redraw_menu_bar(ap_pri, menu')
     ELSE UNCHANGED <<input, timer, buffer, list>>
  /\ UNCHANGED <<ap_pri, click_owner>>

menu_bar_remove(a) ==
  /\ Running(a)
  /\ menu' = menu \ {a}
  /\ NoMenu \/ menu' # {}
  /\ redraw_menu_bar(ap_pri, menu')
  /\ UNCHANGED <<ap_pri, click_owner>>

\* A call of a window or of wind_update(BEG_MCTRL): from now on other
\* applications are clicked.
ChangeClickOwner(a) ==
  /\ Running(a)
  /\ click_owner' \in ClickOwner
  /\ UNCHANGED <<input, timer, buffer, list, ap_pri, menu>>

\* SRV_GET timed out, or the call has nothing to do with events.
NoCall ==
  /\ pc = "get"
  /\ pc' = "motion"
  /\ UNCHANGED <<input, timer, buffer, list, screen>>

-----------------------------------------------------------------------------
(* srv_handle_events().  Where an interrupt can come in the middle of a    *)
(* handler, the handler chooses what the interrupt has left: late.         *)

\* The values of a variable that an interrupt sets, at the end of a handler.
Late(value, S) == IF Async THEN S ELSE {value}

\* Mutant: the areas are compared with the coordinates before the motion.
MotionStale ==
  /\ pc = "motion"
  /\ pc' = "buttons"
  /\ Wake([a \in Apid |-> IF a \in waiting THEN check_mouse_motion(a, call[a], pos_last) ELSE {}])
  /\ pos_last' = pos_new
  /\ UNCHANGED <<pos_new, buttons_new, buttons_last, timer, buffer, screen>>

handle_mouse_motion ==
  /\ pc = "motion"
  /\ pc' = "buttons"
  /\ IF pos_new = pos_last
     THEN UNCHANGED <<pos_new, pos_last, list>>
     ELSE \E late \in Late(pos_new, Pos), seen \in SUBSET waiting :
            /\ Wake([a \in Apid |->
                 IF a \in waiting
                 THEN check_mouse_motion(a, call[a], IF a \in seen THEN late ELSE pos_new)
                 ELSE {}])
            /\ pos_new' = late
            /\ pos_last' = late
  /\ UNCHANGED <<buttons_new, buttons_last, timer, buffer, screen>>

handle_mouse_buttons ==
  /\ pc = "buttons"
  /\ pc' = "keys"
  /\ IF buttons_new = buttons_last
     THEN UNCHANGED <<buttons_new, buttons_last, clicks, list>>
     ELSE LET owner == click_owner[pos_last] IN
          /\ \E late \in Late(buttons_new, SUBSET Button) :
               buttons_new' = late /\ buttons_last' = late
          /\ clicks' = IF owner \in waiting THEN clicks
                       ELSE [clicks EXCEPT ![owner] = @ + 1]
          /\ Wake([a \in Apid |-> IF a = owner THEN {"MU_BUTTON"} ELSE {}])
  /\ UNCHANGED <<pos_new, pos_last, timer, messages, keys, screen>>

\* Mutant: the application is woken by one key only.
KeysNotWaking(n) ==
  LET topped == ap_pri[1] IN
  /\ pc = "keys"
  /\ pc' = "timer"
  /\ keys[topped] + n <= MaxKey
  /\ keys' = [keys EXCEPT ![topped] = @ + n]
  /\ UNCHANGED <<input, timer, messages, clicks, screen, list>>

\* srv_update_keys() found n keys.
handle_keys(n) ==
  LET topped == ap_pri[1]
      ready  == topped \in waiting /\ n > 0 /\ "MU_KEYBD" \in call[topped].events
  IN
  /\ pc = "keys"
  /\ pc' = "timer"
  /\ keys[topped] + n <= MaxKey
  /\ keys' = [keys EXCEPT ![topped] = @ + n - (IF ready THEN 1 ELSE 0)]
  /\ Wake([a \in Apid |-> IF a = topped /\ ready THEN {"MU_KEYBD"} ELSE {}])
  /\ UNCHANGED <<input, timer, messages, clicks, screen>>

\* Mutant: the next event is forgotten when one has come.
NextNever(S) == MAX_TIMER_COUNT

\* The earliest timer event of the applications that go on waiting, asked for
\* or left from an earlier call.
NextAfter(S) ==
  CHOOSE t \in 0..MAX_TIMER_COUNT :
    /\ \A a \in S : t <= timer_event[a]
    /\ t = MAX_TIMER_COUNT \/ \E a \in S : t = timer_event[a]

handle_timer ==
  /\ pc = "timer"
  /\ pc' = "get"
  /\ IF timer_counter > next_timer_event
     THEN LET ev == [a \in Apid |-> IF a \in waiting THEN check_timer(a, call[a]) ELSE {}]
          IN /\ Wake(ev)
             /\ next_timer_event' = NextAfter({a \in waiting : ev[a] = {}})
     ELSE UNCHANGED <<next_timer_event, list>>
  /\ UNCHANGED <<input, timer_counter, timer_event, buffer, screen>>

-----------------------------------------------------------------------------
Call ==
  \E a \in Apid :
    \/ \E req \in Request : srv_wait_for_event(a, req)
    \/ \E b \in Apid : srv_appl_write(a, b)
    \/ \E k \in DOMAIN ap_pri \ {1} : top_appl(a, k)
    \/ menu_bar_install(a) \/ menu_bar_remove(a) \/ ChangeClickOwner(a)

srv_handle_events ==
  \/ handle_mouse_motion
  \/ handle_mouse_buttons
  \/ \E n \in 0..MaxKey : handle_keys(n)
  \/ handle_timer

Next ==
  \/ \E p \in Pos : catch_mouse_motion(p)
  \/ \E b \in SUBSET Button : catch_mouse_buttons(b)
  \/ catch_timer_click
  \/ Call \/ NoCall
  \/ srv_handle_events

Spec == Init /\ [][Next]_vars

\* The timer interrupt goes on whatever the server does (strong fairness, as
\* without Async it only comes at one place of the loop), and the server goes
\* round its loop.
Fairness ==
  /\ SF_vars(catch_timer_click)
  /\ WF_vars(NoCall)
  /\ WF_vars(srv_handle_events)

FairSpec == Spec /\ Fairness

-----------------------------------------------------------------------------
(* Properties                                                              *)

\* No application waits for a message while there is one in its buffer: the
\* check and the queueing in srv_wait_for_event() and the wake-up in
\* srv_appl_write() leave no gap.  ("Wake an application if it's waiting for
\* a message", srv_event.c:271.)
NoUnreadMessage ==
  \A a \in waiting : "MU_MESAG" \in call[a].events => messages[a] = 0

\* No application waits for keys while there is one in its buffer, whatever
\* the topped application was when the key came, and none waits at all while
\* it has a click.
NoUnreadInput ==
  \A a \in waiting : /\ clicks[a] = 0
                     /\ "MU_KEYBD" \in call[a].events => keys[a] = 0

\* When the news have been handled, no application waits for the mouse to be
\* where it is: the call "will be returned later by handle_events() when an
\* event is available" (srv_event.h:35).
MotionReported ==
  pc = "get" /\ pos_new = pos_last =>
    \A a \in waiting : check_mouse_motion(a, call[a], pos_new) \cap Motion = {}

\* The shortcut of handle_timer() is right: no application waits for a timer
\* event that is earlier than the one the server looks out for, also after
\* answers for other reasons, with stale timer events in the list.
NextTimerIsEarliest ==
  \A a \in waiting :
    "MU_TIMER" \in call[a].events => next_timer_event <= timer_event[a]

\* An application that waits for its timer is answered, although the server
\* only walks the list when the earliest timer event has passed.
TimerFires ==
  \A a \in Apid :
    (a \in waiting /\ "MU_TIMER" \in call[a].events) ~> a \notin waiting
=============================================================================
