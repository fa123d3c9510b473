------------------------------ MODULE WaitList ------------------------------
(***************************************************************************)
(* The list of the applications that wait for events (srv_event.c): one    *)
(* entry for every application id, doubly linked, first entry              *)
(* waiting_appl.  An entry leaves the list when its application gets an    *)
(* event, found by its id (message, click, key) or by walking the list     *)
(* (motion, timer).  Nothing takes it out when the application is killed.  *)
(***************************************************************************)
EXTENDS Naturals, FiniteSets

CONSTANTS
  Client,      \* connections, each with its process
  Apid,        \* application ids
  Nil,         \* APPL_LIST_REF_NIL, no id, no connection
  KillWaiting  \* may an application be killed while it waits?

ASSUME NilAssumption == Nil \notin Apid \cup Client

VARIABLES
  waiting_appl,  \* the first entry
  next, prev,    \* the links of each entry
  is_waiting,    \* the entries that are marked as waiting
  handle,        \* whom to answer
  walk,          \* the entry a walk looks at next; Nil if no walk is on
  apid,          \* the id of each client
  pc,            \* what the client's process is doing
  stray          \* history: clients that were answered without a call

links == <<waiting_appl, next, prev, is_waiting>>
vars  == <<links, handle, walk, apid, pc, stray>>

Init ==
  /\ waiting_appl = Nil /\ walk = Nil
  /\ next = [a \in Apid |-> Nil] /\ prev = [a \in Apid |-> Nil]
  /\ is_waiting = {} /\ stray = {}
  /\ handle = [a \in Apid |-> Nil]
  /\ apid = [c \in Client |-> Nil]
  /\ pc = [c \in Client |-> "outside"]

-----------------------------------------------------------------------------
(* Applications come and go.  The server is not walking the list.          *)

srv_appl_init(c) ==
  /\ walk = Nil
  /\ pc[c] = "outside"
  /\ \E a \in Apid :
       /\ \A d \in Client : apid[d] # a
       /\ apid' = [apid EXCEPT ![c] = a]
  /\ pc' = [pc EXCEPT ![c] = "running"]
  /\ UNCHANGED <<links, handle, walk, stray>>

\* appl_exit(), or APC_KILL by another application: the id is free again.
Exit(c, state) ==
  /\ walk = Nil
  /\ apid' = [apid EXCEPT ![c] = Nil]
  /\ pc' = [pc EXCEPT ![c] = state]
  /\ UNCHANGED <<links, handle, walk, stray>>

srv_appl_exit(c) == pc[c] = "running" /\ Exit(c, "outside")

APC_KILL(c) ==
  /\ \E d \in Client \ {c} : pc[d] = "running"
  /\ pc[c] = "running" \/ (KillWaiting /\ pc[c] = "blocked")
  /\ Exit(c, "killed")

-----------------------------------------------------------------------------
(* queue_appl() and dequeue_appl()                                         *)

\* Mutant: the link back to the new first entry is not set.
QueueForward(c) ==
  LET this == apid[c] IN
  /\ walk = Nil
  /\ pc[c] = "running"
  /\ pc' = [pc EXCEPT ![c] = "blocked"]
  /\ is_waiting' = is_waiting \cup {this}
  /\ handle' = [handle EXCEPT ![this] = c]
  /\ next' = [next EXCEPT ![this] = waiting_appl]
  /\ waiting_appl' = this
  /\ UNCHANGED <<prev, walk, apid, stray>>

\* The application becomes the first entry.  Its own links are written
\* first, then the one back from the entry that was the first.
queue_appl(c) ==
  LET this == apid[c] IN
  /\ walk = Nil
  /\ pc[c] = "running"
  /\ pc' = [pc EXCEPT ![c] = "blocked"]
  /\ is_waiting' = is_waiting \cup {this}
  /\ handle' = [handle EXCEPT ![this] = c]
  /\ next' = [next EXCEPT ![this] = waiting_appl]
  /\ prev' = [a \in Apid |-> IF a = waiting_appl THEN this
                             ELSE IF a = this THEN Nil ELSE prev[a]]
  /\ waiting_appl' = this
  /\ UNCHANGED <<walk, apid, stray>>

\* Mutants: only the mark is taken away; the mark stays.
DequeueMarkOnly(this) ==
  /\ is_waiting' = is_waiting \ {this}
  /\ UNCHANGED <<waiting_appl, next, prev>>
DequeueMarked(this) ==
  /\ next' = [a \in Apid |-> IF a = this THEN Nil
                             ELSE IF a = prev[this] THEN next[this] ELSE next[a]]
  /\ prev' = [a \in Apid |-> IF a = this THEN Nil
                             ELSE IF a = next[this] THEN prev[this] ELSE prev[a]]
  /\ waiting_appl' = IF waiting_appl = this THEN next[this] ELSE waiting_appl
  /\ UNCHANGED is_waiting

dequeue_appl(this) ==
  /\ is_waiting' = is_waiting \ {this}
  /\ next' = [a \in Apid |-> IF a = this THEN Nil
                             ELSE IF a = prev[this] THEN next[this] ELSE next[a]]
  /\ prev' = [a \in Apid |-> IF a = this THEN Nil
                             ELSE IF a = next[this] THEN prev[this] ELSE prev[a]]
  /\ waiting_appl' = IF prev[this] = Nil /\ waiting_appl = this
                     THEN next[this] ELSE waiting_appl

\* SRV_REPLY to the handle of the entry, then dequeue_appl().
Answer(this) ==
  LET c == handle[this] IN
  /\ pc' = [d \in Client |-> IF d = c /\ pc[d] = "blocked" THEN "running" ELSE pc[d]]
  /\ stray' = IF c \in Client /\ pc[c] \in {"running", "outside"} THEN stray \cup {c} ELSE stray
  /\ dequeue_appl(this)

\* A message, a click or a key for an application that is marked as waiting.
AnswerById(a) ==
  /\ walk = Nil
  /\ a \in is_waiting
  /\ Answer(a)
  /\ UNCHANGED <<handle, walk, apid>>

\* handle_mouse_motion() or handle_timer() starts to walk the list.
StartWalk ==
  /\ walk = Nil
  /\ waiting_appl # Nil
  /\ walk' = waiting_appl
  /\ UNCHANGED <<links, handle, apid, pc, stray>>

\* One round of the walk: the next entry is remembered, then this one is
\* answered if the event is for it.
WalkOn ==
  /\ walk # Nil
  /\ walk' = next[walk]
  /\ \/ UNCHANGED <<links, pc, stray>>
     \/ Answer(walk)
  /\ UNCHANGED <<handle, apid>>

-----------------------------------------------------------------------------
Next ==
  \/ \E c \in Client : srv_appl_init(c) \/ srv_appl_exit(c) \/ APC_KILL(c) \/ queue_appl(c)
  \/ \E a \in Apid : AnswerById(a)
  \/ StartWalk \/ WalkOn

Spec == Init /\ [][Next]_vars

\* A walk that has begun goes on, as a loop does.
Fairness == WF_vars(WalkOn)

-----------------------------------------------------------------------------
(* Properties                                                              *)

(* s names the marked entries one by one, in the order of the links. *)
Links(s, n) ==
  /\ \A a \in is_waiting : \E i \in 1 .. n : s[i] = a
  /\ \A i, j \in 1 .. n : s[i] = s[j] => i = j
  /\ waiting_appl = IF n = 0 THEN Nil ELSE s[1]
  /\ \A i \in 1 .. n : next[s[i]] = IF i = n THEN Nil ELSE s[i + 1]
  /\ \A i \in 1 .. n : prev[s[i]] = IF i = 1 THEN Nil ELSE s[i - 1]

EntriesAreLinked ==
  LET n == Cardinality(is_waiting)
  IN  \E s \in [1 .. n -> is_waiting] : Links(s, n)

BlockedIsListed ==
  \A c \in Client :
    pc[c] = "blocked" => apid[c] \in is_waiting /\ handle[apid[c]] = c

\* The links are a list: it begins at waiting_appl and ends, the links back
\* mirror the links forth, and it holds exactly the entries that are marked as
\* waiting, each once.  A process that is blocked in evnt_multi() has the entry
\* of its own id in it, with its own handle: the event that comes for it finds it.
ListIsWellFormed == EntriesAreLinked /\ BlockedIsListed

\* Nobody is answered who has not called: such an answer would be taken for
\* the answer to the next call.
NoStrayReply == stray = {}

\* Every walk over the list comes to its end, although entries are taken out
\* under it: the server goes back to its clients.
WalkEnds == walk # Nil ~> walk = Nil
=============================================================================
