----------------------------- MODULE WindUpdate -----------------------------
(***************************************************************************)
(* The two screen locks of the server (srv_wind.c): wind_update() takes    *)
(* and returns the update lock (BEG_UPDATE, END_UPDATE) and the mouse lock *)
(* (BEG_MCTRL, END_MCTRL).  A lock is re-entrant; an application that asks *)
(* for a lock another one owns is queued and gets no reply until the lock  *)
(* is handed over to it.  An application leaves by appl_exit() or because  *)
(* another one asks the server to kill it (APC_KILL), at any moment.       *)
(*                                                                         *)
(* A call is one step, as in the device build, where comm_write() runs     *)
(* srv_call() in the caller's context.  A client is a connection           *)
(* (COMM_HANDLE) with the one process behind it; the process is blocked    *)
(* from its call to the reply.                                             *)
(***************************************************************************)
EXTENDS Naturals, Sequences

CONSTANTS
  Client,        \* connections, each with its process
  Apid,          \* application ids, 0 .. MAX_NUM_APPS - 1
  NoApid,        \* the id of a client that is not registered
  NoCall,        \* the call of a client that is not blocked
  MaxNest,       \* bound: how deep a client nests its BEGs of each lock
  KillQueued,    \* may APC_KILL hit an application that is queued?
  LibraryOrder   \* do clients take the locks in the library's order?

Lock == {"UPDATE", "MCTRL"}

ASSUME ApidAssumption == NoApid \notin Apid /\ 0 \in Apid
ASSUME NoCallAssumption == NoCall \notin Lock
\* update_cnt and mouse_cnt are WORDs: 32767 nested calls fit.
ASSUME MaxNestAssumption == MaxNest \in [Lock -> 1..32766]
ASSUME SwitchAssumption == {KillQueued, LibraryOrder} \subseteq BOOLEAN

VARIABLES
  lock,    \* update_lock, mouse_lock: apid of the (last) owner
  cnt,     \* update_cnt, mouse_cnt: how often the owner has to return it
  queue,   \* update_q, mouse_q: LOCK_INFOs waiting for the lock
  apid,    \* the id srv_appl_init() gave to each client
  pc,      \* what the client's process is doing
  wait,    \* the lock a queued process is blocked in the BEG of
  held     \* history: BEGs answered with 1 less ENDs answered with 1

server == <<lock, cnt, queue, apid>>
client == <<pc, wait, held>>
vars   == <<lock, cnt, queue, apid, pc, wait, held>>

LockInfo == [handle : Client, apid : Apid]

TypeOK ==
  /\ lock \in [Lock -> Apid]
  /\ cnt \in [Lock -> Nat]
  /\ queue \in [Lock -> Seq(LockInfo)]
  /\ apid \in [Client -> Apid \cup {NoApid}]
  /\ pc \in [Client -> {"outside", "idle", "queued", "killed"}]
  /\ wait \in [Client -> Lock \cup {NoCall}]
  /\ held \in [Client -> [Lock -> Nat]]

Init ==
  /\ lock = [l \in Lock |-> 0]
  /\ cnt = [l \in Lock |-> 0]
  /\ queue = [l \in Lock |-> <<>>]
  /\ apid = [c \in Client |-> NoApid]
  /\ pc = [c \in Client |-> "outside"]
  /\ wait = [c \in Client |-> NoCall]
  /\ held = [c \in Client |-> [l \in Lock |-> 0]]

-----------------------------------------------------------------------------
(* Registration: srv_appl_init() gives the client an id nobody uses.       *)

srv_appl_init(c) ==
  /\ pc[c] = "outside"
  /\ \E a \in Apid :
       /\ \A d \in Client : apid[d] # a
       /\ apid' = [apid EXCEPT ![c] = a]
  /\ pc' = [pc EXCEPT ![c] = "idle"]
  /\ UNCHANGED <<lock, cnt, queue, wait, held>>

-----------------------------------------------------------------------------
(* get_lock() and return_lock()                                            *)

Owns(c, l) == cnt[l] > 0 /\ lock[l] = apid[c]

\* The ledger of a client after an END the server answered with 1.  It can
\* get that answer for a lock it never began, after an entry with its id was
\* granted that another application left in the queue.
Ended(n) == IF n = 0 THEN 0 ELSE n - 1

\* Mutant: a library function takes MCTRL while it is inside UPDATE.
BeginInAnyOrder(c, l) == pc[c] = "idle" /\ held[c][l] < MaxNest[l]

\* What the callers of the library do: a nested BEG of a lock one owns is
\* always allowed, a first BEG of MCTRL comes before any BEG of UPDATE.
MayBegin(c, l) ==
  /\ pc[c] = "idle"
  /\ held[c][l] < MaxNest[l]
  /\ (LibraryOrder /\ l = "MCTRL" /\ held[c][l] = 0) => held[c]["UPDATE"] = 0

\* Mutant: the count is not increased.
ReenterUncounted(c, l) ==
  /\ MayBegin(c, l)
  /\ Owns(c, l)
  /\ held' = [held EXCEPT ![c][l] = @ + 1]
  /\ UNCHANGED <<lock, cnt, queue, apid, pc, wait>>

\* get_lock(): the owner enters again.
Reenter(c, l) ==
  /\ MayBegin(c, l)
  /\ Owns(c, l)
  /\ cnt' = [cnt EXCEPT ![l] = @ + 1]
  /\ held' = [held EXCEPT ![c][l] = @ + 1]
  /\ UNCHANGED <<lock, queue, apid, pc, wait>>

\* get_lock(): the lock is free.
Acquire(c, l) ==
  /\ MayBegin(c, l)
  /\ cnt[l] = 0
  /\ lock' = [lock EXCEPT ![l] = apid[c]]
  /\ cnt' = [cnt EXCEPT ![l] = 1]
  /\ held' = [held EXCEPT ![c][l] = @ + 1]
  /\ UNCHANGED <<queue, apid, pc, wait>>

\* Mutants: the entry gets the owner's id; the entry goes first.
EnqueueAs(c, l, q) ==
  /\ MayBegin(c, l)
  /\ cnt[l] > 0
  /\ lock[l] # apid[c]
  /\ queue' = [queue EXCEPT ![l] = q]
  /\ pc' = [pc EXCEPT ![c] = "queued"]
  /\ wait' = [wait EXCEPT ![c] = l]
  /\ UNCHANGED <<lock, cnt, apid, held>>
EnqueueWrongId(c, l) ==
  EnqueueAs(c, l, Append(queue[l], [handle |-> c, apid |-> lock[l]]))
EnqueueFirst(c, l) ==
  EnqueueAs(c, l, <<[handle |-> c, apid |-> apid[c]]>> \o queue[l])

\* get_lock(): another application owns the lock; queue the caller and do
\* not reply.  The mode BEG | 0x100 runs the same code.
Enqueue(c, l) ==
  /\ MayBegin(c, l)
  /\ cnt[l] > 0
  /\ lock[l] # apid[c]
  /\ queue' = [queue EXCEPT ![l] = Append(@, [handle |-> c, apid |-> apid[c]])]
  /\ pc' = [pc EXCEPT ![c] = "queued"]
  /\ wait' = [wait EXCEPT ![c] = l]
  /\ UNCHANGED <<lock, cnt, apid, held>>

\* Mutants: the heir is told it is inside but the count stays 0; the heir is
\* served but not popped.
HandOverAs(S, n, Rest(_)) ==
  LET Wanted == {l \in S : queue[l] # <<>>} IN
  /\ lock' = [l \in Lock |-> IF l \in Wanted THEN Head(queue[l]).apid ELSE lock[l]]
  /\ cnt' = [l \in Lock |-> IF l \in Wanted THEN n
                            ELSE IF l \in S THEN 0 ELSE cnt[l]]
  /\ queue' = [l \in Lock |-> IF l \in Wanted THEN Rest(queue[l]) ELSE queue[l]]
HandOverUncounted(S) == HandOverAs(S, 0, Tail)
HandOverPeek(S) == HandOverAs(S, 1, LAMBDA q : q)

\* The tail of return_lock() for the locks S whose count has reached 0:
\* each goes to the first application in its queue.
HandOver(S) ==
  LET Wanted == {l \in S : queue[l] # <<>>} IN
  /\ lock' = [l \in Lock |-> IF l \in Wanted THEN Head(queue[l]).apid ELSE lock[l]]
  /\ cnt' = [l \in Lock |-> IF l \in Wanted THEN 1
                            ELSE IF l \in S THEN 0 ELSE cnt[l]]
  /\ queue' = [l \in Lock |-> IF l \in Wanted THEN Tail(queue[l]) ELSE queue[l]]

\* HandOver(S) replies to client c for lock l.
Heir(S, l, c) ==
  /\ l \in S
  /\ queue[l] # <<>>
  /\ Head(queue[l]).handle = c

\* The clients after HandOver(S), where p, w and h are pc, wait and held once
\* the caller itself is done.  Nobody reads a reply to a killed process.
ReplyToHeirs(S, p, w, h) ==
  LET Answered(c, l) == p[c] = "queued" /\ Heir(S, l, c)
      Woken == {c \in Client : \E l \in Lock : Answered(c, l)}
  IN
  /\ pc' = [c \in Client |-> IF c \in Woken THEN "idle" ELSE p[c]]
  /\ wait' = [c \in Client |-> IF c \in Woken THEN NoCall ELSE w[c]]
  /\ held' = [c \in Client |-> [l \in Lock |->
                IF Answered(c, l) THEN h[c][l] + 1 ELSE h[c][l]]]

\* Mutant: the last END is treated as an inner one; nobody is handed the lock.
ReturnAlways(c, l) ==
  /\ pc[c] = "idle"
  /\ Owns(c, l)
  /\ cnt' = [cnt EXCEPT ![l] = @ - 1]
  /\ held' = [held EXCEPT ![c][l] = Ended(@)]
  /\ UNCHANGED <<lock, queue, apid, pc, wait>>

\* return_lock(): an inner END.
Return(c, l) ==
  /\ pc[c] = "idle"
  /\ Owns(c, l)
  /\ cnt[l] > 1
  /\ cnt' = [cnt EXCEPT ![l] = @ - 1]
  /\ held' = [held EXCEPT ![c][l] = Ended(@)]
  /\ UNCHANGED <<lock, queue, apid, pc, wait>>

\* return_lock(): the last END hands the lock over.
Release(c, l) ==
  /\ pc[c] = "idle"
  /\ Owns(c, l)
  /\ cnt[l] = 1
  /\ HandOver({l})
  /\ ReplyToHeirs({l}, pc, wait, [held EXCEPT ![c][l] = Ended(@)])
  /\ UNCHANGED apid

\* return_lock(): an END of a lock one does not own is answered with 0.
Refuse(c, l) ==
  /\ pc[c] = "idle"
  /\ ~ Owns(c, l)
  /\ UNCHANGED vars

-----------------------------------------------------------------------------
(* srv_appl_exit(): srv_wind_update_clear() returns the locks the          *)
(* application owns, whatever their count, and apinfofree() frees the id.  *)

\* Mutant: only the update lock is returned.
ExitKeepsMctrl(c, state) ==
  LET Owned == {l \in {"UPDATE"} : Owns(c, l)} IN
  /\ HandOver(Owned)
  /\ ReplyToHeirs(Owned,
                  [pc EXCEPT ![c] = state],
                  [wait EXCEPT ![c] = NoCall],
                  [held EXCEPT ![c] = [l \in Lock |-> 0]])
  /\ apid' = [apid EXCEPT ![c] = NoApid]

Exit(c, state) ==
  LET Owned == {l \in Lock : Owns(c, l)} IN
  /\ HandOver(Owned)
  /\ ReplyToHeirs(Owned,
                  [pc EXCEPT ![c] = state],
                  [wait EXCEPT ![c] = NoCall],
                  [held EXCEPT ![c] = [l \in Lock |-> 0]])
  /\ apid' = [apid EXCEPT ![c] = NoApid]

srv_appl_exit(c) ==
  /\ pc[c] = "idle"
  /\ Exit(c, "outside")

\* srv_appl_control() with APC_KILL: Pkill() the process, then srv_appl_exit()
\* on its behalf.  The caller is another client that is not blocked.
APC_KILL(c) ==
  /\ \E d \in Client \ {c} : pc[d] = "idle"
  /\ pc[c] = "idle" \/ (KillQueued /\ pc[c] = "queued")
  /\ Exit(c, "killed")

-----------------------------------------------------------------------------
Next ==
  \/ \E c \in Client : srv_appl_init(c) \/ srv_appl_exit(c) \/ APC_KILL(c)
  \/ \E c \in Client, l \in Lock :
       \/ Reenter(c, l) \/ Acquire(c, l) \/ Enqueue(c, l)
       \/ Return(c, l) \/ Release(c, l) \/ Refuse(c, l)

Spec == Init /\ [][Next]_vars

\* A client that is at depth n of a lock ends that section some day, however
\* many other sections it opens and ends before: every BEG of the library
\* has its END on every path.
EndAtDepth(c, l, n) == cnt[l] = n /\ (Return(c, l) \/ Release(c, l))

Fairness ==
  \A c \in Client, l \in Lock : \A n \in 1..MaxNest[l] : SF_vars(EndAtDepth(c, l, n))

FairSpec == Spec /\ Fairness

-----------------------------------------------------------------------------
(* Properties                                                              *)

\* No two applications are inside the same lock at once: what wind_update()
\* is for, whatever exits and kills happen (get_lock, return_lock).
MutualExclusion ==
  \A l \in Lock, c, d \in Client :
    held[c][l] > 0 /\ held[d][l] > 0 => c = d

\* The server agrees with what the clients were told: a client that was
\* answered 1 to more BEGs than ENDs is the owner, and the count covers its
\* open sections.  The count is exact unless an application was killed in
\* the queue: its entry can be granted under an id that is in use again.
LedgerAgrees ==
  \A c \in Client, l \in Lock :
    held[c][l] > 0 => /\ Owns(c, l)
                      /\ held[c][l] <= cnt[l]
                      /\ ~ KillQueued => held[c][l] = cnt[l]

\* return_lock() never leaves a free lock with someone waiting for it.
NoIdleLock == \A l \in Lock : cnt[l] = 0 => queue[l] = <<>>

\* A process that got no reply is in the queue of the lock it asked for,
\* under its own id, exactly once and in no other queue: otherwise the
\* hand-over would never reply to it, or would reply to a later call.
BlockedIsQueuedOnce ==
  \A c \in Client : pc[c] = "queued" =>
    \E i \in DOMAIN queue[wait[c]] :
      /\ queue[wait[c]][i] = [handle |-> c, apid |-> apid[c]]
      /\ \A l \in Lock : \A j \in DOMAIN queue[l] :
           queue[l][j].handle = c => l = wait[c] /\ j = i

\* The reverse: an entry of a queue belongs to a process that is blocked in
\* that very call, or was killed while it was.
QueuedIsBlocked ==
  \A l \in Lock : \A i \in DOMAIN queue[l] :
    LET c == queue[l][i].handle IN
    \/ pc[c] = "killed"
    \/ pc[c] = "queued" /\ wait[c] = l /\ apid[c] = queue[l][i].apid

\* A lock that is taken is owned by a registered application:
\* srv_wind_update_clear() exists to "free locks that an exited application
\* has" (srv_wind.c:959).  It does not when the application is queued.
OwnerIsRegistered ==
  \A l \in Lock : cnt[l] > 0 => \E c \in Client : apid[c] = lock[l]

Before(c, d, l) ==
  \E i, j \in DOMAIN queue[l] :
    i < j /\ queue[l][i].handle = c /\ queue[l][j].handle = d

Blocked(c, l) == pc[c] = "queued" /\ wait[c] = l

\* First come, first served: who comes to wait is queued behind everybody who
\* waits already, and a step that gives a lock to a waiting client leaves no
\* client waiting that was queued before it.
ServedInOrder ==
  \A l \in Lock, c, d \in Client :
    Blocked(c, l) /\ Blocked(c, l)' =>
      /\ ~ Blocked(d, l) /\ Blocked(d, l)' => Before(c, d, l)'
      /\ Before(c, d, l) => held'[d][l] <= held[d][l]
NoOvertaking == [][ServedInOrder]_vars

\* Every application that waits for a lock gets it (or is killed): the lock
\* order of the library (MCTRL before UPDATE) excludes a deadlock.
EveryWaiterIsServed ==
  \A c \in Client : pc[c] = "queued" ~> pc[c] # "queued"
-----------------------------------------------------------------------------
(* Each lock implements the abstract one, as long as no application is     *)
(* killed in a queue: the owner is inside as deep as the count says, and   *)
(* the handles of the queue are the line.                                  *)

Depth(l) == [c \in Client |-> IF Owns(c, l) THEN cnt[l] ELSE 0]
Line(l)  == [i \in DOMAIN queue[l] |-> queue[l][i].handle]

UpdateLock == INSTANCE ReentrantLock WITH
                depth <- Depth("UPDATE"), waiting <- Line("UPDATE")
MctrlLock  == INSTANCE ReentrantLock WITH
                depth <- Depth("MCTRL"), waiting <- Line("MCTRL")

\* get_lock() and return_lock() on update_lock, update_cnt and update_q are a
\* re-entrant first-come-first-served lock, and so they are on mouse_lock,
\* mouse_cnt and mouse_q, whatever the same call does to the other lock.
LocksAreReentrant == UpdateLock!LockSpec /\ MctrlLock!LockSpec
=============================================================================
