-------------------------- MODULE WindUpdateProofs --------------------------
(***************************************************************************)
(* The safety of the screen locks, for every number of clients and ids,    *)
(* and that each of them implements a reentrant lock: first what holds in  *)
(* every state, then what each step is for the abstract lock.              *)
(***************************************************************************)
EXTENDS WindUpdate, SequenceTheorems, TLAPS

(***************************************************************************)
(* The inductive invariant.                                                *)
(***************************************************************************)

\* A client has an id exactly while it is registered, and ids are not shared.
IdsInv ==
  /\ \A c \in Client : pc[c] \in {"idle", "queued"} <=> apid[c] \in Apid
  /\ \A c, d \in Client : apid[c] = apid[d] /\ apid[c] \in Apid => c = d

\* No connection is queued twice.
UniqueInv ==
  \A l, m \in Lock : \A i \in DOMAIN queue[l], j \in DOMAIN queue[m] :
    queue[l][i].handle = queue[m][j].handle => l = m /\ i = j

\* Who is blocked is in the queue of the lock it asked for.
PresentInv ==
  \A c \in Client : pc[c] = "queued" =>
    /\ wait[c] \in Lock
    /\ \E i \in DOMAIN queue[wait[c]] : queue[wait[c]][i].handle = c

\* Who is inside is the owner, and the count covers its open sections.
LedgerInv ==
  \A c \in Client, l \in Lock :
    held[c][l] > 0 => Owns(c, l) /\ held[c][l] <= cnt[l]

\* Without kills in a queue, the owner is a client that knows it is inside.
ExactInv ==
  ~ KillQueued =>
    /\ \A l \in Lock : \A i \in DOMAIN queue[l] : pc[queue[l][i].handle] = "queued"
    /\ \A c \in Client, l \in Lock : Owns(c, l) => held[c][l] = cnt[l]
    /\ OwnerIsRegistered

Inv ==
  /\ TypeOK
  /\ IdsInv
  /\ NoIdleLock
  /\ QueuedIsBlocked
  /\ UniqueInv
  /\ PresentInv
  /\ LedgerInv
  /\ ExactInv

\* The invariant holds when nobody has a lock.
LEMMA InitInv == Init => Inv
<1> SUFFICES ASSUME Init PROVE Inv
  OBVIOUS
<1>1. TypeOK
  BY ApidAssumption DEF Init, TypeOK, LockInfo
<1>2. IdsInv /\ NoIdleLock /\ QueuedIsBlocked /\ UniqueInv /\ PresentInv
  BY ApidAssumption DEF Init, IdsInv, NoIdleLock, QueuedIsBlocked, UniqueInv, PresentInv
<1>3. LedgerInv /\ ExactInv
  BY ApidAssumption DEF Init, LedgerInv, ExactInv, Owns, OwnerIsRegistered
<1> QED
  BY <1>1, <1>2, <1>3 DEF Inv

\* What the front of a non-empty queue and the rest of it look like.
LEMMA TailOfQueue ==
  ASSUME NEW q \in Seq(LockInfo), q # <<>>
  PROVE  /\ Head(q) = q[1] /\ Head(q) \in LockInfo /\ 1 \in DOMAIN q
         /\ Tail(q) \in Seq(LockInfo)
         /\ \A i \in DOMAIN Tail(q) : i + 1 \in DOMAIN q /\ Tail(q)[i] = q[i + 1]
         /\ \A i \in DOMAIN q : i # 1 => i - 1 \in DOMAIN Tail(q) /\ Tail(q)[i - 1] = q[i]
<1>1. Len(q) \in Nat /\ Len(q) > 0
  BY EmptySeq, LenProperties
<1>2. Tail(q) \in Seq(LockInfo) /\ Len(Tail(q)) = Len(q) - 1
  BY HeadTailProperties
<1>3. \A i \in 1..Len(Tail(q)) : Tail(q)[i] = q[i + 1]
  BY HeadTailProperties
<1> QED
  BY <1>1, <1>2, <1>3, HeadTailProperties

\* Every entry of a queue names a client and an id.
LEMMA EntryType ==
  ASSUME TypeOK, NEW l \in Lock, NEW i \in DOMAIN queue[l]
  PROVE  queue[l][i] \in LockInfo /\ queue[l][i].handle \in Client /\ queue[l][i].apid \in Apid
<1>1. queue[l] \in Seq(LockInfo)
  BY DEF TypeOK
<1>2. queue[l][i] \in LockInfo
  BY <1>1, ElementOfSeq, LenProperties
<1> QED
  BY <1>2 DEF LockInfo

-----------------------------------------------------------------------------
(* The steps that hand nothing over.                                       *)

\* An application that starts keeps the invariant.
LEMMA InitStep ==
  ASSUME Inv, NEW c \in Client, srv_appl_init(c)
  PROVE  Inv'
<1> USE DEF Inv, srv_appl_init
<1>1. PICK a \in Apid : /\ \A d \in Client : apid[d] # a
                        /\ apid' = [apid EXCEPT ![c] = a]
  OBVIOUS
<1>2. TypeOK'
  BY <1>1 DEF TypeOK
<1>3. IdsInv'
  BY <1>1, ApidAssumption DEF TypeOK, IdsInv
<1>4. NoIdleLock' /\ UniqueInv'
  BY DEF NoIdleLock, UniqueInv
<1>5. QueuedIsBlocked'
  <2>1. \A l \in Lock : \A i \in DOMAIN queue[l] : queue[l][i].handle # c
    BY DEF QueuedIsBlocked
  <2> QED
    <3> SUFFICES ASSUME NEW l \in Lock, NEW i \in DOMAIN queue[l]
                 PROVE  LET d == queue[l][i].handle IN
                        \/ pc'[d] = "killed"
                        \/ pc'[d] = "queued" /\ wait'[d] = l /\ apid'[d] = queue[l][i].apid
      BY DEF QueuedIsBlocked
    <3>1. queue[l][i].handle \in Client \ {c}
      BY <2>1, EntryType
    <3>2. ASSUME NEW d \in Client \ {c}
          PROVE  pc'[d] = pc[d] /\ apid'[d] = apid[d] /\ wait'[d] = wait[d]
      BY <1>1 DEF TypeOK
    <3> QED
      BY <3>1, <3>2 DEF QueuedIsBlocked
<1>5a. PresentInv'
  BY DEF TypeOK, PresentInv
<1>6. LedgerInv'
  BY <1>1, ApidAssumption DEF TypeOK, IdsInv, LedgerInv, Owns
<1>7. ExactInv'
  <2> SUFFICES ASSUME ~ KillQueued PROVE ExactInv'
    BY DEF ExactInv
  <2>1. \A l \in Lock : ~ (cnt[l] > 0 /\ lock[l] = a)
    BY <1>1 DEF ExactInv, OwnerIsRegistered
  <2>2. \A l \in Lock : \A i \in DOMAIN queue'[l] : pc'[queue'[l][i].handle] = "queued"
    BY EntryType DEF TypeOK, ExactInv
  <2>3. \A d \in Client, l \in Lock : Owns(d, l)' => held'[d][l] = cnt'[l]
    BY <1>1, <2>1 DEF TypeOK, ExactInv, Owns
  <2>4. OwnerIsRegistered'
    <3> SUFFICES ASSUME NEW l \in Lock, cnt[l] > 0
                 PROVE  \E d \in Client : apid'[d] = lock[l]
      BY DEF OwnerIsRegistered
    <3>1. PICK d \in Client : apid[d] = lock[l]
      BY DEF ExactInv, OwnerIsRegistered
    <3>2. lock[l] \in Apid /\ apid[c] \notin Apid
      BY DEF TypeOK, IdsInv
    <3>3. apid'[d] = apid[d]
      BY <1>1, <3>1, <3>2 DEF TypeOK
    <3> QED
      BY <3>1, <3>3
  <2> QED
    BY <2>2, <2>3, <2>4 DEF ExactInv
<1> QED
  BY <1>2, <1>3, <1>4, <1>5, <1>5a, <1>6, <1>7

\* The holder taking the lock again keeps the invariant.
LEMMA ReenterStep ==
  ASSUME Inv, NEW c \in Client, NEW l \in Lock, Reenter(c, l)
  PROVE  Inv'
<1> USE DEF Inv, Reenter, MayBegin, Owns
<1>1. TypeOK'
  BY DEF TypeOK
<1>2. IdsInv' /\ UniqueInv' /\ QueuedIsBlocked' /\ PresentInv'
  BY DEF IdsInv, UniqueInv, QueuedIsBlocked, PresentInv
<1>3. NoIdleLock'
  BY DEF TypeOK, NoIdleLock
<1>4. LedgerInv'
  BY DEF TypeOK, IdsInv, LedgerInv
<1>5. ExactInv'
  BY DEF TypeOK, IdsInv, ExactInv, OwnerIsRegistered
<1> QED
  BY <1>1, <1>2, <1>3, <1>4, <1>5

\* Taking a free lock keeps the invariant.
LEMMA AcquireStep ==
  ASSUME Inv, NEW c \in Client, NEW l \in Lock, Acquire(c, l)
  PROVE  Inv'
<1> USE DEF Inv, Acquire, MayBegin, Owns
<1>0. apid[c] \in Apid
  BY DEF IdsInv
<1>1. TypeOK'
  BY <1>0 DEF TypeOK
<1>2. IdsInv' /\ UniqueInv' /\ QueuedIsBlocked' /\ PresentInv'
  BY DEF IdsInv, UniqueInv, QueuedIsBlocked, PresentInv
<1>3. NoIdleLock'
  BY DEF TypeOK, NoIdleLock
<1>4. \A d \in Client : held[d][l] = 0
  <2> SUFFICES ASSUME NEW d \in Client, held[d][l] # 0 PROVE FALSE
    OBVIOUS
  <2>1. held[d][l] \in Nat /\ cnt[l] \in Nat
    BY DEF TypeOK
  <2> QED
    BY <2>1 DEF LedgerInv
<1>5. LedgerInv'
  BY <1>0, <1>4 DEF TypeOK, IdsInv, LedgerInv
<1>6. ExactInv'
  BY <1>0, <1>4 DEF TypeOK, IdsInv, ExactInv, OwnerIsRegistered
<1> QED
  BY <1>1, <1>2, <1>3, <1>5, <1>6

\* Returning one level of a lock keeps the invariant.
LEMMA ReturnStep ==
  ASSUME Inv, NEW c \in Client, NEW l \in Lock, Return(c, l)
  PROVE  Inv'
<1> USE DEF Inv, Return, Owns, Ended
<1>1. TypeOK'
  BY DEF TypeOK
<1>2. IdsInv' /\ UniqueInv' /\ QueuedIsBlocked' /\ PresentInv'
  BY DEF IdsInv, UniqueInv, QueuedIsBlocked, PresentInv
<1>3. NoIdleLock'
  BY DEF TypeOK, NoIdleLock
<1>4. LedgerInv'
  BY DEF TypeOK, IdsInv, LedgerInv
<1>5. ExactInv'
  BY DEF TypeOK, IdsInv, ExactInv, OwnerIsRegistered
<1> QED
  BY <1>1, <1>2, <1>3, <1>4, <1>5

\* Waiting for a lock keeps the invariant.
LEMMA EnqueueStep ==
  ASSUME Inv, NEW c \in Client, NEW l \in Lock, Enqueue(c, l)
  PROVE  Inv'
<1> DEFINE e == [handle |-> c, apid |-> apid[c]]
<1> USE DEF Inv, Enqueue, MayBegin
<1>0. e \in LockInfo /\ apid[c] \in Apid
  BY DEF IdsInv, LockInfo
<1>1. wait' = [wait EXCEPT ![c] = l]
  OBVIOUS
<1>2. TypeOK'
  BY <1>0, <1>1 DEF TypeOK
<1>3. /\ Len(queue'[l]) = Len(queue[l]) + 1
      /\ queue'[l][Len(queue[l]) + 1] = e
      /\ \A i \in DOMAIN queue[l] : queue'[l][i] = queue[l][i]
      /\ \A m \in Lock \ {l} : queue'[m] = queue[m]
      /\ DOMAIN queue[l] = 1..Len(queue[l])
      /\ DOMAIN queue'[l] = 1..(Len(queue[l]) + 1)
      /\ Len(queue[l]) \in Nat
  BY <1>0, AppendProperties DEF TypeOK
<1>4. \A m \in Lock : \A i \in DOMAIN queue[m] : queue[m][i].handle # c
  BY DEF QueuedIsBlocked
<1>5. IdsInv'
  BY DEF TypeOK, IdsInv
<1>6. NoIdleLock'
  BY <1>3 DEF TypeOK, NoIdleLock
<1>7. QueuedIsBlocked'
  <2> SUFFICES ASSUME NEW m \in Lock, NEW i \in DOMAIN queue'[m]
               PROVE  LET d == queue'[m][i].handle IN
                      \/ pc'[d] = "killed"
                      \/ pc'[d] = "queued" /\ wait'[d] = m /\ apid'[d] = queue'[m][i].apid
    BY DEF QueuedIsBlocked
  <2>1. CASE m = l /\ i = Len(queue[l]) + 1
    BY <1>1, <1>3, <2>1 DEF TypeOK
  <2>2. CASE ~ (m = l /\ i = Len(queue[l]) + 1)
    <3>1. i \in DOMAIN queue[m] /\ queue'[m][i] = queue[m][i]
      BY <1>3, <2>2
    <3>2. queue[m][i].handle \in Client \ {c}
      BY <3>1, <1>4, EntryType
    <3> QED
      BY <1>1, <3>1, <3>2 DEF TypeOK, QueuedIsBlocked
  <2> QED
    BY <2>1, <2>2
<1>8. UniqueInv'
  BY <1>3, <1>4 DEF UniqueInv
<1>9. PresentInv'
  <2>1. ASSUME NEW d \in Client, pc'[d] = "queued"
        PROVE  /\ wait'[d] \in Lock
               /\ \E i \in DOMAIN queue'[wait'[d]] : queue'[wait'[d]][i].handle = d
    <3>1. CASE d = c
      <4>1. wait'[c] = l
        BY <1>1 DEF TypeOK
      <4> QED
        BY <3>1, <4>1, <1>3
    <3>2. CASE d # c
      <4>1. pc[d] = "queued" /\ wait'[d] = wait[d]
        BY <1>1, <2>1, <3>2 DEF TypeOK
      <4>2. PICK i \in DOMAIN queue[wait[d]] : queue[wait[d]][i].handle = d
        BY <4>1 DEF PresentInv
      <4>3. wait[d] \in Lock /\ wait[d] \in Lock
        BY <4>1 DEF PresentInv
      <4> QED
        BY <1>3, <4>1, <4>2, <4>3
    <3> QED
      BY <3>1, <3>2
  <2> QED
    BY <2>1 DEF PresentInv
<1>10. LedgerInv'
  BY DEF LedgerInv, Owns
<1>11. ExactInv'
  BY <1>3, <1>4 DEF TypeOK, ExactInv, OwnerIsRegistered, Owns, LockInfo
<1> QED
  BY <1>2, <1>5, <1>6, <1>7, <1>8, <1>9, <1>10, <1>11

-----------------------------------------------------------------------------
(* The steps that hand locks over: Release, srv_appl_exit, APC_KILL.       *)
(* The caller c gives up the locks S; p, w, h are pc, wait and held after  *)
(* its own part of the step.                                               *)

Handed(S, p, w, h) == HandOver(S) /\ ReplyToHeirs(S, p, w, h)

\* The caller is not blocked afterwards, is not inside the locks S, and
\* nothing else is told to the other clients.
CallerDone(c, S, p, w, h) ==
  /\ \A l \in S : Owns(c, l)
  /\ p = [pc EXCEPT ![c] = p[c]] /\ p[c] \in {"outside", "idle", "killed"}
  /\ pc[c] = "queued" => p[c] = "killed"
  /\ w = [wait EXCEPT ![c] = w[c]] /\ w[c] \in Lock \cup {NoCall}
  /\ h = [held EXCEPT ![c] = h[c]] /\ h[c] \in [Lock -> Nat]
  /\ \A l \in S : h[c][l] = 0
  /\ \A l \in Lock \ S : h[c][l] = held[c][l] /\ (p[c] # "idle" => ~ Owns(c, l))
  /\ apid' = IF p[c] = "idle" THEN apid ELSE [apid EXCEPT ![c] = NoApid]
  /\ ~ KillQueued => pc[c] = "idle"

\* Handing a lock to the first in the queue keeps the invariant.
LEMMA HandOverStep ==
  ASSUME Inv, NEW c \in Client, pc[c] \in {"idle", "queued"},
         NEW STATE S, S \subseteq Lock, NEW STATE p, NEW STATE w, NEW STATE h,
         CallerDone(c, S, p, w, h), Handed(S, p, w, h)
  PROVE  Inv'
<1> DEFINE Wanted == {l \in S : queue[l] # <<>>}
           Answered(d, l) == p[d] = "queued" /\ Heir(S, l, d)
<1> USE DEF Inv
\* The queues and the owners after the step.
<1>1. \A l \in Wanted :
        /\ l \in Lock /\ queue[l] \in Seq(LockInfo) /\ queue[l] # <<>>
        /\ queue'[l] = Tail(queue[l])
        /\ lock'[l] = queue[l][1].apid /\ cnt'[l] = 1
        /\ queue[l][1] \in LockInfo /\ 1 \in DOMAIN queue[l]
  BY TailOfQueue DEF TypeOK, Handed, HandOver
<1>2. \A l \in Lock \ Wanted :
        /\ queue'[l] = queue[l] /\ lock'[l] = lock[l]
        /\ cnt'[l] = IF l \in S THEN 0 ELSE cnt[l]
        /\ l \in S => queue[l] = <<>>
  BY DEF Handed, HandOver
<1>3. \A l \in Lock : \A i \in DOMAIN queue'[l] :
        \E j \in DOMAIN queue[l] :
          /\ queue'[l][i] = queue[l][j]
          /\ l \in Wanted => j # 1 /\ j = i + 1
          /\ l \notin Wanted => j = i
  <2> SUFFICES ASSUME NEW l \in Lock, NEW i \in DOMAIN queue'[l]
               PROVE \E j \in DOMAIN queue[l] :
                       /\ queue'[l][i] = queue[l][j]
                       /\ l \in Wanted => j # 1 /\ j = i + 1
                       /\ l \notin Wanted => j = i
    OBVIOUS
  <2>1. CASE l \in Wanted
    <3>1. queue[l] \in Seq(LockInfo) /\ queue[l] # <<>> /\ queue'[l] = Tail(queue[l])
      BY <1>1, <2>1
    <3>2. i + 1 \in DOMAIN queue[l] /\ queue'[l][i] = queue[l][i + 1]
      BY <3>1, TailOfQueue
    <3>3. i \in Nat /\ i > 0
      <4>1. Tail(queue[l]) \in Seq(LockInfo)
        BY <3>1, TailOfQueue
      <4> QED
        BY <4>1, <3>1, LenProperties
    <3> QED
      BY <2>1, <3>2, <3>3
  <2>2. CASE l \notin Wanted
    BY <1>2, <2>2
  <2> QED
    BY <2>1, <2>2
\* The first of a wanted queue, if it is alive, is the one that is blocked
\* there, it is not the caller, and it is nowhere else.
<1>4. \A l \in Lock, d \in Client : Answered(d, l) =>
        /\ l \in Wanted /\ queue[l][1].handle = d /\ d # c
        /\ pc[d] = "queued" /\ wait[d] = l /\ queue[l][1].apid = apid[d]
  <2> SUFFICES ASSUME NEW l \in Lock, NEW d \in Client, p[d] = "queued", Heir(S, l, d)
               PROVE  /\ l \in Wanted /\ queue[l][1].handle = d /\ d # c
                      /\ pc[d] = "queued" /\ wait[d] = l
                      /\ queue[l][1].apid = apid[d]
    OBVIOUS
  <2>1. l \in Wanted /\ queue[l][1].handle = d /\ 1 \in DOMAIN queue[l]
    BY <1>1, TailOfQueue DEF Heir
  <2>2. d # c /\ pc[d] = "queued"
    BY DEF CallerDone, TypeOK
  <2> QED
    BY <2>1, <2>2 DEF QueuedIsBlocked
<1>5. \A d \in Client, l, m \in Lock : Answered(d, l) /\ Answered(d, m) => l = m
  BY <1>4
\* What the clients look like after the step.
<1>6. \A d \in Client :
        /\ (\E l \in Lock : Answered(d, l)) => pc'[d] = "idle" /\ wait'[d] = NoCall
        /\ ~ (\E l \in Lock : Answered(d, l)) => pc'[d] = p[d] /\ wait'[d] = w[d]
        /\ \A l \in Lock : held'[d][l] = IF Answered(d, l) THEN h[d][l] + 1 ELSE h[d][l]
  BY DEF Handed, ReplyToHeirs
<1>7. \A d \in Client \ {c} : p[d] = pc[d] /\ w[d] = wait[d] /\ h[d] = held[d]
  BY DEF CallerDone, TypeOK
<1>8. pc'[c] = p[c] /\ wait'[c] = w[c] /\ \A l \in Lock : held'[c][l] = h[c][l]
  BY <1>4, <1>6
<1>9. \A l \in S, d \in Client : h[d][l] = 0
  <2> SUFFICES ASSUME NEW l \in S, NEW d \in Client, d # c PROVE held[d][l] = 0
    BY <1>7 DEF CallerDone
  <2>1. Owns(c, l) /\ apid[c] \in Apid
    BY DEF CallerDone, IdsInv
  <2> QED
    BY <2>1 DEF TypeOK, LedgerInv, IdsInv, Owns
<1>10. \A d \in Client \ {c} : apid'[d] = apid[d]
  BY DEF CallerDone, TypeOK
<1>11. apid'[c] = IF p[c] = "idle" THEN apid[c] ELSE NoApid
  BY DEF CallerDone, TypeOK
\* The parts of the invariant, one by one.
<1>12. TypeOK'
  <2>1. lock' \in [Lock -> Apid]
    BY <1>1, <1>2 DEF TypeOK, LockInfo, Handed, HandOver
  <2>2. cnt' \in [Lock -> Nat]
    BY <1>1, <1>2 DEF TypeOK, Handed, HandOver
  <2>3. queue' \in [Lock -> Seq(LockInfo)]
    <3>1. \A l \in Lock : queue'[l] \in Seq(LockInfo)
      <4> SUFFICES ASSUME NEW l \in Lock PROVE queue'[l] \in Seq(LockInfo)
        OBVIOUS
      <4>1. CASE l \in Wanted
        BY <4>1, <1>1, TailOfQueue
      <4>2. CASE l \notin Wanted
        BY <4>2, <1>2 DEF TypeOK
      <4> QED
        BY <4>1, <4>2
    <3> QED
      BY <3>1 DEF Handed, HandOver
  <2>4. apid' \in [Client -> Apid \cup {NoApid}]
    BY DEF TypeOK, CallerDone
  <2>5. pc' \in [Client -> {"outside", "idle", "queued", "killed"}]
    <3>1. \A d \in Client : pc'[d] \in {"outside", "idle", "queued", "killed"}
      BY <1>6, <1>7 DEF TypeOK, CallerDone
    <3> QED
      BY <3>1 DEF Handed, ReplyToHeirs
  <2>6. wait' \in [Client -> Lock \cup {NoCall}]
    <3>1. \A d \in Client : wait'[d] \in Lock \cup {NoCall}
      <4>1. \A d \in Client : w[d] \in Lock \cup {NoCall}
        BY <1>7 DEF TypeOK, CallerDone
      <4> QED
        BY <4>1, <1>6
    <3> QED
      BY <3>1 DEF Handed, ReplyToHeirs
  <2>7. held' \in [Client -> [Lock -> Nat]]
    <3>1. \A d \in Client, l \in Lock : h[d][l] \in Nat
      <4> SUFFICES ASSUME NEW d \in Client, NEW l \in Lock PROVE h[d][l] \in Nat
        OBVIOUS
      <4>1. CASE d = c
        BY <4>1 DEF CallerDone
      <4>2. CASE d # c
        BY <4>2, <1>7 DEF TypeOK
      <4> QED
        BY <4>1, <4>2
    <3>2. \A d \in Client, l \in Lock : held'[d][l] \in Nat
      BY <3>1, <1>6
    <3> QED
      BY <3>2 DEF Handed, ReplyToHeirs
  <2> QED
    BY <2>1, <2>2, <2>3, <2>4, <2>5, <2>6, <2>7 DEF TypeOK
<1>13. IdsInv'
  <2>1. \A d \in Client \ {c} : pc'[d] \in {"idle", "queued"} <=> pc[d] \in {"idle", "queued"}
    BY <1>4, <1>6, <1>7
  <2>2. pc'[c] \in {"idle", "queued"} <=> apid'[c] \in Apid
    BY <1>8, <1>11, ApidAssumption DEF CallerDone, IdsInv
  <2> QED
    BY <2>1, <2>2, <1>10, <1>11, ApidAssumption DEF IdsInv
<1>14. NoIdleLock'
  BY <1>1, <1>2 DEF NoIdleLock
<1>15. UniqueInv'
  <2> SUFFICES ASSUME NEW l \in Lock, NEW m \in Lock,
                      NEW i \in DOMAIN queue'[l], NEW j \in DOMAIN queue'[m],
                      queue'[l][i].handle = queue'[m][j].handle
               PROVE  l = m /\ i = j
    BY DEF UniqueInv
  <2>1. PICK i0 \in DOMAIN queue[l] : /\ queue'[l][i] = queue[l][i0]
                                      /\ l \in Wanted => i0 = i + 1
                                      /\ l \notin Wanted => i0 = i
    BY <1>3
  <2>2. PICK j0 \in DOMAIN queue[m] : /\ queue'[m][j] = queue[m][j0]
                                      /\ m \in Wanted => j0 = j + 1
                                      /\ m \notin Wanted => j0 = j
    BY <1>3
  <2>3. l = m /\ i0 = j0
    BY <2>1, <2>2 DEF UniqueInv
  <2>4. i \in Nat /\ j \in Nat
    BY <1>12, LenProperties DEF TypeOK
  <2> QED
    BY <2>1, <2>2, <2>3, <2>4
\* An entry that stays in a queue is not answered in this step.
<1>16. \A l \in Lock : \A i \in DOMAIN queue'[l] :
         LET d == queue'[l][i].handle IN
         /\ d \in Client
         /\ \E j \in DOMAIN queue[l] : queue'[l][i] = queue[l][j]
         /\ \A m \in Lock : ~ Answered(d, m)
  <2> SUFFICES ASSUME NEW l \in Lock, NEW i \in DOMAIN queue'[l]
               PROVE  LET d == queue'[l][i].handle IN
                      /\ d \in Client
                      /\ \E j \in DOMAIN queue[l] : queue'[l][i] = queue[l][j]
                      /\ \A m \in Lock : ~ Answered(d, m)
    OBVIOUS
  <2>1. PICK j \in DOMAIN queue[l] : queue'[l][i] = queue[l][j] /\ (l \in Wanted => j # 1)
    BY <1>3
  <2>2. queue[l][j].handle \in Client
    BY EntryType
  <2>3. ASSUME NEW m \in Lock, Answered(queue[l][j].handle, m) PROVE FALSE
    <3>1. m \in Wanted /\ queue[m][1].handle = queue[l][j].handle /\ 1 \in DOMAIN queue[m]
      BY <1>1, <1>4, <2>2, <2>3
    <3>2. l = m /\ j = 1
      BY <3>1 DEF UniqueInv
    <3> QED
      BY <2>1, <3>1, <3>2
  <2> QED
    BY <2>1, <2>2, <2>3
<1>17. QueuedIsBlocked'
  <2> SUFFICES ASSUME NEW l \in Lock, NEW i \in DOMAIN queue'[l], NEW d,
                      d = queue'[l][i].handle
               PROVE  \/ pc'[d] = "killed"
                      \/ pc'[d] = "queued" /\ wait'[d] = l /\ apid'[d] = queue'[l][i].apid
    BY DEF QueuedIsBlocked
  <2>1. /\ d \in Client
        /\ pc'[d] = p[d] /\ wait'[d] = w[d]
    BY <1>6, <1>16
  <2>2. PICK j \in DOMAIN queue[l] : queue'[l][i] = queue[l][j]
    BY <1>16
  <2>3. \/ pc[d] = "killed"
        \/ pc[d] = "queued" /\ wait[d] = l /\ apid[d] = queue[l][j].apid
    BY <2>2 DEF QueuedIsBlocked
  <2>4. CASE d = c
    BY <2>1, <2>3, <2>4 DEF CallerDone
  <2>5. CASE d # c
    BY <2>1, <2>2, <2>3, <2>5, <1>7, <1>10
  <2> QED
    BY <2>4, <2>5
<1>18. PresentInv'
  <2> SUFFICES ASSUME NEW d \in Client, pc'[d] = "queued"
               PROVE  /\ wait'[d] \in Lock
                      /\ \E i \in DOMAIN queue'[wait'[d]] :
                           queue'[wait'[d]][i].handle = d
    BY DEF PresentInv
  <2>1. \A l \in Lock : ~ Answered(d, l)
    BY <1>6
  <2>2. d # c
    BY <1>8 DEF CallerDone
  <2>3. pc[d] = "queued" /\ p[d] = "queued" /\ wait'[d] = wait[d]
    BY <2>1, <2>2, <1>6, <1>7
  <2> DEFINE l == wait[d]
  <2>4. wait[d] \in Lock /\ l \in Lock
    BY <2>3 DEF PresentInv
  <2>5. PICK i \in DOMAIN queue[l] : queue[l][i].handle = d
    BY <2>3 DEF PresentInv
  <2>6. CASE l \in Wanted
    <3>1. i # 1
      BY <2>1, <2>3, <2>4, <2>5, <2>6, <1>1, TailOfQueue DEF Heir
    <3>2. i - 1 \in DOMAIN queue'[l] /\ queue'[l][i - 1] = queue[l][i]
      <4>1. queue[l] \in Seq(LockInfo) /\ queue[l] # <<>> /\ queue'[l] = Tail(queue[l])
        BY <2>6, <1>1
      <4> QED
        BY <3>1, <4>1, TailOfQueue
    <3> QED
      BY <2>3, <2>4, <2>5, <3>2
  <2>7. CASE l \notin Wanted
    BY <1>2, <2>3, <2>4, <2>5, <2>7
  <2> QED
    BY <2>6, <2>7
<1>19. LedgerInv'
  <2> SUFFICES ASSUME NEW d \in Client, NEW l \in Lock, held'[d][l] > 0
               PROVE  Owns(d, l)' /\ held'[d][l] <= cnt'[l]
    BY DEF LedgerInv
  <2>1. CASE Answered(d, l)
    <3>1. l \in S /\ h[d][l] = 0 /\ held'[d][l] = 1
      BY <1>4, <1>6, <1>9, <2>1
    <3>2. lock'[l] = apid[d] /\ cnt'[l] = 1 /\ apid'[d] = apid[d]
      BY <1>1, <1>4, <1>10, <2>1
    <3> QED
      BY <3>1, <3>2 DEF Owns
  <2>2. CASE ~ Answered(d, l)
    <3>1. h[d][l] > 0 /\ held'[d][l] = h[d][l] /\ l \notin S
      BY <1>6, <1>9, <2>2
    <3>2. lock'[l] = lock[l] /\ cnt'[l] = cnt[l]
      BY <1>2, <3>1
    <3>3. h[d][l] = held[d][l]
      BY <1>7, <3>1 DEF CallerDone
    <3>4. Owns(d, l) /\ held[d][l] <= cnt[l]
      BY <3>1, <3>3 DEF LedgerInv
    <3>5. apid'[d] = apid[d]
      BY <1>10, <1>11, <3>1, <3>4 DEF CallerDone
    <3> QED
      BY <3>1, <3>2, <3>3, <3>4, <3>5 DEF Owns
  <2> QED
    BY <2>1, <2>2
<1>20. ExactInv'
  <2> SUFFICES ASSUME ~ KillQueued PROVE ExactInv'
    BY DEF ExactInv
  <2>0. pc[c] = "idle" /\ \A l \in Lock : \A i \in DOMAIN queue[l] : pc[queue[l][i].handle] = "queued"
    BY DEF CallerDone, ExactInv
  <2>1. \A l \in Lock : \A i \in DOMAIN queue'[l] : pc'[queue'[l][i].handle] = "queued"
    <3> SUFFICES ASSUME NEW l \in Lock, NEW i \in DOMAIN queue'[l]
                 PROVE  pc'[queue'[l][i].handle] = "queued"
      OBVIOUS
    <3> DEFINE d == queue'[l][i].handle
    <3>1. d \in Client /\ pc[d] = "queued" /\ pc'[d] = p[d]
      BY <2>0, <1>6, <1>16
    <3> QED
      BY <3>1, <2>0, <1>7
\* Who is given a wanted lock.
  <2>2. \A l \in Wanted :
          LET e == queue[l][1].handle IN
          /\ e \in Client \ {c} /\ Answered(e, l)
          /\ lock'[l] = apid[e] /\ apid'[e] = apid[e] /\ apid[e] \in Apid
    <3> SUFFICES ASSUME NEW l \in Wanted, NEW e, e = queue[l][1].handle
                 PROVE  /\ e \in Client \ {c} /\ Answered(e, l)
                        /\ lock'[l] = apid[e] /\ apid'[e] = apid[e] /\ apid[e] \in Apid
      OBVIOUS
    <3>1. e \in Client /\ pc[e] = "queued" /\ queue[l][1].apid = apid[e] /\ apid[e] \in Apid
      BY <1>1, <2>0, EntryType DEF QueuedIsBlocked
    <3>2. e # c
      BY <2>0, <3>1
    <3>3. Answered(e, l)
      BY <1>1, <1>7, <3>1, <3>2, TailOfQueue DEF Heir
    <3> QED
      BY <1>1, <1>10, <3>1, <3>2, <3>3
  <2>3. \A d \in Client, l \in Lock : Owns(d, l)' => held'[d][l] = cnt'[l]
    <3> SUFFICES ASSUME NEW d \in Client, NEW l \in Lock, Owns(d, l)'
                 PROVE  held'[d][l] = cnt'[l]
      OBVIOUS
    <3>1. CASE l \in Wanted
      <4> DEFINE e == queue[l][1].handle
      <4>1. e \in Client \ {c} /\ Answered(e, l) /\ apid'[d] = apid'[e] /\ apid'[e] \in Apid
        BY <2>2, <3>1 DEF Owns
      <4>2. d = e
        BY <4>1, <1>13 DEF IdsInv
      <4> QED
        BY <4>1, <4>2, <1>1, <1>6, <1>9, <3>1
    <3>2. CASE l \notin Wanted
      <4>1. l \notin S /\ lock'[l] = lock[l] /\ cnt'[l] = cnt[l]
        BY <1>2, <3>2 DEF Owns
      <4>2. held'[d][l] = h[d][l]
        BY <1>4, <1>6, <3>2
      <4>3. h[d][l] = held[d][l]
        BY <1>7, <4>1 DEF CallerDone
      <4>4. apid'[d] = apid[d]
        BY <1>10, <1>11, <1>12, ApidAssumption DEF Owns, TypeOK
      <4>5. Owns(d, l)
        BY <4>1, <4>4 DEF Owns
      <4> QED
        BY <4>1, <4>2, <4>3, <4>5 DEF ExactInv
    <3> QED
      BY <3>1, <3>2
  <2>4. OwnerIsRegistered'
    <3> SUFFICES ASSUME NEW l \in Lock, cnt'[l] > 0
                 PROVE  \E d \in Client : apid'[d] = lock'[l]
      BY DEF OwnerIsRegistered
    <3>1. CASE l \in Wanted
      BY <2>2, <3>1
    <3>2. CASE l \notin Wanted
      <4>1. l \notin S /\ lock'[l] = lock[l] /\ cnt[l] > 0
        BY <1>2, <3>2
      <4>2. PICK d \in Client : apid[d] = lock[l]
        BY <4>1 DEF ExactInv, OwnerIsRegistered
      <4>3. CASE d = c
        BY <4>1, <4>2, <4>3, <1>11 DEF CallerDone, Owns
      <4>4. CASE d # c
        BY <4>1, <4>2, <4>4, <1>10
      <4> QED
        BY <4>3, <4>4
    <3> QED
      BY <3>1, <3>2
  <2> QED
    BY <2>1, <2>3, <2>4 DEF ExactInv
<1> QED
  BY <1>12, <1>13, <1>14, <1>15, <1>17, <1>18, <1>19, <1>20

\* Releasing a lock nobody waits for keeps the invariant.
LEMMA ReleaseStep ==
  ASSUME Inv, NEW c \in Client, NEW l \in Lock, Release(c, l)
  PROVE  Inv'
<1> DEFINE h == [held EXCEPT ![c][l] = Ended(@)]
<1>1. held[c] \in [Lock -> Nat] /\ held[c][l] \in {0, 1} /\ pc[c] = "idle"
  <2>1. held[c] \in [Lock -> Nat] /\ held[c][l] \in Nat
    BY DEF Inv, TypeOK
  <2>2. held[c][l] > 0 => held[c][l] <= 1
    BY DEF Release, Inv, LedgerInv
  <2> QED
    BY <2>1, <2>2 DEF Release
<1>2. CallerDone(c, {l}, pc, wait, h)
  BY <1>1 DEF Release, Inv, TypeOK, CallerDone, Ended
<1>3. Handed({l}, pc, wait, h)
  BY DEF Release, Handed
<1> QED
  BY <1>1, <1>2, <1>3, HandOverStep

\* The exit of an application keeps the invariant.
LEMMA ExitStep ==
  \A c \in Client, s \in {"outside", "killed"} :
    /\ Inv
    /\ Exit(c, s)
    /\ pc[c] = "idle" \/ (KillQueued /\ pc[c] = "queued" /\ s = "killed")
    => Inv'
<1> SUFFICES ASSUME NEW c \in Client, NEW s \in {"outside", "killed"}, Inv, Exit(c, s),
                    pc[c] = "idle" \/ (KillQueued /\ pc[c] = "queued" /\ s = "killed")
             PROVE  Inv'
  OBVIOUS
<1> DEFINE S == {l \in Lock : Owns(c, l)}
           p == [pc EXCEPT ![c] = s]
           w == [wait EXCEPT ![c] = NoCall]
           h == [held EXCEPT ![c] = [l \in Lock |-> 0]]
<1>1. \A l \in Lock \ S : held[c][l] = 0
  BY DEF Inv, TypeOK, LedgerInv
<1>2. CallerDone(c, S, p, w, h)
  BY <1>1 DEF Exit, Inv, TypeOK, CallerDone
<1>3. Handed(S, p, w, h)
  BY DEF Exit, Handed
<1> QED
  BY <1>2, <1>3, HandOverStep

-----------------------------------------------------------------------------

\* Every step keeps the invariant.
LEMMA NextInv == Inv /\ [Next]_vars => Inv'
<1> SUFFICES ASSUME Inv, [Next]_vars PROVE Inv'
  OBVIOUS
<1>1. ASSUME NEW c \in Client, srv_appl_init(c) PROVE Inv'
  BY <1>1, InitStep
<1>2. ASSUME NEW c \in Client, srv_appl_exit(c) PROVE Inv'
  BY <1>2, ExitStep DEF srv_appl_exit
<1>3. ASSUME NEW c \in Client, APC_KILL(c) PROVE Inv'
  BY <1>3, ExitStep DEF APC_KILL
<1>4. ASSUME NEW c \in Client, NEW l \in Lock, Reenter(c, l) PROVE Inv'
  BY <1>4, ReenterStep
<1>5. ASSUME NEW c \in Client, NEW l \in Lock, Acquire(c, l) PROVE Inv'
  BY <1>5, AcquireStep
<1>6. ASSUME NEW c \in Client, NEW l \in Lock, Enqueue(c, l) PROVE Inv'
  BY <1>6, EnqueueStep
<1>7. ASSUME NEW c \in Client, NEW l \in Lock, Return(c, l) PROVE Inv'
  BY <1>7, ReturnStep
<1>8. ASSUME NEW c \in Client, NEW l \in Lock, Release(c, l) PROVE Inv'
  BY <1>8, ReleaseStep
<1>9. CASE UNCHANGED vars
  BY <1>9 DEF vars, Inv, TypeOK, IdsInv, NoIdleLock, QueuedIsBlocked, UniqueInv,
              PresentInv, LedgerInv, ExactInv, OwnerIsRegistered, Owns
<1> QED
  BY <1>1, <1>2, <1>3, <1>4, <1>5, <1>6, <1>7, <1>8, <1>9 DEF Next, Refuse

-----------------------------------------------------------------------------
(* The theorems.                                                           *)

\* The inductive invariant of the locks holds in every reachable state.
THEOREM Invariance == Spec => []Inv
BY InitInv, NextInv, PTL DEF Spec

\* TypeOK holds for any number of clients and ids.
THEOREM TypeCorrect == Spec => []TypeOK
<1>1. Inv => TypeOK
  BY DEF Inv
<1> QED
  BY <1>1, Invariance, PTL

\* Whatever the clients call, exit or get killed, at most one is inside a lock.
THEOREM MutualExclusionHolds == Spec => []MutualExclusion
<1>1. Inv => MutualExclusion
  <2> SUFFICES ASSUME Inv, NEW l \in Lock, NEW c \in Client, NEW d \in Client,
                      held[c][l] > 0, held[d][l] > 0
               PROVE  c = d
    BY DEF MutualExclusion
  <2>1. apid[c] = lock[l] /\ apid[d] = lock[l] /\ lock[l] \in Apid
    BY DEF Inv, TypeOK, LedgerInv, Owns
  <2> QED
    BY <2>1 DEF Inv, IdsInv
<1> QED
  BY <1>1, Invariance, PTL

\* The server's owner and count agree with what the clients were told.
THEOREM LedgerAgreement == Spec => []LedgerAgrees
<1>1. Inv => LedgerAgrees
  BY DEF Inv, LedgerAgrees, LedgerInv, ExactInv
<1> QED
  BY <1>1, Invariance, PTL

\* A blocked process has exactly one entry, in the queue it asked for; an
\* entry belongs to a blocked process or one killed there; a free lock has
\* no entries.
THEOREM QueueDiscipline ==
  Spec => [](NoIdleLock /\ BlockedIsQueuedOnce /\ QueuedIsBlocked)
<1>1. Inv => BlockedIsQueuedOnce
  <2> SUFFICES ASSUME Inv, NEW c \in Client, pc[c] = "queued"
               PROVE  \E i \in DOMAIN queue[wait[c]] :
                        /\ queue[wait[c]][i] = [handle |-> c, apid |-> apid[c]]
                        /\ \A l \in Lock : \A j \in DOMAIN queue[l] :
                             queue[l][j].handle = c => l = wait[c] /\ j = i
    BY DEF BlockedIsQueuedOnce
  <2> DEFINE m == wait[c]
  <2>1. m \in Lock
    BY DEF Inv, PresentInv
  <2>2. PICK i \in DOMAIN queue[m] : queue[m][i].handle = c
    BY DEF Inv, PresentInv
  <2>3. queue[m][i].apid = apid[c]
    BY <2>1, <2>2 DEF Inv, QueuedIsBlocked
  <2>4. queue[m][i] = [handle |-> c, apid |-> apid[c]]
    <3>1. queue[m][i] \in LockInfo
      BY <2>1, EntryType DEF Inv
    <3> QED
      BY <3>1, <2>2, <2>3 DEF LockInfo
  <2>5. \A l \in Lock : \A j \in DOMAIN queue[l] :
          queue[l][j].handle = c => l = m /\ j = i
    BY <2>1, <2>2 DEF Inv, UniqueInv
  <2> QED
    BY <2>4, <2>5
<1>2. Inv => NoIdleLock /\ QueuedIsBlocked
  BY DEF Inv
<1> QED
  BY <1>1, <1>2, Invariance, PTL

\* A free lock has nobody in its queue.
THEOREM NoIdle == Spec => []NoIdleLock
<1>1. Inv => NoIdleLock
  BY DEF Inv
<1> QED
  BY <1>1, Invariance, PTL

\* If nobody is killed in a queue, a taken lock belongs to a registered
\* application: the exits free all there is to free.
THEOREM OwnerRegistered ==
  ASSUME ~ KillQueued
  PROVE  Spec => []OwnerIsRegistered
<1>1. Inv => OwnerIsRegistered
  BY DEF Inv, ExactInv
<1> QED
  BY <1>1, Invariance, PTL

-----------------------------------------------------------------------------
(***************************************************************************)
(* Each of the two screen locks is a re-entrant lock with a line, when no  *)
(* application is killed in a queue: the step simulation that the run      *)
(* wu_lib checks on an instance.  And nobody who waits is overtaken,       *)
(* whoever is killed.                                                      *)
(***************************************************************************)

\* The steps of ReentrantLock, of the clients inside lock l and in line for it.
InsideOf(l) == {c \in Client : Depth(l)[c] > 0}
InLineFor(l) == {Line(l)[i] : i \in DOMAIN Line(l)}

Enters(c, l) ==
  InsideOf(l) = {} /\ Depth(l)' = [Depth(l) EXCEPT ![c] = 1] /\ Line(l)' = Line(l)
EntersAgain(c, l) ==
  /\ c \in InsideOf(l)
  /\ Depth(l)' = [Depth(l) EXCEPT ![c] = @ + 1] /\ Line(l)' = Line(l)
StandsInLine(c, l) ==
  /\ InsideOf(l) \ {c} # {} /\ c \notin InLineFor(l)
  /\ Line(l)' = Append(Line(l), c) /\ Depth(l)' = Depth(l)
LeavesInner(c, l) ==
  /\ Depth(l)[c] > 1
  /\ Depth(l)' = [Depth(l) EXCEPT ![c] = @ - 1] /\ Line(l)' = Line(l)
Leaves(c, l) ==
  /\ c \in InsideOf(l)
  /\ IF Line(l) = <<>>
     THEN Depth(l)' = [Depth(l) EXCEPT ![c] = 0] /\ Line(l)' = Line(l)
     ELSE /\ Depth(l)' = [Depth(l) EXCEPT ![c] = 0, ![Head(Line(l))] = 1]
          /\ Line(l)' = Tail(Line(l))
Rests(l) == Depth(l)' = Depth(l) /\ Line(l)' = Line(l)
Moves(l) ==
  \/ Rests(l)
  \/ \E c \in Client : \/ Enters(c, l) \/ EntersAgain(c, l) \/ StandsInLine(c, l)
                       \/ LeavesInner(c, l) \/ Leaves(c, l)

-----------------------------------------------------------------------------
(* The line: the handles of a queue.                                       *)

Handles(q) == [i \in DOMAIN q |-> q[i].handle]

\* The handles of a queue are a sequence of clients of the same length.
LEMMA HandlesOfQueue ==
  ASSUME NEW q \in Seq(LockInfo)
  PROVE  /\ Handles(q) \in Seq(Client)
         /\ Len(Handles(q)) = Len(q)
         /\ DOMAIN Handles(q) = DOMAIN q
         /\ \A i \in DOMAIN q : Handles(q)[i] = q[i].handle
<1>1. DOMAIN q = 1 .. Len(q) /\ Len(q) \in Nat
  BY LenProperties
<1>2. ASSUME NEW i \in 1 .. Len(q) PROVE q[i].handle \in Client
  <2>1. q[i] \in LockInfo
    BY ElementOfSeq
  <2> QED
    BY <2>1 DEF LockInfo
<1>3. Handles(q) \in [1 .. Len(q) -> Client]
  BY <1>1, <1>2 DEF Handles
<1>4. Handles(q) \in Seq(Client)
  BY <1>1, <1>3, SeqDef
<1>5. Len(Handles(q)) = Len(q)
  BY <1>1, <1>3, <1>4, LenProperties
<1> QED
  BY <1>1, <1>4, <1>5 DEF Handles

\* The first of the line is the handle of the first entry.
LEMMA HandlesOfTail ==
  ASSUME NEW q \in Seq(LockInfo), q # <<>>
  PROVE  /\ Handles(q) # <<>>
         /\ Head(Handles(q)) = q[1].handle
         /\ Handles(Tail(q)) = Tail(Handles(q))
<1>1. Len(q) \in Nat /\ Len(q) > 0
  BY EmptySeq, LenProperties
<1>2. Tail(q) \in Seq(LockInfo) /\ Len(Tail(q)) = Len(q) - 1
  BY HeadTailProperties
<1>3. \A i \in 1 .. Len(Tail(q)) : Tail(q)[i] = q[i + 1]
  BY HeadTailProperties
<1>4. /\ Handles(q) \in Seq(Client) /\ Len(Handles(q)) = Len(q)
      /\ \A i \in 1 .. Len(q) : Handles(q)[i] = q[i].handle
  BY HandlesOfQueue, LenProperties
<1>5. Handles(q) # <<>> /\ Head(Handles(q)) = q[1].handle
  BY <1>1, <1>4, EmptySeq, HeadTailProperties
<1>6. /\ Tail(Handles(q)) \in Seq(Client) /\ Len(Tail(Handles(q))) = Len(q) - 1
      /\ \A i \in 1 .. Len(q) - 1 : Tail(Handles(q))[i] = Handles(q)[i + 1]
  BY <1>4, <1>5, HeadTailProperties
<1>7. /\ Handles(Tail(q)) \in Seq(Client) /\ Len(Handles(Tail(q))) = Len(q) - 1
      /\ \A i \in 1 .. Len(q) - 1 : Handles(Tail(q))[i] = Tail(q)[i].handle
  BY <1>2, HandlesOfQueue, LenProperties
<1>8. \A i \in 1 .. Len(q) - 1 : Handles(Tail(q))[i] = Tail(Handles(q))[i]
  BY <1>1, <1>2, <1>3, <1>4, <1>6, <1>7
<1>9. Handles(Tail(q)) = Tail(Handles(q))
  BY <1>6, <1>7, <1>8, SeqEqual
<1> QED
  BY <1>5, <1>9

\* A new entry stands at the end of the line.
LEMMA HandlesOfAppend ==
  ASSUME NEW q \in Seq(LockInfo), NEW e \in LockInfo
  PROVE  Handles(Append(q, e)) = Append(Handles(q), e.handle)
<1>1. /\ Append(q, e) \in Seq(LockInfo) /\ Len(Append(q, e)) = Len(q) + 1
      /\ \A i \in 1 .. Len(q) : Append(q, e)[i] = q[i]
      /\ Append(q, e)[Len(q) + 1] = e
  BY AppendProperties
<1>2. e.handle \in Client /\ Len(q) \in Nat
  BY LenProperties DEF LockInfo
<1>3. /\ Handles(q) \in Seq(Client) /\ Len(Handles(q)) = Len(q)
      /\ \A i \in 1 .. Len(q) : Handles(q)[i] = q[i].handle
  BY HandlesOfQueue, LenProperties
<1>4. /\ Append(Handles(q), e.handle) \in Seq(Client)
      /\ Len(Append(Handles(q), e.handle)) = Len(q) + 1
      /\ \A i \in 1 .. Len(q) : Append(Handles(q), e.handle)[i] = Handles(q)[i]
      /\ Append(Handles(q), e.handle)[Len(q) + 1] = e.handle
  BY <1>2, <1>3, AppendProperties
<1>5. /\ Handles(Append(q, e)) \in Seq(Client) /\ Len(Handles(Append(q, e))) = Len(q) + 1
      /\ \A i \in 1 .. Len(q) + 1 : Handles(Append(q, e))[i] = Append(q, e)[i].handle
  BY <1>1, HandlesOfQueue, LenProperties
<1>6. \A i \in 1 .. Len(q) + 1 : Handles(Append(q, e))[i] = Append(Handles(q), e.handle)[i]
  <2> SUFFICES ASSUME NEW i \in 1 .. Len(q) + 1
               PROVE  Handles(Append(q, e))[i] = Append(Handles(q), e.handle)[i]
    OBVIOUS
  <2>1. CASE i \in 1 .. Len(q)
    BY <2>1, <1>1, <1>3, <1>4, <1>5
  <2>2. CASE i = Len(q) + 1
    BY <2>2, <1>1, <1>4, <1>5
  <2>3. i \in 1 .. Len(q) \/ i = Len(q) + 1
    BY <1>2
  <2> QED
    BY <2>1, <2>2, <2>3
<1> QED
  BY <1>4, <1>5, <1>6, SeqEqual

-----------------------------------------------------------------------------
(* The clients inside.                                                     *)

\* Only the owner is inside, as deep as the count says.
LEMMA DepthOfOwner ==
  ASSUME Inv, NEW l \in Lock
  PROVE  /\ Depth(l) \in [Client -> Nat]
         /\ \A c \in Client : Depth(l)[c] = IF Owns(c, l) THEN cnt[l] ELSE 0
         /\ \A c \in Client : c \in InsideOf(l) <=> Owns(c, l)
         /\ \A c, d \in Client : Owns(c, l) /\ Owns(d, l) => c = d
<1>1. cnt[l] \in Nat /\ lock[l] \in Apid
  BY DEF Inv, TypeOK
<1>2. \A c \in Client : Depth(l)[c] = IF Owns(c, l) THEN cnt[l] ELSE 0
  BY DEF Depth
<1>3. Depth(l) \in [Client -> Nat]
  BY <1>1 DEF Depth
<1>4. \A c \in Client : Owns(c, l) => cnt[l] > 0
  BY DEF Owns
<1>5. \A c \in Client : c \in InsideOf(l) <=> Depth(l)[c] > 0
  BY DEF InsideOf
<1>6. ASSUME NEW c \in Client PROVE c \in InsideOf(l) <=> Owns(c, l)
  <2>1. Depth(l)[c] = IF Owns(c, l) THEN cnt[l] ELSE 0
    BY <1>2
  <2>2. CASE Owns(c, l)
    BY <2>1, <2>2, <1>4, <1>5
  <2>3. CASE ~ Owns(c, l)
    BY <2>1, <2>3, <1>5
  <2> QED
    BY <2>2, <2>3
<1>7. \A c, d \in Client : Owns(c, l) /\ Owns(d, l) => c = d
  BY <1>1 DEF Inv, IdsInv, Owns
<1> QED
  BY <1>2, <1>3, <1>6, <1>7

\* A step that leaves the owner, the count and the queue alone.
LEMMA RestStep ==
  ASSUME NEW l \in Lock, lock'[l] = lock[l], cnt'[l] = cnt[l], queue'[l] = queue[l],
         \A c \in Client : Owns(c, l)' <=> Owns(c, l)
  PROVE  Rests(l)
BY DEF Rests, Depth, Line

\* Registration gives nobody the id of an owner.
LEMMA InitRests ==
  ASSUME Inv, ~ KillQueued, NEW c \in Client, srv_appl_init(c), NEW l \in Lock
  PROVE  Rests(l)
<1>1. PICK a \in Apid : (\A d \in Client : apid[d] # a) /\ apid' = [apid EXCEPT ![c] = a]
  BY DEF srv_appl_init
<1>2. apid \in [Client -> Apid \cup {NoApid}] /\ lock[l] \in Apid
  BY DEF Inv, TypeOK
<1>3. UNCHANGED <<lock, cnt, queue>>
  BY DEF srv_appl_init
<1>4. cnt[l] > 0 => \E d \in Client : apid[d] = lock[l]
  BY DEF Inv, ExactInv, OwnerIsRegistered
<1>5. cnt[l] > 0 => lock[l] # a
  BY <1>1, <1>4
<1>6. pc[c] = "outside" /\ apid[c] \notin Apid
  BY DEF srv_appl_init, Inv, IdsInv
<1>7. ASSUME NEW d \in Client PROVE Owns(d, l)' <=> Owns(d, l)
  <2>1. CASE d = c
    BY <2>1, <1>1, <1>2, <1>3, <1>5, <1>6 DEF Owns
  <2>2. CASE d # c
    BY <2>2, <1>1, <1>2, <1>3 DEF Owns
  <2> QED
    BY <2>1, <2>2
<1> QED
  BY <1>3, <1>7, RestStep

\* The calls that touch one lock leave the other alone.
LEMMA OtherRests ==
  ASSUME NEW c \in Client, NEW k \in Lock, NEW l \in Lock, k # l, Inv,
         Reenter(c, k) \/ Acquire(c, k) \/ Enqueue(c, k) \/ Return(c, k)
  PROVE  Rests(l)
<1>1. lock'[l] = lock[l] /\ cnt'[l] = cnt[l] /\ queue'[l] = queue[l] /\ apid' = apid
  BY DEF Inv, TypeOK, Reenter, Acquire, Enqueue, Return
<1>2. \A d \in Client : Owns(d, l)' <=> Owns(d, l)
  BY <1>1 DEF Owns
<1> QED
  BY <1>1, <1>2, RestStep

\* get_lock() of the owner.
LEMMA ReenterEnters ==
  ASSUME Inv, NEW c \in Client, NEW l \in Lock, Reenter(c, l)
  PROVE  EntersAgain(c, l)
<1>1. Owns(c, l) /\ cnt'[l] = cnt[l] + 1 /\ cnt[l] \in Nat /\ UNCHANGED <<lock, queue, apid>>
  BY DEF Reenter, Inv, TypeOK
<1>2. \A d \in Client : Owns(d, l)' <=> Owns(d, l)
  BY <1>1 DEF Owns
<1>3. Depth(l)' = [d \in Client |-> IF Owns(d, l) THEN cnt[l] + 1 ELSE 0]
  BY <1>1, <1>2 DEF Depth
<1>4. \A d \in Client : Owns(d, l) <=> d = c
  BY <1>1, DepthOfOwner
<1>5. Depth(l)' = [Depth(l) EXCEPT ![c] = @ + 1]
  BY <1>1, <1>3, <1>4, DepthOfOwner
<1>6. Line(l)' = Line(l)
  BY <1>1 DEF Line
<1> QED
  BY <1>1, <1>5, <1>6, DepthOfOwner DEF EntersAgain

\* get_lock() of a free lock.
LEMMA AcquireEnters ==
  ASSUME Inv, NEW c \in Client, NEW l \in Lock, Acquire(c, l)
  PROVE  Enters(c, l)
<1>1. /\ cnt[l] = 0 /\ cnt'[l] = 1 /\ lock'[l] = apid[c] /\ apid[c] \in Apid
      /\ UNCHANGED <<queue, apid>>
  BY DEF Acquire, MayBegin, Inv, TypeOK, IdsInv
<1>2. \A d \in Client : ~ Owns(d, l)
  BY <1>1 DEF Owns
<1>3. \A d \in Client : Owns(d, l)' <=> d = c
  BY <1>1 DEF Owns, Inv, IdsInv
<1>4. Depth(l)' = [d \in Client |-> IF d = c THEN 1 ELSE 0]
  BY <1>1, <1>3 DEF Depth
<1>5. Depth(l)' = [Depth(l) EXCEPT ![c] = 1]
  BY <1>2, <1>4, DepthOfOwner
<1>6. InsideOf(l) = {}
  BY <1>2, DepthOfOwner DEF InsideOf
<1> QED
  BY <1>1, <1>5, <1>6 DEF Enters, Line

\* get_lock() of a lock another application owns.
LEMMA EnqueueStands ==
  ASSUME Inv, ~ KillQueued, NEW c \in Client, NEW l \in Lock, Enqueue(c, l)
  PROVE  StandsInLine(c, l)
<1> DEFINE e == [handle |-> c, apid |-> apid[c]]
<1>1. /\ cnt[l] > 0 /\ lock[l] # apid[c] /\ pc[c] = "idle"
      /\ queue'[l] = Append(queue[l], e) /\ UNCHANGED <<lock, cnt, apid>>
  BY DEF Enqueue, MayBegin, Inv, TypeOK
<1>2. e \in LockInfo /\ queue[l] \in Seq(LockInfo)
  BY <1>1 DEF Inv, IdsInv, TypeOK, LockInfo
<1>3. PICK d \in Client : apid[d] = lock[l]
  BY <1>1 DEF Inv, ExactInv, OwnerIsRegistered
<1>4. d \in InsideOf(l) \ {c}
  BY <1>1, <1>3, DepthOfOwner DEF Owns
<1>5. \A i \in DOMAIN queue[l] : queue[l][i].handle # c
  BY <1>1 DEF Inv, ExactInv
<1>6. c \notin InLineFor(l)
  BY <1>5 DEF InLineFor, Line
<1>7. Line(l)' = Append(Line(l), c)
  BY <1>1, <1>2, HandlesOfAppend DEF Line, Handles
<1>8. Depth(l)' = Depth(l)
  BY <1>1 DEF Depth, Owns
<1> QED
  BY <1>4, <1>6, <1>7, <1>8 DEF StandsInLine

\* return_lock(): an inner END.
LEMMA ReturnLeaves ==
  ASSUME Inv, NEW c \in Client, NEW l \in Lock, Return(c, l)
  PROVE  LeavesInner(c, l)
<1>1. /\ Owns(c, l) /\ cnt[l] \in Nat /\ cnt[l] > 1 /\ cnt'[l] = cnt[l] - 1
      /\ UNCHANGED <<lock, queue, apid>>
  BY DEF Return, Inv, TypeOK
<1>2. \A d \in Client : Owns(d, l)' <=> Owns(d, l)
  BY <1>1 DEF Owns
<1>3. Depth(l)' = [d \in Client |-> IF Owns(d, l) THEN cnt[l] - 1 ELSE 0]
  BY <1>1, <1>2 DEF Depth
<1>4. \A d \in Client : Owns(d, l) <=> d = c
  BY <1>1, DepthOfOwner
<1>5. Depth(l)' = [Depth(l) EXCEPT ![c] = @ - 1]
  BY <1>1, <1>3, <1>4, DepthOfOwner
<1>6. Line(l)' = Line(l)
  BY <1>1 DEF Line
<1> QED
  BY <1>1, <1>5, <1>6, DepthOfOwner DEF LeavesInner

\* return_lock(): the owner leaves, by its last END or because it exits, and
\* the first of the queue enters.
LEMMA OwnerLeaves ==
  ASSUME Inv, ~ KillQueued, NEW c \in Client, NEW l \in Lock, Owns(c, l), pc[c] = "idle",
         NEW STATE S, l \in S, HandOver(S),
         apid' = apid \/ apid' = [apid EXCEPT ![c] = NoApid]
  PROVE  Leaves(c, l)
<1>1. queue[l] \in Seq(LockInfo) /\ apid \in [Client -> Apid \cup {NoApid}]
  BY DEF Inv, TypeOK
<1>2. c \in InsideOf(l) /\ \A d \in Client : Owns(d, l) <=> d = c
  BY DepthOfOwner
<1>3. CASE queue[l] = <<>>
  <2>1. cnt'[l] = 0 /\ queue'[l] = queue[l]
    BY <1>3 DEF HandOver
  <2>2. \A d \in Client : ~ Owns(d, l)'
    BY <2>1 DEF Owns
  <2>3. Depth(l)' = [d \in Client |-> 0]
    BY <2>2 DEF Depth
  <2>4. Depth(l)' = [Depth(l) EXCEPT ![c] = 0]
    BY <2>3, <1>2, DepthOfOwner
  <2>5. Line(l) = <<>> /\ Line(l)' = Line(l)
    <3>1. Handles(queue[l]) = <<>>
      BY <1>1, <1>3, HandlesOfQueue, EmptySeq
    <3> QED
      BY <3>1, <2>1 DEF Line, Handles
  <2> QED
    BY <2>4, <2>5, <1>2 DEF Leaves
<1>4. CASE queue[l] # <<>>
  <2> DEFINE h == queue[l][1].handle
  <2>1. 1 \in DOMAIN queue[l] /\ Head(queue[l]) = queue[l][1]
    BY <1>1, <1>4, TailOfQueue
  <2>2. h \in Client /\ queue[l][1].apid \in Apid
    BY <2>1, EntryType DEF Inv
  <2>3. pc[h] = "queued" /\ apid[h] = queue[l][1].apid
    BY <2>1, <2>2 DEF Inv, ExactInv, QueuedIsBlocked
  <2>4. cnt'[l] = 1 /\ lock'[l] = apid[h] /\ queue'[l] = Tail(queue[l])
    BY <1>4, <2>1, <2>3 DEF HandOver
  <2>5. h # c /\ apid'[h] = apid[h]
    BY <1>1, <2>2, <2>3
  <2>6. ASSUME NEW d \in Client, d # h PROVE apid'[d] # apid[h]
    <3>1. apid[d] # apid[h]
      BY <2>2, <2>3, <2>6 DEF Inv, IdsInv
    <3>2. apid'[d] = apid[d] \/ apid'[d] = NoApid
      BY <1>1
    <3> QED
      BY <3>1, <3>2, <2>2, <2>3, ApidAssumption
  <2>7. \A d \in Client : Owns(d, l)' <=> d = h
    BY <2>2, <2>4, <2>5, <2>6 DEF Owns
  <2>8. Depth(l)' = [d \in Client |-> IF d = h THEN 1 ELSE 0]
    BY <2>4, <2>7 DEF Depth
  <2>9. Line(l) # <<>> /\ Head(Line(l)) = h /\ Line(l)' = Tail(Line(l))
    BY <1>1, <1>4, <2>4, HandlesOfTail DEF Line, Handles
  <2>10. Depth(l)' = [Depth(l) EXCEPT ![c] = 0, ![h] = 1]
    BY <2>2, <2>5, <2>8, <1>2, DepthOfOwner
  <2> QED
    BY <2>9, <2>10, <1>2 DEF Leaves
<1> QED
  BY <1>3, <1>4

\* A lock that is not handed over, and that the leaving client does not own.
LEMMA StrangerLeaves ==
  ASSUME Inv, NEW c \in Client, NEW l \in Lock, NEW STATE S, l \notin S, HandOver(S),
         apid' = apid \/ (apid' = [apid EXCEPT ![c] = NoApid] /\ ~ Owns(c, l))
  PROVE  Rests(l)
<1>1. lock'[l] = lock[l] /\ cnt'[l] = cnt[l] /\ queue'[l] = queue[l]
  BY DEF HandOver
<1>2. apid \in [Client -> Apid \cup {NoApid}] /\ lock[l] \in Apid
  BY DEF Inv, TypeOK
<1>3. ASSUME NEW d \in Client PROVE Owns(d, l)' <=> Owns(d, l)
  BY <1>1, <1>2, ApidAssumption DEF Owns
<1> QED
  BY <1>1, <1>3, RestStep

-----------------------------------------------------------------------------
(* The simulation.                                                         *)

\* The exit of an application that is not queued.
LEMMA ExitMoves ==
  ASSUME Inv, ~ KillQueued, NEW c \in Client, pc[c] = "idle", NEW l \in Lock,
         HandOver({k \in Lock : Owns(c, k)}), apid' = [apid EXCEPT ![c] = NoApid]
  PROVE  Moves(l)
<1> DEFINE S == {k \in Lock : Owns(c, k)}
<1>1. CASE Owns(c, l)
  BY <1>1, OwnerLeaves, l \in S DEF Moves
<1>2. CASE ~ Owns(c, l)
  BY <1>2, StrangerLeaves, l \notin S DEF Moves
<1> QED
  BY <1>1, <1>2

\* Every step of the server is a step, or no step, of each lock.
LEMMA NextMoves ==
  ASSUME Inv, ~ KillQueued, [Next]_vars, NEW l \in Lock
  PROVE  Moves(l)
<1>1. ASSUME NEW c \in Client, srv_appl_init(c) PROVE Moves(l)
  BY <1>1, InitRests DEF Moves
<1>2. ASSUME NEW c \in Client, srv_appl_exit(c) PROVE Moves(l)
  BY <1>2, ExitMoves DEF srv_appl_exit, Exit
<1>3. ASSUME NEW c \in Client, APC_KILL(c) PROVE Moves(l)
  BY <1>3, ExitMoves DEF APC_KILL, Exit
<1>4. ASSUME NEW c \in Client, NEW k \in Lock,
             Reenter(c, k) \/ Acquire(c, k) \/ Enqueue(c, k) \/ Return(c, k)
      PROVE  Moves(l)
  <2>1. CASE k # l
    BY <1>4, <2>1, OtherRests DEF Moves
  <2>2. CASE k = l
    BY <1>4, <2>2, ReenterEnters, AcquireEnters, EnqueueStands, ReturnLeaves DEF Moves
  <2> QED
    BY <2>1, <2>2
<1>5. ASSUME NEW c \in Client, NEW k \in Lock, Release(c, k) PROVE Moves(l)
  <2>1. HandOver({k}) /\ apid' = apid /\ Owns(c, k) /\ pc[c] = "idle"
    BY <1>5 DEF Release
  <2>2. CASE k # l
    <3>1. Rests(l)
      BY <2>1, <2>2, StrangerLeaves
    <3> QED
      BY <3>1 DEF Moves
  <2>3. CASE k = l
    <3>1. Leaves(c, l)
      BY <2>1, <2>3, OwnerLeaves
    <3> QED
      BY <3>1 DEF Moves
  <2> QED
    BY <2>2, <2>3
<1>6. CASE UNCHANGED vars
  BY <1>6 DEF vars, Moves, Rests, Depth, Line, Owns
<1> QED
  BY <1>1, <1>2, <1>3, <1>4, <1>5, <1>6 DEF Next, Refuse

\* Nobody is inside or in line at the start.
LEMMA InitEmpty ==
  ASSUME Init, NEW l \in Lock
  PROVE  Depth(l) = [c \in Client |-> 0] /\ Line(l) = <<>>
<1>1. cnt[l] = 0 /\ queue[l] = <<>>
  BY DEF Init
<1>2. \A c \in Client : ~ Owns(c, l)
  BY <1>1 DEF Owns
<1>3. Depth(l) = [c \in Client |-> 0]
  BY <1>2 DEF Depth
<1>4. Handles(queue[l]) = <<>>
  BY <1>1, HandlesOfQueue, EmptySeq
<1> QED
  BY <1>3, <1>4 DEF Line, Handles

\* The moves are the steps of the update lock.
LEMMA UpdateMoves == Moves("UPDATE") => [UpdateLock!LockNext]_(UpdateLock!lockVars)
BY DEF Moves, Rests, Enters, EntersAgain, StandsInLine, LeavesInner, Leaves, InsideOf,
       InLineFor, UpdateLock!LockNext, UpdateLock!lockVars, UpdateLock!Enter,
       UpdateLock!EnterAgain, UpdateLock!StandInLine, UpdateLock!LeaveInner,
       UpdateLock!Leave, UpdateLock!Inside, UpdateLock!InLine

\* The moves are the steps of the mouse lock.
LEMMA MctrlMoves == Moves("MCTRL") => [MctrlLock!LockNext]_(MctrlLock!lockVars)
BY DEF Moves, Rests, Enters, EntersAgain, StandsInLine, LeavesInner, Leaves, InsideOf,
       InLineFor, MctrlLock!LockNext, MctrlLock!lockVars, MctrlLock!Enter,
       MctrlLock!EnterAgain, MctrlLock!StandInLine, MctrlLock!LeaveInner,
       MctrlLock!Leave, MctrlLock!Inside, MctrlLock!InLine

\* For every number of clients and ids, get_lock() and return_lock() make each
\* of the two locks a re-entrant first-come-first-served one, as long as no
\* application is killed in a queue.
THEOREM Refinement ==
  ASSUME ~ KillQueued
  PROVE  Spec => LocksAreReentrant
<1>1. Init => UpdateLock!LockInit /\ MctrlLock!LockInit
  BY InitEmpty DEF Lock, UpdateLock!LockInit, MctrlLock!LockInit
<1>2. Inv /\ [Next]_vars =>
        /\ [UpdateLock!LockNext]_(UpdateLock!lockVars)
        /\ [MctrlLock!LockNext]_(MctrlLock!lockVars)
  BY NextMoves, UpdateMoves, MctrlMoves DEF Lock
<1> QED
  BY <1>1, <1>2, Invariance, PTL
     DEF Spec, LocksAreReentrant, UpdateLock!LockSpec, MctrlLock!LockSpec

-----------------------------------------------------------------------------
(* Nobody is overtaken.                                                    *)

\* A hand-over blocks nobody, and tells only the first of a queue that it is
\* inside.
LEMMA HandedInOrder ==
  ASSUME Inv, NEW l \in Lock, NEW d \in Client,
         NEW STATE S, NEW STATE p, NEW STATE w, NEW STATE h, ReplyToHeirs(S, p, w, h),
         p[d] = "queued" => pc[d] = "queued" /\ w[d] = wait[d],
         h[d][l] \in Nat, h[d][l] <= held[d][l]
  PROVE  /\ Blocked(d, l)' => Blocked(d, l)
         /\ held'[d][l] <= held[d][l] \/ Heir(S, l, d)
<1> DEFINE Answered(e, k) == p[e] = "queued" /\ Heir(S, k, e)
           Woken == {e \in Client : \E k \in Lock : Answered(e, k)}
<1>1. pc'[d] = IF d \in Woken THEN "idle" ELSE p[d]
  BY DEF ReplyToHeirs
<1>2. wait'[d] = IF d \in Woken THEN NoCall ELSE w[d]
  BY DEF ReplyToHeirs
<1>3. held'[d][l] = IF Answered(d, l) THEN h[d][l] + 1 ELSE h[d][l]
  BY DEF ReplyToHeirs
<1>4. Blocked(d, l)' => Blocked(d, l)
  BY <1>1, <1>2 DEF Blocked
<1>5. held'[d][l] <= held[d][l] \/ Heir(S, l, d)
  <2>1. CASE Answered(d, l)
    BY <2>1
  <2>2. CASE ~ Answered(d, l)
    BY <2>2, <1>3
  <2> QED
    BY <2>1, <2>2
<1> QED
  BY <1>4, <1>5

\* The last END of an owner.
LEMMA ReleaseInOrder ==
  ASSUME Inv, NEW c \in Client, NEW k \in Lock, Release(c, k), NEW l \in Lock, NEW d \in Client
  PROVE  /\ Blocked(d, l)' => Blocked(d, l)
         /\ held'[d][l] <= held[d][l] \/ Heir({k}, l, d)
<1> DEFINE h == [held EXCEPT ![c][k] = Ended(@)]
<1>1. held \in [Client -> [Lock -> Nat]]
  BY DEF Inv, TypeOK
<1>2. h[d][l] \in Nat /\ h[d][l] <= held[d][l]
  BY <1>1 DEF Ended
<1>3. ReplyToHeirs({k}, pc, wait, h)
  BY DEF Release
<1> HIDE DEF h
<1> QED
  BY <1>2, <1>3, HandedInOrder

\* The exit of an application, by itself or killed.
LEMMA ExitInOrder ==
  ASSUME Inv, NEW c \in Client, NEW s \in {"outside", "killed"}, Exit(c, s),
         NEW l \in Lock, NEW d \in Client
  PROVE  /\ Blocked(d, l)' => Blocked(d, l)
         /\ held'[d][l] <= held[d][l] \/ Heir({k \in Lock : Owns(c, k)}, l, d)
<1> DEFINE S == {k \in Lock : Owns(c, k)}
           p == [pc EXCEPT ![c] = s]
           w == [wait EXCEPT ![c] = NoCall]
           h == [held EXCEPT ![c] = [k \in Lock |-> 0]]
<1>1. /\ held \in [Client -> [Lock -> Nat]]
      /\ pc \in [Client -> {"outside", "idle", "queued", "killed"}]
      /\ wait \in [Client -> Lock \cup {NoCall}]
  BY DEF Inv, TypeOK
<1>2. h[d][l] \in Nat /\ h[d][l] <= held[d][l]
  BY <1>1
<1>3. p[d] = "queued" => pc[d] = "queued" /\ w[d] = wait[d]
  BY <1>1
<1>4. ReplyToHeirs(S, p, w, h)
  BY DEF Exit
<1> HIDE DEF S, p, w, h
<1>5. /\ Blocked(d, l)' => Blocked(d, l)
      /\ held'[d][l] <= held[d][l] \/ Heir(S, l, d)
  BY <1>2, <1>3, <1>4, HandedInOrder
<1> QED
  BY <1>5 DEF S

\* Who stands behind another one is not the heir of the lock.
LEMMA BehindIsNoHeir ==
  ASSUME Inv, NEW l \in Lock, NEW c \in Client, NEW d \in Client, Before(c, d, l),
         NEW STATE S
  PROVE  ~ Heir(S, l, d)
<1> SUFFICES ASSUME Heir(S, l, d) PROVE FALSE
  OBVIOUS
<1>1. PICK i, j \in DOMAIN queue[l] : i < j /\ queue[l][j].handle = d
  BY DEF Before
<1>2. queue[l] \in Seq(LockInfo) /\ queue[l] # <<>> /\ Head(queue[l]).handle = d
  BY DEF Heir, Inv, TypeOK
<1>3. 1 \in DOMAIN queue[l] /\ queue[l][1].handle = d
  BY <1>2, TailOfQueue
<1>4. j = 1
  BY <1>1, <1>3 DEF Inv, UniqueInv
<1>5. i \in 1 .. Len(queue[l]) /\ Len(queue[l]) \in Nat
  BY <1>1, <1>2, LenProperties
<1> QED
  BY <1>1, <1>4, <1>5

\* Who is in a queue is not idle, and does not enter by itself.
LEMMA BehindIsNotIdle ==
  ASSUME Inv, NEW l \in Lock, NEW c \in Client, NEW d \in Client, Before(c, d, l)
  PROVE  pc[d] # "idle"
<1>1. PICK j \in DOMAIN queue[l] : queue[l][j].handle = d
  BY DEF Before
<1> QED
  BY <1>1 DEF Inv, QueuedIsBlocked

\* Who comes to wait stands behind everybody who waits.
LEMMA EnqueuedBehind ==
  ASSUME Inv, NEW k \in Lock, NEW e \in Client, Enqueue(e, k),
         NEW l \in Lock, NEW c \in Client, NEW d \in Client,
         Blocked(c, l), ~ Blocked(d, l), Blocked(d, l)'
  PROVE  Before(c, d, l)'
<1> DEFINE n == [handle |-> e, apid |-> apid[e]]
<1>1. /\ pc' = [pc EXCEPT ![e] = "queued"] /\ wait' = [wait EXCEPT ![e] = k]
      /\ queue'[k] = Append(queue[k], n)
      /\ pc \in [Client -> {"outside", "idle", "queued", "killed"}]
      /\ wait \in [Client -> Lock \cup {NoCall}]
      /\ queue[k] \in Seq(LockInfo)
      /\ pc[e] = "idle"
  BY DEF Enqueue, MayBegin, Inv, TypeOK
<1>2. d = e /\ l = k
  BY <1>1 DEF Blocked
<1>3. PICK i \in DOMAIN queue[l] : queue[l][i].handle = c
  BY DEF Inv, PresentInv, Blocked
<1>4. n \in LockInfo
  BY <1>1 DEF Inv, IdsInv, LockInfo
<1> HIDE DEF n
<1>5. /\ Len(queue'[l]) = Len(queue[l]) + 1
      /\ queue'[l] \in Seq(LockInfo)
      /\ \A m \in 1 .. Len(queue[l]) : queue'[l][m] = queue[l][m]
      /\ queue'[l][Len(queue[l]) + 1] = n
  <2>1. queue'[l] = Append(queue[l], n) /\ queue[l] \in Seq(LockInfo)
    BY <1>1, <1>2
  <2> QED
    BY <2>1, <1>4, AppendProperties
<1>6. /\ DOMAIN queue[l] = 1 .. Len(queue[l]) /\ Len(queue[l]) \in Nat
      /\ DOMAIN queue'[l] = 1 .. Len(queue'[l])
  BY <1>1, <1>2, <1>5, LenProperties
<1>7. /\ i \in DOMAIN queue'[l] /\ Len(queue[l]) + 1 \in DOMAIN queue'[l]
      /\ i < Len(queue[l]) + 1
      /\ queue'[l][i].handle = c /\ queue'[l][Len(queue[l]) + 1].handle = d
  <2>1. queue'[l][i] = queue[l][i]
    BY <1>3, <1>5, <1>6
  <2>2. n.handle = d
    BY <1>2 DEF n
  <2> QED
    BY <2>1, <2>2, <1>3, <1>5, <1>6
<1> QED
  BY <1>7 DEF Before

\* Every step serves in order.
LEMMA NextInOrder ==
  ASSUME Inv, [Next]_vars
  PROVE  ServedInOrder
<1> SUFFICES ASSUME NEW l \in Lock, NEW c \in Client, NEW d \in Client, Blocked(c, l)
             PROVE  /\ ~ Blocked(d, l) /\ Blocked(d, l)' => Before(c, d, l)'
                    /\ Before(c, d, l) => held'[d][l] <= held[d][l]
  BY DEF ServedInOrder
<1> DEFINE Goal == /\ ~ Blocked(d, l) /\ Blocked(d, l)' => Before(c, d, l)'
                   /\ Before(c, d, l) => held'[d][l] <= held[d][l]
<1>1. /\ held \in [Client -> [Lock -> Nat]] /\ held[d][l] \in Nat
      /\ pc \in [Client -> {"outside", "idle", "queued", "killed"}]
  BY DEF Inv, TypeOK
<1>2. ASSUME NEW e \in Client, srv_appl_init(e) PROVE Goal
  BY <1>1, <1>2 DEF srv_appl_init, Blocked
<1>3. ASSUME NEW e \in Client, srv_appl_exit(e) \/ APC_KILL(e) PROVE Goal
  <2>1. PICK s \in {"outside", "killed"} : Exit(e, s)
    BY <1>3 DEF srv_appl_exit, APC_KILL
  <2> QED
    BY <2>1, ExitInOrder, BehindIsNoHeir
<1>4. ASSUME NEW e \in Client, NEW k \in Lock, Reenter(e, k) \/ Acquire(e, k) PROVE Goal
  <2>1. /\ pc[e] = "idle" /\ held' = [held EXCEPT ![e][k] = @ + 1] /\ pc' = pc /\ wait' = wait
    BY <1>4 DEF Reenter, Acquire, MayBegin
  <2>2. Blocked(d, l)' => Blocked(d, l)
    BY <2>1 DEF Blocked
  <2>3. ASSUME Before(c, d, l) PROVE held'[d][l] <= held[d][l]
    <3>1. d # e
      BY <2>1, <2>3, BehindIsNotIdle
    <3> QED
      BY <3>1, <2>1, <1>1
  <2> QED
    BY <2>2, <2>3
<1>5. ASSUME NEW e \in Client, NEW k \in Lock, Enqueue(e, k) PROVE Goal
  <2>1. held' = held
    BY <1>5 DEF Enqueue
  <2> QED
    BY <1>1, <1>5, <2>1, EnqueuedBehind
<1>6. ASSUME NEW e \in Client, NEW k \in Lock, Return(e, k) PROVE Goal
  <2>1. held' = [held EXCEPT ![e][k] = Ended(@)] /\ pc' = pc /\ wait' = wait
    BY <1>6 DEF Return
  <2>2. held'[d][l] <= held[d][l]
    BY <1>1, <2>1 DEF Ended
  <2> QED
    BY <2>1, <2>2 DEF Blocked
<1>7. ASSUME NEW e \in Client, NEW k \in Lock, Release(e, k) PROVE Goal
  BY <1>7, ReleaseInOrder, BehindIsNoHeir
<1>8. CASE UNCHANGED vars
  BY <1>1, <1>8 DEF vars, Blocked
<1> QED
  BY <1>2, <1>3, <1>4, <1>5, <1>6, <1>7, <1>8 DEF Next, Refuse

\* First come, first served, for every number of clients and ids, and whatever
\* application is killed in a queue.
THEOREM Order == Spec => NoOvertaking
<1>1. Inv /\ [Next]_vars => [ServedInOrder]_vars
  BY NextInOrder
<1> QED
  BY <1>1, Invariance, PTL DEF Spec, NoOvertaking
=============================================================================
