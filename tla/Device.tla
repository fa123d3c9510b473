------------------------------- MODULE Device -------------------------------
(***************************************************************************)
(* The transport through a MiNT device, srv_comm_device.c and              *)
(* lib_comm_device.c.  The server's code runs in the system call of the    *)
(* client that writes to the device; what it answers is left in the file   *)
(* handle until the client reads it, and a client that finds nothing       *)
(* sleeps.  The kernel does not preempt a process in a system call.        *)
(***************************************************************************)
EXTENDS Integers, FiniteSets

CONSTANTS
  Client,
  Nobody,
  Slots,      \* MAX_NUM_APPS entries of pid_sockfd_pair_table
  Calls       \* numbers of calls kept apart

VARIABLES
  pc,        \* "out", "in", "write", "read", "gone" of each client
  calling,   \* number of the call a client has made last
  table,     \* clients that have a slot, and with it a file handle
  kernel,    \* the client whose call srv_call() is serving, or Nobody
  buf_out,   \* the answer in the file handle, -1 for bytes_out = 0
  queued,    \* clients that sleep in comm_read()
  awake,     \* of these, the ones that have been woken
  waiting    \* calls that will be answered later

vars == <<pc, calling, table, kernel, buf_out, queued, awake, waiting>>

-----------------------------------------------------------------------------
Empty == -1

Init ==
  /\ pc = [c \in Client |-> "out"] /\ calling = [c \in Client |-> 0]
  /\ table = {} /\ kernel = Nobody
  /\ buf_out = [c \in Client |-> Empty]
  /\ queued = {} /\ awake = {} /\ waiting = {}

(* Client_open() says nothing when there is no slot left; the slot of a
   process that has ended is never given back. *)
Client_open(c) ==
  /\ pc[c] = "out" /\ c \notin table
  /\ Cardinality(table) < Slots
  /\ table' = table \union {c}
  /\ pc' = [pc EXCEPT ![c] = "in"]
  /\ UNCHANGED <<calling, kernel, buf_out, queued, awake, waiting>>

(* Client_send_recv() writes ... *)
Fwrite(c) ==
  /\ pc[c] = "in"
  /\ pc' = [pc EXCEPT ![c] = "write"]
  /\ calling' = [calling EXCEPT ![c] = (@ + 1) % Calls]
  /\ UNCHANGED <<table, kernel, buf_out, queued, awake, waiting>>

comm_write(c) ==
  /\ pc[c] = "write" /\ kernel = Nobody
  /\ kernel' = c
  /\ pc' = [pc EXCEPT ![c] = "read"]
  /\ UNCHANGED <<calling, table, buf_out, queued, awake, waiting>>

(* The answer to a client that has gone is left out here and below: the file
   handle was freed when the client's file was closed (comm_close(), line 206),
   and Srv_reply() writes into it all the same (line 251).  What that memory
   is by then is not modelled.  Mutant of Reply: only a client that is
   selecting is woken. *)
ReplySelected(c, n) ==
  /\ buf_out' = IF pc[c] = "gone" THEN buf_out ELSE [buf_out EXCEPT ![c] = n]
  /\ UNCHANGED awake

(* Srv_reply() leaves the answer and wakes a client that sleeps. *)
Reply(c, n) ==
  /\ buf_out' = IF pc[c] = "gone" THEN buf_out ELSE [buf_out EXCEPT ![c] = n]
  /\ awake' = awake \union (queued \intersect {c})

srv_call ==
  /\ kernel # Nobody
  /\ kernel' = Nobody
  /\ \/ Reply(kernel, calling[kernel]) /\ UNCHANGED waiting
     \/ /\ waiting' = waiting \union {<<kernel, calling[kernel]>>}
        /\ UNCHANGED <<buf_out, awake>>
  /\ UNCHANGED <<pc, calling, table, queued>>

(* srv_handle_events(), in the call that Srv_poll_events() makes every 10 ms,
   or the call of another client answers one that waits. *)
AnswerLater ==
  \E w \in waiting :
    /\ waiting' = waiting \ {w}
    /\ Reply(w[1], w[2])
    /\ UNCHANGED <<pc, calling, table, kernel, queued>>

(* ... and reads: it sleeps while there is nothing. *)
comm_read_sleeps(c) ==
  /\ pc[c] = "read" /\ kernel = Nobody /\ buf_out[c] = Empty
  /\ c \notin queued
  /\ queued' = queued \union {c}
  /\ UNCHANGED <<pc, calling, table, kernel, buf_out, awake, waiting>>

comm_read(c) ==
  /\ pc[c] = "read" /\ kernel = Nobody /\ buf_out[c] # Empty
  /\ c \in queued => c \in awake
  /\ pc' = [pc EXCEPT ![c] = "in"]
  /\ buf_out' = [buf_out EXCEPT ![c] = Empty]
  /\ queued' = queued \ {c} /\ awake' = awake \ {c}
  /\ UNCHANGED <<calling, table, kernel, waiting>>

(* A process ends, not in the middle of a system call; comm_close(). *)
Ends(c) ==
  /\ pc[c] \notin {"out", "gone"} /\ kernel # c
  /\ pc' = [pc EXCEPT ![c] = "gone"]
  /\ buf_out' = [buf_out EXCEPT ![c] = Empty]
  /\ queued' = queued \ {c} /\ awake' = awake \ {c}
  /\ UNCHANGED <<calling, table, kernel, waiting>>

Next ==
  \/ \E c \in Client :
       \/ Client_open(c) \/ Fwrite(c) \/ comm_write(c)
       \/ comm_read_sleeps(c) \/ comm_read(c) \/ Ends(c)
  \/ srv_call \/ AnswerLater

(* A process that can go on does. *)
Fairness ==
  /\ WF_vars(srv_call)
  /\ \A c \in Client : SF_vars(comm_write(c)) /\ SF_vars(comm_read(c))

Spec == Init /\ [][Next]_vars /\ Fairness

-----------------------------------------------------------------------------
(* The call of c, as an abstract transport sees it. *)
phase ==
  [c \in Client |->
     CASE pc[c] = "gone" -> "gone"
       [] pc[c] \in {"out", "in"} -> "away"
       [] pc[c] = "write" -> "called"
       [] pc[c] = "read" /\ buf_out[c] = calling[c] -> "answered"
       [] OTHER -> "served"]

R == INSTANCE Rpc

(* The device keeps the promise of Rpc, although a call may be answered while
   its client is still in it, before the client sleeps or while it does. *)
DeviceImplementsRpc == R!Spec

=============================================================================
