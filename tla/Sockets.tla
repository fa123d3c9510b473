------------------------------ MODULE Sockets ------------------------------
(***************************************************************************)
(* The transport over sockets, srv_get_sockets.c and srv_put_sockets.c,    *)
(* with the loop of the server in srv.c: which connections are selected,   *)
(* which are queued, and which one the server reads from.                  *)
(*                                                                         *)
(* A client is its connection.  A call or an answer is the number of the   *)
(* call, modulo Calls.                                                     *)
(***************************************************************************)
EXTENDS Integers, Sequences, FiniteSets, SequencesExt

CONSTANTS
  Client,
  Nobody,
  Calls       \* numbers of calls kept apart

VARIABLES
  client,     \* "new", "open", "wait", "ready" or "dead"
  number,     \* of the call a client has made last
  backlog,    \* connections not accepted yet
  inbox,      \* calls in the socket, client to server
  outbox,     \* answers in the socket, server to client
  reset,      \* connections that were closed with something unread
  selectable_handles,
  queue,      \* first_queued_handle ... last_queued_handle
  server,     \* "get", "recv", "call", "events"
  handle,     \* the connection the server reads from or serves
  taken,      \* number of the call that was read
  parked,     \* clients whose call is answered later, with its number
  reported    \* connections SRV_CONN_LOST was raised for

net == <<backlog, inbox, outbox, reset>>
lists == <<selectable_handles, queue>>
calls == <<server, handle, taken, parked, reported>>
vars == <<client, number, net, lists, calls>>

-----------------------------------------------------------------------------
Number == 0 .. Calls - 1
In(c, list) == \E k \in DOMAIN list : list[k] = c

Init ==
  /\ client = [c \in Client |-> "new"] /\ number = [c \in Client |-> 0]
  /\ backlog = <<>> /\ reset = {}
  /\ inbox = [c \in Client |-> <<>>] /\ outbox = [c \in Client |-> <<>>]
  /\ selectable_handles = <<>> /\ queue = <<>>
  /\ server = "get" /\ handle = Nobody /\ taken = 0
  /\ parked = {} /\ reported = {}

(***************************************************************************)
(* The client.  Client_open() connects the first time it is called.        *)
(***************************************************************************)
Client_open(c) ==
  /\ client[c] = "new"
  /\ client' = [client EXCEPT ![c] = "open"]
  /\ backlog' = Append(backlog, c)
  /\ UNCHANGED <<number, inbox, outbox, reset, lists, calls>>

(* Client_send_recv(): send, then wait for the answer. *)
Send(c) ==
  /\ client[c] \in {"open", "ready"}
  /\ client' = [client EXCEPT ![c] = "wait"]
  /\ number' = [number EXCEPT ![c] = (@ + 1) % Calls]
  /\ inbox' = [inbox EXCEPT ![c] = Append(@, number'[c])]
  /\ UNCHANGED <<backlog, outbox, reset, lists, calls>>

Receive(c) ==
  /\ client[c] = "wait" /\ outbox[c] # <<>>
  /\ client' = [client EXCEPT ![c] = "ready"]
  /\ outbox' = [outbox EXCEPT ![c] = Tail(@)]
  /\ UNCHANGED <<number, backlog, inbox, reset, lists, calls>>

Ends(c) ==
  /\ client[c] \notin {"new", "dead"}
  /\ client' = [client EXCEPT ![c] = "dead"]
  /\ reset' = IF outbox[c] # <<>> THEN reset \union {c} ELSE reset
  /\ outbox' = [outbox EXCEPT ![c] = <<>>]
  /\ UNCHANGED <<number, backlog, inbox, lists, calls>>

(***************************************************************************)
(* Srv_get(): select() with a timeout when the queue is empty, accept one  *)
(* connection, queue it and whoever has sent something, and pop the first. *)
(***************************************************************************)
HasData(c) == inbox[c] # <<>> \/ client[c] = "dead"

(* The last one in is the first one out. *)
insert_first(list, new) == new \o list
insert_last(list, new) == list \o new

Chosen == SelectSeq(selectable_handles, HasData)

(* A connection with data stays among the ones to select. *)
StillChosen == selectable_handles
Unchosen == SelectSeq(selectable_handles, LAMBDA c : ~HasData(c))

(* At most one connection is accepted in a round. *)
Accepted == IF backlog = <<>> THEN <<>> ELSE <<Head(backlog)>>

Srv_get ==
  LET all == insert_last(insert_last(queue, Accepted), Chosen)
  IN  /\ server = "get"
      /\ backlog' = IF backlog = <<>> THEN <<>> ELSE Tail(backlog)
      /\ selectable_handles' = Unchosen
      /\ IF all = <<>>
         THEN /\ server' = "events"
              /\ UNCHANGED <<queue, handle>>
         ELSE /\ server' = "recv" /\ handle' = Head(all)
              /\ queue' = Tail(all)
      /\ UNCHANGED <<client, number, inbox, outbox, reset, taken, parked, reported>>

(* recv() on the connection, which waits when it is a new one. *)
Recv ==
  /\ server = "recv" /\ inbox[handle] # <<>> /\ handle \notin reset
  /\ taken' = Head(inbox[handle])
  /\ inbox' = [inbox EXCEPT ![handle] = Tail(@)]
  /\ selectable_handles' = <<handle>> \o selectable_handles
  /\ server' = "call"
  /\ UNCHANGED <<client, number, backlog, outbox, reset, queue, handle, parked, reported>>

(* The other end is closed: recv() returns 0, again and again. *)
RecvNothing ==
  /\ server = "recv" /\ inbox[handle] = <<>> /\ handle \notin reset
  /\ client[handle] = "dead"
  /\ selectable_handles' = <<handle>> \o selectable_handles
  /\ server' = "events" /\ handle' = Nobody
  /\ UNCHANGED <<client, number, net, queue, taken, parked, reported>>

(* recv() fails: SRV_CONN_LOST, and the connection is forgotten. *)
RecvFails ==
  /\ server = "recv" /\ handle \in reset
  /\ reported' = reported \union {handle}
  /\ server' = "events" /\ handle' = Nobody
  /\ UNCHANGED <<client, number, net, lists, taken, parked>>

(* Srv_reply(); what is sent to a client that has gone resets the connection. *)
Srv_reply(c, n) ==
  IF client[c] = "dead"
  THEN reset' = reset \union {c} /\ UNCHANGED outbox
  ELSE outbox' = [outbox EXCEPT ![c] = Append(@, n)] /\ UNCHANGED reset

(* The call is answered at once, or the client is left waiting. *)
srv_call ==
  /\ server = "call"
  /\ server' = "events" /\ handle' = Nobody
  /\ \/ Srv_reply(handle, taken) /\ UNCHANGED parked
     \/ parked' = parked \union {<<handle, taken>>} /\ UNCHANGED <<outbox, reset>>
  /\ UNCHANGED <<client, number, backlog, inbox, lists, taken, reported>>

(* An event, or a call of another client, answers one that waits. *)
AnswerLater ==
  /\ server \in {"call", "events"}
  /\ \E w \in parked :
       /\ parked' = parked \ {w}
       /\ Srv_reply(w[1], w[2])
  /\ UNCHANGED <<client, number, backlog, inbox, lists, server, handle, taken, reported>>

srv_handle_events ==
  /\ server = "events"
  /\ server' = "get"
  /\ UNCHANGED <<client, number, net, lists, handle, taken, parked, reported>>

Server == \/ Srv_get \/ Recv \/ RecvNothing \/ RecvFails
          \/ srv_call \/ srv_handle_events

Next ==
  \/ \E c \in Client : Client_open(c) \/ Send(c) \/ Receive(c) \/ Ends(c)
  \/ Server \/ AnswerLater

(* The server runs; appl_init() sends its call as soon as it is connected;
   a client that waits is woken by its answer. *)
Fairness ==
  /\ WF_vars(Server)
  /\ \A c \in Client :
       WF_vars(client[c] = "open" /\ Send(c)) /\ WF_vars(Receive(c))

Spec == Init /\ [][Next]_vars /\ Fairness

-----------------------------------------------------------------------------
(* A connection that has been accepted is in one place, once: to be
   selected, queued, or read from, until recv() has failed for it. *)
Places(c) ==
  Cardinality({k \in DOMAIN selectable_handles : selectable_handles[k] = c})
  + Cardinality({k \in DOMAIN queue : queue[k] = c})
  + Cardinality({k \in DOMAIN backlog : backlog[k] = c})
  + (IF server = "recv" /\ handle = c THEN 1 ELSE 0)

ConnectionIsKept ==
  \A c \in Client :
    Places(c) = IF client[c] = "new" \/ c \in reported THEN 0 ELSE 1

(* The call of c, as an abstract transport sees it. *)
phase ==
  [c \in Client |->
     CASE client[c] = "dead" -> "gone"
       [] client[c] \in {"new", "open", "ready"} -> "away"
       [] client[c] = "wait" /\ outbox[c] = <<number[c]>> -> "answered"
       [] client[c] = "wait" /\ inbox[c] # <<>> -> "called"
       [] OTHER -> "served"]

R == INSTANCE Rpc

(* Sockets keep the promise of Rpc: each call is served once and answered
   once, whoever else calls, connects or ends, and every call is served. *)
SocketsImplementRpc == R!Spec

=============================================================================
