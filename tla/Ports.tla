-------------------------------- MODULE Ports --------------------------------
(***************************************************************************)
(* The transport through MiNT's message port, srv_get_pmsg.c and           *)
(* srv_put_pmsg.c: a client writes a message into the box of the server    *)
(* and reads from its own, in one Pmsg(); the message points to the        *)
(* client's buffers, and the copy the server allocates for it is the       *)
(* handle, freed by the reply.  The boxes are MiNT's (external).           *)
(***************************************************************************)
EXTENDS Integers, Sequences, FiniteSets

CONSTANTS
  Client,
  Nobody,
  Polls,     \* how often Srv_get() looks into the box, 20 in the code
  Calls      \* numbers of calls kept apart

VARIABLES
  state,     \* "away", "wait", "gone" of each client
  count,     \* number of the call a client has made last
  SRVBOX,    \* messages for the server
  box,       \* answers in the box of each client
  handles,   \* PMSGs the server has allocated: of a message and its client
  serving,   \* the handle of the call that is served, or Nobody
  polls      \* rounds Srv_get() has looked into the box

vars == <<state, count, SRVBOX, box, handles, serving, polls>>

-----------------------------------------------------------------------------
PMSG(c) == [pid |-> c, call |-> count[c]]

Init ==
  /\ state = [c \in Client |-> "away"] /\ count = [c \in Client |-> 0]
  /\ SRVBOX = <<>> /\ box = [c \in Client |-> <<>>]
  /\ handles = {} /\ serving = Nobody /\ polls = 0

(* Client_send_recv() and what MiNT does for it. *)
MessageWrite(c) ==
  /\ state[c] = "away"
  /\ state' = [state EXCEPT ![c] = "wait"]
  /\ count' = [count EXCEPT ![c] = (@ + 1) % Calls]
  /\ SRVBOX' = Append(SRVBOX, [pid |-> c, call |-> count'[c]])
  /\ UNCHANGED <<box, handles, serving, polls>>

MessageRead(c) ==
  /\ state[c] = "wait" /\ box[c] # <<>>
  /\ state' = [state EXCEPT ![c] = "away"]
  /\ box' = [box EXCEPT ![c] = Tail(@)]
  /\ UNCHANGED <<count, SRVBOX, handles, serving, polls>>

Ends(c) ==
  /\ state[c] # "gone"
  /\ state' = [state EXCEPT ![c] = "gone"]
  /\ box' = [box EXCEPT ![c] = <<>>]
  /\ UNCHANGED <<count, SRVBOX, handles, serving, polls>>

(* Srv_get() looks into the box up to Polls times and yields in between. *)
Poll ==
  /\ serving = Nobody /\ SRVBOX = <<>>
  /\ polls' = (polls + 1) % (Polls + 1)
  /\ UNCHANGED <<state, count, SRVBOX, box, handles, serving>>

Srv_get ==
  /\ serving = Nobody /\ SRVBOX # <<>>
  /\ handles' = handles \union {Head(SRVBOX)}
  /\ serving' = Head(SRVBOX)
  /\ SRVBOX' = Tail(SRVBOX)
  /\ polls' = 0
  /\ UNCHANGED <<state, count, box>>

(* Mutant of Srv_reply: the reply goes to the first client that waits for one. *)
ReplyFirst(h) ==
  LET to == CHOOSE c \in Client : \E g \in handles : g.pid = c
  IN  /\ box' = IF state[to] = "gone" THEN box ELSE [box EXCEPT ![to] = Append(@, h.call)]
      /\ handles' = handles \ {h}

(* Srv_reply() to the process of the handle, and frees the handle.  To a client
   that has gone nothing is sent here; the code copies the answer to where the
   client's buffer was (srv_get_pmsg.c:95) and sends a message nobody reads. *)
Srv_reply(h) ==
  /\ box' = IF state[h.pid] = "gone" THEN box
            ELSE [box EXCEPT ![h.pid] = Append(@, h.call)]
  /\ handles' = handles \ {h}

srv_call ==
  /\ serving # Nobody
  /\ serving' = Nobody
  /\ \/ Srv_reply(serving)
     \/ UNCHANGED <<box, handles>>
  /\ UNCHANGED <<state, count, SRVBOX, polls>>

(* srv_handle_events(), or the call of another client. *)
AnswerLater ==
  \E h \in handles \ {serving} :
    /\ Srv_reply(h)
    /\ UNCHANGED <<state, count, SRVBOX, serving, polls>>

Next ==
  \/ \E c \in Client : MessageWrite(c) \/ MessageRead(c) \/ Ends(c)
  \/ Poll \/ Srv_get \/ srv_call \/ AnswerLater

Fairness ==
  /\ WF_vars(Srv_get) /\ WF_vars(srv_call)
  /\ \A c \in Client : WF_vars(MessageRead(c))

Spec == Init /\ [][Next]_vars /\ Fairness

-----------------------------------------------------------------------------
Waiting(c) == \E k \in DOMAIN SRVBOX : SRVBOX[k] = PMSG(c)

(* The call of c, as an abstract transport sees it. *)
phase ==
  [c \in Client |->
     CASE state[c] = "gone" -> "gone"
       [] state[c] = "away" -> "away"
       [] state[c] = "wait" /\ box[c] = <<count[c]>> -> "answered"
       [] state[c] = "wait" /\ Waiting(c) -> "called"
       [] OTHER -> "served"]

R == INSTANCE Rpc

(* The message port keeps the promise of Rpc. *)
PortsImplementRpc == R!Spec

=============================================================================
