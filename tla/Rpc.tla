--------------------------------- MODULE Rpc ---------------------------------
(***************************************************************************)
(* What the transport between an application and the server promises, for  *)
(* sockets and for the MiNT device alike: a call is served once, answered  *)
(* once, then or later, and its caller gets the answer to this call and    *)
(* not to another.                                                         *)
(***************************************************************************)
CONSTANT Client

VARIABLE phase

vars == phase

Phase == {"away", "called", "served", "answered", "gone"}

Init == phase = [c \in Client |-> "away"]

Step(c, from, to) ==
  /\ phase[c] = from
  /\ phase' = [phase EXCEPT ![c] = to]

Call(c) == Step(c, "away", "called")
Serve(c) == Step(c, "called", "served")
Answer(c) == Step(c, "served", "answered")
Return(c) == Step(c, "answered", "away")

(* A client may end at any time. *)
Leave(c) ==
  /\ phase[c] # "gone"
  /\ phase' = [phase EXCEPT ![c] = "gone"]

Next == \E c \in Client :
  Call(c) \/ Serve(c) \/ Answer(c) \/ Return(c) \/ Leave(c)

(* When a call is answered is a matter of the call: evnt_multi() waits. *)
Spec ==
  /\ Init /\ [][Next]_vars
  /\ \A c \in Client : WF_vars(Serve(c)) /\ WF_vars(Return(c))

=============================================================================
