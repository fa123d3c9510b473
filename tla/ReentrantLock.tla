--------------------------- MODULE ReentrantLock ---------------------------
(***************************************************************************)
(* What one lock of wind_update() promises to the applications: at most    *)
(* one is inside, as deep as it likes; the others wait in line, and the    *)
(* lock goes to the first of the line in the step that makes it free.      *)
(* No server state, no ids and no messages appear here.                    *)
(***************************************************************************)
EXTENDS Naturals, Sequences

CONSTANT Client

VARIABLES
  depth,    \* how deep each client is inside
  waiting   \* the line

lockVars == <<depth, waiting>>

Inside == {c \in Client : depth[c] > 0}

InLine == {waiting[i] : i \in DOMAIN waiting}

LockTypeOK == depth \in [Client -> Nat] /\ waiting \in Seq(Client)

LockInit == depth = [c \in Client |-> 0] /\ waiting = <<>>

Enter(c) ==
  /\ Inside = {}
  /\ depth' = [depth EXCEPT ![c] = 1]
  /\ UNCHANGED waiting

EnterAgain(c) ==
  /\ c \in Inside
  /\ depth' = [depth EXCEPT ![c] = @ + 1]
  /\ UNCHANGED waiting

StandInLine(c) ==
  /\ Inside \ {c} # {}
  /\ c \notin InLine
  /\ waiting' = Append(waiting, c)
  /\ UNCHANGED depth

LeaveInner(c) ==
  /\ depth[c] > 1
  /\ depth' = [depth EXCEPT ![c] = @ - 1]
  /\ UNCHANGED waiting

\* The outermost end, or the end of the client: the first in line enters.
Leave(c) ==
  /\ c \in Inside
  /\ IF waiting = <<>>
     THEN /\ depth' = [depth EXCEPT ![c] = 0]
          /\ UNCHANGED waiting
     ELSE /\ depth' = [depth EXCEPT ![c] = 0, ![Head(waiting)] = 1]
          /\ waiting' = Tail(waiting)

LockNext ==
  \E c \in Client :
    Enter(c) \/ EnterAgain(c) \/ StandInLine(c) \/ LeaveInner(c) \/ Leave(c)

LockSpec == LockInit /\ [][LockNext]_lockVars
=============================================================================
