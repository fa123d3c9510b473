-------------------------- MODULE TransportProofs --------------------------
(***************************************************************************)
(* The three transports between an application and the server keep the     *)
(* promise of Rpc, step by step, for any number of clients, slots and      *)
(* polls: a call is served once, answered once, and its caller gets the    *)
(* answer to this call.  That a call is served at all is a matter of       *)
(* fairness and stays with the model checker.                              *)
(***************************************************************************)
EXTENDS Integers, Sequences, FiniteSets, TLAPS

CONSTANTS Client, Nobody, Calls, Slots, Polls

VARIABLES
  pc, calling, table, kernel, buf_out, queued, awake, waiting,
  state, count, SRVBOX, box, handles, serving, polls,
  client, number, backlog, inbox, outbox, reset, selectable_handles, queue,
  server, handle, taken, parked, reported

Device  == INSTANCE Device
Ports   == INSTANCE Ports
Sockets == INSTANCE Sockets

Number == 0 .. Calls - 1
Message == [pid : Client, call : Number]

\* There are numbers for the calls, and nobody is not a client, nor a message.
Sound == Calls \in Nat \ {0} /\ Nobody \notin Client /\ Nobody \notin Message

\* The number of the next call is a number.
LEMMA NextNumber ==
  ASSUME Sound, NEW n \in Number
  PROVE  (n + 1) % Calls \in Number
BY DEF Sound, Number

-----------------------------------------------------------------------------
(* The device                                                              *)

DeviceTypes ==
  /\ pc \in [Client -> {"out", "in", "write", "read", "gone"}]
  /\ calling \in [Client -> Number]
  /\ kernel \in Client \cup {Nobody}
  /\ buf_out \in [Client -> Number \cup {Device!Empty}]
  /\ queued \subseteq Client
  /\ waiting \subseteq Client \X Number

\* A call that is waiting for its answer is in one place: with srv_call(), among
\* the calls that are answered later, or in the file handle.
DeviceCalls ==
  /\ kernel # Nobody => pc[kernel] = "read" /\ buf_out[kernel] = Device!Empty
                        /\ \A w \in waiting : w[1] # kernel
  /\ \A w \in waiting : /\ pc[w[1]] \in {"read", "gone"}
                        /\ pc[w[1]] = "read" => /\ w[2] = calling[w[1]]
                                                /\ buf_out[w[1]] = Device!Empty
  /\ \A v, w \in waiting : v[1] = w[1] => v = w
  /\ \A c \in Client : buf_out[c] # Device!Empty => pc[c] = "read" /\ buf_out[c] = calling[c]

\* No wake-up is lost: a client that sleeps while there is an answer for it has
\* been woken.
SleeperIsWoken ==
  \A c \in queued : pc[c] = "read" /\ (buf_out[c] # Device!Empty => c \in awake)

DeviceInv == DeviceTypes /\ DeviceCalls /\ SleeperIsWoken

\* What a step of the device is to an abstract transport.
DeviceStep == Device!R!Next \/ UNCHANGED Device!phase

\* The invariant holds at the start.
LEMMA DeviceInit ==
  ASSUME Sound, Device!Init
  PROVE  DeviceInv /\ Device!R!Init
<1>1. 0 \in Number
  BY DEF Sound, Number
<1>2. DeviceInv
  BY <1>1 DEF Device!Init, DeviceInv, DeviceTypes, DeviceCalls, SleeperIsWoken
<1>3. Device!R!Init
  BY DEF Device!Init, Device!R!Init, Device!phase
<1> QED
  BY <1>2, <1>3

\* A client connects.
LEMMA DeviceOpen ==
  ASSUME Sound, DeviceInv, NEW c \in Client, Device!Client_open(c)
  PROVE  DeviceInv' /\ DeviceStep
<1>1. /\ pc[c] = "out" /\ pc' = [pc EXCEPT ![c] = "in"]
      /\ UNCHANGED <<calling, kernel, buf_out, queued, awake, waiting>>
  BY DEF Device!Client_open
<1>2. DeviceInv'
  BY <1>1 DEF DeviceInv, DeviceTypes, DeviceCalls, SleeperIsWoken
<1>3. UNCHANGED Device!phase
  BY <1>1 DEF Device!phase, DeviceInv, DeviceTypes
<1> QED
  BY <1>2, <1>3 DEF DeviceStep

\* A client calls.
LEMMA DeviceWrite ==
  ASSUME Sound, DeviceInv, NEW c \in Client, Device!Fwrite(c)
  PROVE  DeviceInv' /\ DeviceStep
<1>1. /\ pc[c] = "in" /\ pc' = [pc EXCEPT ![c] = "write"]
      /\ calling' = [calling EXCEPT ![c] = (calling[c] + 1) % Calls]
      /\ UNCHANGED <<kernel, buf_out, queued, awake, waiting>>
  BY DEF Device!Fwrite
<1>2. (calling[c] + 1) % Calls \in Number
  BY NextNumber DEF DeviceInv, DeviceTypes
<1>3. buf_out[c] = Device!Empty /\ c \notin queued /\ \A w \in waiting : w[1] # c
  BY <1>1 DEF DeviceInv, DeviceCalls, SleeperIsWoken
<1>4. DeviceInv'
  BY <1>1, <1>2, <1>3 DEF DeviceInv, DeviceTypes, DeviceCalls, SleeperIsWoken
<1>5. Device!R!Call(c)
  BY <1>1, <1>3 DEF Device!R!Call, Device!R!Step, Device!phase, DeviceInv, DeviceTypes
<1> QED
  BY <1>4, <1>5 DEF DeviceStep, Device!R!Next

\* The server takes the call.
LEMMA DeviceServe ==
  ASSUME Sound, DeviceInv, NEW c \in Client, Device!comm_write(c)
  PROVE  DeviceInv' /\ DeviceStep
<1>1. /\ pc[c] = "write" /\ kernel = Nobody /\ kernel' = c
      /\ pc' = [pc EXCEPT ![c] = "read"]
      /\ UNCHANGED <<calling, buf_out, queued, awake, waiting>>
  BY DEF Device!comm_write
<1>2. /\ buf_out[c] = Device!Empty /\ c \notin queued /\ \A w \in waiting : w[1] # c
      /\ buf_out[c] # calling[c]
  BY <1>1 DEF DeviceInv, DeviceTypes, DeviceCalls, SleeperIsWoken, Sound, Number, Device!Empty
<1>3. DeviceInv'
  BY <1>1, <1>2 DEF DeviceInv, DeviceTypes, DeviceCalls, SleeperIsWoken
<1>4. Device!R!Serve(c)
  BY <1>1, <1>2 DEF Device!R!Serve, Device!R!Step, Device!phase, DeviceInv, DeviceTypes
<1> QED
  BY <1>3, <1>4 DEF DeviceStep, Device!R!Next

\* Srv_reply() to a call that waits: with its answer the client is answered, and
\* one that has gone stays so.
LEMMA DeviceReply ==
  ASSUME Sound, DeviceInv, NEW c \in Client, Device!Reply(c, calling[c]),
         pc[c] = "read", buf_out[c] = Device!Empty, UNCHANGED <<pc, calling, queued>>
  PROVE  /\ Device!R!Answer(c)
         /\ buf_out' = [buf_out EXCEPT ![c] = calling[c]] /\ SleeperIsWoken'
<1>1. /\ buf_out' = [buf_out EXCEPT ![c] = calling[c]]
      /\ awake' = awake \cup (queued \cap {c})
  BY DEF Device!Reply
<1>2. calling[c] # Device!Empty
  BY DEF DeviceInv, DeviceTypes, Sound, Number, Device!Empty
<1>3. Device!R!Answer(c)
  BY <1>1, <1>2 DEF Device!R!Answer, Device!R!Step, Device!phase, DeviceInv, DeviceTypes
<1>4. SleeperIsWoken'
  BY <1>1 DEF DeviceInv, DeviceTypes, SleeperIsWoken
<1> QED
  BY <1>1, <1>3, <1>4

\* srv_call() answers at once, or leaves the client waiting.
LEMMA DeviceCall ==
  ASSUME Sound, DeviceInv, Device!srv_call
  PROVE  DeviceInv' /\ DeviceStep
<1>1. /\ kernel # Nobody /\ kernel' = Nobody /\ UNCHANGED <<pc, calling, queued>>
      /\ \/ Device!Reply(kernel, calling[kernel]) /\ UNCHANGED waiting
         \/ /\ waiting' = waiting \cup {<<kernel, calling[kernel]>>}
            /\ UNCHANGED <<buf_out, awake>>
  BY DEF Device!srv_call
<1>2. PICK c \in Client : c = kernel
  BY <1>1 DEF DeviceInv, DeviceTypes
<1>3. pc[c] = "read" /\ buf_out[c] = Device!Empty /\ \A w \in waiting : w[1] # c
  BY <1>1, <1>2 DEF DeviceInv, DeviceCalls
<1>4. CASE Device!Reply(c, calling[c]) /\ UNCHANGED waiting
  <2>1. /\ Device!R!Answer(c)
        /\ buf_out' = [buf_out EXCEPT ![c] = calling[c]] /\ SleeperIsWoken'
    BY <1>1, <1>3, <1>4, DeviceReply
  <2>2. DeviceInv'
    BY <1>1, <1>3, <1>4, <2>1 DEF DeviceInv, DeviceTypes, DeviceCalls
  <2> QED
    BY <2>1, <2>2 DEF DeviceStep, Device!R!Next
<1>5. CASE /\ waiting' = waiting \cup {<<c, calling[c]>>}
           /\ UNCHANGED <<buf_out, awake>>
  <2>1. DeviceInv'
    BY <1>1, <1>3, <1>5 DEF DeviceInv, DeviceTypes, DeviceCalls, SleeperIsWoken
  <2>2. UNCHANGED Device!phase
    BY <1>1, <1>5 DEF Device!phase
  <2> QED
    BY <2>1, <2>2 DEF DeviceStep
<1> QED
  BY <1>1, <1>2, <1>4, <1>5

\* A call that waits is answered later, unless its client has gone.
LEMMA DeviceLater ==
  ASSUME Sound, DeviceInv, Device!AnswerLater
  PROVE  DeviceInv' /\ DeviceStep
<1>1. PICK w \in waiting : /\ waiting' = waiting \ {w} /\ Device!Reply(w[1], w[2])
                           /\ UNCHANGED <<pc, calling, table, kernel, queued>>
  BY DEF Device!AnswerLater
<1>2. PICK c \in Client : c = w[1]
  BY DEF DeviceInv, DeviceTypes
<1>3. /\ pc[c] \in {"read", "gone"} /\ kernel # c
      /\ pc[c] = "read" => w[2] = calling[c] /\ buf_out[c] = Device!Empty
      /\ \A v \in waiting' : v[1] # c /\ v \in waiting
  BY <1>1, <1>2 DEF DeviceInv, DeviceCalls, Sound
<1>4. CASE pc[c] = "read"
  <2>1. /\ Device!R!Answer(c)
        /\ buf_out' = [buf_out EXCEPT ![c] = calling[c]] /\ SleeperIsWoken'
    BY <1>1, <1>2, <1>3, <1>4, DeviceReply
  <2>2. DeviceInv'
    BY <1>1, <1>3, <1>4, <2>1 DEF DeviceInv, DeviceTypes, DeviceCalls
  <2> QED
    BY <2>1, <2>2 DEF DeviceStep, Device!R!Next
<1>5. CASE pc[c] = "gone"
  <2>1. buf_out' = buf_out /\ awake' = awake \cup (queued \cap {c})
    BY <1>1, <1>2, <1>5 DEF Device!Reply
  <2>2. DeviceInv'
    BY <1>1, <1>3, <2>1 DEF DeviceInv, DeviceTypes, DeviceCalls, SleeperIsWoken
  <2>3. UNCHANGED Device!phase
    BY <1>1, <2>1 DEF Device!phase
  <2> QED
    BY <2>2, <2>3 DEF DeviceStep
<1> QED
  BY <1>3, <1>4, <1>5

\* A client finds nothing and sleeps.
LEMMA DeviceSleep ==
  ASSUME Sound, DeviceInv, NEW c \in Client, Device!comm_read_sleeps(c)
  PROVE  DeviceInv' /\ DeviceStep
<1>1. /\ pc[c] = "read" /\ buf_out[c] = Device!Empty /\ queued' = queued \cup {c}
      /\ UNCHANGED <<pc, calling, kernel, buf_out, awake, waiting>>
  BY DEF Device!comm_read_sleeps
<1>2. DeviceInv'
  BY <1>1 DEF DeviceInv, DeviceTypes, DeviceCalls, SleeperIsWoken
<1>3. UNCHANGED Device!phase
  BY <1>1 DEF Device!phase
<1> QED
  BY <1>2, <1>3 DEF DeviceStep

\* A client reads its answer.
LEMMA DeviceRead ==
  ASSUME Sound, DeviceInv, NEW c \in Client, Device!comm_read(c)
  PROVE  DeviceInv' /\ DeviceStep
<1>1. /\ pc[c] = "read" /\ buf_out[c] # Device!Empty
      /\ pc' = [pc EXCEPT ![c] = "in"]
      /\ buf_out' = [buf_out EXCEPT ![c] = Device!Empty]
      /\ queued' = queued \ {c} /\ awake' = awake \ {c}
      /\ UNCHANGED <<calling, kernel, waiting>>
  BY DEF Device!comm_read
<1>2. buf_out[c] = calling[c] /\ kernel # c /\ \A w \in waiting : w[1] # c
  BY <1>1 DEF DeviceInv, DeviceCalls, Sound
<1>3. DeviceInv'
  BY <1>1, <1>2 DEF DeviceInv, DeviceTypes, DeviceCalls, SleeperIsWoken
<1>4. Device!R!Return(c)
  BY <1>1, <1>2 DEF Device!R!Return, Device!R!Step, Device!phase, DeviceInv, DeviceTypes
<1> QED
  BY <1>3, <1>4 DEF DeviceStep, Device!R!Next

\* A process ends; the calls that are answered later do not know it.
LEMMA DeviceEnd ==
  ASSUME Sound, DeviceInv, NEW c \in Client, Device!Ends(c)
  PROVE  DeviceInv' /\ DeviceStep
<1>1. /\ pc[c] # "gone" /\ kernel # c
      /\ pc' = [pc EXCEPT ![c] = "gone"]
      /\ buf_out' = [buf_out EXCEPT ![c] = Device!Empty]
      /\ queued' = queued \ {c} /\ awake' = awake \ {c}
      /\ UNCHANGED <<calling, kernel, waiting>>
  BY DEF Device!Ends
<1>2. DeviceInv'
  BY <1>1 DEF DeviceInv, DeviceTypes, DeviceCalls, SleeperIsWoken
<1>3. Device!R!Leave(c)
  BY <1>1 DEF Device!R!Leave, Device!phase, DeviceInv, DeviceTypes
<1> QED
  BY <1>2, <1>3 DEF DeviceStep, Device!R!Next

\* Every step of the device is one of an abstract transport, or none.
LEMMA DeviceSteps ==
  ASSUME Sound, DeviceInv, [Device!Next]_(Device!vars)
  PROVE  DeviceInv' /\ [Device!R!Next]_(Device!phase)
<1>1. CASE UNCHANGED Device!vars
  <2>1. UNCHANGED <<pc, calling, kernel, buf_out, queued, awake, waiting>>
    BY <1>1 DEF Device!vars
  <2>2. DeviceInv'
    BY <2>1 DEF DeviceInv, DeviceTypes, DeviceCalls, SleeperIsWoken
  <2>3. UNCHANGED Device!phase
    BY <2>1 DEF Device!phase
  <2> QED
    BY <2>2, <2>3
<1>2. CASE Device!Next
  <2>1. DeviceInv' /\ DeviceStep
    BY <1>2, DeviceOpen, DeviceWrite, DeviceServe, DeviceCall, DeviceLater, DeviceSleep,
       DeviceRead, DeviceEnd DEF Device!Next
  <2> QED
    BY <2>1 DEF DeviceStep
<1> QED
  BY <1>1, <1>2

\* The device serves each call once and answers it once, to its caller.
THEOREM DeviceKeepsCalls ==
  ASSUME Sound
  PROVE  Device!Spec => Device!R!Init /\ [][Device!R!Next]_(Device!phase)
<1>1. Device!Init => DeviceInv /\ Device!R!Init
  BY DeviceInit
<1>2. DeviceInv /\ [Device!Next]_(Device!vars) => DeviceInv' /\ [Device!R!Next]_(Device!phase)
  BY DeviceSteps
<1> QED
  BY <1>1, <1>2, PTL DEF Device!Spec

\* No client of the device sleeps on while there is an answer for it.
THEOREM SleepersAreWoken ==
  ASSUME Sound
  PROVE  Device!Spec => []SleeperIsWoken
<1>1. Device!Init => DeviceInv
  BY DeviceInit
<1>2. DeviceInv /\ [Device!Next]_(Device!vars) => DeviceInv'
  BY DeviceSteps
<1>3. DeviceInv => SleeperIsWoken
  BY DEF DeviceInv
<1> QED
  BY <1>1, <1>2, <1>3, PTL DEF Device!Spec

-----------------------------------------------------------------------------
(* The message port                                                        *)

PortsTypes ==
  /\ state \in [Client -> {"away", "wait", "gone"}]
  /\ count \in [Client -> Number]
  /\ SRVBOX \in Seq(Message)
  /\ box \in [Client -> Seq(Number)]
  /\ handles \subseteq Message
  /\ serving \in handles \cup {Nobody}

\* Who has sent m waits for its answer, unless it has gone.
Pends(m) ==
  /\ state[m.pid] \in {"wait", "gone"}
  /\ state[m.pid] = "wait" => m.call = count[m.pid] /\ box[m.pid] = <<>>

\* The server has m, or will find it in its box.
Sent(m) == m \in handles \/ \E k \in DOMAIN SRVBOX : SRVBOX[k] = m

\* A client has one call at a time: in the box of the server, with the server,
\* or answered in its own box.
PortsCalls ==
  /\ \A m \in Message : Sent(m) => Pends(m)
  /\ \A k, l \in DOMAIN SRVBOX : SRVBOX[k].pid = SRVBOX[l].pid => k = l
  /\ \A k \in DOMAIN SRVBOX, h \in handles : SRVBOX[k].pid # h.pid
  /\ \A g, h \in handles : g.pid = h.pid => g = h
  /\ \A c \in Client : box[c] # <<>> => state[c] = "wait" /\ box[c] = <<count[c]>>

PortsInv == PortsTypes /\ PortsCalls

\* What a step of the message port is to an abstract transport.
PortsStep == Ports!R!Next \/ UNCHANGED Ports!phase

\* A box with one thing in it is empty when that is taken, and one that was empty
\* holds what is put in.
LEMMA OnlyOne ==
  ASSUME NEW S, NEW n \in S
  PROVE  Tail(<<n>>) = <<>> /\ Append(<<>>, n) = <<n>> /\ <<n>> \in Seq(S) /\ <<n>> # <<>>
OBVIOUS

\* The phase of a call, as a choice between two at a time.
PortsPhase(c) ==
  IF state[c] = "gone" THEN "gone"
  ELSE IF state[c] = "away" THEN "away"
  ELSE IF state[c] = "wait" /\ box[c] = <<count[c]>> THEN "answered"
  ELSE IF state[c] = "wait" /\ Ports!Waiting(c) THEN "called"
  ELSE "served"

\* It is the phase, as no call is both answered and in the box of the server.
LEMMA PortsPhases ==
  PortsInv => \A c \in Client : Ports!phase[c] = PortsPhase(c)
<1>1. SUFFICES ASSUME PortsInv, NEW c \in Client  PROVE Ports!phase[c] = PortsPhase(c)
  OBVIOUS
<1>2. CASE state[c] = "gone"
  BY <1>2 DEF Ports!phase, PortsPhase
<1>3. CASE state[c] = "away"
  BY <1>3 DEF Ports!phase, PortsPhase
<1>4. CASE state[c] = "wait" /\ box[c] = <<count[c]>>
  <2>1. ~Ports!Waiting(c)
    <3>1. SUFFICES ASSUME NEW k \in DOMAIN SRVBOX, SRVBOX[k] = Ports!PMSG(c)  PROVE FALSE
      BY DEF Ports!Waiting
    <3>2. PICK m \in Message : m = SRVBOX[k]
      BY <1>1 DEF PortsInv, PortsTypes
    <3>3. m.pid = c /\ Sent(m)
      BY <3>1, <3>2 DEF Sent, Ports!PMSG
    <3>4. box[c] = <<>>
      BY <1>1, <1>4, <3>3 DEF PortsInv, PortsCalls, Pends
    <3>5. count[c] \in Number
      BY <1>1 DEF PortsInv, PortsTypes
    <3> QED
      BY <1>4, <3>4, <3>5, OnlyOne
  <2> QED
    BY <1>4, <2>1 DEF Ports!phase, PortsPhase
<1>5. CASE state[c] = "wait" /\ box[c] # <<count[c]>> /\ Ports!Waiting(c)
  BY <1>5 DEF Ports!phase, PortsPhase
<1>6. CASE state[c] = "wait" /\ box[c] # <<count[c]>> /\ ~Ports!Waiting(c)
  BY <1>6 DEF Ports!phase, PortsPhase
<1>7. state[c] \in {"away", "wait", "gone"}
  BY <1>1 DEF PortsInv, PortsTypes
<1> QED
  BY <1>2, <1>3, <1>4, <1>5, <1>6, <1>7

\* So it is in the next state.
LEMMA PortsPhasesNext ==
  (PortsInv => \A c \in Client : Ports!phase[c] = PortsPhase(c))'
BY PortsPhases, PTL

\* A message appended to the box of the server is its last one.
LEMMA AppendFacts ==
  ASSUME NEW S, NEW s \in Seq(S), NEW m \in S
  PROVE  /\ Append(s, m) \in Seq(S) /\ Len(s) + 1 \notin DOMAIN s
         /\ DOMAIN Append(s, m) = DOMAIN s \cup {Len(s) + 1}
         /\ Append(s, m)[Len(s) + 1] = m
         /\ \A k \in DOMAIN s : Append(s, m)[k] = s[k]
OBVIOUS

\* The server takes the first message; the others move up.
LEMMA TailFacts ==
  ASSUME NEW S, NEW s \in Seq(S), s # <<>>
  PROVE  /\ Tail(s) \in Seq(S) /\ 1 \in DOMAIN s /\ Head(s) = s[1] /\ s[1] \in S
         /\ \A k \in DOMAIN Tail(s) : /\ k + 1 \in DOMAIN s \ {1}
                                      /\ Tail(s)[k] = s[k + 1]
         /\ \A k \in DOMAIN s \ {1} : /\ k - 1 \in DOMAIN Tail(s)
                                      /\ Tail(s)[k - 1] = s[k]
         /\ \A j, k \in DOMAIN Tail(s) : j + 1 = k + 1 => j = k
OBVIOUS

\* The invariant holds at the start.
LEMMA PortsInit ==
  ASSUME Sound, Ports!Init
  PROVE  PortsInv /\ Ports!R!Init
<1>1. 0 \in Number
  BY DEF Sound, Number
<1>2. PortsInv
  BY <1>1 DEF Ports!Init, PortsInv, PortsTypes, PortsCalls, Sent
<1>3. Ports!R!Init
  BY DEF Ports!Init, Ports!R!Init, Ports!phase
<1> QED
  BY <1>2, <1>3

\* A client sends its message.
LEMMA PortsWrite ==
  ASSUME Sound, PortsInv, NEW c \in Client, Ports!MessageWrite(c)
  PROVE  PortsInv' /\ PortsStep
<1>1. /\ state[c] = "away" /\ state' = [state EXCEPT ![c] = "wait"]
      /\ count' = [count EXCEPT ![c] = (count[c] + 1) % Calls]
      /\ SRVBOX' = Append(SRVBOX, [pid |-> c, call |-> count'[c]])
      /\ UNCHANGED <<box, handles, serving>>
  BY DEF Ports!MessageWrite
<1>2. (count[c] + 1) % Calls \in Number
  BY NextNumber DEF PortsInv, PortsTypes
<1>3. PICK n \in Number : n = (count[c] + 1) % Calls
  BY <1>2
<1>4. PICK m \in Message : m = [pid |-> c, call |-> n]
  BY DEF Message
<1>5. count' = [count EXCEPT ![c] = n] /\ count'[c] = n /\ m.pid = c /\ m.call = n
  BY <1>1, <1>3, <1>4 DEF PortsInv, PortsTypes
<1>6. SRVBOX' = Append(SRVBOX, m) /\ SRVBOX \in Seq(Message)
  BY <1>1, <1>4, <1>5 DEF PortsInv, PortsTypes
<1>7. PICK z : z = Len(SRVBOX) + 1
  OBVIOUS
<1>8. /\ SRVBOX' \in Seq(Message) /\ z \notin DOMAIN SRVBOX
      /\ DOMAIN SRVBOX' = DOMAIN SRVBOX \cup {z} /\ SRVBOX'[z] = m
      /\ \A k \in DOMAIN SRVBOX : SRVBOX'[k] = SRVBOX[k] /\ SRVBOX[k] \in Message
  BY <1>6, <1>7, AppendFacts
<1>9. \A x \in Message : Sent(x) => x.pid # c
  BY <1>1 DEF PortsInv, PortsCalls, Pends
<1>10. /\ box[c] = <<>> /\ \A h \in handles : h.pid # c
       /\ \A k \in DOMAIN SRVBOX : SRVBOX[k].pid # c
  BY <1>1, <1>8, <1>9 DEF PortsInv, PortsTypes, PortsCalls, Sent
<1>11. PortsTypes'
  BY <1>1, <1>5, <1>8 DEF PortsInv, PortsTypes
<1>12. PortsCalls'
  <2>1. ASSUME NEW x \in Message, Sent(x)'  PROVE Pends(x)'
    <3>1. CASE x = m
      BY <1>1, <1>5, <1>10, <3>1 DEF Pends, PortsInv, PortsTypes
    <3>2. CASE x # m
      <4>1. Sent(x)
        BY <1>1, <1>8, <2>1, <3>2 DEF Sent
      <4>2. x.pid \in Client /\ x.pid # c /\ Pends(x)
        BY <1>9, <4>1 DEF Message, PortsInv, PortsCalls
      <4> QED
        BY <1>1, <1>5, <4>2 DEF Pends, PortsInv, PortsTypes
    <3> QED
      BY <3>1, <3>2
  <2>4. \A k, l \in DOMAIN SRVBOX' : SRVBOX'[k].pid = SRVBOX'[l].pid => k = l
    BY <1>5, <1>8, <1>10 DEF PortsInv, PortsCalls
  <2>5. \A k \in DOMAIN SRVBOX', h \in handles' : SRVBOX'[k].pid # h.pid
    BY <1>1, <1>5, <1>8, <1>10 DEF PortsInv, PortsCalls
  <2>6. \A d \in Client : box'[d] # <<>> => state'[d] = "wait" /\ box'[d] = <<count'[d]>>
    BY <1>1, <1>5, <1>10 DEF PortsInv, PortsTypes, PortsCalls
  <2>7. \A g, h \in handles' : g.pid = h.pid => g = h
    BY <1>1 DEF PortsInv, PortsCalls
  <2> QED
    BY <2>1, <2>4, <2>5, <2>6, <2>7 DEF PortsCalls
<1>13. Ports!R!Call(c)
  <2>1. Ports!Waiting(c)'
    BY <1>4, <1>5, <1>8 DEF Ports!Waiting, Ports!PMSG
  <2>2. ASSUME NEW d \in Client, d # c  PROVE Ports!Waiting(d)' <=> Ports!Waiting(d)
    <3>1. Ports!PMSG(d)' = Ports!PMSG(d) /\ Ports!PMSG(d).pid = d /\ m # Ports!PMSG(d)
      BY <1>5, <2>2 DEF Ports!PMSG, PortsInv, PortsTypes
    <3> QED
      BY <1>8, <3>1 DEF Ports!Waiting
  <2>3. Ports!phase[c] = "away"
    BY <1>1 DEF Ports!phase
  <2>4. ASSUME NEW d \in Client
        PROVE  Ports!phase'[d] = IF d = c THEN "called" ELSE Ports!phase[d]
    BY <1>1, <1>5, <1>10, <2>1, <2>2 DEF Ports!phase, PortsInv, PortsTypes
  <2>5. Ports!phase' = [Ports!phase EXCEPT ![c] = "called"]
    BY <2>4 DEF Ports!phase
  <2> QED
    BY <2>3, <2>5 DEF Ports!R!Call, Ports!R!Step
<1> QED
  BY <1>11, <1>12, <1>13 DEF PortsInv, PortsStep, Ports!R!Next

\* A client reads its answer.
LEMMA PortsRead ==
  ASSUME Sound, PortsInv, NEW c \in Client, Ports!MessageRead(c)
  PROVE  PortsInv' /\ PortsStep
<1>1. /\ state[c] = "wait" /\ box[c] # <<>>
      /\ state' = [state EXCEPT ![c] = "away"] /\ box' = [box EXCEPT ![c] = Tail(box[c])]
      /\ UNCHANGED <<count, SRVBOX, handles, serving>>
  BY DEF Ports!MessageRead
<1>2. box[c] = <<count[c]>> /\ box' = [box EXCEPT ![c] = <<>>]
  <2>1. box[c] = <<count[c]>> /\ count[c] \in Number
    BY <1>1 DEF PortsInv, PortsTypes, PortsCalls
  <2>2. Tail(box[c]) = <<>>
    BY <2>1, OnlyOne
  <2> QED
    BY <1>1, <2>1, <2>2
<1>3. \A x \in Message : Sent(x) => x.pid # c
  BY <1>1 DEF PortsInv, PortsCalls, Pends
<1>4. PortsTypes'
  BY <1>1, <1>2 DEF PortsInv, PortsTypes
<1>5. ASSUME NEW x \in Message, Sent(x)'  PROVE Pends(x)'
  <2>1. Sent(x)
    BY <1>1, <1>5 DEF Sent
  <2>2. x.pid \in Client /\ x.pid # c /\ Pends(x)
    BY <1>3, <2>1 DEF Message, PortsInv, PortsCalls
  <2> QED
    BY <1>1, <1>2, <2>2 DEF Pends, PortsInv, PortsTypes
<1>6. PortsCalls'
  <2>1. \A d \in Client : box'[d] # <<>> => state'[d] = "wait" /\ box'[d] = <<count'[d]>>
    BY <1>1, <1>2 DEF PortsInv, PortsTypes, PortsCalls
  <2> QED
    BY <1>1, <1>5, <2>1 DEF PortsInv, PortsCalls
<1>7. Ports!R!Return(c)
  <2>1. Ports!phase[c] = "answered"
    BY <1>1, <1>2, PortsPhases DEF PortsPhase
  <2>2. ASSUME NEW d \in Client
        PROVE  Ports!phase'[d] = IF d = c THEN "away" ELSE Ports!phase[d]
    <3>1. Ports!Waiting(d)' <=> Ports!Waiting(d)
      BY <1>1 DEF Ports!Waiting, Ports!PMSG
    <3> QED
      BY <1>1, <1>2, <3>1 DEF Ports!phase, PortsInv, PortsTypes
  <2>3. Ports!phase' = [Ports!phase EXCEPT ![c] = "away"]
    BY <2>2 DEF Ports!phase
  <2> QED
    BY <2>1, <2>3 DEF Ports!R!Return, Ports!R!Step
<1> QED
  BY <1>4, <1>6, <1>7 DEF PortsInv, PortsStep, Ports!R!Next

\* A client ends; its message, or the handle of its call, stays.
LEMMA PortsEnd ==
  ASSUME Sound, PortsInv, NEW c \in Client, Ports!Ends(c)
  PROVE  PortsInv' /\ PortsStep
<1>1. /\ state[c] # "gone"
      /\ state' = [state EXCEPT ![c] = "gone"] /\ box' = [box EXCEPT ![c] = <<>>]
      /\ UNCHANGED <<count, SRVBOX, handles, serving>>
  BY DEF Ports!Ends
<1>2. PortsTypes'
  BY <1>1 DEF PortsInv, PortsTypes
<1>3. ASSUME NEW x \in Message, Sent(x)'  PROVE Pends(x)'
  <2>1. Sent(x)
    BY <1>1, <1>3 DEF Sent
  <2>2. x.pid \in Client /\ Pends(x)
    BY <2>1 DEF Message, PortsInv, PortsCalls
  <2> QED
    BY <1>1, <2>2 DEF Pends, PortsInv, PortsTypes
<1>4. PortsCalls'
  BY <1>1, <1>3 DEF PortsInv, PortsTypes, PortsCalls
<1>5. Ports!R!Leave(c)
  <2>1. Ports!phase[c] # "gone"
    BY <1>1 DEF Ports!phase
  <2>2. ASSUME NEW d \in Client
        PROVE  Ports!phase'[d] = IF d = c THEN "gone" ELSE Ports!phase[d]
    <3>1. Ports!Waiting(d)' <=> Ports!Waiting(d)
      BY <1>1 DEF Ports!Waiting, Ports!PMSG
    <3> QED
      BY <1>1, <3>1 DEF Ports!phase, PortsInv, PortsTypes
  <2>3. Ports!phase' = [Ports!phase EXCEPT ![c] = "gone"]
    BY <2>2 DEF Ports!phase
  <2> QED
    BY <2>1, <2>3 DEF Ports!R!Leave
<1> QED
  BY <1>2, <1>4, <1>5 DEF PortsInv, PortsStep, Ports!R!Next

\* The server takes the first message, whose client may have gone.
LEMMA PortsGet ==
  ASSUME Sound, PortsInv, Ports!Srv_get
  PROVE  PortsInv' /\ PortsStep
<1>1. /\ SRVBOX # <<>> /\ SRVBOX' = Tail(SRVBOX)
      /\ handles' = handles \cup {Head(SRVBOX)} /\ serving' = Head(SRVBOX)
      /\ UNCHANGED <<state, count, box>>
  BY DEF Ports!Srv_get
<1>2. PICK h \in Message : h = Head(SRVBOX)
  BY <1>1, TailFacts DEF PortsInv, PortsTypes
<1>3. /\ SRVBOX' \in Seq(Message) /\ 1 \in DOMAIN SRVBOX /\ SRVBOX[1] = h
      /\ \A k \in DOMAIN SRVBOX' : /\ k + 1 \in DOMAIN SRVBOX \ {1}
                                   /\ SRVBOX'[k] = SRVBOX[k + 1]
      /\ \A k \in DOMAIN SRVBOX \ {1} : /\ k - 1 \in DOMAIN SRVBOX'
                                        /\ SRVBOX'[k - 1] = SRVBOX[k]
      /\ \A j, k \in DOMAIN SRVBOX' : j + 1 = k + 1 => j = k
  BY <1>1, <1>2, TailFacts DEF PortsInv, PortsTypes
<1>4. handles' = handles \cup {h} /\ serving' = h
  BY <1>1, <1>2
<1>5. Sent(h) /\ \A x \in handles : x.pid # h.pid
  BY <1>3 DEF Sent, PortsInv, PortsCalls
<1>6. PortsTypes'
  BY <1>1, <1>3, <1>4 DEF PortsInv, PortsTypes
<1>7. ASSUME NEW x \in Message, Sent(x)'  PROVE Sent(x)
  BY <1>3, <1>4, <1>5, <1>7 DEF Sent
<1>8. ASSUME NEW x \in Message, Sent(x)'  PROVE Pends(x)'
  BY <1>1, <1>7, <1>8 DEF Pends, PortsInv, PortsCalls
<1>9. \A k, l \in DOMAIN SRVBOX' : SRVBOX'[k].pid = SRVBOX'[l].pid => k = l
  BY <1>3 DEF PortsInv, PortsCalls
<1>10. ASSUME NEW k \in DOMAIN SRVBOX'  PROVE SRVBOX'[k].pid # h.pid
  BY <1>3, <1>10 DEF PortsInv, PortsCalls
<1>11. PortsCalls'
  BY <1>1, <1>3, <1>4, <1>5, <1>8, <1>9, <1>10 DEF PortsInv, PortsTypes, PortsCalls
<1>12. PortsInv'
  BY <1>6, <1>11 DEF PortsInv
<1>13. ASSUME NEW d \in Client, d # h.pid  PROVE Ports!Waiting(d)' <=> Ports!Waiting(d)
  <2>1. Ports!PMSG(d)' = Ports!PMSG(d) /\ Ports!PMSG(d).pid = d
    BY <1>1 DEF Ports!PMSG
  <2> QED
    BY <1>3, <1>13, <2>1 DEF Ports!Waiting
<1>14. PICK c \in Client : c = h.pid
  BY DEF Message
<1>15. ~Ports!Waiting(h.pid)'
  <2>1. Ports!PMSG(h.pid)'.pid = h.pid
    BY DEF Ports!PMSG
  <2> QED
    BY <1>10, <2>1 DEF Ports!Waiting
<1>16. CASE state[h.pid] = "wait"
  <2>1. h.call = count[h.pid] /\ box[h.pid] = <<>>
    BY <1>5, <1>16 DEF Pends, PortsInv, PortsCalls
  <2>2. Ports!Waiting(h.pid)
    <3>1. h = Ports!PMSG(h.pid)
      BY <2>1 DEF Ports!PMSG, Message
    <3> QED
      BY <1>3, <3>1 DEF Ports!Waiting
  <2>3. Ports!phase[c] = "called"
    BY <1>14, <1>16, <2>1, <2>2 DEF Ports!phase
  <2>4. ASSUME NEW d \in Client
        PROVE  Ports!phase'[d] = IF d = c THEN "served" ELSE Ports!phase[d]
    <3>1. Ports!Waiting(d)' <=> d # c /\ Ports!Waiting(d)
      BY <1>13, <1>14, <1>15
    <3>2. d = c => state[d] = "wait" /\ box[d] = <<>> /\ box[d] # <<count[d]>>
      BY <1>14, <1>16, <2>1
    <3> QED
      BY <1>1, <1>12, <3>1, <3>2, PortsPhases, PortsPhasesNext DEF PortsPhase
  <2>5. Ports!phase' = [Ports!phase EXCEPT ![c] = "served"]
    BY <2>4 DEF Ports!phase
  <2>6. Ports!R!Serve(c)
    BY <2>3, <2>5 DEF Ports!R!Serve, Ports!R!Step
  <2> QED
    BY <1>6, <1>11, <1>14, <2>6 DEF PortsInv, PortsStep, Ports!R!Next
<1>17. CASE state[h.pid] = "gone"
  <2>1. ASSUME NEW d \in Client  PROVE Ports!phase'[d] = Ports!phase[d]
    BY <1>1, <1>13, <1>17 DEF Ports!phase
  <2>2. UNCHANGED Ports!phase
    BY <2>1 DEF Ports!phase
  <2> QED
    BY <1>6, <1>11, <2>2 DEF PortsInv, PortsStep
<1> QED
  BY <1>5, <1>16, <1>17 DEF Pends, PortsInv, PortsCalls

\* Srv_reply() answers the call of a handle, unless its client has gone.
LEMMA PortsReply ==
  ASSUME Sound, PortsInv, NEW h \in handles, Ports!Srv_reply(h),
         UNCHANGED <<state, count, SRVBOX>>, serving' \in handles' \cup {Nobody}
  PROVE  PortsInv' /\ PortsStep
<1>1. /\ handles' = handles \ {h}
      /\ box' = IF state[h.pid] = "gone" THEN box
                ELSE [box EXCEPT ![h.pid] = Append(box[h.pid], h.call)]
  BY DEF Ports!Srv_reply
<1>2. h \in Message /\ Sent(h) /\ Pends(h)
  BY DEF PortsInv, PortsTypes, PortsCalls, Sent
<1>3. PICK c \in Client : c = h.pid
  BY <1>2 DEF Message
<1>4. \A x \in Message : Sent(x)' => Sent(x) /\ x.pid # c
  <2>1. SUFFICES ASSUME NEW x \in Message, Sent(x)'  PROVE Sent(x) /\ x.pid # c
    OBVIOUS
  <2>2. CASE x \in handles'
    BY <1>1, <1>3, <2>2 DEF Sent, PortsInv, PortsCalls
  <2>3. CASE \E k \in DOMAIN SRVBOX : SRVBOX[k] = x
    BY <1>3, <2>3 DEF Sent, PortsInv, PortsCalls
  <2> QED
    BY <2>1, <2>2, <2>3 DEF Sent
<1>5. \A d \in Client : Ports!Waiting(d)' <=> Ports!Waiting(d)
  BY DEF Ports!Waiting, Ports!PMSG
<1>6. /\ \A k, l \in DOMAIN SRVBOX' : SRVBOX'[k].pid = SRVBOX'[l].pid => k = l
      /\ \A k \in DOMAIN SRVBOX', x \in handles' : SRVBOX'[k].pid # x.pid
      /\ \A x, y \in handles' : x.pid = y.pid => x = y
  BY <1>1 DEF PortsInv, PortsCalls
<1>7. CASE state[c] = "wait"
  <2>1. box[c] = <<>> /\ h.call = count[c] /\ count[c] \in Number
    BY <1>2, <1>3, <1>7 DEF Pends, PortsInv, PortsTypes
  <2>2. /\ Append(box[c], h.call) = <<count[c]>>
        /\ <<count[c]>> \in Seq(Number) /\ <<count[c]>> # <<>>
    BY <2>1, OnlyOne
  <2>3. box' = [box EXCEPT ![c] = <<count[c]>>]
    BY <1>1, <1>3, <1>7, <2>2
  <2>4. PortsTypes'
    BY <1>1, <2>2, <2>3 DEF PortsInv, PortsTypes
  <2>5. ASSUME NEW x \in Message, Sent(x)'  PROVE Pends(x)'
    <3>1. x.pid \in Client /\ x.pid # c /\ Pends(x)
      BY <1>4, <2>5 DEF Message, PortsInv, PortsCalls
    <3> QED
      BY <2>3, <3>1 DEF Pends, PortsInv, PortsTypes
  <2>6. \A d \in Client : box'[d] # <<>> => state'[d] = "wait" /\ box'[d] = <<count'[d]>>
    BY <1>7, <2>2, <2>3 DEF PortsInv, PortsTypes, PortsCalls
  <2>7. PortsInv'
    BY <1>6, <2>4, <2>5, <2>6 DEF PortsInv, PortsCalls
  <2>8. ~Ports!Waiting(c)
    BY <1>3 DEF Ports!Waiting, Ports!PMSG, PortsInv, PortsCalls
  <2>9. Ports!phase[c] = "served"
    BY <1>7, <2>1, <2>2, <2>8, PortsPhases DEF PortsPhase
  <2>10. ASSUME NEW d \in Client
         PROVE  Ports!phase'[d] = IF d = c THEN "answered" ELSE Ports!phase[d]
    <3>1. box'[d] = IF d = c THEN <<count[c]>> ELSE box[d]
      BY <2>3 DEF PortsInv, PortsTypes
    <3> QED
      BY <1>5, <1>7, <2>7, <3>1, PortsPhases, PortsPhasesNext DEF PortsPhase
  <2>11. Ports!phase' = [Ports!phase EXCEPT ![c] = "answered"]
    BY <2>10 DEF Ports!phase
  <2>12. Ports!R!Answer(c)
    BY <2>9, <2>11 DEF Ports!R!Answer, Ports!R!Step
  <2> QED
    BY <2>7, <2>12 DEF PortsStep, Ports!R!Next
<1>8. CASE state[c] = "gone"
  <2>1. box' = box
    BY <1>1, <1>3, <1>8
  <2>2. PortsTypes'
    BY <1>1, <2>1 DEF PortsInv, PortsTypes
  <2>3. ASSUME NEW x \in Message, Sent(x)'  PROVE Pends(x)'
    BY <1>4, <2>1, <2>3 DEF Pends, PortsInv, PortsCalls
  <2>4. PortsInv'
    BY <1>6, <2>1, <2>2, <2>3 DEF PortsInv, PortsCalls
  <2>5. UNCHANGED Ports!phase
    BY <1>5, <2>1 DEF Ports!phase
  <2> QED
    BY <2>4, <2>5 DEF PortsStep
<1> QED
  BY <1>2, <1>3, <1>7, <1>8 DEF Pends

\* Nothing that a phase depends on changes: the server looks into an empty box,
\* or leaves a client waiting.
LEMMA PortsStay ==
  ASSUME PortsInv, UNCHANGED <<state, count, SRVBOX, box, handles>>,
         serving' \in handles' \cup {Nobody}
  PROVE  PortsInv' /\ UNCHANGED Ports!phase
<1>1. \A x \in Message : (Sent(x)' <=> Sent(x)) /\ (Pends(x)' <=> Pends(x))
  BY DEF Sent, Pends
<1>2. PortsTypes'
  BY DEF PortsInv, PortsTypes
<1>3. PortsCalls'
  BY <1>1 DEF PortsInv, PortsCalls
<1>4. \A d \in Client : Ports!Waiting(d)' <=> Ports!Waiting(d)
  BY DEF Ports!Waiting, Ports!PMSG
<1>5. UNCHANGED Ports!phase
  BY <1>4 DEF Ports!phase
<1> QED
  BY <1>2, <1>3, <1>5 DEF PortsInv

\* Every step of the message port is one of an abstract transport, or none.
LEMMA PortsSteps ==
  ASSUME Sound, PortsInv, [Ports!Next]_(Ports!vars)
  PROVE  PortsInv' /\ [Ports!R!Next]_(Ports!phase)
<1>1. serving \in handles \cup {Nobody}
  BY DEF PortsInv, PortsTypes
<1>2. CASE UNCHANGED Ports!vars
  <2>1. UNCHANGED <<state, count, SRVBOX, box, handles, serving>>
    BY <1>2 DEF Ports!vars
  <2> QED
    BY <1>1, <2>1, PortsStay
<1>3. CASE Ports!Poll
  <2>1. UNCHANGED <<state, count, SRVBOX, box, handles, serving>>
    BY <1>3 DEF Ports!Poll
  <2> QED
    BY <1>1, <2>1, PortsStay
<1>4. CASE Ports!srv_call
  <2>1. /\ serving # Nobody /\ serving' = Nobody /\ UNCHANGED <<state, count, SRVBOX>>
        /\ Ports!Srv_reply(serving) \/ UNCHANGED <<box, handles>>
    BY <1>4 DEF Ports!srv_call
  <2>2. PICK h \in handles : h = serving
    BY <1>1, <2>1
  <2>3. CASE Ports!Srv_reply(h)
    BY <2>1, <2>3, PortsReply DEF PortsStep
  <2>4. CASE UNCHANGED <<box, handles>>
    BY <2>1, <2>4, PortsStay
  <2> QED
    BY <2>1, <2>2, <2>3, <2>4
<1>5. CASE Ports!AnswerLater
  <2>1. PICK h \in handles : /\ h # serving /\ Ports!Srv_reply(h)
                             /\ UNCHANGED <<state, count, SRVBOX, serving>>
    BY <1>5 DEF Ports!AnswerLater
  <2>2. serving' \in handles' \cup {Nobody}
    BY <1>1, <2>1 DEF Ports!Srv_reply
  <2> QED
    BY <2>1, <2>2, PortsReply DEF PortsStep
<1>6. CASE Ports!Srv_get
  BY <1>6, PortsGet DEF PortsStep
<1>7. ASSUME NEW c \in Client,
             Ports!MessageWrite(c) \/ Ports!MessageRead(c) \/ Ports!Ends(c)
      PROVE  PortsInv' /\ [Ports!R!Next]_(Ports!phase)
  BY <1>7, PortsWrite, PortsRead, PortsEnd DEF PortsStep
<1> QED
  BY <1>2, <1>3, <1>4, <1>5, <1>6, <1>7 DEF Ports!Next

\* The message port serves each call once and answers it once, to its caller:
\* Srv_reply() finds the client by the pid in the handle, and a client that
\* calls again never reads the answer to an earlier call.
THEOREM PortsKeepCalls ==
  ASSUME Sound
  PROVE  Ports!Spec => Ports!R!Init /\ [][Ports!R!Next]_(Ports!phase)
<1>1. Ports!Init => PortsInv /\ Ports!R!Init
  BY PortsInit
<1>2. PortsInv /\ [Ports!Next]_(Ports!vars) => PortsInv' /\ [Ports!R!Next]_(Ports!phase)
  BY PortsSteps
<1> QED
  BY <1>1, <1>2, PTL DEF Ports!Spec

-----------------------------------------------------------------------------
(* The sockets                                                             *)

Clients == [Client -> {"new", "open", "wait", "ready", "dead"}]

\* The server has read a call of c and has not answered it yet.
InCall(c) == server = "call" /\ handle = c

\* The calls of c that will be answered later.
Parked(c) == {w \in parked : w[1] = c}

Idle(c)     == inbox[c] = <<>> /\ outbox[c] = <<>> /\ ~InCall(c) /\ Parked(c) = {}
Called(c)   == inbox[c] = <<number[c]>> /\ outbox[c] = <<>> /\ ~InCall(c) /\ Parked(c) = {}
Taken(c)    == /\ inbox[c] = <<>> /\ outbox[c] = <<>> /\ InCall(c) /\ Parked(c) = {}
               /\ taken = number[c]
Left(c)     == /\ inbox[c] = <<>> /\ outbox[c] = <<>> /\ ~InCall(c)
               /\ Parked(c) = {<<c, number[c]>>}
Answered(c) == inbox[c] = <<>> /\ outbox[c] = <<number[c]>> /\ ~InCall(c) /\ Parked(c) = {}

\* A connection carries one call at a time: it is on its way, with the server,
\* left for later, or answered; and only the connection of a client that has
\* ended is reset.
Conn(c) ==
  /\ client[c] \in {"new", "open", "ready"} => Idle(c)
  /\ client[c] = "wait" => Called(c) \/ Taken(c) \/ Left(c) \/ Answered(c)
  /\ c \in reset \cup reported => client[c] = "dead"

SocketsInv ==
  /\ client \in Clients
  /\ DOMAIN number = Client /\ DOMAIN inbox = Client /\ DOMAIN outbox = Client
  /\ \A c \in Client : Conn(c)

\* SRV_CONN_LOST is raised only for a client that has ended.
OnlyTheDeadAreLost == \A c \in Client : c \in reported => client[c] = "dead"

SocketsStep == Sockets!R!Next \/ UNCHANGED Sockets!phase

\* The phase of a call, as a choice between two at a time.
SocketsPhase(c) ==
  IF client[c] = "dead" THEN "gone"
  ELSE IF client[c] \in {"new", "open", "ready"} THEN "away"
  ELSE IF outbox[c] = <<number[c]>> THEN "answered"
  ELSE IF inbox[c] # <<>> THEN "called"
  ELSE "served"

\* A step leaves the connection of c as it was, or c has ended.
Untouched(c) ==
  /\ client'[c] = client[c]
  /\ \/ client[c] = "dead"
     \/ /\ number'[c] = number[c] /\ inbox'[c] = inbox[c] /\ outbox'[c] = outbox[c]
        /\ (InCall(c)' <=> InCall(c)) /\ (InCall(c) => taken' = taken)
        /\ Parked(c)' = Parked(c)
        /\ c \in reset' \cup reported' => c \in reset \cup reported

\* A list with one number in it is not empty.
LEMMA One ==
  ASSUME NEW n
  PROVE  Tail(<<n>>) = <<>> /\ Head(<<n>>) = n /\ Append(<<>>, n) = <<n>> /\ <<n>> # <<>>
<1>1. Append(<<>>, n) = <<n>> /\ Tail(<<n>>) = <<>>
  BY OnlyOne, n \in {n}
<1>2. Head(<<n>>) = n /\ <<n>> # <<>>
  OBVIOUS
<1> QED
  BY <1>1, <1>2

\* It is the phase, as no call is both answered and on its way.
LEMMA SocketsPhases ==
  SocketsInv => \A c \in Client : Sockets!phase[c] = SocketsPhase(c)
<1>1. SUFFICES ASSUME SocketsInv, NEW c \in Client  PROVE Sockets!phase[c] = SocketsPhase(c)
  OBVIOUS
<1>2. CASE client[c] = "dead"
  BY <1>2 DEF Sockets!phase, SocketsPhase
<1>3. CASE client[c] \in {"new", "open", "ready"}
  BY <1>3 DEF Sockets!phase, SocketsPhase
<1>4. CASE client[c] = "wait" /\ outbox[c] = <<number[c]>>
  <2>1. inbox[c] = <<>>
    BY <1>1, <1>4, One DEF SocketsInv, Conn, Called, Taken, Left, Answered
  <2> QED
    BY <1>4, <2>1 DEF Sockets!phase, SocketsPhase
<1>5. CASE client[c] = "wait" /\ outbox[c] # <<number[c]>> /\ inbox[c] # <<>>
  BY <1>5 DEF Sockets!phase, SocketsPhase
<1>6. CASE client[c] = "wait" /\ outbox[c] # <<number[c]>> /\ inbox[c] = <<>>
  BY <1>6 DEF Sockets!phase, SocketsPhase
<1>7. client[c] \in {"new", "open", "wait", "ready", "dead"}
  BY <1>1 DEF SocketsInv, Clients
<1> QED
  BY <1>2, <1>3, <1>4, <1>5, <1>6, <1>7

\* So it is in the next state.
LEMMA SocketsPhasesNext ==
  (SocketsInv => \A c \in Client : Sockets!phase[c] = SocketsPhase(c))'
BY SocketsPhases, PTL

\* A connection that is left as it was is as good as it was, in the same phase.
LEMMA SocketsUntouched ==
  ASSUME NEW c \in Client, Conn(c), Untouched(c)
  PROVE  Conn(c)' /\ SocketsPhase(c)' = SocketsPhase(c)
<1>1. CASE client[c] = "dead"
  BY <1>1 DEF Conn, Untouched, SocketsPhase
<1>2. CASE client[c] # "dead"
  <2>1. /\ Idle(c)' <=> Idle(c)
        /\ Called(c)' <=> Called(c)
        /\ Taken(c)' <=> Taken(c)
        /\ Left(c)' <=> Left(c)
        /\ Answered(c)' <=> Answered(c)
    BY <1>2 DEF Untouched, Idle, Called, Taken, Left, Answered
  <2>2. Conn(c)'
    BY <1>2, <2>1 DEF Conn, Untouched
  <2>3. SocketsPhase(c)' = SocketsPhase(c)
    BY <1>2 DEF Untouched, SocketsPhase
  <2> QED
    BY <2>2, <2>3
<1> QED
  BY <1>1, <1>2

\* A step that leaves every connection as it was is none to an abstract transport.
LEMMA SocketsStay ==
  ASSUME SocketsInv, client' \in Clients,
         DOMAIN number' = Client, DOMAIN inbox' = Client, DOMAIN outbox' = Client,
         \A c \in Client : Untouched(c)
  PROVE  SocketsInv' /\ UNCHANGED Sockets!phase
<1>1. \A c \in Client : Conn(c)' /\ SocketsPhase(c)' = SocketsPhase(c)
  BY SocketsUntouched DEF SocketsInv
<1>2. SocketsInv'
  BY <1>1 DEF SocketsInv
<1>3. \A c \in Client : Sockets!phase'[c] = Sockets!phase[c]
  BY <1>1, <1>2, SocketsPhases, SocketsPhasesNext
<1>4. UNCHANGED Sockets!phase
  BY <1>3 DEF Sockets!phase
<1> QED
  BY <1>2, <1>4

\* A step that touches one connection changes the phase of its call.
LEMMA SocketsMove ==
  ASSUME SocketsInv, client' \in Clients,
         DOMAIN number' = Client, DOMAIN inbox' = Client, DOMAIN outbox' = Client,
         NEW c \in Client, \A d \in Client : d # c => Untouched(d), Conn(c)',
         NEW to, SocketsPhase(c)' = to
  PROVE  SocketsInv' /\ Sockets!phase' = [Sockets!phase EXCEPT ![c] = to]
<1>1. \A d \in Client : d # c => Conn(d)' /\ SocketsPhase(d)' = SocketsPhase(d)
  BY SocketsUntouched DEF SocketsInv
<1>2. SocketsInv'
  BY <1>1 DEF SocketsInv
<1>3. \A d \in Client : Sockets!phase'[d] = IF d = c THEN to ELSE Sockets!phase[d]
  BY <1>1, <1>2, SocketsPhases, SocketsPhasesNext
<1>4. Sockets!phase' = [Sockets!phase EXCEPT ![c] = to]
  <2>1. /\ Sockets!phase = [d \in Client |-> Sockets!phase[d]]
        /\ Sockets!phase' = [d \in Client |-> Sockets!phase'[d]]
    BY DEF Sockets!phase
  <2> QED
    BY <1>3, <2>1
<1> QED
  BY <1>2, <1>4

\* The invariant holds at the start.
LEMMA SocketsInit ==
  ASSUME Sockets!Init
  PROVE  SocketsInv /\ Sockets!R!Init
<1>1. \A c \in Client : Idle(c) /\ client[c] = "new" /\ c \notin reset \cup reported
  BY DEF Sockets!Init, Idle, InCall, Parked
<1>2. SocketsInv
  BY <1>1 DEF Sockets!Init, SocketsInv, Clients, Conn
<1>3. Sockets!R!Init
  BY DEF Sockets!Init, Sockets!R!Init, Sockets!phase
<1> QED
  BY <1>2, <1>3

\* A client connects.
LEMMA SocketsOpen ==
  ASSUME SocketsInv, NEW c \in Client, Sockets!Client_open(c)
  PROVE  SocketsInv' /\ SocketsStep
<1>1. /\ client[c] = "new" /\ client' = [client EXCEPT ![c] = "open"]
      /\ UNCHANGED <<number, inbox, outbox, reset, server, handle, taken, parked, reported>>
  BY DEF Sockets!Client_open, Sockets!calls
<1>2. client \in Clients /\ client' \in Clients /\ client'[c] = "open"
  BY <1>1 DEF SocketsInv, Clients
<1>3. \A d \in Client : d # c => Untouched(d)
  BY <1>1, <1>2 DEF Untouched, InCall, Parked, Clients
<1>4. Idle(c)' <=> Idle(c)
  BY <1>1 DEF Idle, InCall, Parked
<1>5. Conn(c)' /\ SocketsPhase(c)' = "away" /\ SocketsPhase(c) = "away"
  BY <1>1, <1>2, <1>4 DEF Conn, SocketsPhase, SocketsInv
<1>6. SocketsInv' /\ Sockets!phase' = [Sockets!phase EXCEPT ![c] = "away"]
  BY <1>1, <1>2, <1>3, <1>5, SocketsMove DEF SocketsInv
<1>7. Sockets!phase[c] = "away" /\ Sockets!phase = [d \in Client |-> Sockets!phase[d]]
  BY <1>5, SocketsPhases DEF Sockets!phase
<1> QED
  BY <1>6, <1>7 DEF SocketsStep

\* A client calls.
LEMMA SocketsSend ==
  ASSUME SocketsInv, NEW c \in Client, Sockets!Send(c)
  PROVE  SocketsInv' /\ SocketsStep
<1>1. /\ client[c] \in {"open", "ready"} /\ client' = [client EXCEPT ![c] = "wait"]
      /\ number' = [number EXCEPT ![c] = (number[c] + 1) % Calls]
      /\ inbox' = [inbox EXCEPT ![c] = Append(inbox[c], number'[c])]
      /\ UNCHANGED <<outbox, reset, server, handle, taken, parked, reported>>
  BY DEF Sockets!Send, Sockets!calls
<1>2. client \in Clients /\ client' \in Clients /\ client'[c] = "wait"
  BY <1>1 DEF SocketsInv, Clients
<1>3. PICK n : n = (number[c] + 1) % Calls
  OBVIOUS
<1>4. number' = [number EXCEPT ![c] = n] /\ number'[c] = n
  BY <1>1, <1>3 DEF SocketsInv
<1>5. Idle(c)
  BY <1>1 DEF SocketsInv, Conn
<1>6. inbox' = [inbox EXCEPT ![c] = <<n>>] /\ inbox'[c] = <<n>>
  BY <1>1, <1>4, <1>5, One DEF Idle, SocketsInv
<1>7. DOMAIN number' = Client /\ DOMAIN inbox' = Client /\ DOMAIN outbox' = Client
  BY <1>1, <1>4, <1>6 DEF SocketsInv
<1>8. \A d \in Client : d # c => Untouched(d)
  BY <1>1, <1>2, <1>4, <1>6 DEF Untouched, InCall, Parked, Clients, SocketsInv
<1>9. Called(c)'
  BY <1>1, <1>4, <1>5, <1>6 DEF Idle, Called, InCall, Parked
<1>10. c \notin reset' \cup reported'
  BY <1>1 DEF SocketsInv, Conn
<1>11. Conn(c)'
  BY <1>2, <1>9, <1>10 DEF Conn
<1>12. SocketsPhase(c)' = "called"
  BY <1>2, <1>9, One DEF SocketsPhase, Called
<1>13. SocketsInv' /\ Sockets!phase' = [Sockets!phase EXCEPT ![c] = "called"]
  BY <1>2, <1>7, <1>8, <1>11, <1>12, SocketsMove
<1>14. Sockets!phase[c] = "away"
  BY <1>1, SocketsPhases DEF SocketsPhase
<1> QED
  BY <1>13, <1>14 DEF SocketsStep, Sockets!R!Next, Sockets!R!Call, Sockets!R!Step

\* A client reads its answer.
LEMMA SocketsReceive ==
  ASSUME SocketsInv, NEW c \in Client, Sockets!Receive(c)
  PROVE  SocketsInv' /\ SocketsStep
<1>1. /\ client[c] = "wait" /\ outbox[c] # <<>> /\ client' = [client EXCEPT ![c] = "ready"]
      /\ outbox' = [outbox EXCEPT ![c] = Tail(outbox[c])]
      /\ UNCHANGED <<number, inbox, reset, server, handle, taken, parked, reported>>
  BY DEF Sockets!Receive, Sockets!calls
<1>2. client \in Clients /\ client' \in Clients /\ client'[c] = "ready"
  BY <1>1 DEF SocketsInv, Clients
<1>3. Answered(c)
  BY <1>1 DEF SocketsInv, Conn, Called, Taken, Left
<1>4. outbox' = [outbox EXCEPT ![c] = <<>>] /\ outbox'[c] = <<>>
  BY <1>1, <1>3, One DEF Answered, SocketsInv
<1>5. DOMAIN number' = Client /\ DOMAIN inbox' = Client /\ DOMAIN outbox' = Client
  BY <1>1, <1>4 DEF SocketsInv
<1>6. \A d \in Client : d # c => Untouched(d)
  BY <1>1, <1>2, <1>4 DEF Untouched, InCall, Parked, Clients, SocketsInv
<1>7. Idle(c)'
  BY <1>1, <1>3, <1>4 DEF Idle, Answered, InCall, Parked
<1>8. c \notin reset' \cup reported'
  BY <1>1 DEF SocketsInv, Conn
<1>9. Conn(c)'
  BY <1>2, <1>7, <1>8 DEF Conn
<1>10. SocketsPhase(c)' = "away"
  BY <1>2 DEF SocketsPhase
<1>11. SocketsInv' /\ Sockets!phase' = [Sockets!phase EXCEPT ![c] = "away"]
  BY <1>2, <1>5, <1>6, <1>9, <1>10, SocketsMove
<1>12. Sockets!phase[c] = "answered"
  BY <1>1, <1>3, SocketsPhases DEF SocketsPhase, Answered
<1> QED
  BY <1>11, <1>12 DEF SocketsStep, Sockets!R!Next, Sockets!R!Return, Sockets!R!Step

\* A client ends.
LEMMA SocketsEnd ==
  ASSUME SocketsInv, NEW c \in Client, Sockets!Ends(c)
  PROVE  SocketsInv' /\ SocketsStep
<1>1. /\ client[c] \notin {"new", "dead"} /\ client' = [client EXCEPT ![c] = "dead"]
      /\ reset' = reset \/ reset' = reset \cup {c}
      /\ outbox' = [outbox EXCEPT ![c] = <<>>]
      /\ UNCHANGED <<number, inbox, server, handle, taken, parked, reported>>
  BY DEF Sockets!Ends, Sockets!calls
<1>2. client \in Clients /\ client' \in Clients /\ client'[c] = "dead"
  BY <1>1 DEF SocketsInv, Clients
<1>3. DOMAIN number' = Client /\ DOMAIN inbox' = Client /\ DOMAIN outbox' = Client
  BY <1>1 DEF SocketsInv
<1>4. \A d \in Client : d # c => Untouched(d)
  BY <1>1, <1>2 DEF Untouched, InCall, Parked, Clients, SocketsInv
<1>5. Conn(c)' /\ SocketsPhase(c)' = "gone"
  BY <1>2 DEF Conn, SocketsPhase
<1>6. SocketsInv' /\ Sockets!phase' = [Sockets!phase EXCEPT ![c] = "gone"]
  BY <1>2, <1>3, <1>4, <1>5, SocketsMove
<1>7. Sockets!phase[c] # "gone"
  BY <1>1, SocketsPhases DEF SocketsPhase
<1> QED
  BY <1>6, <1>7 DEF SocketsStep, Sockets!R!Next, Sockets!R!Leave

\* The server looks for work: nothing that a phase depends on changes.
LEMMA SocketsQuiet ==
  ASSUME SocketsInv, UNCHANGED <<client, number, inbox, outbox, parked, taken>>,
         \A c \in Client : ~InCall(c) /\ ~InCall(c)',
         reported' = reported \/ reported' = reported \cup (reset \cap {handle}),
         reset' = reset
  PROVE  SocketsInv' /\ UNCHANGED Sockets!phase
<1>1. \A c \in Client : c \in reset' \cup reported' => c \in reset \cup reported
  <2>1. CASE reported' = reported
    BY <2>1
  <2>2. CASE reported' = reported \cup (reset \cap {handle})
    BY <2>2
  <2> QED
    BY <2>1, <2>2
<1>2. \A c \in Client : Untouched(c)
  BY <1>1 DEF Untouched, Parked
<1> QED
  BY <1>2, SocketsStay DEF SocketsInv

\* Srv_get(), a recv() that finds nothing or fails, and srv_handle_events().
LEMMA SocketsGet ==
  ASSUME SocketsInv,
         \/ Sockets!Srv_get \/ Sockets!RecvNothing \/ Sockets!RecvFails
         \/ Sockets!srv_handle_events
  PROVE  SocketsInv' /\ SocketsStep
<1>1. /\ UNCHANGED <<client, number, inbox, outbox, parked, taken, reset>>
      /\ server \in {"get", "recv", "events"} /\ server' \in {"get", "recv", "events"}
      /\ reported' = reported \/ reported' = reported \cup (reset \cap {handle})
  BY DEF Sockets!Srv_get, Sockets!RecvNothing, Sockets!RecvFails, Sockets!srv_handle_events,
         Sockets!net, Sockets!lists
<1>2. \A c \in Client : ~InCall(c) /\ ~InCall(c)'
  BY <1>1 DEF InCall
<1> QED
  BY <1>1, <1>2, SocketsQuiet DEF SocketsStep

\* The server reads a call.
LEMMA SocketsRecv ==
  ASSUME SocketsInv, Sockets!Recv
  PROVE  SocketsInv' /\ SocketsStep
<1>1. /\ server = "recv" /\ server' = "call" /\ inbox[handle] # <<>>
      /\ taken' = Head(inbox[handle])
      /\ inbox' = [inbox EXCEPT ![handle] = Tail(inbox[handle])]
      /\ UNCHANGED <<client, number, outbox, reset, handle, parked, reported>>
  BY DEF Sockets!Recv
<1>2. PICK h : h = handle
  OBVIOUS
<1>3. client' \in Clients
      /\ DOMAIN number' = Client /\ DOMAIN inbox' = Client /\ DOMAIN outbox' = Client
  BY <1>1 DEF SocketsInv
<1>4. \A d \in Client : d # h => Untouched(d)
  BY <1>1, <1>2 DEF Untouched, InCall, Parked, SocketsInv
<1>5. CASE h \notin Client \/ client[h] = "dead"
  <2>1. \A d \in Client : Untouched(d)
    BY <1>1, <1>4, <1>5 DEF Untouched
  <2> QED
    BY <1>3, <2>1, SocketsStay DEF SocketsStep
<1>6. CASE h \in Client /\ client[h] # "dead"
  <2>1. h \in Client
    BY <1>6
  <2>2. client[h] = "wait" /\ Called(h)
    BY <1>1, <1>2, <1>6 DEF SocketsInv, Clients, Conn, Idle, Taken, Left, Answered
  <2>3. inbox'[h] = <<>> /\ taken' = number[h]
    BY <1>1, <1>2, <1>6, <2>2, One DEF Called, SocketsInv
  <2>4. Taken(h)'
    BY <1>1, <1>2, <2>2, <2>3 DEF Taken, Called, InCall, Parked
  <2>5. h \notin reset' \cup reported'
    BY <1>1, <1>6 DEF SocketsInv, Conn
  <2>6. Conn(h)' /\ SocketsPhase(h)' = "served"
    BY <1>1, <2>2, <2>3, <2>4, <2>5, One DEF Conn, SocketsPhase, Called
  <2>7. SocketsInv' /\ Sockets!phase' = [Sockets!phase EXCEPT ![h] = "served"]
    BY <1>3, <1>4, <2>1, <2>6, SocketsMove
  <2>8. Sockets!phase[h] = "called"
    BY <2>1, <2>2, SocketsPhases, One DEF SocketsPhase, Called
  <2> QED
    BY <2>1, <2>7, <2>8 DEF SocketsStep, Sockets!R!Next, Sockets!R!Serve, Sockets!R!Step
<1> QED
  BY <1>5, <1>6

\* Srv_reply() answers the call of a client that is left with nothing else; to
\* one that has ended it is nothing.
LEMMA SocketsReply ==
  ASSUME SocketsInv, NEW c, NEW n, Sockets!Srv_reply(c, n),
         UNCHANGED <<client, number, inbox, reported>>,
         \A d \in Client : d # c =>
           (InCall(d)' <=> InCall(d)) /\ (InCall(d) => taken' = taken) /\ Parked(d)' = Parked(d),
         c \in Client /\ client[c] # "dead" =>
           /\ client[c] = "wait" /\ n = number[c] /\ inbox[c] = <<>> /\ outbox[c] = <<>>
           /\ ~InCall(c)' /\ Parked(c)' = {}
  PROVE  SocketsInv' /\ SocketsStep
<1>1. CASE client[c] = "dead"
  <2>1. reset' = reset \cup {c} /\ outbox' = outbox
    BY <1>1 DEF Sockets!Srv_reply
  <2>2. \A d \in Client : Untouched(d)
    BY <1>1, <2>1 DEF Untouched
  <2> QED
    BY <2>1, <2>2, SocketsStay DEF SocketsStep, SocketsInv
<1>2. CASE client[c] # "dead"
  <2>1. reset' = reset /\ outbox' = [outbox EXCEPT ![c] = Append(outbox[c], n)]
    BY <1>2 DEF Sockets!Srv_reply
  <2>2. client' \in Clients
        /\ DOMAIN number' = Client /\ DOMAIN inbox' = Client /\ DOMAIN outbox' = Client
    BY <2>1 DEF SocketsInv
  <2>3. \A d \in Client : d # c => Untouched(d)
    BY <2>1 DEF Untouched, SocketsInv
  <2>4. CASE c \notin Client
    BY <2>2, <2>3, <2>4, SocketsStay DEF SocketsStep
  <2>5. CASE c \in Client
    <3>1. outbox'[c] = <<n>> /\ n = number'[c] /\ client[c] = "wait"
      BY <1>2, <2>1, <2>5, One DEF SocketsInv
    <3>2. Answered(c)'
      BY <1>2, <2>5, <3>1 DEF Answered
    <3>3. c \notin reset' \cup reported'
      BY <1>2, <2>1, <2>5 DEF SocketsInv, Conn
    <3>4. Conn(c)' /\ SocketsPhase(c)' = "answered"
      BY <3>1, <3>2, <3>3 DEF Conn, SocketsPhase
    <3>5. SocketsInv' /\ Sockets!phase' = [Sockets!phase EXCEPT ![c] = "answered"]
      BY <2>2, <2>3, <2>5, <3>4, SocketsMove
    <3>6. Sockets!phase[c] = "served"
      BY <1>2, <2>5, SocketsPhases, One DEF SocketsPhase
    <3> QED
      BY <2>5, <3>5, <3>6 DEF SocketsStep, Sockets!R!Next, Sockets!R!Answer, Sockets!R!Step
  <2> QED
    BY <2>4, <2>5
<1> QED
  BY <1>1, <1>2

\* srv_call() answers at once, or leaves the client waiting.
LEMMA SocketsCall ==
  ASSUME SocketsInv, Sockets!srv_call
  PROVE  SocketsInv' /\ SocketsStep
<1>1. /\ server = "call" /\ server' = "events"
      /\ UNCHANGED <<client, number, inbox, reported, taken>>
      /\ \/ Sockets!Srv_reply(handle, taken) /\ UNCHANGED parked
         \/ parked' = parked \cup {<<handle, taken>>} /\ UNCHANGED <<outbox, reset>>
  BY DEF Sockets!srv_call
<1>2. PICK c, n : c = handle /\ n = taken
  OBVIOUS
<1>3. \A d \in Client : ~InCall(d)' /\ (InCall(d) <=> d = c)
  BY <1>1, <1>2 DEF InCall
<1>4. c \in Client /\ client[c] # "dead" => client[c] = "wait" /\ Taken(c)
  BY <1>3 DEF SocketsInv, Clients, Conn, Idle, Called, Left, Answered
<1>5. CASE Sockets!Srv_reply(c, n) /\ UNCHANGED parked
  <2>1. \A d \in Client : Parked(d)' = Parked(d)
    BY <1>5 DEF Parked
  <2>2. \A d \in Client : d # c =>
          (InCall(d)' <=> InCall(d)) /\ (InCall(d) => taken' = taken) /\ Parked(d)' = Parked(d)
    BY <1>3, <2>1
  <2>3. c \in Client /\ client[c] # "dead" =>
          /\ client[c] = "wait" /\ n = number[c] /\ inbox[c] = <<>> /\ outbox[c] = <<>>
          /\ ~InCall(c)' /\ Parked(c)' = {}
    BY <1>2, <1>3, <1>4, <2>1 DEF Taken
  <2> QED
    BY <1>1, <1>5, <2>2, <2>3, SocketsReply
<1>6. CASE parked' = parked \cup {<<c, n>>} /\ UNCHANGED <<outbox, reset>>
  <2>1. \A d \in Client : d # c => Parked(d)' = Parked(d)
    BY <1>6 DEF Parked
  <2>2. client' \in Clients
        /\ DOMAIN number' = Client /\ DOMAIN inbox' = Client /\ DOMAIN outbox' = Client
    BY <1>1, <1>6 DEF SocketsInv
  <2>3. \A d \in Client : d # c => Untouched(d)
    BY <1>1, <1>3, <1>6, <2>1 DEF Untouched
  <2>4. CASE c \notin Client \/ client[c] = "dead"
    <3>1. \A d \in Client : Untouched(d)
      BY <1>1, <2>3, <2>4 DEF Untouched
    <3> QED
      BY <2>2, <3>1, SocketsStay DEF SocketsStep
  <2>5. CASE c \in Client /\ client[c] # "dead"
    <3>1. c \in Client /\ client[c] = "wait" /\ Taken(c)
      BY <1>4, <2>5
    <3>2. Parked(c)' = {<<c, n>>} /\ n = number[c]
      BY <1>2, <1>6, <3>1 DEF Parked, Taken
    <3>3. Left(c)'
      BY <1>1, <1>3, <1>6, <3>1, <3>2 DEF Left, Taken
    <3>4. c \notin reset' \cup reported'
      BY <1>1, <1>6, <2>5 DEF SocketsInv, Conn
    <3>5. Conn(c)' /\ SocketsPhase(c)' = "served"
      BY <1>1, <3>1, <3>3, <3>4, One DEF Conn, SocketsPhase, Left
    <3>6. SocketsInv' /\ Sockets!phase' = [Sockets!phase EXCEPT ![c] = "served"]
      BY <2>2, <2>3, <3>1, <3>5, SocketsMove
    <3>7. Sockets!phase[c] = "served" /\ Sockets!phase = [d \in Client |-> Sockets!phase[d]]
      <4>1. Sockets!phase[c] = "served"
        BY <3>1, SocketsPhases, One DEF SocketsPhase, Taken
      <4>2. Sockets!phase = [d \in Client |-> Sockets!phase[d]]
        BY DEF Sockets!phase
      <4> QED
        BY <4>1, <4>2
    <3> QED
      BY <3>6, <3>7 DEF SocketsStep
  <2> QED
    BY <2>4, <2>5
<1> QED
  BY <1>1, <1>2, <1>5, <1>6

\* A call that waits is answered later.
LEMMA SocketsLater ==
  ASSUME SocketsInv, Sockets!AnswerLater
  PROVE  SocketsInv' /\ SocketsStep
<1>1. PICK w \in parked : /\ parked' = parked \ {w} /\ Sockets!Srv_reply(w[1], w[2])
                          /\ UNCHANGED <<client, number, inbox, reported>>
                          /\ UNCHANGED <<server, handle, taken>>
  BY DEF Sockets!AnswerLater
<1>2. PICK c, n : c = w[1] /\ n = w[2]
  OBVIOUS
<1>3. \A d \in Client : (InCall(d)' <=> InCall(d))
  BY <1>1 DEF InCall
<1>4. \A d \in Client : d # c => Parked(d)' = Parked(d)
  BY <1>1, <1>2 DEF Parked
<1>5. \A d \in Client : d # c =>
        (InCall(d)' <=> InCall(d)) /\ (InCall(d) => taken' = taken) /\ Parked(d)' = Parked(d)
  BY <1>1, <1>3, <1>4
<1>6. c \in Client /\ client[c] # "dead" =>
        /\ client[c] = "wait" /\ n = number[c] /\ inbox[c] = <<>> /\ outbox[c] = <<>>
        /\ ~InCall(c)' /\ Parked(c)' = {}
  <2>1. SUFFICES ASSUME c \in Client, client[c] # "dead"
                 PROVE  /\ client[c] = "wait" /\ n = number[c]
                        /\ inbox[c] = <<>> /\ outbox[c] = <<>>
                        /\ ~InCall(c)' /\ Parked(c)' = {}
    OBVIOUS
  <2>2. w \in Parked(c)
    BY <1>2 DEF Parked
  <2>3. client[c] = "wait" /\ Left(c)
    BY <2>1, <2>2 DEF SocketsInv, Clients, Conn, Idle, Called, Taken, Answered
  <2>4. w = <<c, number[c]>> /\ Parked(c) = {w}
    BY <2>2, <2>3 DEF Left
  <2>5. Parked(c)' = {}
    BY <1>1, <2>4 DEF Parked
  <2> QED
    BY <1>2, <1>3, <2>1, <2>3, <2>4, <2>5 DEF Left
<1> QED
  BY <1>1, <1>2, <1>5, <1>6, SocketsReply

\* Every step of the sockets is one of an abstract transport, or none.
LEMMA SocketsSteps ==
  ASSUME SocketsInv, [Sockets!Next]_(Sockets!vars)
  PROVE  SocketsInv' /\ [Sockets!R!Next]_(Sockets!phase)
<1>1. CASE UNCHANGED Sockets!vars
  <2>1. UNCHANGED <<client, number, inbox, outbox, reset, server, handle, taken, parked, reported>>
    BY <1>1 DEF Sockets!vars, Sockets!net, Sockets!calls
  <2>2. \A c \in Client : Untouched(c)
    BY <2>1 DEF Untouched, InCall, Parked
  <2> QED
    BY <2>1, <2>2, SocketsStay DEF SocketsInv
<1>2. CASE Sockets!Server
  BY <1>2, SocketsGet, SocketsRecv, SocketsCall DEF Sockets!Server, SocketsStep
<1>3. CASE Sockets!AnswerLater
  BY <1>3, SocketsLater DEF SocketsStep
<1>4. ASSUME NEW c \in Client,
             \/ Sockets!Client_open(c) \/ Sockets!Send(c)
             \/ Sockets!Receive(c) \/ Sockets!Ends(c)
      PROVE  SocketsInv' /\ [Sockets!R!Next]_(Sockets!phase)
  BY <1>4, SocketsOpen, SocketsSend, SocketsReceive, SocketsEnd DEF SocketsStep
<1> QED
  BY <1>1, <1>2, <1>3, <1>4 DEF Sockets!Next

\* Sockets serve each call once and answer it once, to its caller, whoever else
\* calls, connects or ends.
THEOREM SocketsKeepCalls ==
  Sockets!Spec => Sockets!R!Init /\ [][Sockets!R!Next]_(Sockets!phase)
<1>1. Sockets!Init => SocketsInv /\ Sockets!R!Init
  BY SocketsInit
<1>2. SocketsInv /\ [Sockets!Next]_(Sockets!vars)
        => SocketsInv' /\ [Sockets!R!Next]_(Sockets!phase)
  BY SocketsSteps
<1> QED
  BY <1>1, <1>2, PTL DEF Sockets!Spec

\* SRV_CONN_LOST, for which srv_call() makes the application exit, comes only
\* from a client that has ended.
THEOREM OnlyTheDead ==
  Sockets!Spec => []OnlyTheDeadAreLost
<1>1. Sockets!Init => SocketsInv
  BY SocketsInit
<1>2. SocketsInv /\ [Sockets!Next]_(Sockets!vars) => SocketsInv'
  BY SocketsSteps
<1>3. SocketsInv => OnlyTheDeadAreLost
  BY DEF SocketsInv, Conn, OnlyTheDeadAreLost
<1> QED
  BY <1>1, <1>2, <1>3, PTL DEF Sockets!Spec
=============================================================================
