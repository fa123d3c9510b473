------------------------------ MODULE MCParts ------------------------------
(***************************************************************************)
(* The list of waiting applications, the three transports and the frame of  *)
(* a window, side by side: a behaviour is one of one of them and leaves the *)
(* others alone.                                                            *)
(***************************************************************************)
EXTENDS WaitList, WindowElements, Sequences

CONSTANTS Part, Caller, Calls, Slots, Polls

VARIABLES
  part,
  client, number, backlog, inbox, outbox, reset, selectable_handles, queue,
  server, reads, taken, parked, reported,
  process, calling, table, kernel, buf_out, queued, awake, waiting,
  state, count, SRVBOX, box, handles, serving, polls

Sockets == INSTANCE Sockets WITH Client <- Caller, Nobody <- Nil, handle <- reads
Device  == INSTANCE Device WITH Client <- Caller, Nobody <- Nil, pc <- process
Ports   == INSTANCE Ports WITH Client <- Caller, Nobody <- Nil

(* The tree of the resource file, at 8 by 16 points for a character; a      *)
(* window with everything, and windows that lack one thing or another.     *)
Rect(x, y, w, h) == [x |-> x, y |-> y, w |-> w, h |-> h]
Resource == [o \in Widget |->
               IF o = Root THEN Rect(0, 0, 456, 280) ELSE Rect(0, 0, 16, 16)]
SomeElements == {{"NAME", "CLOSER", "FULLER", "SMALLER", "MOVER", "INFO", "SIZER",
                  "UPARROW", "DNARROW", "VSLIDE", "LFARROW", "RTARROW", "HSLIDE"},
                 {"NAME", "CLOSER", "MOVER", "FULLER"}, {"VSLIDE", "HSLIDE"},
                 {"CLOSER", "INFO", "SIZER"}, {"LFARROW", "UPARROW", "DNARROW"},
                 {"SMALLER", "FULLER"}, {"SMALLER"}, {"SMALLER", "INFO", "SIZER"}, {}}
SomeSizes == {Rect(10, 20, 200, 160), Rect(30, 20, 100, 120)}

socks == <<client, number, backlog, inbox, outbox, reset, selectable_handles, queue,
           server, reads, taken, parked, reported>>
device == <<process, calling, table, kernel, buf_out, queued, awake, waiting>>
ports == <<state, count, SRVBOX, box, handles, serving, polls>>
waits == vars
all == <<part, waits, socks, device, ports, frameVars>>

(* Another part is looked at: no server that waits for calls. *)
NoSockets ==
  /\ client = [c \in Caller |-> "new"] /\ number = [c \in Caller |-> 0]
  /\ backlog = <<>> /\ reset = {} /\ selectable_handles = <<>> /\ queue = <<>>
  /\ inbox = [c \in Caller |-> <<>>] /\ outbox = [c \in Caller |-> <<>>]
  /\ server = "off" /\ reads = Nil /\ taken = 0 /\ parked = {} /\ reported = {}

InitPart ==
  /\ part \in Part
  /\ Init /\ Device!Init /\ Ports!Init /\ FrameInit
  /\ IF part = "sockets" THEN Sockets!Init ELSE NoSockets

NextPart ==
  \/ /\ part = "waiting_appl" /\ Next
     /\ UNCHANGED <<part, socks, device, ports, frameVars>>
  \/ /\ part = "sockets" /\ Sockets!Next
     /\ UNCHANGED <<part, waits, device, ports, frameVars>>
  \/ /\ part = "device" /\ Device!Next
     /\ UNCHANGED <<part, waits, socks, ports, frameVars>>
  \/ /\ part = "ports" /\ Ports!Next
     /\ UNCHANGED <<part, waits, socks, device, frameVars>>
  \/ /\ part = "elements" /\ FrameNext
     /\ UNCHANGED <<part, waits, socks, device, ports>>

(* The fairness of each part: what it is about is not enabled in the initial *)
(* states of the others.                                                     *)
SpecPart ==
  /\ InitPart /\ [][NextPart]_all
  /\ Fairness /\ Sockets!Fairness /\ Device!Fairness /\ Ports!Fairness
-----------------------------------------------------------------------------
\* An accepted connection is selected, queued or read from, and only once.
ConnectionIsKept == Sockets!ConnectionIsKept

\* Over sockets, through the device, where caller and server sleep in turns,
\* and through the message port, every call is served once and answered once,
\* to the client that made it.
TransportsImplementRpc ==
  Sockets!SocketsImplementRpc /\ Device!DeviceImplementsRpc /\ Ports!PortsImplementRpc
=============================================================================
