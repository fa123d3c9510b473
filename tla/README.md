# A TLA+ verification of oAESis

oAESis is a multitasking GEM/AES. One server process owns what the
applications share - windows, input, messages, the menu bar, the screen locks -
and a client library runs in every application. A call of an application is one
message to the server and one reply. The server is a single loop: take a call,
handle it completely, then look at what the interrupts of mouse, keyboard and
timer have left behind (`src/src/server/srv.c:115`). Some calls get their reply
later: `evnt_multi()` when an event comes, `wind_update()` when the lock is free.

So most of what can go wrong is not inside a handler but between handlers: a
reply that is never sent, or sent twice; what an application that exits leaves
behind; a shared region that two operations disagree about. That is what these
modules are about.

## 1. Inventory

State and operations of each part; the paths are below `src/src/`.

| part | state | operations | works with |
|------|-------|------------|------------|
| screen locks, `server/srv_wind.c`, `srv_queue.c` | owner, count and queue of the update lock and the mouse lock | `srv_wind_update` (`get_lock`, `return_lock`), `srv_wind_update_clear` | exits and kills; the mouse lock decides who gets clicks |
| event distribution, `server/srv_event.c` | mouse, button and timer news and what was handled last; buffers of clicks and keys per id; `next_timer_event` | three interrupts, `srv_wait_for_event`, `srv_handle_events` | messages, the topped application, the owner of a point on the screen |
| list of waiting applications, `server/srv_event.c` | doubly linked list through `appl_list[]` | `queue_appl`, `dequeue_appl` | the application table gives and takes the ids |
| window manager, `server/srv_wind.c` | `win_list`, `win_vis`, `win_free`, `win_next`; size, status and rectangle list of each window | `srv_wind_create`, `_open`, `_close`, `_delete`, `_set` (size, top, bottom), `_new`, `_find`, `_get` | asks applications to draw with messages |
| rectangle lists, `server/rlist.c` | the part of each window that can be seen, as rectangles | `Rlist_insert`, `Rlist_rectinter`, `Rlist_sort` | the window manager |
| application table, `server/srv_appl.c`, `srv_appl_info.c` | `apps[]`, `ap_pri` (the topped one first), `ap_resvd`, message buffers | `srv_appl_init`, `_exit`, `_reserve`, `_search`, `_control`, `_write` | everything |
| menu bar owner, `server/srv_menu.c` | which applications have a menu; registered titles | `srv_menu_bar`, `srv_menu_register`, `unregister_menu` | events and messages |
| server loop, `server/srv.c`, `srv_call.c` | `run_server` | the loop, the dispatch, `SRV_CONN_LOST`, the shutdown | everything |
| transports, `comm/`, `server/srv_comm_device.c` | sockets: handles that are selectable or queued; device: reply buffer and sleepers | `Srv_get`, `Srv_reply`; `comm_write`, `comm_read` | the loop |
| client events, `lib/evnt.c`, `evnthndl.c` | per call only: events asked for, events got | `Evnt_do_multi`, clicks on window elements, the menu bar | both locks, cursor, messages to itself |
| client windows, `lib/wind.c` | a structure per window: tree of widgets, sizes, topped or not | `Wind_do_create`, `_open`, `_set`, `Wind_newtop`, `Wind_redraw_elements` | messages of the window manager |
| object trees, `lib/objc.c` | `ob_head`, `ob_tail`, `ob_next` of each object | add, delete, draw, find, offset | dialogs, menus, window elements |
| dialogs, boxes, pop-ups, `lib/form.c`, `graf.c`, `menu.c`, `fsel.c` | cursor and its form, saved background, selected objects | `Form_do_do`, the dragged boxes, `Menu_popup`, file selector | both locks, events |
| bindings, `lib/aesbind.c`, `docalls.c` | one static parameter block | a binding per call, `aes_call` and its table | all routines of the library |
| shell, resources, scrap, `lib/shel.c`, `rsrc.c`, `scrp.c` | environment, resource tree | `Shel_do_write`, loading | the application table |
| launcher and start-up, `launcher/`, `startup/` | - | starts the server and the programs of `oaesis.cnf` | - |

What makes each part correct, and what is hard about it:

- *Locks.* One owner at most, first come first served, nobody waits for a lock
  that is free or belongs to an application that has gone. Hard: re-entrance,
  hand-over, kills while queued, two locks and their order.
- *Events.* Nobody waits for what has already come; nobody is answered who does
  not wait; timers fire. Hard: interrupts in the middle of a handler, a cached
  minimum of the timer events, five places that answer a waiting application.
- *Waiting list.* Exactly the waiting applications, each once. Hard: entries are
  taken out under a walk, ids are used again.
- *Windows.* The lists cut the screen into what can be seen; what does not show
  the right window is about to be drawn; one window is topped; identifiers come
  back. Hard: each operation walks the windows in a way of its own.
- *Rectangles.* No cell lost or doubled; a moved window is copied in a safe order.
- *Applications.* An id belongs to one application; an exit leaves nothing
  behind; desktop and menu bar have the right owner, who knows of it. Hard: the
  exit runs through four tables, ids are used again at once, a program is started
  before its id is reserved.
- *Transports.* Each call is served once and answered once, on its own
  connection. Hard: answers that come later, clients that vanish, a reader that
  sleeps.
- *Talking with the user.* Whatever way a call ends, locks, cursor and screen are
  given back; a click is used once. Hard: drags and menus that end in the middle,
  nested calls that wait for events of their own, two applications at it.
- *Copies of state.* The library keeps what the server keeps as well - who is
  topped, sizes, work areas - and learns of changes from messages. Hard: each
  operation sends its own messages, and structures outlive their windows.
- *Linked objects, positional arguments, packed widgets.* Data that is right only
  by agreement of two distant pieces of code.

`PROJECT.json` lists all parts with their status and the hazards line by line.

## 2. Modules

    ReentrantLock <--refines-- WindUpdate   --- MCWindUpdate
                                 |- WindUpdateProofs
      ^ two instances
      Screen --- MCScreen, ScreenProofs
    SrvEvent  --- MCSrvEvent, SrvEventProofs
    Windows   --- MCWindows, WindowsProofs
    TitleBars --- MCTitleBars, TitleBarsProofs
    RectList  --- MCRectList
    Appl      --- ApplProofs
    WaitList, WindowElements --- PartsProofs
    Rpc <--refine-- Sockets, Device, Ports --- TransportProofs

    MCParts   = WaitList | Sockets | Device | Ports | WindowElements
    MCSafety  = Appl | RectList | Screen | Binding | ObjectTree | TitleBars

A module keeps the names of the code where it can. One action is one handler,
run to its end, because the server takes one call at a time; only `SrvEvent`
divides the loop, where interrupts come in between, and `Screen` and the
transports, where processes run in turns. The operators that precede an action
or helper under the comment "Mutant of" are the same code with a plausible
mistake; each property is known to notice one.

`MCParts` and `MCSafety` put several parts side by side: the variable `part`,
chosen in the initial state, says which one moves, the others stay as they are.
That is one check of many independent parts and not a composition; parts that do
interact are composed within their modules (`Screen` with the two locks of
`ReentrantLock`, `TitleBars` and `WindowElements` with both sides, server and
library, `Sockets` with clients, network and loop).

### The server

**WindUpdate** (`srv_wind.c:186-281, 957-1041`). `lock`, `cnt`, `queue` are
`update_lock` and `mouse_lock` with their counts and queues of `LOCK_INFO`. On
the client's side `pc` says whether the process runs or is blocked for a reply
(`"queued"`), and `held` is the number of BEGs that were answered less the ENDs.
`get_lock` is three actions (`Reenter`, `Acquire`, `Enqueue`), `return_lock`
another three (`Return`, `Release` with its hand-over, `Refuse`); the check-and-set
mode differs in nothing, as in the code; `srv_appl_exit` and `APC_KILL` return both
locks and free the id.

**ReentrantLock** is what one lock promises: the owner may enter again, everyone
else stands in line, the first in line comes in when the owner has left. Both
locks of `WindUpdate` are shown to implement it with
`depth <- Depth(l), waiting <- Line(l)`: the owner is inside as deep as the
count says, the line is the handles of the queue.

**SrvEvent** (`srv_event.c`, and `srv_appl_write`, `top_appl`, `srv_menu_bar`
where they wake or redirect). `pc` is the place in the loop: `"get"`, then the
four handlers in their order. `pos_new`, `buttons_new` are written by the
interrupts at any moment when `Async`; `handle_mouse_buttons` and
`handle_mouse_motion` read them as often as the code does (operator `Late`: what
the second reading may find). Otherwise interrupts come between two rounds.
`messages`, `keys` and `clicks` count what is in the buffers.

**WaitList** (`srv_event.c:183-233`) has the links themselves, with the two
kinds of access: by id, and by a walk that remembers the next entry first.

**Windows** (`srv_wind.c`). A rectangle list is the set of cells it covers;
`Rlist_rectinter` moves cells and `Rlist_insert` joins sets - that the lists do
that is what `RectList` checks. `WIN_OPEN` is membership in `win_vis`. `stale`
is the set of cells that do not show the window they belong to and `redraw` the
cells whose owner has been asked to draw them. A moved window is copied one
rectangle at a time, and after a move up or down any cell whose source is itself
copied onto may be lost (`Exposed`): which ones depends on how the list is cut into
rectangles, so the choice is left open, and `torn` remembers them until they are
drawn again. `top_appl()`, which tops one more window when the application comes to
the front (`srv_wind.c:2004`, `srv_appl.c:57`), is a further step. Simplifications: windows have no
widgets, so working area and window are the same and `WM_EREDRAW` draws nothing;
the identifier given by `winalloc` is any free one; the size of a closed window
is forgotten (`wind_open` sets it); an application draws all it was asked for at
once; a dialog draws itself after it was opened; redraw messages are not lost
(that they can be is a hazard of its own); desktop and menu bar belong to an
application that stays (`Appl` has the change of owner).

**RectList** (`rlist.c`). The sequences of rectangles as the code makes them,
remainders and their order included, under `wind_open`, `wind_close` and
`changewinsize` of a window below another one.

**Appl** (`srv_appl.c`, `srv_appl_info.c`, `srv_menu.c`, the desktop in
`srv_wind.c`, `lib/shel.c`). `ap_pri` and `ap_resvd` are the two lists as
sequences of ids, `apps` the table. Processes call `appl_init` (which takes a
reserved id of the same pid, or a new one), reserve ids for programs they start,
install menus and desktop backgrounds, register titles, send messages, exit, are
killed, or simply end, which the server sees as `SRV_CONN_LOST`. `known` is the
id that the library of a process goes on using; `strayed` is set when a call is
made under an id that belongs to someone else by now. `Exit` is `srv_appl_exit`
whole: menu, desktop, titles, buffers, table. `Semaphore` is `SHEL_WRITE_LOCK`,
which is compiled in on MiNT and commented out elsewhere.

### Between library and server

**Rpc** is the promise of a transport: a call is served once, answered once, then
or later, and its caller gets the answer to this call. **Sockets**
(`srv_get_sockets.c`, `srv_put_sockets.c` and the loop) has the backlog, the
selectable and the queued handles, what is in each socket, and ends of
connections at any moment. **Device** (`srv_comm_device.c`, `lib_comm_device.c`)
has the slots, the answer that waits in the file handle, and the sleep of a reader
that finds nothing; a system call is not preempted. **Ports** (`srv_get_pmsg.c`,
`srv_put_pmsg.c`) has the boxes and the handles that are allocated for calls. The
numbers of calls are kept modulo `Calls`, so that an answer to an old call is told
from one to the present call. Each refines `Rpc` through its `phase`. Where the
server answers a client that has ended, `Device` and `Ports` drop the answer. The
code does not: it writes into a file handle that was freed
(`srv_comm_device.c:206`, `251`), or to where the client's buffer was
(`srv_get_pmsg.c:95`). What that memory is used for by then is not modelled.

**TitleBars** (`srv_wind.c` for who is topped, `lib/wind.c`, `lib/evnt.c`). The
server's `WIN_TOPPED` and order of windows, the messages in flight, the library's
structures (newest first, never removed) and what the title bars on the screen
look like. Each of opening, closing, deleting, topping and bottoming changes
`WIN_TOPPED` and sends messages in its own way; the library handles one message
at a time, some steps later.

**WindowElements** (`lib/wind.c`, `srv_wind.c` for the sizes). One window: its
tree of widgets as rectangles, which `set_win_elem` packs and `Wind_set_size`
moves, its work area as `calcworksize` computes it, its sliders, and the sizes
the server keeps for itself.

### The library

**Screen** (`evnt.c`, `evnthndl.c`, `graf.c`, `form.c`, `menu.c`, `fsel.c`, parts
of `objc.c`). A function is the sequence of its steps - take a lock, hide
the cursor, mark an object, draw with XOR, wait for events, send a message - and
`todo` is what an application still has to do. Where the code tests data that is
not kept, either branch is taken. What is drawn without hiding the cursor is a step
`Bare`: the file list that `Misc_copy_area` scrolls (`fsel.c:666`, `711`), and, as
one of two outcomes (`Astray`), the buttons that `form.c:730`, `815` and `826` draw on
the workstation numbered `apid` - if that is not the application's own, another
one's cursor is hidden. An application's own sections are three calls: both locks in
the library's order, UPDATE outside, and UPDATE around a dialog of the library; what
it does between two calls of `wind_update` besides is not modelled. The windows
that `Form_do_dial` opens for dialogs are left to `Windows`. The locks are two instances of `ReentrantLock`,
the ones `WindUpdate` was shown to implement. Steps that touch only what belongs to
the application itself are taken at once, as they commute with those of the others.

**ObjectTree** (`objc.c`). The three links of each object as `objc_add` and
`objc_delete` set them, beside the tree that the program means (`kids`);
`objc_draw`, `objc_find` and `objc_offset` walk along the links. Positions have one
coordinate; the walks treat both alike.

**Binding** (`aesbind.c`, `docalls.c` and the parameter side of each family). For
every binding the names of its arguments in the order of the words it stores, for
every routine the names in the order of the words it takes, and the table that
connects them by number. A value is the number of the call and a name, so that a
wrong place and a value of an earlier call both show.

## 3. What the runs check

| run | instance | properties | shows |
|-----|----------|------------|-------|
| `wu_safe` | 4 clients, 3 ids, both locks nested twice, any order, kills at any moment | `MutualExclusion`, `LedgerAgrees`, `NoIdleLock`, `BlockedIsQueuedOnce`, `NoOvertaking` | the locks are safe whatever clients do |
| `wu_lib` | 3 clients in the library's order of the locks, no kills in a queue, fair | `OwnerIsRegistered`, `LocksAreReentrant`, `EveryWaiterIsServed` | each lock implements the abstract one; no deadlock between the two |
| `wu_kill` | the same with kills in a queue | `OwnerIsRegistered` is violated | a lock granted to an application that has gone |
| `se_clock` | 2 applications; timers and mouse areas, or keys, clicks and messages; interrupts between rounds; 3 ticks | `MotionReported`, `NextTimerIsEarliest`, `NoUnreadMessage`, `NoUnreadInput`, `TimerFires` | nobody waits for what is there already; no timer late for good |
| `se_alias` | no menu installed | `NoUnreadMessage` is violated | a message to -1 does not wake its reader |
| `se_late` | motion interrupts while motion is handled | `MotionReported` is violated | a motion lost between the walk and `x_last = x_new` |
| `wd_safe` | 2 by 4 cells, 2 windows of an application, 2 sizes, all kinds of windows | `RegionsAreVisible`, `StaleIsAsked`, `OneTopped`, `IdentifiersAreKept` | screen (but for copies lost in a move up or down), topped window and identifiers stay right |
| `rl_sort` | 4 by 4 cells | `SafeOrder` is violated | copies in an order that overwrites |
| `tb_menu` | a menu may open over the topped window | `TitlesFollowTheTop` is violated | a title bar that looks untopped for good |
| `sc_hang` | 2 applications, clicks on the slider and on the title bar | `NobodyHangs` is violated | the two locks in opposite orders |

`sv_parts`, under the fairness of each part:

| part | instance | properties | shows |
|------|----------|------------|-------|
| `WaitList` | 3 clients, 3 ids, no kills of waiting applications | `ListIsWellFormed`, `NoStrayReply`, `WalkEnds` | the links are the list of waiting applications |
| `Sockets` | 2 clients, 2 call numbers | `ConnectionIsKept`, `TransportsImplementRpc` | a handle is in one place; calls and answers match |
| `Device`, `Ports` | 2 clients, 2 slots, 1 poll | `TransportsImplementRpc` | no answer is lost to a sleeper, none is doubled |
| `WindowElements` | 9 sets of elements, 2 sizes, sliders at 0 and 500 | `LayoutIsKept`, `WidgetsFit`, `SizesAgree` | a window that changed its size, or was an icon, looks like a new one |

`safety`:

| part | instance | properties | shows |
|------|----------|------------|-------|
| `RectList` | 4 by 4 cells, 6 places of a window, 5 of the one above | `ListsAreExact`, `CopiedOrAsked` | no cell lost or doubled; what is not copied is asked for |
| `Appl` | 2 processes, 2 ids, 1 message, 2 names | `TablesAgree`, `DesktopHasItsOwner`, `OwnersAreTold`, `ShutdownAdvances` | exits and lost connections leave the tables right |
| `Screen` | one user of every call, another application that takes both locks in either order, 2 events at a time | `GivenBack`, `CursorIsKept`, `LocksAreOrdered`, `ClicksAreUsedOnce` | every way out of a call undoes what it did |
| `Binding` | all bindings but `Avoided`, two calls in a row | `ArgumentsArrive`, `ResultIsFresh` | both sides agree on every word |
| `ObjectTree` | 4 objects, one out of the tree at a time, any hidden | `LinksAreTheTree` | the walks see the tree that was built |
| `TitleBars` | 2 applications, 2 ids, 4 messages, normal windows and dialogs | `TitlesFollowTheTop` | the two records of the topped window agree |

*Bounds.* Four clients on three ids make an id change hands while its old owner
is still in a queue, and give a queue of three, where order matters. Nesting 2
tells the inner from the outer section. In `SrvEvent` two applications are
enough for every pair "the event is for me, for the other"; the buffers hold up
to `MaxMessage`, `MaxKey` and `MaxClick` entries, one each, so that they are empty
or full. The calls of a behaviour of `se_clock` are of one kind (`Kinds`): for a
timer and a mouse area, or for a button, a key or a message; the clock stands still in
the second kind, so that `TimerFires` says something of the first kind only. That
interrupts in the middle of a round change nothing for
`NoUnreadMessage` and `NoUnreadInput` is proved (section 4). `MaxTick` = 3 lets a
timer be set before and after another one, be overtaken, and fire while the other
one goes on. Two application windows above a
desktop and a menu bar give orders of four, with menus and dialogs at every place;
the two sizes overlap in one cell, one of them leaves the screen, and going from
one to the other moves, grows one way and shrinks the other. A fourth row leaves
room to move a window down onto where it was. `MaxWindow` = 4
bounds `win_next`. The places in `MCSafety` cut corners, edges, a hole and a
window in two, and put windows partly off the screen. Two processes and two ids in
`Appl` fill the table, have an id given again while a process that lost it lives
on, and one message makes a buffer full. Two clients of a transport show an answer
that comes while another call is served; two call numbers tell an answer from
the one before. `MaxStruct` = 2 with two ids lets a window be made, deleted and
made again. `Together` = 2 is the least that has a click and another event in one
answer. Four objects give a tree of depth three and one with brothers on two
levels. Two calls in a row are enough for a word of one to be read by the next.
`wu_*`, `wd_safe`, `rl_sort`, `se_late`, `sc_hang`, `tb_menu`, `sv_parts` and
`safety` do not check for deadlock: all clients may be killed, all processes may
end, and at its bounds a model may stop.

*Symmetry* is used for clients, processes and applications that no constant
tells apart, and only in runs without liveness.

*Fairness.* `WindUpdate`: a client that is inside a section ends it some day
(strong fairness of the END at each depth, as other calls come in between); the
library does so on every path (`GivenBack` of `Screen`). No fairness of BEG is
assumed. `SrvEvent`: the timer interrupt goes on (strong fairness, as without
`Async` it is enabled at one place of the loop only), and the loop goes round -
`Srv_get` has a timeout of 50 ms, so weak fairness of `NoCall` and of the
handlers. `WaitList`: a walk goes on, as a loop does. The transports: the server
goes round its loop, a process that was woken or has an answer goes on, and in
`Sockets` a client sends its first call after it has connected, which is what
`Client_send_recv` does - a connection that stays silent would stop the server
(`srv_get_sockets.c:252`). When a call is *answered* is never assumed.
The library's order of the locks (`LibraryOrder`) is what `LocksAreOrdered` shows
of `Screen`, with two exceptions: the slider, which `sc_hang` is about, and an
application that calls the library inside an UPDATE of its own.

*What is kept out.* Some properties hold only of programs that keep away from
certain things. Each of these is a constant; giving it the other value in the
named run leads to a counterexample.

`Windows` (`wd_safe`), `Liberty`:

- `"over menu"`: a window is opened or topped while a drop menu is in front. The
  window that was topped keeps `WIN_TOPPED` (`srv_wind.c:1484`, `1879`: only
  the first window of `win_vis` is looked at): `OneTopped`. The library holds the
  update lock while a menu is down, but the server does not ask for the lock.
- `"past menu"`: a window is put to the bottom when a menu is right below it. The
  menu is skipped (`srv_wind.c:2049`) and not given what it shows:
  `RegionsAreVisible`.
- `"under dialog"`: the front window is topped when a dialog is second. It goes
  below the dialog (`srv_wind.c:1865`) and keeps the dialog's cells:
  `RegionsAreVisible`.
- `"move undrawn"`: a window is moved before its owner has drawn it. Cells that
  are not drawn yet are copied away from the area that was asked for
  (`srv_wind.c:618`): `StaleIsAsked`.

`StaleIsAsked` also names an exception that is no constant: the cells of `torn`.
`Rlist_sort` orders the copies for moves sideways only (`rlist.c:494`; run
`rl_sort`), so a move up or down may copy one rectangle over the source of the next,
and nobody is asked to draw what is lost.

`TitleBars` (`safety`), `Liberty`; all break `TitlesFollowTheTop`:

- `"reopen"`: a window that was closed while it was topped, of which its owner is
  never told, is opened again below a dialog.
- `"reuse"`: an id is given again while messages about the old window wait.
- `"menu"`: a drop menu opens over the topped window (run `tb_menu`).
- `"under dialog"`: the front window is topped while a dialog is right behind it.
  It goes below the dialog, and with a third window `WIN_TOPPED` stays with two
  (`srv_wind.c:1842-2012`).

Elsewhere:

- `KillWaiting = TRUE` (`sv_parts`): the entry of a killed application stays in
  the list of waiting ones, and is linked twice when its id is used again:
  `ListIsWellFormed`. The theorems about the list in `PartsProofs` have `~ KillWaiting` as
  their hypothesis for this reason.
- `OpenTwice = TRUE` (`WindowElements`): the library takes the size of a second
  `wind_open`, the server does not: `SizesAgree`.
- `Adrift = {}` (`WindowElements`): the filler at the bottom is moved by the
  difference of the window's position instead of its height
  (`lib/wind.c:477`): `LayoutIsKept`, `WidgetsFit`.
- `Uncounted = {}` (`WindowElements`; an operator, not a constant): for a window
  with the iconify box but no other element at the top `set_win_elem` packs a title
  (`lib/wind.c:763`, `791`) for which `calcworksize` leaves no room (`239`), so that
  it lies on the work area: `WidgetsFit`. For these widgets the property claims only
  that they are in the window and not on each other.
- `Screen`: what is drawn by `Bare` steps, and the text cursor, which
  `draw_cursor` puts on the screen with the cursor as it is (`lib/objc.c:1535`):
  `CursorIsKept`. An application's own UPDATE around calls of the library:
  `LocksAreOrdered`.
- `MaxOut = 2` (`ObjectTree`): `objc_delete` leaves the links of the object it
  takes out, so with two of them out an `objc_add` follows old links.
- `Semaphore = FALSE` (`Appl`): the id reserved late is one too many;
  `TablesAgree` claims one id for a process only with the semaphore.
- `Avoided` (`Binding`): bindings that store an argument in another word than its
  routine reads (`evnt_dclick`, `form_button`, `graf_growbox`, `graf_shrinkbox`),
  that have no routine (`objc_order`, `shel_get`, `shel_put`), or whose routine
  leaves the result of an earlier call (`evnt_timer`, `form_center`, `rsrc_free`).

Disagreements of code and comments are in `PROJECT.json` under `findings`; the
runs with an expected violation show them.

## 4. What is proved

TLAPS proves, for every value of the constants allowed by the assumptions:

- `WindUpdateProofs`: `TypeOK`, `MutualExclusion`, `LedgerAgrees`, the discipline
  of the queues (`BlockedIsQueuedOnce`), `NoIdleLock`, and `OwnerIsRegistered`
  when nobody is killed in a queue; that both locks implement `ReentrantLock` when
  nobody is killed in a queue (`Refinement`), and first come, first served
  whatever is killed (`Order`).
- `SrvEventProofs`: `TypeOK`, `NextTimerIsEarliest`, `NoUnreadInput`; `NoUnreadMessage` when some application has a menu
  (`~ NoMenu`; `se_alias` shows that it is needed); and `MotionReported` when
  interrupts come between two rounds only (`~ Async`; `se_late` shows that it is
  needed).
- `WindowsProofs`: `TypeOK`, `IdentifiersAreKept` and `RegionsAreVisible`, when
  `"past menu"` and `"under dialog"` are not in `Liberty`; `OneTopped`, when
  `"over menu"` is not either; and `StaleIsAsked`, when besides the first two
  `"move undrawn"` is not.
- `ApplProofs`: `TypeOK`, `TablesAgree`, `DesktopHasItsOwner` and the action
  properties `OwnersAreTold` and `ShutdownAdvances`, with and without the semaphore,
  for any processes, any size of the table and any titles.
- `PartsProofs`, of the waiting applications: `ListIsWellFormed` and
  `NoStrayReply`, and that a walk stands on an entry that is in the list, when
  nobody is killed while waiting (`~ KillWaiting`). Of a window's frame:
  `SizesAgree`, when no window is opened twice (`~ OpenTwice`), and `LayoutIsKept`,
  when the filler is not looked at (`"BFILLOUT" \in Adrift`), for any resource,
  elements and sizes.
- `TitleBarsProofs`: `TitlesFollowTheTop`, when `Liberty` is empty, for any number of
  windows and of ids.
- `TransportProofs`: each step of `Sockets`, `Device` and `Ports` is a step of `Rpc`
  or none, for any number of clients, slots and polls; no client of the device
  sleeps while there is an answer for it that has not woken it; and the server
  takes the connection of no client for lost that has not ended.
- `ScreenProofs`: `GivenBack`, `CursorIsKept`, `LocksAreOrdered` and
  `ClicksAreUsedOnce`, for any number of applications, whatever they call and ask
  for, wherever they are clicked and however many events one answer has.

*Locks.* Mutual exclusion is a matter of the ledger (`LedgerInv`: a client that
holds a lock has an id, and that id owns the lock) and of ids that are not
shared (`IdsInv`). It is not inductive without the queues: a hand-over makes an
owner of whoever the entry names, so each entry must be of a process that is
blocked under that id, or was killed (`PresentInv`), and no process may have
two (`UniqueInv`). A kill in a queue leaves an entry whose id may be used again;
then the count may exceed what the client was told, so the exact equality is a
part of its own (`ExactInv`) under `~ KillQueued`.

*Refinement of the locks.* The invariant makes the mapping a function: with exact
counts the depth of the owner is `cnt`, and everyone else is at 0. Then each
action of the server has a lemma of its own, per lock, which says what step of
`ReentrantLock` it is: `Acquire` is `Enter`, `Reenter` is `EnterAgain`, `Enqueue`
stands in line, `Return` leaves an inner section, `Release` leaves and lets the
first in line in, and exits are ENDs or stutters. The other lock rests in each case.
`Order` needs the queues only, not the counts: a queue changes at its ends.

*Events.* `Inv` conjoins the properties with what they rest on: the order of the
applications lists each of them (`Listed`, so that there is a topped one), and
timers and counters are in their ranges. The proof goes handler by handler; the
walk of `handle_timer` needs that a minimum over a finite set exists. What is said
of the motion (`Handled`) is said of the last position that was handled: a call
that begins to wait is looked at with the position of the moment, which may be a
newer one; then `handle_mouse_motion`, which comes next, makes up for it.

*Windows.* The list of each window is what no window in front of it covers, cell
by cell (`Regions`). That is preserved because the desktop is last, covers what
remains and is nobody else's (`Desk`), each open window is in the order once
(`Once`), and the orders made by raising and lowering a window differ from the
old one in one place (`RaisedOrder`, `LoweredOrder`, `WithoutOrder`). The
identifiers are needed for the typing of a window that is made anew.

*The topped window.* That one window is topped is not inductive: opening and topping
take `WIN_TOPPED` from the first window of the order only. The invariant
(`Led`) says that a topped window has nothing but menus in front of it. Then
opening and topping find it in front, as they refuse to work over a menu while
another window is topped; closing and lowering hand the flag to the window right
below, in front of which no other window is left.

*The screen.* `StaleIsAsked` is inductive given the regions, of which it needs that
they do not overlap (`RegionsAreApart`): a cell that changes hands becomes stale, and
only the window that got it has to be asked. The hard step is `changewinsize`:
what is copied is as right as it was where it comes from, so a copy from elsewhere
is only right when nothing was left to draw (`"move undrawn"`) and its source was not
`torn` or copied over before, and what stays in place is still asked for. The
theorem is about every way the copies can be ordered, as any subset of the cells
that are exposed may be lost.

*The list of waiting applications.* `ListIsWellFormed` is not inductive: an entry
may be marked although its application does not wait, and then taking it out
would answer somebody who has not called. So `IInv` adds that a marked entry is
of a client that is blocked under this id and whose handle it has
(`MarkedIsBlocked`), that ids are not shared (`IdsAreOwn`), and that a walk stands
on a marked entry (`WalkIsListed`). The list is an enumeration of the marked entries
(`EntriesAreLinked`); a lemma each says what `queue_appl` and `dequeue_appl` do to an
enumeration: a new first element, or one element left out.

*Applications.* `IInv` conjoins the types, `EntriesAreTheIds`, `MenusListTheLiving`,
`OneIdPerProcess` and `DesktopHasItsOwner` with three facts they rest on: an entry
that is in use belongs to a process, an application that has not ended
(`EntriesHaveProcesses`), a reserved entry has neither menu nor desktop
(`ReservedIsBlank`: else `FirstWith` would find other owners when it enters the
list), and who has not strayed calls under its own id. The menu bar's order is
`Sorted` by titles: putting a title before the first greater one keeps it
(`Inserted`). The owners are the first of a list with a property, so most of the
work is in lemmas that say when two lists have the same first one: after an exit
(`Without`), after a new first entry, and after the topped application was moved to
the front. The assumptions are that no id is a process (`PidAssumption`), that the
bounds are natural numbers with room for at least one id (`BoundAssumption`) and that titles are numbers
(`TitleAssumption`).

*Transports.* That a caller gets the answer to this call is not inductive: the
answer must not be on its way while a call is. So each invariant says that a call
which waits is in one place: for `Sockets`, in the socket to the server, with
`srv_call`, among those that are answered later, or in the socket back (`Conn`);
for `Device` and `Ports` the same of kernel, list and file handle, or of message
box and handle (`DeviceCalls`, `PortsCalls`). With that, the phases are disjoint,
and a step that touches one connection changes the phase of one call
(`SocketsMove`). A client that has ended may leave its call anywhere, so nothing is
said of it but that only it is reset. `Sound` is the hypothesis for the device and
the message port: there are numbers for calls, and `Nobody` is neither a client nor
a message. The sockets need none. The first part of `TransportsImplementRpc` is
proved by this; the second, that a call is served, rests on fairness.

*Title bars.* What a title bar shows is settled by messages on their way, so the
property is not inductive. `TitlesInv` adds to the types of the windows
(`WindowsAreTyped`) and of the library's structures (`LibraryIsTyped`) that the
order lists each open window once (`OrderIsKept`), that one window is topped and has
only menus in front (`Led`), that a message about a window goes to its owner
(`LettersAreOwn`), and `TitlesSettle`: once the messages that wait have been
handled in their order, each title bar is drawn as the server has it. Whether a queue
settles a window depends on the last note and the last redraw about it (`Told`,
`Draws`), and lemmas say how that changes when messages are added at the end and
when the first one is handled. The attempt to prove this found that topping the
front window with a dialog behind it leaves two windows topped (`"under dialog"`).

*The frame.* `FrameInv` says that both work areas, the library's and the server's,
are what `calcworksize` makes of the size; what it takes away depends on the
elements alone. For `LayoutIsKept` two trees packed side by side, one for the window
as it is and one for a new window of its size, stay `Alike`: each widget that
is put to the left or the top is in the same place, each that is put to the right
or the bottom is off by the difference of the sizes. So packing and moving
commute, title bar, right column and bottom row one after the other; the sliders
follow from their rules.

*The screen as the library uses it.* A function of the library is a sequence of
steps, and an application can be in the middle of one while it waits, with a part
of a loop before it. `ScreenProofs` is a small logic of such sequences. A `State`
is what is known of an application: the locks it has begun, how often the cursor is
hidden, what may be marked, whether lines are drawn, the clicks not used yet, where
its form of the mouse is. `May(t, q, S)` says that the first of the steps `t` is
allowed in state `q` and that what it leads to is among the pairs `S`; a set of
pairs is closed when that holds of each of them, so a loop is closed by its own
beginning. `Does(p, q, r)` - steps `p`, begun in `q`, end in `r` if they end - has
rules for one step, a sequence, a branch and a loop, and each function of the
library, from `Dragged` to `Fsel_do_exinput` and the answer of `Evnt_do_multi`,
is derived with them. The invariant says that each application is at a pair of some
closed set and that its state is true of it; the locks are sound, one inside, the
others in line. A step of one application moves along its pairs, and the others
see of it only the locks (`Elsewhere`) and, if it may change it, the form. The
invariant quantifies over sets of pairs, so TLC cannot evaluate it; what it implies
is what TLC checks in `safety`. The assumptions are that the calls are calls of the
library (`CallsAssumption`) and the places are places (`PlacesAssumption`).

*Model-checked only*: liveness (`EveryWaiterIsServed`, `TimerFires`, `WalkEnds`,
the fairness part of `Rpc` in `TransportsImplementRpc`), which is out of the
prover's reach; `ConnectionIsKept`, which counts places in lists made by
`SelectSeq`, a recursion over data; `WidgetsFit`, whose bounds are those of the sizes
and the resource that are checked; `Binding` (`ArgumentsArrive`, `ResultIsFresh`), a
finite table that TLC goes through as a whole; and `RectList` (`ListsAreExact`,
`CopiedOrAsked`) and `ObjectTree` (`LinksAreTheTree`), whose walks are recursions
over data.

## 5. Not modelled

Resource files (fixing of addresses and coordinates), the configuration file, the
VDI workstation, the launcher, the mouse device driver and the tools are sequential
data conversion or I/O, where nothing is in an order that could go wrong. Of the
parts that are modelled:

- events: what is in the rings of keys, clicks and messages, overwritten or kept;
  `graf_mkstate`; wrap-around of 16 and 32 bit counters;
- windows of the server: sliders and colours, `WF_FIRSTXYWH` and its cursor,
  messages lost by a full buffer (in `Windows` and `TitleBars`; `Appl` and
  `SrvEvent` have the drop);
- applications: `appl_search` and its cursor, AP_TERM with its counted tries;
- the library: how the entries of menus and alerts are laid out, the
  directory of the file selector, the editing of text, the focus rules of
  `form_keybd`, toolbars, colours, the place of a slider (`lib/wind.c:329` uses
  the length it had before the call), and all drawing.

## 6. Plan for what is left

1. `InputRing`: the rings at their limit and an id that is used again; refines a
   bounded queue. It covers the two ring hazards that no property covers.
2. The cursor of `WF_FIRSTXYWH` over the lists of `RectList`, under the update
   lock and without it.
3. `appl_search` over a changing list, AP_TERM and its tries, in `Appl`.
4. `EditField`: cursor, text and template of `objc_edit`; focus rules of forms.
5. Proofs: `WidgetsFit`, from bounds on the sizes and the resource; and
   `ListsAreExact`, with the lists of `RectList` as sets of cells.
