-------------------------------- MODULE Appl --------------------------------
(***************************************************************************)
(* The table of applications of the server, srv_appl.c, srv_appl_info.c    *)
(* and srv_menu.c: ids given, reserved for a program that is being started *)
(* (shel.c), given back by an exit, a kill or a lost connection; the order *)
(* of the applications, which decides who owns the menu bar and the        *)
(* desktop; the lists of titles of the menu bar.                           *)
(*                                                                         *)
(* A list of AP_LIST entries is the sequence of their ids.  Of a message   *)
(* only the fact counts: mail[i] is how many wait for application i.  The  *)
(* windows of an application are module Windows; here are the two of the   *)
(* server, the desktop (its owner) and the menu bar.                       *)
(***************************************************************************)
EXTENDS Integers, Sequences, SequencesExt

CONSTANTS
  Pid,          \* the processes, each of which runs once
  NoPid,
  MaxApps,      \* MAX_NUM_APPS, the ids are 0 .. MaxApps - 1
  MaxMail,      \* messages a buffer holds (MSG_BUFFER_SIZE / MSG_LENGTH)
  Title,        \* ranks of the names in the order of strcasecmp()
  Semaphore     \* shel_write() holds SHEL_WRITE_LOCK: MiNT yes, Unix no

ASSUME PidAssumption   == NoPid \notin Pid
ASSUME BoundAssumption == MaxApps \in Nat \ {0} /\ MaxMail \in Nat
ASSUME TitleAssumption == Title \subseteq Nat /\ Title # {}

VARIABLES
  ap_pri,    \* applications in order, the topped one first
  ap_resvd,  \* ids reserved for programs that are being started
  apps,      \* the AP_INFO of each id
  next_ap,   \* where the search for a free id begins
  applmenu, accmenu,  \* titles of the menu bar: applications, accessories
  mail,      \* id -> messages in its buffer
  deskowner, \* owner of the desktop window, NoId when the window is gone
  bar,       \* the menu bar window exists
  proc,      \* process -> "new", "up" or "gone"
  known,     \* process -> the id the library knows it by (globals_appl)
  launcher,  \* process -> who started it and has not reserved an id yet
  lost,      \* connections whose end the server has not seen
  status,    \* of the server: "up", "closing" (Srv_exit_module), "down"
  strayed    \* a call has been made under an id of another process

lists == <<ap_pri, ap_resvd, apps, next_ap>>
menus == <<applmenu, accmenu>>
wins == <<deskowner, bar>>
procs == <<proc, known, launcher, lost>>
vars == <<lists, menus, mail, wins, procs, status, strayed>>

-----------------------------------------------------------------------------
Id == 0 .. MaxApps - 1
NoId == -1

In(i, list) == \E k \in DOMAIN list : list[k] = i
Place(i, list) == CHOOSE k \in DOMAIN list : list[k] = i
Without(list, i) ==
  IF In(i, list)
  THEN [n \in 1 .. Len(list) - 1 |-> list[IF n < Place(i, list) THEN n ELSE n + 1]]
  ELSE list

(* Id of the first application of a list that has a feature, else other. *)
FirstWith(list, has, other) ==
  IF \E k \in DOMAIN list : has[list[k]]
  THEN list[CHOOSE k \in DOMAIN list :
              /\ has[list[k]]
              /\ \A n \in DOMAIN list : n < k => ~has[list[n]]]
  ELSE other

HasDesk(info) == [i \in Id |-> info[i].deskbg]
HasMenu(info) == [i \in Id |-> info[i].menu]

(* search_appl_info() with DESK_OWNER and TOP_MENU_OWNER; without a desktop
   background the first application is the owner of the desktop. *)
get_desktop_owner_id(list, info) == FirstWith(list, HasDesk(info), 0)
get_deskbg_owner(list, info) == FirstWith(list, HasDesk(info), NoId)
get_top_menu_owner(list, info) == FirstWith(list, HasMenu(info), NoId)

(* srv_appl_write() to id i: dropped when the buffer is full or the id is
   not in use.  The id -1 stands for the topped application (TOP_APPL). *)
Deliver(box, i, list, info) ==
  LET to == IF i # NoId THEN i ELSE IF list = <<>> THEN NoId ELSE Head(list)
  IN  IF to # NoId /\ info[to].live /\ box[to] < MaxMail
      THEN [box EXCEPT ![to] = @ + 1] ELSE box

(* The redraw message goes to whoever had the menu bar before. *)
RedrawOldOwner(box, list, info) ==
  IF bar THEN Deliver(box, get_top_menu_owner(ap_pri, apps), list, info) ELSE box

redraw_menu_bar(box, list, info) ==
  IF bar THEN Deliver(box, get_top_menu_owner(list, info), list, info) ELSE box

update_desktop_background(box, list, info) ==
  Deliver(box, get_desktop_owner_id(list, info), list, info)

update_desktop_owner(list, info) ==
  IF deskowner = NoId THEN NoId ELSE get_desktop_owner_id(list, info)

Init ==
  /\ ap_pri = <<>> /\ ap_resvd = <<>> /\ next_ap = 0
  /\ apps = [i \in Id |-> [live |-> FALSE, pid |-> NoPid, handle |-> NoPid,
                           deskbg |-> FALSE, menu |-> FALSE,
                           type |-> "application",
                           name |-> CHOOSE t \in Title : TRUE]]
  /\ applmenu = <<>> /\ accmenu = <<>>
  /\ mail = [i \in Id |-> 0]
  /\ deskowner = 0 /\ bar = TRUE
  /\ proc = [p \in Pid |-> "new"] /\ known = [p \in Pid |-> NoId]
  /\ launcher = [p \in Pid |-> NoPid] /\ lost = {}
  /\ status = "up" /\ strayed = FALSE

-----------------------------------------------------------------------------
(***************************************************************************)
(* Ids.  srv_info_alloc() stays at an id it has given until that id is in  *)
(* use, and looks for ever when all are: no step then.                     *)
(***************************************************************************)
Free == {i \in Id : ~apps[i].live}
Distance(i) == (i - next_ap) % MaxApps
NextFree == CHOOSE i \in Free : \A j \in Free : Distance(i) <= Distance(j)

NewInfo(p, handle, type) ==
  [live |-> TRUE, pid |-> p, handle |-> handle, deskbg |-> FALSE,
   menu |-> FALSE, type |-> type, name |-> apps[NextFree].name]

srv_appl_reserve(p, type) ==
  /\ Free # {}
  /\ apps' = [apps EXCEPT ![NextFree] = NewInfo(p, NoPid, type)]
  /\ ap_resvd' = <<NextFree>> \o ap_resvd
  /\ next_ap' = NextFree
  /\ mail' = [mail EXCEPT ![NextFree] = 0]
  /\ UNCHANGED <<ap_pri, menus, wins, status, strayed>>

(* srv_menu_register(): the title goes before the first one that is greater. *)
Greater(list, info, t) ==
  CHOOSE n \in 1 .. Len(list) + 1 :
    /\ \A k \in 1 .. n - 1 : info[list[k]].name <= t
    /\ n <= Len(list) => info[list[n]].name > t
Inserted(list, info, i, t) ==
  LET rest == Without(list, i)
  IN  InsertAt(rest, Greater(rest, info, t), i)

Registered(info, i, t) ==
  /\ apps' = [info EXCEPT ![i].name = t]
  /\ IF info[i].type = "accessory"
     THEN accmenu' = Inserted(accmenu, info, i, t) /\ UNCHANGED applmenu
     ELSE applmenu' = Inserted(applmenu, info, i, t) /\ UNCHANGED accmenu

(* Entry of a program the id was reserved for, the first one of its pid. *)
Reserved(p) == {i \in Id : In(i, ap_resvd) /\ apps[i].pid = p}
FirstReserved(p) == FirstWith(ap_resvd, [i \in Id |-> apps[i].pid = p], NoId)

(* srv_appl_init() on the connection and for the process p. *)
Enter(p, i, info) ==
  /\ ap_pri' = <<i>> \o ap_pri
  /\ proc' = [proc EXCEPT ![p] = "up"]
  /\ known' = [known EXCEPT ![p] = i]
  /\ IF info[i].type = "application"
     THEN \E t \in Title : Registered(info, i, t)
     ELSE apps' = info /\ UNCHANGED menus

srv_appl_init(p) ==
  /\ \/ /\ Reserved(p) # {}
        /\ ap_resvd' = Without(ap_resvd, FirstReserved(p))
        /\ Enter(p, FirstReserved(p), [apps EXCEPT ![FirstReserved(p)].handle = p])
        /\ UNCHANGED <<next_ap, mail>>
     \/ /\ Reserved(p) = {} /\ Free # {}
        /\ Enter(p, NextFree, [apps EXCEPT ![NextFree] = NewInfo(p, p, "application")])
        /\ next_ap' = NextFree
        /\ mail' = [mail EXCEPT ![NextFree] = 0]
        /\ UNCHANGED ap_resvd
  /\ UNCHANGED <<wins, launcher, lost, status, strayed>>

(***************************************************************************)
(* srv_appl_exit(): the menu is removed, the titles are unlinked, the      *)
(* windows deleted and the entry freed, in this order.  The entry of an    *)
(* id that is only reserved stays.                                         *)
(***************************************************************************)
menu_bar_remove(info, i) ==
  IF info[i].live THEN [info EXCEPT ![i].menu = FALSE] ELSE info

(* Only the titles of applications are unlinked. *)
unregister_one(i) ==
  /\ applmenu' = Without(applmenu, i)
  /\ UNCHANGED accmenu

unregister_menu(i) ==
  /\ applmenu' = Without(applmenu, i)
  /\ accmenu' = Without(accmenu, i)

srv_wind_new(i) ==
  /\ deskowner' = IF deskowner = i THEN NoId ELSE deskowner
  /\ bar' = (bar /\ i # 0)

(* The id is free and the entry stays in the list. *)
apinfofree_id(info, i) ==
  /\ UNCHANGED ap_pri
  /\ apps' = [info EXCEPT ![i].live = FALSE]

apinfofree(info, i) ==
  /\ ap_pri' = Without(ap_pri, i)
  /\ apps' = IF In(i, ap_pri) THEN [info EXCEPT ![i].live = FALSE] ELSE info

Exit(i) ==
  LET info == menu_bar_remove(apps, i)
  IN  /\ mail' = redraw_menu_bar(mail, ap_pri, info)
      /\ unregister_menu(i)
      /\ srv_wind_new(i)
      /\ apinfofree(info, i)
      /\ UNCHANGED <<ap_resvd, next_ap>>

(***************************************************************************)
(* The calls of an application that runs.  check_apid() finds the id of a  *)
(* process in a table that appl_exit() leaves as it is, so a process that  *)
(* goes on after its exit calls under an id that is nobody's or another's. *)
(***************************************************************************)
Caller(p) == status = "up" /\ proc[p] = "up" /\ known[p] # NoId
Own(p) == apps[known[p]].live /\ apps[known[p]].pid = p
Call(p) == Caller(p) /\ strayed' = (strayed \/ ~Own(p))

(* Somebody is between the start of a program and its reservation. *)
Locked == \E q \in Pid : launcher[q] # NoPid /\ proc[launcher[q]] # "gone"

Appl_init(p) ==
  /\ status = "up" /\ proc[p] # "gone" /\ known[p] = NoId
  /\ Semaphore => ~Locked
  /\ srv_appl_init(p)

Appl_exit(p) ==
  /\ Call(p)
  /\ Exit(known[p])
  /\ UNCHANGED <<procs, status>>

(* wind_set() with WF_NEWDESK. *)
set_desktop_background(p, state) ==
  LET i == known[p]
      info == [apps EXCEPT ![i].deskbg = state]
  IN  /\ Call(p) /\ apps[i].live
      /\ apps' = info
      /\ deskowner' = update_desktop_owner(ap_pri, info)
      /\ mail' = IF i \in {get_deskbg_owner(ap_pri, apps), get_deskbg_owner(ap_pri, info)}
                 THEN update_desktop_background(mail, ap_pri, info) ELSE mail
      /\ UNCHANGED <<ap_pri, ap_resvd, next_ap, menus, bar, procs, status>>

(* menu_bar() with MENU_INSTALL and MENU_REMOVE. *)
srv_menu_bar(p, state) ==
  LET i == known[p]
      info == IF apps[i].live THEN [apps EXCEPT ![i].menu = state] ELSE apps
  IN  /\ Call(p)
      /\ apps' = info
      /\ mail' = IF state /\ get_top_menu_owner(ap_pri, info) # i THEN mail
                 ELSE redraw_menu_bar(mail, ap_pri, info)
      /\ UNCHANGED <<ap_pri, ap_resvd, next_ap, menus, wins, procs, status>>

srv_menu_register(p, t) ==
  /\ Call(p) /\ In(known[p], ap_pri)
  /\ Registered(apps, known[p], t)
  /\ UNCHANGED <<ap_pri, ap_resvd, next_ap, mail, wins, procs, status>>

(* top_appl() counts the desktops only after the application it looks for. *)
PassedAfter(i) == \E k \in DOMAIN ap_pri :
  /\ apps[ap_pri[k]].deskbg
  /\ \E n \in 1 .. (k - 1) : ap_pri[n] = i

(* top_appl(): the desktop changes hands when the application has one and
   another that has one was before it. *)
Passed(i) == \E k \in DOMAIN ap_pri :
  /\ apps[ap_pri[k]].deskbg
  /\ \A n \in 1 .. k : ap_pri[n] # i

top_appl(i) ==
  LET list == IF In(i, ap_pri) THEN <<i>> \o Without(ap_pri, i) ELSE ap_pri
      desk == In(i, ap_pri) /\ apps[i].deskbg /\ Passed(i)
      box == IF desk THEN update_desktop_background(mail, list, apps) ELSE mail
  IN  /\ ap_pri # <<>>
      /\ ap_pri' = list
      /\ IF Head(ap_pri) = i THEN UNCHANGED <<mail, deskowner>>
         ELSE /\ mail' = redraw_menu_bar(box, list, apps)
              /\ deskowner' = IF desk THEN update_desktop_owner(list, apps)
                              ELSE deskowner
      /\ UNCHANGED <<ap_resvd, apps, next_ap, menus, bar>>

(* appl_control() with APC_TOP, APC_TOPNEXT and APC_KILL.  Nothing sets
   newmsg, so a kill never asks with AP_TERM first.  The end of a process
   is seen by the server later, at its connection. *)
Top(p, i) ==
  /\ Call(p)
  /\ top_appl(i)
  /\ UNCHANGED <<procs, status>>

TopNext(p) ==
  /\ Call(p)
  /\ top_appl(Last(ap_pri))
  /\ UNCHANGED <<procs, status>>

Pkill(i) ==
  LET p == apps[i].pid
  IN  /\ proc' = [proc EXCEPT ![p] = "gone"]
      /\ lost' = lost \union
           (IF proc[p] = "up" /\ known[p] # NoId THEN {p} ELSE {})
      /\ UNCHANGED <<known, launcher>>

Kill(p, i) ==
  /\ Call(p) /\ apps[i].live
  /\ Pkill(i)
  /\ Exit(i)
  /\ UNCHANGED status

(* appl_write() to id i, and reading one's messages (srv_event.c). *)
Appl_write(p, i) ==
  /\ Call(p)
  /\ mail' = Deliver(mail, i, ap_pri, apps)
  /\ UNCHANGED <<lists, menus, wins, procs, status>>

ReadMessage(p) ==
  /\ Call(p) /\ mail[known[p]] > 0
  /\ mail' = [mail EXCEPT ![known[p]] = @ - 1]
  /\ UNCHANGED <<lists, menus, wins, procs, status>>

-----------------------------------------------------------------------------
(***************************************************************************)
(* Processes.  A process starts outside the model, and is "new" until its  *)
(* appl_init(), or is forked by shel_write(), which then reserves an id    *)
(* for it; under MiNT its appl_init() waits for that.                      *)
(***************************************************************************)
Shel_write(p, child) ==
  /\ Caller(p) /\ proc[child] = "new"
  /\ Semaphore => ~Locked
  /\ \A q \in Pid : launcher[q] # p
  /\ proc' = [proc EXCEPT ![child] = "up"]
  /\ launcher' = [launcher EXCEPT ![child] = p]
  /\ UNCHANGED <<lists, menus, mail, wins, known, lost, status, strayed>>

Appl_reserve(child, type) ==
  /\ status = "up" /\ launcher[child] # NoPid /\ proc[launcher[child]] = "up"
  /\ launcher' = [launcher EXCEPT ![child] = NoPid]
  /\ srv_appl_reserve(child, type)
  /\ UNCHANGED <<proc, known, lost>>

ProcessEnds(p) ==
  /\ proc[p] = "up"
  /\ proc' = [proc EXCEPT ![p] = "gone"]
  /\ lost' = IF known[p] # NoId THEN lost \union {p} ELSE lost
  /\ UNCHANGED <<lists, menus, mail, wins, known, launcher, status, strayed>>

(* SRV_CONN_LOST: the first application on that connection has gone. *)
ConnLost(p) ==
  /\ status = "up" /\ p \in lost
  /\ lost' = lost \ {p}
  /\ LET i == FirstWith(ap_pri, [j \in Id |-> apps[j].handle = p], NoId)
     IN  IF i # NoId THEN Exit(i)
         ELSE UNCHANGED <<lists, menus, mail, wins>>
  /\ UNCHANGED <<proc, known, launcher, status, strayed>>

(* Srv_stop(), and a round of the loop of Srv_exit_module(). *)
Srv_stop ==
  /\ status = "up"
  /\ status' = "closing"
  /\ UNCHANGED <<lists, menus, mail, wins, procs, strayed>>

Srv_exit_module ==
  /\ status = "closing"
  /\ IF ap_pri = <<>>
     THEN status' = "down" /\ UNCHANGED <<lists, menus, mail, wins, procs>>
     ELSE Pkill(Head(ap_pri)) /\ Exit(Head(ap_pri)) /\ UNCHANGED status
  /\ UNCHANGED strayed

Next ==
  \/ \E p \in Pid :
       \/ Appl_init(p) \/ Appl_exit(p) \/ TopNext(p)
       \/ ReadMessage(p) \/ ProcessEnds(p) \/ ConnLost(p)
       \/ \E child \in Pid : Shel_write(p, child)
       \/ \E type \in {"application", "accessory"} : Appl_reserve(p, type)
       \/ \E state \in BOOLEAN : set_desktop_background(p, state) \/ srv_menu_bar(p, state)
       \/ \E t \in Title : srv_menu_register(p, t)
       \/ \E i \in Id : Top(p, i) \/ Kill(p, i) \/ Appl_write(p, i)
  \/ Srv_stop \/ Srv_exit_module

Spec == Init /\ [][Next]_vars

-----------------------------------------------------------------------------
Distinct(list) == \A k, n \in DOMAIN list : list[k] = list[n] => k = n

(* An id that is in use has one entry, in the list of applications or among
   the reserved ones, and an id that is not has none: srv_info_alloc(),
   srv_appl_init() and apinfofree() keep apps[] and the two lists together. *)
EntriesAreTheIds ==
  /\ Distinct(ap_pri) /\ Distinct(ap_resvd)
  /\ \A i \in Id : ~(In(i, ap_pri) /\ In(i, ap_resvd))
  /\ \A i \in Id : apps[i].live <=> In(i, ap_pri) \/ In(i, ap_resvd)

Sorted(list) == \A k, n \in DOMAIN list : k < n => apps[list[k]].name <= apps[list[n]].name

(* The menu bar lists every application once, only those that are there,
   accessories apart, and in alphabetical order: unregister_menu() at every
   exit, srv_menu_register() again and again. *)
MenusListTheLiving ==
  /\ Distinct(applmenu) /\ Distinct(accmenu)
  /\ \A i \in Id : In(i, applmenu) <=> In(i, ap_pri) /\ apps[i].type = "application"
  /\ \A i \in Id : In(i, accmenu) => In(i, ap_pri) /\ apps[i].type = "accessory"
  /\ Sorted(applmenu) /\ Sorted(accmenu)

(* A program gets the id that was reserved for it: with the semaphore around
   the start and the reservation (shel.c) no process ends up with two. *)
OneIdPerProcess ==
  Semaphore =>
    \A i, j \in Id : apps[i].live /\ apps[j].live /\ apps[i].pid = apps[j].pid => i = j

(* Three tables say which applications there are - the two lists and apps[],
   the menu bar's, and the ids that processes know of - and after every call
   they say the same. *)
TablesAgree == EntriesAreTheIds /\ MenusListTheLiving /\ OneIdPerProcess

(* The desktop window belongs to the first application that has a desktop
   background, or to application 0, as long as the window is there and no
   process uses another's id: only some steps update the owner. *)
DesktopHasItsOwner ==
  deskowner # NoId /\ ~strayed => deskowner = get_desktop_owner_id(ap_pri, apps)

Told(i) == apps'[i].live => mail'[i] = MaxMail \/ mail'[i] > mail[i]

(* Who comes into the menu bar or the desktop is sent a redraw message in
   the same step, unless its buffer is full: redraw_menu_bar() and
   update_desktop_background() are called in the right places, with the list
   as it is then. *)
NewOwnersHear ==
  ~strayed' =>
     LET owner == get_top_menu_owner(ap_pri', apps')
     IN  /\ deskowner' \notin {deskowner, NoId} => Told(deskowner')
         /\ bar /\ owner \notin {get_top_menu_owner(ap_pri, apps), NoId} => Told(owner)

OwnersAreTold == [][NewOwnersHear]_vars

(* The loop of Srv_exit_module() ends: what it changes is the list getting
   shorter, as every round frees the entry it takes the application from. *)
RoundShortens ==
  status = "closing" /\ <<lists, status>>' # <<lists, status>>
    => status' = "down" \/ Len(ap_pri') < Len(ap_pri)

ShutdownAdvances == [][RoundShortens]_vars

=============================================================================
