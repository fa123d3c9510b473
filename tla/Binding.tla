------------------------------ MODULE Binding ------------------------------
(***************************************************************************)
(* How a program's call reaches a routine of the library: the binding      *)
(* (aesbind.c) stores the arguments in the words of one static parameter   *)
(* block, aes_call() (docalls.c) looks the routine up by its number, the   *)
(* routine (<family>.c) takes its arguments from the words by position and *)
(* leaves its results there, and the binding hands them to the program.    *)
(* Nothing clears the block: a word that a call does not write still holds *)
(* what an earlier call left.                                              *)
(*                                                                         *)
(* A value is a pair of the number of the call and the name of the         *)
(* argument or result.  Both sides are tables of names, in the order of    *)
(* the words.                                                              *)
(***************************************************************************)
EXTENDS Integers, Sequences, TLC

CONSTANTS
  Avoided,   \* the calls the program does not make, names of bindings
  MaxCalls   \* bound on the calls of a behaviour

VARIABLES intin, addrin, intout,  \* the words of the static block
          calls,                  \* how many calls were made
          taken,                  \* argument |-> what the routine took for it
          answer                  \* result |-> what the program got for it
vars == <<intin, addrin, intout, calls, taken, answer>>

Stale == <<0, "zero">>
-----------------------------------------------------------------------------
(* The bindings: number, the names stored from int_in[0] and addr_in[0],   *)
(* and the names returned from int_out[1].  int_out[0] is always returned. *)

Bind(op, ints, addrs, outs) == [op |-> op, in |-> ints, addr |-> addrs, out |-> outs]
Box(p)  == <<p \o "x", p \o "y", p \o "w", p \o "h">>
Pointer == <<"mx", "my", "mb", "ks">>

appl == [
  appl_exit   |-> Bind(19, <<>>, <<>>, <<>>),
  appl_find   |-> Bind(13, <<>>, <<"fname">>, <<>>),
  appl_init   |-> Bind(10, <<>>, <<>>, <<>>),
  appl_write  |-> Bind(12, <<"ap_id", "length">>, <<"msg">>, <<>>)]

\* evnt_dclick() stores both its arguments in int_in[0].
evnt == [
  evnt_button |-> Bind(21, <<"clicks", "mask", "state">>, <<>>, Pointer),
  evnt_dclick |-> Bind(26, <<"flag">>, <<>>, <<>>),
  evnt_keybd  |-> Bind(20, <<>>, <<>>, <<>>),
  evnt_mesag  |-> Bind(23, <<>>, <<"msg">>, <<>>),
  evnt_multi  |-> Bind(25, <<"events", "clicks", "mask", "state", "m1">> \o Box("m1")
                             \o <<"m2">> \o Box("m2") \o <<"lo", "hi">>,
                       <<"msg">>, Pointer \o <<"key", "mc">>)]

\* form_button() stores both the object and the clicks in int_in[0].
form == [
  evnt_timer  |-> Bind(24, <<"lo", "hi">>, <<>>, <<>>),
  form_alert  |-> Bind(52, <<"button">>, <<"string">>, <<>>),
  form_button |-> Bind(56, <<"clicks">>, <<"tree">>, <<"nxtobj">>),
  form_center |-> Bind(54, <<>>, <<"tree">>, Box("c")),
  form_dial   |-> Bind(51, <<"flag">> \o Box("s") \o Box("b"), <<>>, <<>>),
  form_do     |-> Bind(50, <<"startobj">>, <<"tree">>, <<>>),
  form_error  |-> Bind(53, <<"code">>, <<>>, <<>>)]

\* graf_growbox() stores the height of its rectangles before the width.
graf == [
  fsel_exinput |-> Bind(91, <<>>, <<"path", "file", "prompt">>, <<"button">>),
  fsel_input   |-> Bind(90, <<>>, <<"path", "file">>, <<"button">>),
  graf_dragbox |-> Bind(71, <<"w", "h", "sx", "sy">> \o Box("b"), <<>>, <<"endx", "endy">>),
  graf_growbox |-> Bind(73, <<"1x", "1y", "1h", "1w">> \o Box("2"), <<>>, <<>>),
  graf_handle  |-> Bind(77, <<>>, <<>>, <<"wchar", "hchar", "wbox", "hbox">>),
  graf_mkstate |-> Bind(79, <<>>, <<>>, Pointer)]

\* So does graf_shrinkbox().
graf2 == [
  graf_mouse     |-> Bind(78, <<"form">>, <<"address">>, <<>>),
  graf_movebox   |-> Bind(72, <<"bw", "bh", "sx", "sy", "ex", "ey">>, <<>>, <<>>),
  graf_rubberbox |-> Bind(70, <<"bx", "by", "minw", "minh">>, <<>>, <<"endw", "endh">>),
  graf_shrinkbox |-> Bind(74, <<"1x", "1y", "1h", "1w">> \o Box("2"), <<>>, <<>>),
  graf_slidebox  |-> Bind(76, <<"parent", "obj", "orient">>, <<"tree">>, <<>>)]

menu == [
  menu_bar      |-> Bind(30, <<"mode">>, <<"tree">>, <<>>),
  menu_icheck   |-> Bind(31, <<"obj", "flag">>, <<"tree">>, <<>>),
  menu_ienable  |-> Bind(32, <<"obj", "flag">>, <<"tree">>, <<>>),
  menu_register |-> Bind(35, <<"ap_id">>, <<"title">>, <<>>),
  menu_text     |-> Bind(34, <<"obj">>, <<"tree", "text">>, <<>>),
  menu_tnormal  |-> Bind(33, <<"obj", "flag">>, <<"tree">>, <<>>)]

objc == [
  objc_add    |-> Bind(40, <<"parent", "child">>, <<"tree">>, <<>>),
  objc_change |-> Bind(47, <<"obj", "rsvd">> \o Box("o") \o <<"newstate", "draw">>,
                       <<"tree">>, <<>>),
  objc_delete |-> Bind(41, <<"obj">>, <<"tree">>, <<>>),
  objc_draw   |-> Bind(42, <<"start", "depth">> \o Box("c"), <<"tree">>, <<>>),
  objc_find   |-> Bind(43, <<"obj", "depth", "ox", "oy">>, <<"tree">>, <<>>)]

rsrc == [
  objc_offset |-> Bind(44, <<"obj">>, <<"tree">>, <<"ox", "oy">>),
  objc_order  |-> Bind(45, <<"obj", "pos">>, <<"tree">>, <<>>),
  rsrc_free   |-> Bind(111, <<>>, <<>>, <<>>),
  rsrc_gaddr  |-> Bind(112, <<"type", "index">>, <<>>, <<>>),
  rsrc_load   |-> Bind(110, <<>>, <<"fname">>, <<>>),
  rsrc_obfix  |-> Bind(114, <<"obj">>, <<"tree">>, <<>>),
  rsrc_rcfix  |-> Bind(115, <<>>, <<"rc_header">>, <<>>)]

shel == [
  scrp_read  |-> Bind(80, <<>>, <<"cpath">>, <<>>),
  scrp_write |-> Bind(81, <<>>, <<"cpath">>, <<>>),
  shel_envrn |-> Bind(125, <<>>, <<"value", "name">>, <<>>),
  shel_find  |-> Bind(124, <<>>, <<"buf">>, <<>>),
  shel_get   |-> Bind(122, <<"length">>, <<"buf">>, <<>>),
  shel_put   |-> Bind(123, <<"length">>, <<"buf">>, <<>>),
  shel_read  |-> Bind(120, <<>>, <<"name", "tail">>, <<>>),
  shel_write |-> Bind(121, <<"mode", "wisgr", "wiscr">>, <<"cmd", "tail">>, <<>>)]

wind == [
  wind_calc   |-> Bind(108, <<"request", "kind">> \o Box("1"), <<>>, Box("2")),
  wind_close  |-> Bind(102, <<"handle">>, <<>>, <<>>),
  wind_create |-> Bind(100, <<"parts">> \o Box("w"), <<>>, <<>>),
  wind_delete |-> Bind(103, <<"handle">>, <<>>, <<>>),
  wind_find   |-> Bind(106, <<"x", "y">>, <<>>, <<>>),
  wind_get    |-> Bind(104, <<"handle", "what">>, <<>>, <<"w1", "w2", "w3", "w4">>)]

wind2 == [
  wind_open   |-> Bind(101, <<"handle">> \o Box("w"), <<>>, <<>>),
  wind_set    |-> Bind(105, <<"handle", "what", "w1", "w2", "w3", "w4">>, <<>>, <<>>),
  wind_update |-> Bind(107, <<"code">>, <<>>, <<>>)]

Bindings == appl @@ evnt @@ form @@ graf @@ graf2 @@ menu @@ objc @@ rsrc @@ shel
            @@ wind @@ wind2
-----------------------------------------------------------------------------
(* The routines: the names taken from int_in[0] and addr_in[0], the names  *)
(* left from int_out[1], and whether int_out[0] is written at all.         *)

Takes(ints, addrs, outs, writes0) ==
  [in |-> ints, addr |-> addrs, out |-> outs, writes0 |-> writes0]

Appl_init      == Takes(<<>>, <<>>, <<>>, TRUE)
Appl_write     == Takes(<<"ap_id", "length">>, <<"msg">>, <<>>, TRUE)
Appl_find      == Takes(<<>>, <<"fname">>, <<>>, TRUE)
Appl_exit      == Takes(<<>>, <<>>, <<>>, TRUE)
Evnt_keybd     == Takes(<<>>, <<>>, <<>>, TRUE)
Evnt_button    == Takes(<<"clicks", "mask", "state">>, <<>>, Pointer, TRUE)
Evnt_mesag     == Takes(<<>>, <<"msg">>, <<>>, TRUE)
Evnt_timer     == Takes(<<"lo", "hi">>, <<>>, <<>>, FALSE)
EVENTIN        == <<"events", "clicks", "mask", "state", "m1">> \o Box("m1") \o <<"m2">>
                  \o Box("m2") \o <<"lo", "hi">>
EVENTOUT       == Pointer \o <<"key", "mc">>
Evnt_multi     == Takes(EVENTIN, <<"msg">>, EVENTOUT, TRUE)
Evnt_dclick    == Takes(<<"new", "flag">>, <<>>, <<>>, TRUE)
Menu_bar       == Takes(<<"mode">>, <<"tree">>, <<>>, TRUE)
MenuIcheckSilent == Takes(<<"obj", "flag">>, <<"tree">>, <<>>, FALSE)
Menu_icheck    == Takes(<<"obj", "flag">>, <<"tree">>, <<>>, TRUE)
Menu_ienable   == Takes(<<"obj", "flag">>, <<"tree">>, <<>>, TRUE)
Menu_tnormal   == Takes(<<"obj", "flag">>, <<"tree">>, <<>>, TRUE)
Menu_text      == Takes(<<"obj">>, <<"tree", "text">>, <<>>, TRUE)
Menu_register  == Takes(<<"ap_id">>, <<"title">>, <<>>, TRUE)
Objc_add       == Takes(<<"parent", "child">>, <<"tree">>, <<>>, TRUE)
Objc_delete    == Takes(<<"obj">>, <<"tree">>, <<>>, TRUE)
Objc_draw      == Takes(<<"start", "depth">> \o Box("c"), <<"tree">>, <<>>, TRUE)
Objc_find      == Takes(<<"obj", "depth", "ox", "oy">>, <<"tree">>, <<>>, TRUE)
Objc_offset    == Takes(<<"obj">>, <<"tree">>, <<"ox", "oy">>, TRUE)
Objc_change    == Takes(<<"obj", "rsvd">> \o Box("o") \o <<"newstate", "draw">>,
                        <<"tree">>, <<>>, TRUE)
Form_do        == Takes(<<"startobj">>, <<"tree">>, <<>>, TRUE)
Form_dial      == Takes(<<"flag">> \o Box("s") \o Box("b"), <<>>, <<>>, TRUE)
Form_alert     == Takes(<<"button">>, <<"string">>, <<>>, TRUE)
Form_error     == Takes(<<"code">>, <<>>, <<>>, TRUE)
Form_center    == Takes(<<>>, <<"tree">>, Box("c"), FALSE)
Form_button    == Takes(<<"obj", "clicks">>, <<"tree">>, <<"nxtobj">>, TRUE)
Graf_rubberbox == Takes(<<"bx", "by", "minw", "minh">>, <<>>, <<"endw", "endh">>, TRUE)
Graf_dragbox   == Takes(<<"w", "h", "sx", "sy">> \o Box("b"), <<>>, <<"endx", "endy">>, TRUE)
Graf_movebox   == Takes(<<"bw", "bh", "sx", "sy", "ex", "ey">>, <<>>, <<>>, TRUE)
Graf_growbox   == Takes(Box("1") \o Box("2"), <<>>, <<>>, TRUE)
Graf_shrinkbox == Takes(Box("1") \o Box("2"), <<>>, <<>>, TRUE)
Graf_slidebox  == Takes(<<"parent", "obj", "orient">>, <<"tree">>, <<>>, TRUE)
Graf_handle    == Takes(<<>>, <<>>, <<"wchar", "hchar", "wbox", "hbox">>, TRUE)
Graf_mouse     == Takes(<<"form">>, <<"address">>, <<>>, TRUE)
Graf_mkstate   == Takes(<<>>, <<>>, Pointer, TRUE)
Scrp_read      == Takes(<<>>, <<"cpath">>, <<>>, TRUE)
Scrp_write     == Takes(<<>>, <<"cpath">>, <<>>, TRUE)
Fsel_input     == Takes(<<>>, <<"path", "file">>, <<"button">>, TRUE)
Fsel_exinput   == Takes(<<>>, <<"path", "file", "prompt">>, <<"button">>, TRUE)
Wind_create    == Takes(<<"parts">> \o Box("w"), <<>>, <<>>, TRUE)
WindOpenHeightFirst == Takes(<<"handle", "wx", "wy", "wh", "ww">>, <<>>, <<>>, TRUE)
Wind_open      == Takes(<<"handle">> \o Box("w"), <<>>, <<>>, TRUE)
Wind_close     == Takes(<<"handle">>, <<>>, <<>>, TRUE)
Wind_delete    == Takes(<<"handle">>, <<>>, <<>>, TRUE)
Wind_get       == Takes(<<"handle", "what">>, <<>>, <<"w1", "w2", "w3", "w4">>, TRUE)
Wind_set       == Takes(<<"handle", "what", "w1", "w2", "w3", "w4">>, <<>>, <<>>, TRUE)
Wind_find      == Takes(<<"x", "y">>, <<>>, <<>>, TRUE)
Wind_update    == Takes(<<"code">>, <<>>, <<>>, TRUE)
Wind_calc      == Takes(<<"request", "kind">> \o Box("1"), <<>>, Box("2"), TRUE)
Rsrc_load      == Takes(<<>>, <<"fname">>, <<>>, TRUE)
Rsrc_free      == Takes(<<>>, <<>>, <<>>, FALSE)
Rsrc_gaddr     == Takes(<<"type", "index">>, <<>>, <<>>, TRUE)
Rsrc_obfix     == Takes(<<"obj">>, <<"tree">>, <<>>, TRUE)
Rsrc_rcfix     == Takes(<<>>, <<"rc_header">>, <<>>, TRUE)
Shel_read      == Takes(<<>>, <<"name", "tail">>, <<>>, TRUE)
Shel_write     == Takes(<<"mode", "wisgr", "wiscr">>, <<"cmd", "tail">>, <<>>, TRUE)
Shel_find      == Takes(<<>>, <<"buf">>, <<>>, TRUE)
Shel_envrn     == Takes(<<>>, <<"value", "name">>, <<>>, TRUE)

\* The table of routines by number (aescalls); NULL where there is none.
NULL == Takes(<<>>, <<>>, <<>>, FALSE)
aescalls1 ==
  10 :> Appl_init @@ 12 :> Appl_write @@ 13 :> Appl_find @@ 19 :> Appl_exit
  @@ 20 :> Evnt_keybd @@ 21 :> Evnt_button @@ 23 :> Evnt_mesag @@ 24 :> Evnt_timer
  @@ 25 :> Evnt_multi @@ 26 :> Evnt_dclick
aescalls2 ==
  30 :> Menu_bar @@ 31 :> Menu_icheck @@ 32 :> Menu_ienable @@ 33 :> Menu_tnormal
  @@ 34 :> Menu_text @@ 35 :> Menu_register @@ 40 :> Objc_add @@ 41 :> Objc_delete
  @@ 42 :> Objc_draw @@ 43 :> Objc_find @@ 44 :> Objc_offset @@ 45 :> NULL
  @@ 47 :> Objc_change @@ 50 :> Form_do @@ 51 :> Form_dial @@ 52 :> Form_alert
  @@ 53 :> Form_error @@ 54 :> Form_center @@ 56 :> Form_button
aescalls3 ==
  70 :> Graf_rubberbox @@ 71 :> Graf_dragbox @@ 72 :> Graf_movebox @@ 73 :> Graf_growbox
  @@ 74 :> Graf_shrinkbox @@ 76 :> Graf_slidebox @@ 77 :> Graf_handle @@ 78 :> Graf_mouse
  @@ 79 :> Graf_mkstate @@ 80 :> Scrp_read @@ 81 :> Scrp_write @@ 90 :> Fsel_input
  @@ 91 :> Fsel_exinput
aescalls4 ==
  100 :> Wind_create @@ 101 :> Wind_open @@ 102 :> Wind_close @@ 103 :> Wind_delete
  @@ 104 :> Wind_get @@ 105 :> Wind_set @@ 106 :> Wind_find @@ 107 :> Wind_update
  @@ 108 :> Wind_calc @@ 110 :> Rsrc_load @@ 111 :> Rsrc_free @@ 112 :> Rsrc_gaddr
  @@ 114 :> Rsrc_obfix @@ 115 :> Rsrc_rcfix @@ 120 :> Shel_read @@ 121 :> Shel_write
  @@ 122 :> NULL @@ 123 :> NULL @@ 124 :> Shel_find @@ 125 :> Shel_envrn
aescalls == aescalls1 @@ aescalls2 @@ aescalls3 @@ aescalls4
-----------------------------------------------------------------------------
Init ==
  /\ intin = [i \in 0..15 |-> Stale] /\ addrin = [i \in 0..2 |-> Stale]
  /\ intout = [i \in 0..6 |-> Stale]
  /\ calls = 0 /\ taken = <<>> /\ answer = <<>>

\* The words after the names of s were stored from word first on, in call n.
Store(words, first, s, n) ==
  [i \in DOMAIN words |-> IF i - first \in 0..(Len(s) - 1) THEN <<n, s[i - first + 1]>>
                          ELSE words[i]]

\* What is found under each of the names of s, from word first on.
Load(words, first, s) ==
  [p \in {s[i] : i \in DOMAIN s} |-> words[first - 1 + (CHOOSE i \in DOMAIN s : s[i] = p)]]

\* aes_call(): an unknown or unimplemented number changes nothing.
aes_call(routine, words, n) ==
  LET outs == Store(words, 1, routine.out, n)
  IN  IF routine.writes0 THEN [outs EXCEPT ![0] = <<n, "result">>] ELSE outs

\* One call of binding b: the static block keeps whatever is not stored.
Make(b) ==
  /\ calls < MaxCalls /\ calls' = calls + 1
  /\ intin'  = Store(intin, 0, b.in, calls')
  /\ addrin' = Store(addrin, 0, b.addr, calls')
  /\ LET routine == aescalls[b.op]
     IN  /\ taken'  = Load(intin', 0, routine.in) @@ Load(addrin', 0, routine.addr)
         /\ intout' = aes_call(routine, intout, calls')
  /\ answer' = Load(intout', 0, <<"result">> \o b.out)

Next == \E c \in DOMAIN Bindings \ Avoided : Make(Bindings[c])

Spec == Init /\ [][Next]_vars
-----------------------------------------------------------------------------
\* A routine takes, for each of its arguments, what the program passed for
\* it in this very call: aesbind.c and the routine agree on the place of it.
ArgumentsArrive == \A p \in DOMAIN taken : taken[p] = <<calls, p>>

\* What the program gets back was left by the routine in this very call, not
\* by an earlier one: there is a routine, and it writes all that is returned.
ResultIsFresh == \A p \in DOMAIN answer : answer[p] = <<calls, p>>
=============================================================================
