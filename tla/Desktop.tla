------------------------------ MODULE Desktop ------------------------------
(***************************************************************************)
(* The plugins that show something a server of the desktop holds: xtitle   *)
(* (the X server: the active window and its title), xkb (the X server: the *)
(* group of the keyboard and its name), pulse (the default sink and its    *)
(* volume) and alsa (the volume of a channel).                             *)
(*                                                                         *)
(* What is shown is a pair: the current item (window, group, sink) and the *)
(* value (title, name, volume) it has.  The server changes both, and tells *)
(* the plugin of a change by an event if it is subscribed.  The plugin     *)
(* reads the server's state in separate requests.                          *)
(***************************************************************************)
EXTENDS Integers, Sequences

CONSTANTS DtItems,      \* windows, sinks or groups
          DtMaxChanges, \* bound: the changes on the server
          DtMaxFailures \* bound: how often a connection fails

\* A server has an item to show from the start.
ASSUME DtAssumption ==
  /\ DtItems \subseteq Nat \ {0} /\ DtItems # {}
  /\ DtMaxChanges \in Nat /\ DtMaxFailures \in Nat

VARIABLES
  dtOpt, \* the plugin and the options of the widget
  dt,    \* the plugin's thread: pc, item (win, sink_idx, group), last (last_win), names
         \* (what it knows of values), timeout (is_timeout), told (the last pair)
  dtSrv  \* the server: cur and val, prop (_XKB_RULES_NAMES), watched, chan (events and
         \* answers to the plugin), req (to the server), pipe, changes, failures, missed
         \* (a change before the plugin was subscribed)

dtvars == <<dtOpt, dt, dtSrv>>

\* What init() leaves, of what the properties tell apart.
DtOption(plugin, somehow, self_pipe, timeout) ==
  [plugin : {plugin}, somehow : somehow, self_pipe : self_pipe, timeout : timeout]

XtitleOptions == DtOption("xtitle", {FALSE}, {FALSE}, {FALSE})
XkbOptions    == DtOption("xkb", BOOLEAN, {FALSE}, {FALSE})
PulseOptions  == DtOption("pulse", {FALSE}, BOOLEAN, {FALSE})
AlsaOptions   == DtOption("alsa", {FALSE}, BOOLEAN, BOOLEAN)
DtOptions == XtitleOptions \cup XkbOptions \cup PulseOptions \cup AlsaOptions

Cur == -1 \* what an event is about: that the current item changed, or the item itself
Unset == [i \in DtItems |-> 0]
NoPair == [item |-> 0, val |-> 0]

DtStart(pc) ==
  /\ dt = [pc |-> pc, item |-> 0, last |-> 0, names |-> Unset, timeout |-> FALSE,
           told |-> NoPair]
  /\ dtSrv = [cur |-> CHOOSE i \in DtItems : TRUE, val |-> [i \in DtItems |-> 1],
              prop |-> [i \in DtItems |-> 1], watched |-> {}, chan |-> <<>>, req |-> <<>>,
              pipe |-> 0, changes |-> 0, failures |-> 0, missed |-> FALSE]

DtInit == dtOpt \in DtOptions /\ DtStart("start")
DtOff == dtOpt = [plugin |-> "none"] /\ DtStart("returned")

DtIs(plugin, pc) == dtOpt.plugin = plugin /\ dt.pc = pc
Connected == dt.pc \notin {"start", "sleep", "returned"}
-----------------------------------------------------------------------------
(* The server.                                                             *)

\* A change of the current item or of a value, which the subscribed are told of.
Changed(s, what, item) ==
  [s EXCEPT !.changes = @ + 1,
            !.missed = @ \/ (Connected /\ Cur \notin dtSrv.watched),
            !.chan = IF what \in dtSrv.watched THEN Append(@, [type |-> "event", what |-> what,
                                                              item |-> item, val |-> 0])
                     ELSE @]

\* No window is active when the window manager has removed the property.
Select(item) ==
  /\ dt.pc # "returned" /\ dtSrv.changes < DtMaxChanges /\ item # dtSrv.cur
  /\ dtOpt.plugin # "alsa" /\ (item = 0 => dtOpt.plugin = "xtitle")
  /\ dtSrv' = Changed([dtSrv EXCEPT !.cur = item], Cur, item)
  /\ UNCHANGED <<dtOpt, dt>>

ChangeValue(item) ==
  /\ dt.pc # "returned" /\ dtSrv.changes < DtMaxChanges
  /\ dtSrv' = Changed([dtSrv EXCEPT !.val[item] = @ + 1], item, item)
  /\ UNCHANGED <<dtOpt, dt>>

\* setxkbmap sets the property after the keymap; no event tells of it.
SetNames ==
  /\ dtOpt.plugin = "xkb" /\ dtSrv.prop # dtSrv.val
  /\ dtSrv' = [dtSrv EXCEPT !.prop = dtSrv.val]
  /\ UNCHANGED <<dtOpt, dt>>

\* PulseAudio answers the requests in their order.
PulseServer ==
  /\ dtSrv.req # <<>>
  /\ LET r == Head(dtSrv.req)
         i == IF r.what = "by_name" THEN dtSrv.cur ELSE r.item
     IN dtSrv' = [dtSrv EXCEPT
          !.req = Tail(@),
          !.watched = IF r.what = "subscribe" THEN DtItems \cup {Cur} ELSE @,
          !.chan = IF r.what = "subscribe" THEN @
                   ELSE Append(@, [type |-> "answer", what |-> r.what, item |-> i,
                                   val |-> dtSrv.val[i]])]
  /\ UNCHANGED <<dtOpt, dt>>

\* wake_up()
DtWakeUp ==
  /\ dtOpt.plugin # "none" /\ dtOpt.self_pipe /\ dtSrv.pipe = 0
  /\ dtSrv' = [dtSrv EXCEPT !.pipe = 1]
  /\ UNCHANGED <<dtOpt, dt>>
-----------------------------------------------------------------------------
(* Connecting.                                                             *)

DtGoto(pc) == dt' = [dt EXCEPT !.pc = pc] /\ UNCHANGED <<dtOpt, dtSrv>>
Fresh(pc) == [dt EXCEPT !.pc = pc, !.item = 0, !.last = 0, !.names = Unset, !.timeout = FALSE]
Request(s, what, item) == [s EXCEPT !.req = Append(@, [what |-> what, item |-> item])]

\* xkb subscribes before it reads, xtitle and pulse after; snd_mixer_load() does both.
ConnectXtitle ==
  /\ DtIs("xtitle", "start")
  /\ dt' = Fresh("initial")
  /\ UNCHANGED <<dtOpt, dtSrv>>

ConnectXkb ==
  /\ DtIs("xkb", "start")
  /\ dt' = Fresh("query")
  /\ dtSrv' = [dtSrv EXCEPT !.watched = DtItems \cup {Cur}]
  /\ UNCHANGED dtOpt

ConnectPulse ==
  /\ DtIs("pulse", "start")
  /\ dt' = Fresh("wait")
  /\ dtSrv' = Request(Request(dtSrv, "by_name", 0), "subscribe", 0)
  /\ UNCHANGED dtOpt

ConnectAlsa ==
  /\ DtIs("alsa", "start")
  /\ dt' = [Fresh("call") EXCEPT !.item = dtSrv.cur, !.names = dtSrv.val]
  /\ dtSrv' = [dtSrv EXCEPT !.watched = DtItems \cup {Cur}]
  /\ UNCHANGED dtOpt

\* run() of xtitle and xkb returns, when they cannot connect and when they lose the server;
Disconnected ==
  /\ dtSrv.failures < DtMaxFailures
  /\ dtSrv' = [dtSrv EXCEPT !.failures = @ + 1, !.watched = {}, !.chan = <<>>, !.req = <<>>,
                            !.missed = FALSE]
  /\ UNCHANGED dtOpt

XFails ==
  /\ dtOpt.plugin \in {"xtitle", "xkb"} /\ dt.pc # "returned"
  /\ dt' = [dt EXCEPT !.pc = "returned"]
  /\ Disconnected

\* an iteration() of pulse or alsa fails before it has connected, and run() sleeps for five
\* seconds, or ends later, and run() begins the next one at once.
IterationEnds ==
  /\ dtOpt.plugin \in {"pulse", "alsa"} /\ dt.pc # "sleep"
  /\ dt' = [dt EXCEPT !.pc = IF dt.pc = "start" THEN "sleep" ELSE "start"]
  /\ Disconnected

Sleep == dt.pc = "sleep" /\ DtGoto("start")
-----------------------------------------------------------------------------
(* xtitle                                                                  *)

\* get_active_window(), which fails if the property is not there.
InitialWindow ==
  /\ DtIs("xtitle", "initial")
  /\ dt' = [dt EXCEPT !.item = dtSrv.cur, !.pc = IF dtSrv.cur = 0 THEN "watch" ELSE "title"]
  /\ UNCHANGED <<dtOpt, dtSrv>>

Watch ==
  /\ DtIs("xtitle", "watch")
  /\ dtSrv' = [dtSrv EXCEPT !.watched = (@ \cup {Cur, dt.item}) \ {0}]
  /\ dt' = [dt EXCEPT !.pc = IF Cur \in dtSrv.watched THEN "title" ELSE "wait"]
  /\ UNCHANGED dtOpt

\* push_arg()
TitleCall ==
  /\ DtIs("xtitle", "title")
  /\ dt' = [dt EXCEPT !.pc = IF Cur \in dtSrv.watched THEN "wait" ELSE "watch",
                      !.told = IF dt.item = 0 THEN NoPair
                               ELSE [item |-> dt.item, val |-> dtSrv.val[dt.item]]]
  /\ UNCHANGED <<dtOpt, dtSrv>>

\* Mutant: the new active window is not watched.
TitleChangedNoWatch ==
  /\ DtIs("xtitle", "wait") /\ dtSrv.chan # <<>>
  /\ LET e == Head(dtSrv.chan) IN
       /\ dt' = CASE e.what = Cur -> [dt EXCEPT !.item = dtSrv.cur, !.last = dtSrv.cur,
                                                  !.pc = "title"]
                  [] e.what = dt.item -> [dt EXCEPT !.pc = "title"]
                  [] OTHER -> dt
       /\ dtSrv' = [dtSrv EXCEPT !.chan = Tail(@), !.watched = IF e.what = Cur
                                                               THEN @ \ {dt.last} ELSE @]
  /\ UNCHANGED dtOpt

\* title_changed(): the window watched first is never unwatched, as last_win is not set.
TitleChanged ==
  /\ DtIs("xtitle", "wait") /\ dtSrv.chan # <<>>
  /\ LET e == Head(dtSrv.chan) IN
       /\ dt' = CASE e.what = Cur -> [dt EXCEPT !.item = dtSrv.cur, !.last = dtSrv.cur,
                                                  !.pc = "watch"]
                  [] e.what = dt.item -> [dt EXCEPT !.pc = "title"]
                  [] OTHER -> dt
       /\ dtSrv' = [dtSrv EXCEPT !.chan = Tail(@), !.watched = IF e.what = Cur
                                                               THEN @ \ {dt.last} ELSE @]
  /\ UNCHANGED dtOpt
-----------------------------------------------------------------------------
(* pulse                                                                   *)

\* subscribe_cb(), store_sink_cb() and store_volume_from_sink_cb()
PulseReceive ==
  /\ DtIs("pulse", "wait") /\ dtSrv.chan # <<>>
  /\ LET m == Head(dtSrv.chan)
         rest == [dtSrv EXCEPT !.chan = Tail(@)]
         tells == m.type = "answer" /\ (m.what = "by_name" <=> m.item # dt.item)
     IN /\ dtSrv' = IF m.type = "answer" THEN rest
                    ELSE Request(rest, IF m.what = Cur THEN "by_name" ELSE "by_index", m.item)
        /\ dt' = IF tells THEN [dt EXCEPT !.item = m.item,
                                          !.told = [item |-> m.item, val |-> m.val]]
                 ELSE dt
  /\ UNCHANGED dtOpt

\* self_pipe_cb() calls cb with nil.
PulseWoken ==
  /\ DtIs("pulse", "wait") /\ dtSrv.pipe > 0
  /\ dtSrv' = [dtSrv EXCEPT !.pipe = 0]
  /\ UNCHANGED <<dtOpt, dt>>
-----------------------------------------------------------------------------
(* alsa                                                                    *)

AlsaCall ==
  /\ DtIs("alsa", "call")
  /\ dt' = [dt EXCEPT !.pc = "wait",
                      !.told = IF dt.timeout THEN @
                               ELSE [item |-> dt.item, val |-> dt.names[dt.item]]]
  /\ UNCHANGED <<dtOpt, dtSrv>>

\* poll(): the pipe and the mixer are both served, and cb is called again.
AlsaWoken ==
  /\ DtIs("alsa", "wait") /\ (dtSrv.pipe > 0 \/ dtSrv.chan # <<>>)
  /\ dt' = [dt EXCEPT !.pc = "call", !.timeout = FALSE,
                      !.names = IF dtSrv.chan # <<>> THEN dtSrv.val ELSE @]
  /\ dtSrv' = [dtSrv EXCEPT !.pipe = 0, !.chan = <<>>]
  /\ UNCHANGED dtOpt

AlsaTimesOut ==
  /\ DtIs("alsa", "wait") /\ dtOpt.timeout /\ dtSrv.pipe = 0 /\ dtSrv.chan = <<>>
  /\ dt' = [dt EXCEPT !.pc = "call", !.timeout = TRUE]
  /\ UNCHANGED <<dtOpt, dtSrv>>
-----------------------------------------------------------------------------
(* xkb                                                                     *)

\* query_wrongly() reads the property of the root window, query_somehow() the keymap;
\* either may fail and then knows no names.  A second one follows that of the group.
QueryNames ==
  /\ dtOpt.plugin = "xkb" /\ dt.pc \in {"query", "again"}
  /\ \E names \in {Unset, IF dtOpt.somehow THEN dtSrv.val ELSE dtSrv.prop} :
       dt' = [dt EXCEPT !.names = names, !.pc = IF dt.pc = "query" THEN "state" ELSE "call"]
  /\ UNCHANGED <<dtOpt, dtSrv>>

\* XkbGetState(); a group without a name makes it query the names again.
QueryGroup ==
  /\ DtIs("xkb", "state")
  /\ dt' = [dt EXCEPT !.item = dtSrv.cur,
                      !.pc = IF dt.names[dtSrv.cur] = 0 THEN "again" ELSE "call"]
  /\ UNCHANGED <<dtOpt, dtSrv>>

KeyboardCall ==
  /\ DtIs("xkb", "call")
  /\ dt' = [dt EXCEPT !.pc = "wait", !.told = [item |-> dt.item, val |-> dt.names[dt.item]]]
  /\ UNCHANGED <<dtOpt, dtSrv>>

\* XNextEvent(): the group is that of the event, and a new keymap makes it query all.
KeyboardEvent ==
  /\ DtIs("xkb", "wait") /\ dtSrv.chan # <<>>
  /\ LET e == Head(dtSrv.chan) IN
       dt' = IF e.what = Cur THEN [dt EXCEPT !.item = e.item, !.pc = "call"]
             ELSE [dt EXCEPT !.pc = "query"]
  /\ dtSrv' = [dtSrv EXCEPT !.chan = Tail(@)]
  /\ UNCHANGED dtOpt

DtNext ==
  \/ \E i \in DtItems \cup {0} : Select(i)
  \/ \E i \in DtItems : ChangeValue(i)
  \/ SetNames \/ PulseServer \/ DtWakeUp
  \/ ConnectXtitle \/ ConnectXkb \/ ConnectPulse \/ ConnectAlsa
  \/ XFails \/ IterationEnds \/ Sleep
  \/ InitialWindow \/ Watch \/ TitleCall \/ TitleChanged
  \/ PulseReceive \/ PulseWoken \/ AlsaCall \/ AlsaWoken \/ AlsaTimesOut
  \/ QueryNames \/ QueryGroup \/ KeyboardCall \/ KeyboardEvent

DtSpec == DtInit /\ [][DtNext]_dtvars
-----------------------------------------------------------------------------
\* The plugin waits, and nothing is on its way to it or from it.
AtRest == dt.pc = "wait" /\ dtSrv.chan = <<>> /\ dtSrv.req = <<>>

\* Of a name of a group: a failed query leaves none, and the property may be set too late.
ShownIsCurrent ==
  /\ dt.told.item = dtSrv.cur
  /\ \/ dtSrv.cur # 0 /\ dt.told.val = dtSrv.val[dtSrv.cur]
     \/ dtSrv.cur = 0 /\ dt.told.val = 0
     \/ dtOpt.plugin = "xkb" /\ (dt.told.val = 0 \/ ~dtOpt.somehow)

\* Whatever the server changes while the plugin reads its state in pieces, handles events
\* that are older than what it has read, or moves its subscription from one window to
\* another, once all is handled cb was last told the current item and its value.
ShownFollowsServer == AtRest /\ ~dtSrv.missed => ShownIsCurrent

\* The same without the exception for a change between the first reading of the state
\* and the subscription: the widget "monitors" its subject from the start.
MonitoredFromTheStart == AtRest => ShownIsCurrent
=============================================================================
