----------------------------- MODULE EventLoops -----------------------------
(***************************************************************************)
(* The plugins that sleep in poll() and call the widget's cb: timer, fs,   *)
(* inotify and udev, over the helpers of libls (a FIFO that is touched, a  *)
(* self-pipe, a pushed timeout) and the list of paths of fs.               *)
(*                                                                         *)
(* The plugin's thread runs against the widget's functions, which cb calls *)
(* during a call and an event handler at any time, against whoever touches *)
(* the FIFO, and against the kernel's queue of events.  An event is its    *)
(* number.  A call is two steps, its start and its end; cb runs between.   *)
(***************************************************************************)
EXTENDS Integers, FiniteSets, Sequences, SequencesExt

CONSTANTS EvPaths,        \* the paths event handlers add to fs's list
          EvPipeCapacity, \* bound: the bytes a pipe holds
          EvMaxEvents     \* bound: the events of inotify and udev

ASSUME EvAssumption == EvPipeCapacity \in Nat \ {0} /\ EvMaxEvents \in Nat

VARIABLES
  evOpt,  \* the plugin and the options of the widget
  ev,     \* the plugin's thread: pc, what (the call it makes), fd (of the FIFO), td (the
          \* timeout of this poll()), buf (events read), idx and seen (of fs's list)
  evIn,   \* what it reads: hup (the FIFO was touched), pipe (bytes), pushed (timeout),
          \* queue (of the kernel), watch (a path is watched), mtx (dyn_mtx), dyn (fs's list)
  evPast  \* what happened: sent and told events, owed (a call is), wanted (paths added
          \* and not removed), due (wanted when the list was locked)

evvars == <<evOpt, ev, evIn, evPast>>

\* A timeout is "finite", the default, "forever", or one of the widget's choice.
Pushable == {"short", "forever"}

\* What init() leaves: a period or timeout that is no number of seconds is refused by
\* timer and fs, and is "forever" for inotify and udev.
Options(plugin, fifo, self_pipe, greet) ==
  [plugin : {plugin}, fifo : fifo, self_pipe : self_pipe, greet : greet,
   period : {"finite", "forever"}]

TimerOptions   == Options("timer", BOOLEAN, BOOLEAN, {TRUE})
FsOptions      == Options("fs", BOOLEAN, {FALSE}, {FALSE})
InotifyOptions == Options("inotify", {FALSE}, {FALSE}, BOOLEAN)
UdevOptions    == Options("udev", {FALSE}, {FALSE}, BOOLEAN)
EvOptions == TimerOptions \cup FsOptions \cup InotifyOptions \cup UdevOptions

EvStart(pc) ==
  /\ ev = [pc |-> pc, what |-> "none", fd |-> FALSE, td |-> "finite", buf |-> <<>>,
           idx |-> 1, seen |-> {}]
  /\ evIn = [hup |-> FALSE, pipe |-> 0, pushed |-> "none", queue |-> <<>>, watch |-> TRUE,
             mtx |-> FALSE, dyn |-> <<>>]
  /\ evPast = [sent |-> 0, told |-> <<>>, owed |-> FALSE, wanted |-> {}, due |-> {}]

EvInit == evOpt \in EvOptions /\ EvStart("start")

\* The widget uses another plugin.
EvOff == evOpt = [plugin |-> "none"] /\ EvStart("returned")

EvRuns == ev.pc # "returned"
EvIs(plugins) == evOpt.plugin \in plugins /\ EvRuns
-----------------------------------------------------------------------------
(* The world outside the plugin's thread.                                  *)

\* touch(1) on the FIFO; without a reader it has no effect, and during the call for an
\* earlier one it is lost, see EvCallEnd.
Touch ==
  /\ EvIs({"timer", "fs"}) /\ ev.fd /\ ~evIn.hup
  /\ evIn' = [evIn EXCEPT !.hup = TRUE]
  /\ evPast' = [evPast EXCEPT !.owed = @ \/ ~(ev.pc = "cb" /\ ev.what = "fifo")]
  /\ UNCHANGED <<evOpt, ev>>

\* wake_up(): the write does not block; in a full pipe it has no effect.
WakeUp ==
  /\ EvIs({"timer"}) /\ evOpt.self_pipe
  /\ evIn' = [evIn EXCEPT !.pipe = IF @ < EvPipeCapacity THEN @ + 1 ELSE @]
  /\ evPast' = [evPast EXCEPT !.owed = TRUE]
  /\ UNCHANGED <<evOpt, ev>>

\* push_timeout() or push_period(), by cb during a call or by the event handler.
PushTimeout(t) ==
  /\ EvIs({"timer", "inotify", "udev"})
  /\ evIn' = [evIn EXCEPT !.pushed = t]
  /\ UNCHANGED <<evOpt, ev, evPast>>

\* An event of a device, or of the watched path.
KernelEvent ==
  /\ EvIs({"inotify", "udev"}) /\ evPast.sent < EvMaxEvents /\ evIn.watch
  /\ evIn' = [evIn EXCEPT !.queue = Append(@, evPast.sent + 1)]
  /\ evPast' = [evPast EXCEPT !.sent = @ + 1, !.owed = TRUE]
  /\ UNCHANGED <<evOpt, ev>>

\* add_watch()
AddWatch ==
  /\ EvIs({"inotify"}) /\ ~evIn.watch
  /\ evIn' = [evIn EXCEPT !.watch = TRUE]
  /\ UNCHANGED <<evOpt, ev, evPast>>

\* remove_watch(): the events that are queued stay, and one more says that it is gone.
RemoveWatch ==
  /\ EvIs({"inotify"}) /\ evPast.sent < EvMaxEvents /\ evIn.watch
  /\ evIn' = [evIn EXCEPT !.watch = FALSE, !.queue = Append(@, evPast.sent + 1)]
  /\ evPast' = [evPast EXCEPT !.sent = @ + 1, !.owed = TRUE]
  /\ UNCHANGED <<evOpt, ev>>

StrlistPush(list, path) == IF path \in ToSet(list) THEN list ELSE Append(list, path)

\* The last element moves to the place of the one removed.
StrlistRemove(list, path) ==
  IF path \notin ToSet(list) THEN list
  ELSE LET i == CHOOSE k \in 1..Len(list) : list[k] = path
       IN Front([list EXCEPT ![i] = Last(list)])

\* add_dyn_path() waits for dyn_mtx.
AddDynPath(path) ==
  /\ EvIs({"fs"}) /\ ~evIn.mtx
  /\ evIn' = [evIn EXCEPT !.dyn = StrlistPush(@, path)]
  /\ evPast' = [evPast EXCEPT !.wanted = @ \cup {path}]
  /\ UNCHANGED <<evOpt, ev>>

RemoveDynPath(path) ==
  /\ EvIs({"fs"}) /\ ~evIn.mtx
  /\ evIn' = [evIn EXCEPT !.dyn = StrlistRemove(@, path)]
  /\ evPast' = [evPast EXCEPT !.wanted = @ \ {path}]
  /\ UNCHANGED <<evOpt, ev>>
-----------------------------------------------------------------------------
(* The plugin's thread.                                                    *)

EvGoto(l) == ev' = [ev EXCEPT !.pc = l] /\ UNCHANGED <<evOpt, evIn, evPast>>

\* call_begin(), with the argument of the call; cb runs until EvCallEnd.
Calls(what) == [ev EXCEPT !.pc = "cb", !.what = what]
Answered == [evPast EXCEPT !.owed = FALSE]

\* Before the loop: "hello", or what udev sets up, which may fail.
Start ==
  /\ ev.pc = "start"
  /\ \/ evOpt.greet /\ ev' = Calls("hello") /\ evPast' = Answered /\ UNCHANGED <<evOpt, evIn>>
     \/ ~evOpt.greet /\ EvGoto(IF evOpt.plugin = "fs" THEN "snapshot" ELSE "open")
     \/ evOpt.plugin = "udev" /\ EvGoto("returned")

\* ls_fifo_device_open(): an open FIFO stays open, and one that cannot be opened is
\* reported and left out.
OpenFifo ==
  /\ ev.pc = "open"
  /\ \E ok \in BOOLEAN : ev' = [ev EXCEPT !.pc = "fetch", !.fd = @ \/ (evOpt.fifo /\ ok)]
  /\ UNCHANGED <<evOpt, evIn, evPast>>

\* ls_pushed_timeout_fetch(); fs has no pushed timeout.
FetchTimeout ==
  /\ ev.pc = "fetch"
  /\ ev' = [ev EXCEPT !.pc = "poll",
                      !.td = IF evIn.pushed = "none" THEN evOpt.period ELSE evIn.pushed]
  /\ evIn' = [evIn EXCEPT !.pushed = "none"]
  /\ UNCHANGED <<evOpt, evPast>>

FifoReady == ev.fd /\ evIn.hup
Ready == FifoReady \/ evIn.pipe > 0 \/ evIn.queue # <<>>

\* poll() returns 0.
TimesOut ==
  /\ ev.pc = "poll" /\ ev.td # "forever" /\ ~Ready
  /\ IF evOpt.plugin = "fs"
     THEN ev' = [ev EXCEPT !.pc = "snapshot"] /\ UNCHANGED evPast
     ELSE ev' = Calls("timeout") /\ evPast' = Answered
  /\ UNCHANGED <<evOpt, evIn>>

\* poll() or read() fails: run() returns.
PollFails == ev.pc = "poll" /\ EvGoto("returned")

\* run() of timer.c: the FIFO goes before the self-pipe, of which one byte is read.
TimerWoken ==
  /\ EvIs({"timer"}) /\ ev.pc = "poll" /\ Ready
  /\ ev' = Calls(IF FifoReady THEN "fifo" ELSE "self_pipe")
  /\ evIn' = IF FifoReady THEN evIn ELSE [evIn EXCEPT !.pipe = @ - 1]
  /\ evPast' = Answered
  /\ UNCHANGED evOpt

\* ls_fifo_device_wait(): the FIFO is closed before the call.
FsWoken ==
  /\ EvIs({"fs"}) /\ ev.pc = "poll" /\ Ready
  /\ ev' = [ev EXCEPT !.pc = "snapshot", !.fd = FALSE]
  /\ evIn' = [evIn EXCEPT !.hup = FALSE]
  /\ UNCHANGED <<evOpt, evPast>>

\* read() takes some events, or is interrupted and tried again after another poll().
InotifyRead ==
  /\ EvIs({"inotify"}) /\ ev.pc = "poll" /\ Ready
  /\ \E n \in 1..Len(evIn.queue) :
       /\ ev' = [ev EXCEPT !.pc = "dispatch", !.buf = SubSeq(evIn.queue, 1, n)]
       /\ evIn' = [evIn EXCEPT !.queue = SubSeq(@, n + 1, Len(@))]
  /\ UNCHANGED <<evOpt, evPast>>

Interrupted ==
  /\ EvIs({"inotify", "udev"}) /\ ev.pc = "poll" /\ Ready
  /\ EvGoto("fetch")

\* Mutant: only the first event that was read gets a call.
DispatchFirst ==
  /\ ev.pc = "dispatch"
  /\ IF ev.buf = <<>> THEN EvGoto("open")
     ELSE /\ ev' = [Calls("event") EXCEPT !.buf = <<>>]
          /\ evPast' = [Answered EXCEPT !.told = Append(@, Head(ev.buf))]
          /\ UNCHANGED <<evOpt, evIn>>

\* One call per event that was read.
Dispatch ==
  /\ ev.pc = "dispatch"
  /\ IF ev.buf = <<>> THEN EvGoto("open")
     ELSE /\ ev' = [Calls("event") EXCEPT !.buf = Tail(@)]
          /\ evPast' = [Answered EXCEPT !.told = Append(@, Head(ev.buf))]
          /\ UNCHANGED <<evOpt, evIn>>

UdevReceive ==
  /\ EvIs({"udev"}) /\ ev.pc = "poll" /\ Ready
  /\ ev' = Calls("event")
  /\ evIn' = [evIn EXCEPT !.queue = Tail(@)]
  /\ evPast' = [Answered EXCEPT !.told = Append(@, Head(evIn.queue))]
  /\ UNCHANGED evOpt

\* Mutant: the FIFO is closed after every call.
EvCallEndResets ==
  /\ ev.pc = "cb"
  /\ ev' = [ev EXCEPT !.fd = FALSE, !.pc = IF ev.what = "event" /\ evOpt.plugin = "inotify"
                                           THEN "dispatch" ELSE "open"]
  /\ evIn' = [evIn EXCEPT !.hup = FALSE]
  /\ UNCHANGED <<evOpt, evPast>>

\* call_end(); timer closes the FIFO after the call, with what came meanwhile.
EvCallEnd ==
  /\ ev.pc = "cb"
  /\ LET reset == ev.what = "fifo" IN
       /\ ev' = [ev EXCEPT !.pc = IF ev.what = "event" /\ evOpt.plugin = "inotify"
                                  THEN "dispatch" ELSE "open",
                           !.fd = @ /\ ~reset]
       /\ evIn' = [evIn EXCEPT !.hup = @ /\ ~reset]
  /\ UNCHANGED <<evOpt, evPast>>

\* Mutant: the list is read without dyn_mtx.
LockDynNot ==
  /\ ev.pc = "snapshot"
  /\ ev' = [ev EXCEPT !.pc = "scan", !.idx = 1, !.seen = {}]
  /\ evPast' = [Answered EXCEPT !.due = evPast.wanted]
  /\ UNCHANGED <<evOpt, evIn>>

\* start_call() of fs.c, the static paths, and the list of dynamic ones under dyn_mtx.
LockDyn ==
  /\ ev.pc = "snapshot"
  /\ ev' = [ev EXCEPT !.pc = "scan", !.idx = 1, !.seen = {}]
  /\ evIn' = [evIn EXCEPT !.mtx = TRUE]
  /\ evPast' = [Answered EXCEPT !.due = evPast.wanted]
  /\ UNCHANGED evOpt

ScanOne ==
  /\ ev.pc = "scan" /\ ev.idx <= Len(evIn.dyn)
  /\ ev' = [ev EXCEPT !.seen = @ \cup {evIn.dyn[ev.idx]}, !.idx = @ + 1]
  /\ UNCHANGED <<evOpt, evIn, evPast>>

\* dyn_mtx is unlocked, the globs are added, and cb is called with the table.
ScanEnds ==
  /\ ev.pc = "scan" /\ ev.idx > Len(evIn.dyn)
  /\ ev' = Calls("table")
  /\ evIn' = [evIn EXCEPT !.mtx = FALSE]
  /\ UNCHANGED <<evOpt, evPast>>

EvThread ==
  \/ Start \/ OpenFifo \/ FetchTimeout \/ TimesOut \/ TimerWoken \/ FsWoken \/ InotifyRead
  \/ Dispatch \/ UdevReceive \/ EvCallEnd \/ LockDyn \/ ScanOne \/ ScanEnds

EvNext ==
  \/ Touch \/ WakeUp \/ KernelEvent \/ AddWatch \/ RemoveWatch
  \/ \E t \in Pushable : PushTimeout(t)
  \/ \E path \in EvPaths : AddDynPath(path) \/ RemoveDynPath(path)
  \/ EvThread \/ Interrupted \/ PollFails

EvSpec == EvInit /\ [][EvNext]_evvars

\* The thread runs, and a read() that is tried again and again is once not interrupted.
EvFairness == WF_evvars(EvThread) /\ SF_evvars(InotifyRead \/ UdevReceive)
-----------------------------------------------------------------------------
\* Who calls wake_up(), touches the open FIFO or causes an event gets
\* a call of cb that begins afterwards, although a full pipe drops the byte, the FIFO
\* shadows the pipe, and the FIFO is closed and opened again in every round.
WakeUpsAreAnswered == evPast.owed ~> (~evPast.owed \/ ev.pc = "returned")

\* The widget is told every event once and in the order of the kernel, whatever part of
\* the queue a read() takes and however often it is interrupted.
EventsInOrder == evPast.told \o ev.buf \o evIn.queue = [n \in 1..evPast.sent |-> n]

\* The table of fs has an entry for exactly the paths that were added and not removed
\* when it was made: none is skipped as the list is rearranged, and none is there twice.
SnapshotIsCurrent ==
  /\ ev.pc = "cb" /\ ev.what = "table" => ev.seen = evPast.due
  /\ ToSet(evIn.dyn) = evPast.wanted /\ Len(evIn.dyn) = Cardinality(evPast.wanted)
=============================================================================
