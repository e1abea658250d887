# luastatus in TLA+

luastatus is a status bar generator: one process, one thread per *widget*, each thread
inside the `run()` of a *plugin* that reports data; the widget's Lua function `cb` turns the
data into something to show; a *barlib* shows it; and the barlib's *event watcher*, on the
main thread, brings clicks and the like back to the widgets' Lua function `event`.
This directory holds models of that process, configurations to model-check them with TLC,
and theorems about them proved with TLAPS.

Contents: 1 the system; 2 the models, one by one; 3 the runs; 4 fairness; 5 what is proved;
6 disagreements found; 7 what is only model-checked, and what is not modelled; 8 what is left.


## 1. The system

### 1.1 Threads, locks and calls

    main thread                      thread of widget w            threads of nested widgets
    -----------                      ------------------            -------------------------
    widget_init() of each widget
    barlib init()
    register_funcs, pthread_create --> plugin run():
    event_watcher():                    call_begin  LOCK_L(w)       (multiplex only)
      ew_call_begin  LOCK_E(w)          ... data ...                plugin run():
      ew_call_end    event(...)         call_end    cb(data)          LOCK_L, cb
        error: LOCK_B set_error           LOCK_B set / set_error      conq_update_slot()
      UNLOCK_E                          UNLOCK_L                      UNLOCK_L
    join all, then hang or clean up     set_error at the end

Locks: `L(w)`, one per widget, for the widget's Lua interpreter; `E(w)`, which is `L(w)` or
the lock of the one *separate state*, the interpreter of all event handlers given as
strings; `B` (`set_mtx`) for the barlib; one global mutex for the strings of
`luastatus.communicate()`; and the mutexes of single plugins (`conq`, `runners_mtx`,
`plugin-init-mtx`, `child_mtx`, `dyn_mtx`, the lock of a pushed timeout).
Data passes by function call everywhere; what two threads share is the interpreters, the
barlib's buffers, `communicate()`'s strings, and the fields of some plugins' `Priv`.

### 1.2 Components

| component (sources) | state | operations | what is hard | what makes it correct | module |
|---|---|---|---|---|---|
| core (`luastatus/luastatus.c`) | interpreters and their stacks, `L`, `B`, `sepstate.cur_w`, kind of each widget | start-up with stillborn widgets, `plugin_call_*`, `ew_call_*`, `set`/`set_error`, join, hang, clean-up | two threads per interpreter, failed and cancelled calls, life time | interpreters and barlib used by one thread at a time; no assertion fails; locks in order; calls return; nothing used after destroy | `Luastatus` |
| `communicate()` (`luastatus/comm.c`, `l_communicate()`) | a string and its length per widget | read, read_and_clear, write, cas | interpreters of the same widget on two threads | atomicity | `Comm` implements `CommRegister` |
| queue of multiplex (`conq.c`) | slots, states, a bit per slot | `conq_update_slot`, `conq_fetch_updates` | producers against a consumer, equal updates, spurious wakeups | no update lost, only whole contents told | `Conq` implements `Mailbox` |
| multiplex (`multiplex.c`, `runner.c`, `map_ref.c`) | nested interpreters, the array of runners, a shared init mutex | nested init, calls, events, `call_event()` | event handlers against start-up, three levels of locks | exclusive use of nested interpreters, one init at a time, calls return | `Multiplex` |
| unixsock (`unixsock.c`, `server.c`) | clients, pollfds, buffers | bind, accept, read, report, drop, compact | dropping while iterating, lines in pieces, the limit | the first line and only it; clients give their place back | `UnixSock` |
| pipev2 (`pipev2.c`, `launch.c`, `utils.c`) | pid, stdin, stream of stdout | spawn, lines, `kill()`, `write_to_stdin()`, wait | a process that closes, exits, blocks when it likes | signals go to our process; lines in order; calls return | `PipeV2` |
| barlibs stdout, lemonbar, dwm, i3 | a buffer per widget, a temporary one, the line | `init`, `set`, `set_error`, `redraw` | one temporary buffer, skipped draws, invalid data | the bar shows the latest of each widget | `Barlib` implements `Bar` |
| their event watchers; lemonbar's markup | i3: depth, last key, tokens, widget; stdout: the next widget | a token; a line | which widget an event is for | each event goes once, whole, to its widget | `BarEvents` |
| timer, fs, inotify, udev; `ls_evloop_lfuncs.h`, `ls_fifo_device.h` | pushed timeout, self-pipe, FIFO; fs's list of paths; the kernel's queue | the loops; `push_timeout()`, `wake_up()`, `add_dyn_path()`, `add_watch()`, ... | pushes while asleep, wake-ups during cb, a list that changes | wake-ups answered; events once and in order; the table is that of one moment | `EventLoops` |
| mpd (`mpd.c`, `connect.c`, `line_reader.c`) | the connection, the phase of the dialogue, pairs | connect, greet, password, update, idle, retry | changes between two answers, failures at each step | the widget ends with the server's state | `Mpd` |
| web (`web.c`, `opts.c`, `make_request.c`, ...) | coroutine of the planner, action, wake-up status, the handle | request, sleep, call of cb | what is left of an earlier round | an answer is to what was asked | `Web` |
| dbus (`dbus.c`) | subscriptions, connections, sources of a shared context | signals, timeout, ready | callbacks run on any dbus widget's thread | each signal told once, in order, of its bus | `DBus` |
| the functions of dbus (`zoo/*.c`) | references to values | `mkval_*`, `call_method`, ..., `__gc` | an error at any argument | every reference is somebody's | `Zoo` |
| network-linux (`network.c`, `strset*.c`) | netlink socket, sorted set of wireless interfaces | refresh, timeout, wake-up, resync | overruns, an answer in pieces, a stale set | shown is what is | `Network` |
| alsa, pulse, xtitle, xkb | the sink, the window, names of groups | events of a server, requests | stale indices, a subscription that moves | shown is what is | `Desktop` |
| codecs (`ls_parse_int.c`, `libwidechar.c`, `urlencode.c`, `urldecode.c`, `mod_json`, `wrongly.c`, `somehow.c`) | none | a text in, a value out | sizes, overflow, unbalanced input | a reference definition | `Codecs` |
| derived plugins in Lua | none between calls, mostly | parse files, wrap a plugin | - | - | not modelled |
| other libraries, headers, tests | - | - | - | - | not modelled |

`PROJECT.json` has the same list with sources and status, and the hazards, each at its line.


## 2. The models

Every module names the code it stands for; `PROJECT.json` maps each definition to its lines.
Definitions headed "Mutant" are wrong variants of the definition below them, each the
slip a change of the code could make; no specification uses them. They serve to see that a
property can fail: with the mutant in the definition's place, the property is violated.

### Luastatus: the core

One control point (`pc`) per thread; a step is what happens between two points where another
thread can interfere: a lock, a call into Lua or the barlib, an unlock. `mtx[s]` is `L_mtx` of
interpreter `s` (0 is the separate state), `set_mtx` is `B`, `top[s]` is `lua_gettop()`, which
the code asserts at each begin and end of a call. What the plugin, the Lua code and the barlib
answer is chosen freely: cb may fail, `set()` may return any of its three results and leave
values on the stack, the event watcher may pick any widget, cancel calls, or return; and Lua
code may call `os.exit()` where it runs.
`Uses(t, s)` lists the places where thread `t` has interpreter `s`, the unlocked ones included
(`register_funcs()` before the thread exists, `lua_close()`).
Abstracted: what is shown is `value`, `error` or `blank`; options, logging, `dlopen()` and
`map_get()`, which all happen before any second thread, are left out.

### Comm and CommRegister: the shared string

`Comm` follows `l_communicate()` statement by statement under the mutex: free, copy, length,
so that a reader in between would find freed memory or a wrong length. `CommRegister` is an
atomic string: called, done, returned. A call takes effect when it frees the old string, or
when it computes its answer. The refinement mapping shows the new string from the free on.
With `Finalizers` a `__gc` may call `communicate()` from within `lua_pushlstring()`.

### Conq and Mailbox: the updates of nested widgets

The two halves of `conq.c`, the report of `recv_callback()` and the loop of `run()`.
`Mailbox` says what the widget is promised: a table of latest contents, and calls that tell
whole contents of the slots that changed. An update happens when the string is assigned, the
consumer takes the slots when it reads the mask; in between the mapping looks ahead.

### Multiplex: nested widgets

Several multiplexing widgets, each with its thread, its nested widgets and their threads,
and `call_event()` on the event watcher's thread or inside cb. `conq.c`'s operations are one
step each here. `control` is the reference-counted mutex of `map_ref.c` that keeps `init()`
of nested plugins apart; `answer` is what `call_event()` throws or returns.

### UnixSock: line server

The socket is made, where an earlier process may have left one; then the rounds of the `poll()`
loop: poll, scan the clients in order, read a chunk, report and drop, accept, compact. Clients
connect, send and hang up at any moment. Bytes are newlines or other characters. What of a line
comes after its end is kept in the model, as in the buffer.

### PipeV2: child process

The process (with whoever shares its pipes) writes, reads, closes and exits when it likes; the
plugin's thread spawns it, reads lines, waits with `child_mtx` held and hangs; cb and the event
handler call `kill()` and `write_to_stdin()`. A pid that was reaped may be someone else's.

### Barlib and Bar: the barlibs

`set()` an element at a time, `redraw()` a widget at a time, under `B` or - in a mutant -
without. The four barlibs differ in how an element is written: `Element`. `Bar` is the display:
the line is the join of all contents, and changes as one widget changes. `asked` records what
each call was to show: the elements that are not empty, joined by the separator, without line
breaks, or, for i3, the segments under the widget's name.

### BarEvents: what comes back from the bar

i3 sends JSON: a step of the model is one callback of yajl, and `Flush` is what the code does when
the click is complete, with `PushObject`, the recursion of `push_object()` over its tokens, which
gives 0 where the code would fail an assertion; `beIn` keeps the stream itself, from which
`NameOf` says, in another way than the code, which widget a click is for. For lemonbar the markup
a widget draws goes through the sanitizer, is read by a model of lemonbar (`LemonbarReads`,
external), and the commands go through `parse_command()`. stdout tells every line to all widgets
in turn.

### EventLoops: timer, fs, inotify, udev

One thread in the loop of one of the four plugins, chosen by `evOpt`, with the helpers they
share. A call of cb is two steps, its begin and its end, and the functions of the widget may come
between as at any other time. `owed` says that someone was promised a call; an event is its
number in the kernel's order. A byte for a full pipe is dropped; a pushed timeout is fetched
once. What touches timer's FIFO during the call for an earlier touch is lost with it when the
FIFO is closed, and the model says so (`Touch`).

### Mpd

The conversation: connect to one candidate after the other, greeting, password, `currentsong`,
`status`, the call, `idle`, and the retry with its FIFO. The server answers in lines which wait
on the wire; it may change between any two answers, refuse, or hang up.

### Web

The planner is resumed, yields, and what it yields is parsed and done. A request's options are
set on the one handle of libcurl, so what an earlier request set is the question. With the
global option the headers are told whatever the request says; a request asks for them by having
the key `with_headers`, with whatever value, and may have any two of the options otherwise. Where
the code does not do what `web/README.rst` says (section 6) the model has what the code does, and
the properties claim nothing.

### DBus and Zoo

`DBus`: GLib's default context belongs to the thread that was first in its main loop, which
dispatches the sources of all dbus widgets; the connection of a bus is shared, and closing it closes
it for all. A widget has a list of match rules for each bus and subscribes to one after the other,
while signals come; a signal is queued once for each subscription that it matches, in any order of
the subscriptions, as GLib promises none. Nothing unsubscribes: when `run()` returns because the
other bus cannot be reached, what is queued for the widget is still dispatched, with `args` on a
stack that is gone. What that does is undefined; the outcomes of the model are that `args` still
holds what it held (`CallbackSignal`), that the process ends (`CallbackAborts`), or that the
dispatching thread waits for the mutex for ever (neither is taken). Two more things the
documentation may not lead one to expect are in the model as the code has them: the timeout is a
repeating source that no signal resets, and the greeting need not be the first call. `Zoo`: values
with their counts of references, made of other values, finalized by Lua in any order once nothing
runs, functions that fail at any argument.

### Network

A message, a timeout or a wake-up makes the thread ask `getifaddrs()` for a list and then, for
each interface, whether it is wireless, while interfaces come and go. After a message the set of
wireless interfaces is built anew and sorted, by the mergesort of the code (`MergeSort`, and `Merged`
for its loops); after a timeout it is looked up.
A buffer that overflowed is an `ENOBUFS` and a full refresh.

### Desktop

alsa, pulse, xtitle and xkb do the same: read a current item (window, group, sink) and its value,
subscribe, follow events. One module with the steps of each; requests and answers are in two
queues, and the server changes at any time.

### Codecs

Pure functions as operators or recursive functions, the loops of the code as they run, each against
a definition that says what is meant. A behaviour picks an input, computes, and compares.


## 3. The runs

A run checks one composition. Independent small components share one: in a behaviour one of
them is at work and the others are off, chosen by the initial state.

| run | instance | what it shows |
|---|---|---|
| `luastatus` | the core with 2 widgets, no `-e`; or 2 multiplexers of 1 nested widget | exclusive use of interpreters and barlib, also of nested ones; balanced stacks; lock order; the shared init mutex; no deadlock |
| `live` | the core with 1 widget and `-e`; or one of timer, fs, inotify, udev; or mpd; or unixsock; all fair | calls and events return, the process exits and nothing is used after it is destroyed; wake-ups are answered, events in order, the table of fs is that of one moment; mpd's widget follows the server; unixsock reports first lines and serves all |
| `multiplex_live` | 1 multiplexer of 2 nested widgets, fair | `call_event()` returns |
| `shared` | `Comm`: 2 interpreters, finalizers; or `Conq`: 2 slots, 2 strings; fair | both refinements; nothing lost, no missed signal; calls return unless a finalizer calls back; reports are told |
| `pipev2` | all options, 3 bytes written, pipes of 1 byte, fair | signals, lines, `kill()` returns but for section 6 |
| `plugins` | network-linux; web; dbus with 2 widgets; its functions; alsa, pulse, xtitle, xkb; the barlibs with 2 widgets; their event watchers; the codecs | thirteen properties, each of one of them; the refinement of `Bar` |
| `comm_self_lock`, `unixsock_assert`, `pipev2_kill`, `desktop_start`, `zoo_exit`, `json_depth` | as above | a statement of the documentation or an assertion that does not hold (section 6) |

Bounds, and why they are enough:

- *Two widgets* in the core give every pair of threads (two widgets, widget and main) and
  two string handlers on the one separate state; a third widget would repeat one of them.
  Liveness is checked with one widget because the competition is between two threads for
  `L`, and for `B`. `luastatus` has a `VIEW`: `cur_w`, `shown` and `answer` are written and
  never tested, so states that differ in them alone have the same future.
- *Strings of `Comm`*: two of one length, so that cas has to look at the bytes; one of
  another, so that it has to look at the length; and the empty one.
- *`Conq`*: an empty and a non-empty string, so that contents may differ in the state only
  or in the string only; two slots, so that a mask has more than one bit. The mask is a set, and
  `NSlots <= 64` is an assumption, which is `check_wspecs()`' guard.
- *`Multiplex`*: two multiplexers for the init mutex, two nested widgets for the loops; one
  greets, one has its handler on `L`.
- *`UnixSock`*: three connections for two places make the server full with one waiting;
  `MaxBytes = 2` gives a newline first, last, twice, and a character after it. `MaxBytes` is
  what all connections send together.
- *`PipeV2`*: `Capacity = 1` makes both pipes full and empty all the time; `MaxWrote = 3` gives
  a line, an empty line and a rest; `MaxData = 2` makes `write_to_stdin()` block midway.
- *`EventLoops`*: three paths, as the removal of a middle one moves the last; three events, so
  that a read may take one, some, or all; a pipe of two bytes, so that it is full, half full,
  empty.
- *`Mpd`*: two changes, one before and one during whatever it is; one failure, a bad greeting
  included, which is followed by a whole new conversation. Options that never meet are varied together.
- *`DBus`*: two widgets on one context, one on both buses; two signals of two kinds; lists with
  no rule, one, and two that both match a signal; a clock of one tick.
- *`Zoo`*: three values, so that a value is in a value in a value; two elements, so that one may
  be in twice.
- *`Network`*: two interfaces and two changes, the second while the first is being asked about;
  room for one message, so that the second is an overrun.
- *`Desktop`*: two items and three changes: to another item, of its value, and back; one failure.
- *`Barlib`*: the data are nil; a table with a line break, nil, an empty string and a string; and
  one that turns out invalid after a good element. An element of nothing but line breaks is not
  among them: the code writes a separator beside it, and the documentation does not say.
- *`BarEvents`*: nine tokens are a click with a nested container, or two clicks; depth 3 instead
  of 10; markup of five units is an opening tag with its text and a closing one.
- *`Codecs`*: texts of up to four characters, five for the layouts and symbols of xkb, over the
  characters that are treated differently (`(`, `)`, `,` and `:`, which ends a name of `somehow.c`,
  among them); the list of bad names is empty, has one name, or one of two characters and an empty
  one; digits of base 3, `INT_MAX` 7 and `SIZE_MAX` 10, so that four digits pass the limits and the
  sums wrap; a depth of 3 instead of 100.

`CHECK_DEADLOCK FALSE` stands where the real thing may stop: a process that does nothing
more with a writer waiting for it (pipev2), a `run()` that has ended (live, plugins), a thread that
locked itself out (shared).


## 4. Fairness

- A mutex that is released again and again is granted eventually (strong fairness on the
  locking steps): pthread mutexes give no more than progress, and the properties need no more
  than that the scheduler does not starve a thread for ever. Strong fairness is also asked of
  `CallEnd` in `Multiplex` and `PipeV2`: cb returns, although the model lets it call functions
  again and again.
- Threads run, critical sections end, `set()` and Lua functions return (weak fairness).
- In `EventLoops` the plugin's thread is weakly fair, and a `read()` or `recvmsg()` that is interrupted
  and tried again is once not interrupted (strong fairness of `InotifyRead` and `UdevReceive`).
- In `Mpd` the thread and the answers of the server are weakly fair; failures are bounded, so
  that `WidgetFollowsServer` speaks of what comes after the last.
- Nothing else is asked of the environment: plugins and nested widgets need not report, event
  watchers need not deliver, clients and child processes may do nothing for ever. Liveness
  properties speak of what was begun.


## 5. What is proved

| module | about | theorems |
|---|---|---|
| `Luastatus_proofs` | the core; nested widgets | `TypeCorrect`, `InterpretersAreExclusive`, `BarlibIsExclusive`, `LocksAreOrdered`, `AssertionsHold`, `NothingIsUsedAfterDestroy`; `NestedUseIsExclusive`, `NestedStacksAreBalanced`, `ControlIsAlive` |
| `Shared_proofs` | `Comm`, `Conq` | `NeverTornHolds`, `Atomicity`; `NothingIsLost`, `NoWakeupIsMissed`, `UpdatesAreStored`, `OnlyWholeContentsAreTold`, `Refinement` |
| `Barlib_proofs` | the barlibs | `BarIsUpToDate`, `BarlibsAreBars` |
| `PipeV2_proofs` | pipev2 | `SignalsReachOwnChild`, `CbAlwaysFindsChild`, `LinesAreToldInOrder` |
| `EventLoops_proofs` | timer, fs, inotify, udev; unixsock | `EventsAreToldInOrder`, `SnapshotsAreCurrent`; `FirstLineIsReported` |
| `Plugins_proofs` | web; dbus and its values; the desktop plugins; network-linux | `PlannerIsToldOfWakeUps`, `ResponsesFitRequests`; `SignalsAreInOrder`, `ReferencesHaveOwners`; `ShownFollows`; `NetworkIsCurrent` |
| `Parsers_proofs` | i3's clicks and lemonbar's tags; the codecs | `ClicksAreTold`, `TagsAreRead`; `TextsAreKept`, `TextsAreReadAsMeant`, `TextsFit` |
| `Induction` | lemmas on numbers and sequences | |

They hold for all values of the constants that satisfy the module's assumption (any number of
widgets, interpreters, strings, slots, events, interfaces; texts of any length; any bounds), under
the component's specification without fairness. Every assumption on constants is evaluated by TLC in
the runs; the ones that are more than "the bounds are numbers" are `NSlots <= 64`
(`check_wspecs()`), that `SIZE_MAX` is beyond the length of any text of xkb (it is in memory), that
the barlibs whose events are modelled have one to three widgets (their numbers are strings there),
that the set of dbus widgets is finite, that there is a window, group or sink at all, that the
barlibs' separator and texts are sequences of the characters `Chars`, and that values which stand
for "none" are no others. What a definition fixes, the alphabets of the texts and the base 3 of
digits, is fixed for the theorems too. Each proof has the same shape: an inductive invariant, a
lemma for each action, and the property from the invariant. All the safety properties of the runs
`luastatus`, `live`, `shared` and `pipev2`, and all thirteen invariants of the run `plugins`, are
among the theorems.

**Induction.** Several invariants speak of what a recursive function or a fold computes. A set of
numbers stands for the predicate there (`NatSetInduction`, `IntervalInduction`), and a recursive
function is shown to have the values that its definition says by building it up step by step: from
the start (`RecursionExists`), from the end of a text, where the value at a place depends on any
later ones (`BackwardExists`, `BackwardInduction`), and along a fold, whose intermediate states are
a function of the place (`FoldExists`). `FlattenSeq()` of the community modules is one
(`FlattenAppend`). The rest is about parts of sequences, texts that grow piece by piece
(`PieceStands`), and least and greatest numbers of a set.

**Luastatus.** Invariant `IInv == TypeOK /\ PhaseInv /\ LockInv /\ StackInv /\
NoAssertFails`, and `DestroyedInv`. `PhaseInv` ties the main thread's phase to the life of the
other threads (before `spawn` there are none; a thread exists only for a live widget that has been
spawned; after `join` they are done). `LockInv` says that a mutex is owned exactly by the thread
whose control point is inside its section. `StackInv` gives the height of each stack from the
control point of its user. None of these is inductive alone: the heights need exclusive use, which
needs the phases, because `register_funcs()` and `lua_close()` take no lock.

**Multiplex.** Invariant `MxInv == MxTypeOK /\ Control /\ Creation /\ Spawning /\
CallsLive /\ Locks /\ Stacks /\ StackIsBalanced`. A nested widget's interpreter is used without a
lock while it is created; that nobody else uses it then is because its `runner` is not set
(`Creation`), without which it has no thread (`Spawning`) and no call goes on (`CallsLive`).
From then on its `L_mtx` tells the user (`Locks`), and the user's control point the height of the
stack (`Stacks`). `Control` counts the references to the struct of the init mutex.

**Comm.** `Inv == TypeOK /\ Mutex /\ Calls /\ Buffer /\ Replaces`: who is inside
the section holds the mutex, what a call at each point has computed, when buffer and length
agree. From it `NeverTornHolds` (no one looks at a freed buffer or a wrong length)
and `Atomicity`, the refinement of `CommRegister`: initial states map to initial states, every
step to a step or a stutter.

**Conq.** `QInv == QTypeOK /\ QMutex /\ Reporting /\ Assigning /\ Marked /\ Copies /\
Telling /\ NoMissedSignal`. `Marked` is the heart: a slot whose bit is not set is as the
consumer copied it last. `UpdatesAreStored` says that a finished update is in its slot, also if it
was skipped as equal; `Refinement` is that of `Mailbox`. Three of the propositions (`NeverTorn`,
`Stored`, `ToldWhole`) are not checked in a run of their own: they follow from the refinements,
which are.

**Barlib.** `BarInv == TypeB /\ Locked /\ Targets /\ Quiet /\ Busy`. With `B` free, everything
asked for is in the buffers and on the line (`Quiet`). With a thread inside, that holds of the
other widgets, and `Busy` says how far the thread has come: `set()` has joined the first elements
of what cb returned (`Building`), `redraw()` has written the line of the first widgets
(`Drawing`). Both are statements about prefixes of a recursion, so joining element by element is
shown to compute the join that `Bar` defines. `BarlibsAreBars` is the refinement.

**PipeV2.** `Inv == Types /\ Mutex /\ Pid /\ Created`, for the signals: as long as somebody has
`child_mtx` and finds a pid, the process was not reaped. For the lines, `Lines == LinesTypes /\
(AllTold \/ RestTold) /\ Ending`: what the process wrote is what was told, then `getdelim()`'s
buffer, then the pipe; and `Ending` says that "bye" and `waitpid()` come after all of it.

**EventLoops.** `EvInv == EvTypeOK /\ BufInv /\ EventsInOrder /\ DynInv /\ ScanInv`.
`BufInv`: events are in the buffer only while inotify tells them, so that `read()` and udev's
`recvmsg()` find it empty; `DynInv`: fs's list has each wanted path once, which
`StrlistRemove` keeps (lemma `RemoveProps`) although it moves the last one; `ScanInv`: the
list is the same from lock to unlock.

**UnixSock.** `UsInv == UsTypeOK /\ OnePlace /\ Unread /\ Descriptors /\ Buffers /\ Polled /\
Told`. A connection is in one place, the backlog or the array (`OnePlace`), its descriptor is open
just while its client is not dropped (`Descriptors`), and what it has sent is its client's buffer
and what was not read yet (`Buffers`). That the array and the `pollfd`s still fit each other when
clients were dropped and one was accepted is `Polled`, without which a line is reported for the
wrong connection; `Told` is the property in an inductive form.

**Web.** `WbInv` adds to the types that a wake-up not told of is a byte in the self-pipe
(`OwedIsInPipe`), that the status of a sleep is kept from its end to the planner's next
call (`StatusInv`), and what the action of the planner looks like at each point (`ActionInv`).

**DBus.** `DbInv == DbTypeOK /\ DbSubscribed /\ DbQueued`. A call is due for a subscription and a
signal that was sent after it and that its rule matches. `DbSubscribed` says that the subscriptions
of a widget are the rules of its lists in their order, and all of them when it is past its loop;
`DbQueued` that what was told to a widget of a bus and then what is queued for it are the calls that
are due, none twice and none of a signal before one of an earlier signal, whichever thread
dispatches and whether or not `run()` of the widget has returned.

**Zoo.** `ZoInv == ZoTypeOK /\ MadeOfEarlier /\ ArgumentsOfRunning /\ ReferencesAreOwned`. Giving up
a reference may free a value, which gives up those it has, and so on: `UnrefIsRecursive` says what
the recursion computes, which goes from later values to earlier ones because a value is made of
values made earlier, and `UnrefLeavesOwned` that if every reference had an owner, the ones that are
left are those of the other owners, so that no count falls below zero.

**Desktop.** `DtInv == DtTypeOK /\ DtShape /\ XtitleInv /\ XkbInv /\ PulseInv /\ AlsaInv`: for each
plugin, that what it shows is what the server has, or that an event, a request or an answer is on
its way which makes up for the difference; in `pulse`, that an answer out of date has the event of
the change behind it.

**Network.** `NwInv == NwTypeOK /\ Listening /\ ListIsCurrent /\ LoopIsCurrent /\ ToldIsCurrent`.
While the thread asks about one interface after the other, what it has found is true of the
interfaces now, or a message waits, or the last refresh failed (`LoopIsCurrent`). After a timeout
it asks the list of wireless interfaces instead (`ListIsCurrent`), which is right because what
`strset_freeze()` leaves is in order: the loops merge two ordered lists into one with the elements of
both (`MergedIsOrdered`, by induction over what is written), the recursion ends with lists that are
sorted (`MergeSortIsRecursive`: after k rounds, those that are not longer than k), and so the result
is the ordered list of what was given (`SortedIsOrdered`); and because the binary search finds in an
ordered list just what is in it (`BinSearchFinds`, by induction over the length of the interval).

**BarEvents, i3.** `I3Inv` says, while the stream is read, that the context of the callbacks agrees
with the stream: the depth with the containers that are open, the widget chosen so far with
`NameOf` of the tokens so far, the flag `last_key_is_name` with the key before (`I3Context`); and
that the tokens are the prefix of one object whose open containers are those of the parser
(`ParsedTo`, a history of the parser's stack). `PushObjectTakesAll` says that on the tokens of a
whole object `push_object()` stops right behind the last one, which is what `flush()` asserts; it
is proved backward, from the last token: from any place the recursion comes to the end of
the container that was innermost there. `NameOfAppend` says how one more token changes the name, and
`ContextAtIs` that the callbacks change the context just so.

**BarEvents, lemonbar.** The invariant `BeDrawn` is plain: what is drawn is what the sanitizer
made of the markup. The work is to compare three recursive readings. `EscapedHasNoTags` and
`EscapedIsRead`: in what `escape()` wrote the sanitizer never sees a tag, and lemonbar reads every
`%%` as the `%` it was. `NewlinesDoNothing`: apart from `Split` markup the sanitizer goes through
the same states with and without the newlines. `LineIsWritten` lays the text it wrote beside the
line, unit by unit, with the marks between; and `LineIsRead`, by induction from the end, that
lemonbar reading the two in parallel shows the same and finds the same commands, but for the marks
(`SameReading`). `MarkIsParsed` is the way back, through `parse_command()`.

**Codecs.** `CdInv` says that what came out is what the function computes; the properties follow
from what the functions compute, for every text. (That much holds of any function, so
`CodecsCompute` is a lemma.) `EncodedIsDecoded` and `EncodedComesBack`: from any character on,
`urldecode()` gives back what `urlencode()` took, and both count their size right; the counting sees
an overflow before it happens (`SizeIs`). `NumeralIsRead`: up to each digit the sum is what the
digits are worth, or is over the limit and stays refused. `LayoutIsDivided`: the balance is zero
just where the parentheses so far match in number, also after it has gone below zero, because a text
is shorter than `SIZE_MAX` (`BalanceIs`), so the pieces are those between the cuts; `BadIs`: of them
`somehow_parse_symbols()` leaves out the empty ones and those whose name, the part before the first
`(` or `:`, is in its list. `WidthOfBeginning` and `WidthOfBoth`: the width of a text is that of its
beginning and its rest, where a character begins; from that `CutAsMeant`, that the loop that cuts
ends at the longest beginning that fits, and `ValidIsValid` and `ValidIsKept`.


## 6. Disagreements found

1. **A finalizer can lock a thread out** (`comm_self_lock`). `l_communicate()` calls
   `lua_pushlstring()` with the comm mutex held; Lua may collect garbage there and run a `__gc`
   metamethod, and one that calls `communicate()` waits for the mutex its own thread has.
2. **An assertion of unixsock fails** (`unixsock_assert`). A round that drops one client and
   accepts another calls `update_pfds()` before `server_compact()`; its
   `LS_ASSERT(!is_dropped(c))` meets the dropped client and aborts the whole process.
3. **`kill()` of pipev2 can wait for the process it is to end** (`pipev2_kill`). `do_wait()` holds
   `child_mtx` during `waitpid()`; a process that closed its stdout and lives on cannot be
   signalled, and the caller waits, with its interpreter, for it to end by itself.
4. **With `-e`, dbus values that are left are finalized by code that is gone** (`zoo_exit`).
   `widget_destroy()` unloads the plugin before it closes the widget's interpreter, and
   `lua_close()` calls the `__gc` of every value object that still exists.
5. **xtitle and pulse can miss the change right after their start** (`desktop_start`). They ask
   for the state before they subscribe to its changes; a change between the two is not shown
   until the next one.
6. **The depth limit of the JSON decoder counts values** (`json_depth`). `recur_lim` goes down
   with every value that is met and is not given back when a nested one ends, so a flat array of
   more values than the limit is refused.

The runs show each with a counterexample; `PROJECT.json` quotes the lines. Smaller things met
while modelling, which the models contain or leave aside as said:

- `pipev2` drops the last byte of what `getdelim()` returns also when it is not the
  delimiter, so a process that ends without one loses the last character of its last line;
  `LinesInOrder` states what holds, with this exception.
- `timer` closes the FIFO after the call for it, with a touch that came meanwhile:
  `Touch` does not count it as owed.
- `dbus`: another thread may dispatch a signal before `cnx_session` and `cnx_system` are set, and
  the bus is told as `""`; `hello` is then not the first call; the timeout goes on from its last
  call, not from the last signal; a failed connection to the system bus closes the session
  connection, which all widgets share.
- `dbus`: when the second bus cannot be reached, `run()` returns and destroys its mutex while the
  subscriptions on the first still have the address of `args`, which was on its stack
  (`dbus.c:394-399`, `430-455`). If another widget of the plugin is in its main loop, it goes on to dispatch
  the signals that were queued before the connection was closed, and `callback_signal()`
  (`dbus.c:265-302`) locks and uses what is no longer there. The model has this, and `SignalsInOrder`
  speaks of what is told in the outcome in which `args` is still readable. No property says that it does not
  happen, because it does.
- `web`, sleeping: `plugins/web/README.rst:63-64` says that after a sleep the coroutine is resumed with
  a boolean, true or false. It is so only with a self-pipe: without one `action_sleep()` leaves
  `wakeup_status` as it was, not applicable, and `push_wakeup_status()` pushes nil
  (`web.c:523-543`, `318-325`). `PlannerToldOfWakeUps` claims the boolean with a self-pipe and nothing of
  a sleep without.
- `web`, headers after an error: `plugins/web/README.rst:153` says that when a request was not done
  `headers` is an empty table; the code has the field only if headers were asked for
  (`web.c:484-487`). And `with_headers`, "whether to" have them (`:131-134`), counts as set by
  its key, so that `with_headers = false` asks for them (`check_if_our_flag()`).
  `ResponseFitsRequest` claims nothing of the headers in these two cases.
- `web/opts.c`: `apply_long_nonneg` does not return `false` for a negative number.
- `mpd`: `write_quoted()` does not escape a backslash.
- `xkb` with `how = "wrongly"` reads the names of the layouts after the event of the keymap, and they
  may be set later still.
- `stdout` and `lemonbar` take the line breaks out of a text. `IsBar` compares what the barlib writes
  with elements that `Sanitized` has been applied to on both sides, so it does not show that they do.
- `lemonbar`: a line break between `%` and `{A` is taken out by the escaping, and yields a tag
  that is not marked as a click of its widget.


## 7. Only checked, and not modelled

Only model-checked:

- Everything about liveness: the prover has no rules for fairness and ENABLED.
- `Mpd`, whose property is one of liveness.

Every safety invariant that a passing run checks is also a theorem. What the recursive functions
and folds compute is proved, not assumed, for the values the proofs need: the joins of `Barlib`,
`UnrefAll` of `Zoo`, the mergesort and the binary search of `Network`, the text of `PipeV2`, the
parsers and codecs. No module of the proofs has a `RECURSIVE` operator.

Not modelled: derived plugins written in Lua (they are clients of the plugins modelled), the
remaining small libraries, headers, tests, fuzzers, examples and packaging, and the parts named in
the notes of `PROJECT.json`, mostly the conversion of values between Lua and GVariant, the formats
of the tables that cb gets, and the wrappers of the Lua libraries. Failures of memory allocation
end the process (`ls_oom()`) and are left out everywhere. Signals (`SIGPIPE` ignored, others
blocked in threads), the C library and Lua itself are taken as they are documented. GLib, libcurl,
X, PulseAudio, ALSA, libnl's counterpart in the kernel, and mpd are external; what is modelled of
them is how the plugins use them. Undefined behaviour is met in one
place, the use of `args` of dbus after `run()` has returned, and is a choice there; elsewhere a race
would show as a violation of an exclusiveness property.


## 8. What is left

1. The conversions of `dbus` (a Lua value to a GVariant of a declared type and back), with a
   reference definition of which type strings are accepted.
2. The tables cb gets from `network-linux`, `alsa` and `xkb`, and `pango_escape()`.
3. Proofs: the properties of liveness, which need another prover.
4. A property that shows what dbus does after a `run()` that fails (section 6).
5. Two hazards no property speaks of: `write_to_stdin()` of pipev2 blocks with `L` held when the
   pipe is full (`utils.c:32`); and Lua allocates while fs holds
   `dyn_mtx` (`fs.c:226`), so that a `__gc` that adds a path would lock its own thread out, as in
   disagreement 1.
