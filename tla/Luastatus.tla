------------------------------ MODULE Luastatus ------------------------------
(***************************************************************************)
(* The luastatus process (luastatus/luastatus.c): the main thread, which   *)
(* loads the widgets and the barlib, spawns one thread per widget, runs    *)
(* the barlib's event watcher, joins the threads and hangs or cleans up;   *)
(* and the widget threads, each inside its plugin's run().                 *)
(*                                                                         *)
(* Shared state: one Lua interpreter and mutex per widget (L), the         *)
(* "separate state" interpreter and mutex that string event handlers and   *)
(* stillborn widgets use, and the barlib with its set_mtx (B).  E(w) is    *)
(* the interpreter that runs w's event handler.  The plugin, the barlib    *)
(* and the widget's Lua code are the environment: they choose outcomes.    *)
(***************************************************************************)
EXTENDS Integers

CONSTANTS N,      \* nwidgets
          EFlag   \* whether -e was passed

ASSUME ConstAssumption == N \in Nat /\ EFlag \in BOOLEAN

Widgets   == 1..N
Main      == 0             \* the main thread; thread w \in Widgets runs widget w
Threads   == 0..N
SepState  == 0             \* sepstate.L; state w \in Widgets is widgets[w].L
LuaStates == 0..N
NULL      == 0             \* the value of sepstate.cur_w outside a call
Free      == -1            \* the owner of an unlocked mutex
Owners    == Threads \cup {Free}

VARIABLES
  proc,            \* the process: alive, or how it ended
  pc,              \* [Threads -> control point]
  next,            \* the main thread's loop index
  tgt,             \* the widget that the main thread's current call is about
  kind,            \* [Widgets -> uninit | live | stillborn]
  lref_event,      \* [Widgets -> BOOLEAN]: FALSE is LUA_REFNIL
  sepstate_event,  \* [Widgets -> BOOLEAN]
  sepUp,           \* sepstate.L # NULL
  cur_w,           \* sepstate.cur_w
  mtx,             \* [LuaStates -> Owners], the L_mtx of each interpreter
  set_mtx,         \* Owners, barlib.set_mtx
  top,             \* [LuaStates -> Nat], lua_gettop of each interpreter
  call,            \* [Threads -> the barlib function a thread holds B for]
  ret,             \* [Threads -> where it continues after UNLOCK_B]
  shown,           \* [Widgets -> what the barlib was last told to show]
  registered,      \* interpreters on which register_funcs() was done
  destroyed,       \* interpreters closed by the cleanup
  barlibUp         \* between barlib_init() and barlib_destroy()

widgetVars == <<kind, lref_event, sepstate_event, sepUp, registered>>
lifeVars   == <<destroyed, barlibUp>>
vars == <<proc, pc, next, tgt, kind, lref_event, sepstate_event, sepUp, cur_w, mtx,
          set_mtx, top, call, ret, shown, registered, destroyed, barlibUp>>

\* widget_event_lua_state() and widget_event_L_mtx(): the interpreter of w's event
\* handler; LOCK_E(w) locks its mutex.
E(w) == IF sepstate_event[w] THEN SepState ELSE w

\* widget_index() of the widget a thread makes its barlib calls for.
Target(t) == IF t = Main THEN tgt ELSE t

\* LS_ASSERT(c) aborts the process when c is false.
LsAssert(c) == IF c THEN "alive" ELSE "aborted"

Goto(t, l) == pc' = [pc EXCEPT ![t] = l]

\* LOCK_B() is next for thread t, then barlib function f, then control point r.
WillCallBarlib(t, f, r) ==
  /\ Goto(t, "want_B")
  /\ call' = [call EXCEPT ![t] = f]
  /\ ret' = [ret EXCEPT ![t] = r]

-----------------------------------------------------------------------------
(* The main thread, up to the point where every widget thread is spawned.  *)

\* Nothing is set up yet.
NotStarted ==
  /\ pc = [t \in Threads |-> IF t = Main THEN "widgets_init" ELSE "none"]
  /\ next = 1 /\ tgt = NULL
  /\ kind = [w \in Widgets |-> "uninit"]
  /\ lref_event = [w \in Widgets |-> FALSE]
  /\ sepstate_event = [w \in Widgets |-> FALSE]
  /\ sepUp = FALSE /\ cur_w = NULL
  /\ mtx = [s \in LuaStates |-> Free] /\ set_mtx = Free
  /\ top = [s \in LuaStates |-> 0]
  /\ call = [t \in Threads |-> "none"] /\ ret = [t \in Threads |-> "none"]
  /\ shown = [w \in Widgets |-> "blank"]
  /\ registered = {} /\ destroyed = {} /\ barlibUp = FALSE

Init == proc = "alive" /\ NotStarted

\* widget_init() of a good widget: its event is absent, a function on its own
\* interpreter, or a string compiled on the separate state (sepstate_maybe_init).
WidgetInitOk(hasEvent, inSep) ==
  /\ proc = "alive" /\ pc[Main] = "widgets_init" /\ next <= N
  /\ inSep => hasEvent
  /\ kind' = [kind EXCEPT ![next] = "live"]
  /\ lref_event' = [lref_event EXCEPT ![next] = hasEvent]
  /\ sepstate_event' = [sepstate_event EXCEPT ![next] = inSep]
  /\ sepUp' = (sepUp \/ inSep)
  /\ top' = [top EXCEPT ![next] = 1, ![SepState] = IF inSep THEN 1 ELSE @]
  /\ next' = next + 1
  /\ UNCHANGED <<proc, pc, tgt, cur_w, mtx, set_mtx, call, ret, shown, registered, lifeVars>>

\* widget_init() fails: everything it made is undone and the widget is stillborn.
WidgetInitFails ==
  /\ proc = "alive" /\ pc[Main] = "widgets_init" /\ next <= N
  /\ kind' = [kind EXCEPT ![next] = "stillborn"]
  /\ lref_event' = [lref_event EXCEPT ![next] = FALSE]
  /\ sepstate_event' = [sepstate_event EXCEPT ![next] = TRUE]
  /\ sepUp' = TRUE
  /\ top' = [top EXCEPT ![SepState] = 1]
  /\ next' = next + 1
  /\ UNCHANGED <<proc, pc, tgt, cur_w, mtx, set_mtx, call, ret, shown, registered, lifeVars>>

\* barlib_init_by_name(); on success register_funcs(sepstate.L, NULL) if it is up.
BarlibInit(ok) ==
  /\ proc = "alive" /\ pc[Main] = "widgets_init" /\ next = N + 1
  /\ barlibUp' = ok
  /\ registered' = IF ok /\ sepUp THEN registered \cup {SepState} ELSE registered
  /\ next' = 1
  /\ Goto(Main, IF ok THEN "spawn" ELSE "cleanup")
  /\ UNCHANGED <<proc, tgt, kind, lref_event, sepstate_event, sepUp, cur_w, mtx, set_mtx,
                 top, call, ret, shown, destroyed>>

\* The spawning loop on a stillborn widget: LOCK_B, set_error, UNLOCK_B.
SpawnStillborn ==
  /\ proc = "alive" /\ pc[Main] = "spawn" /\ next <= N
  /\ kind[next] = "stillborn"
  /\ tgt' = next /\ next' = next + 1
  /\ WillCallBarlib(Main, "set_error", "spawn")
  /\ UNCHANGED <<proc, cur_w, mtx, set_mtx, top, shown, widgetVars, lifeVars>>

\* The spawning loop on a live widget, first half: register_funcs(w->L, w), which
\* uses the interpreter without its mutex.
SpawnRegister ==
  /\ proc = "alive" /\ pc[Main] = "spawn" /\ next <= N
  /\ kind[next] = "live"
  /\ registered' = registered \cup {next}
  /\ Goto(Main, "create")
  /\ UNCHANGED <<proc, next, tgt, kind, lref_event, sepstate_event, sepUp, cur_w, mtx,
                 set_mtx, top, call, ret, shown, lifeVars>>

\* Second half: pthread_create(); the new thread enters its plugin's run().
SpawnCreate ==
  /\ proc = "alive" /\ pc[Main] = "create"
  /\ pc' = [pc EXCEPT ![next] = "run", ![Main] = "spawn"]
  /\ next' = next + 1
  /\ UNCHANGED <<proc, tgt, cur_w, mtx, set_mtx, top, call, ret, shown, widgetVars, lifeVars>>

\* The loop is over: the barlib's event_watcher(), if it has one, is entered.
StartEventWatcher ==
  /\ proc = "alive" /\ pc[Main] = "spawn" /\ next = N + 1
  /\ Goto(Main, "ew")
  /\ UNCHANGED <<proc, next, tgt, cur_w, mtx, set_mtx, top, call, ret, shown, widgetVars, lifeVars>>

-----------------------------------------------------------------------------
(* A widget thread: the plugin's run() and the call_* functions it is given. *)

\* The plugin has something to report and calls call_begin().
PluginWantsCall(w) ==
  /\ proc = "alive" /\ pc[w] = "run"
  /\ Goto(w, "want_L")
  /\ UNCHANGED <<proc, next, tgt, cur_w, mtx, set_mtx, top, call, ret, shown, widgetVars, lifeVars>>

\* plugin_call_begin(): LOCK_L, the stack check, push the cb.
PluginCallBegin(w) ==
  /\ proc = "alive" /\ pc[w] = "want_L"
  /\ mtx[w] = Free
  /\ mtx' = [mtx EXCEPT ![w] = w]
  /\ proc' = LsAssert(top[w] = 1)
  /\ top' = [top EXCEPT ![w] = @ + 1]
  /\ Goto(w, "begun")
  /\ UNCHANGED <<next, tgt, cur_w, set_mtx, call, ret, shown, widgetVars, lifeVars>>

\* The plugin pushes the one argument of the cb.
PluginPush(w) ==
  /\ proc = "alive" /\ pc[w] = "begun"
  /\ top' = [top EXCEPT ![w] = @ + 1]
  /\ Goto(w, "pushed")
  /\ UNCHANGED <<proc, next, tgt, cur_w, mtx, set_mtx, call, ret, shown, widgetVars, lifeVars>>

\* plugin_call_end(): the stack check; the cb is about to run under L.
PluginCallEnd(w) ==
  /\ proc = "alive" /\ pc[w] = "pushed"
  /\ proc' = LsAssert(top[w] = 3)
  /\ Goto(w, "pcall")
  /\ UNCHANGED <<next, tgt, cur_w, mtx, set_mtx, top, call, ret, shown, widgetVars, lifeVars>>

\* Mutant: L is unlocked before the call into the barlib.
PluginPcallUnlocks(w, ok) ==
  /\ proc = "alive" /\ pc[w] = "pcall"
  /\ top' = [top EXCEPT ![w] = IF ok THEN @ - 1 ELSE @ - 2]
  /\ WillCallBarlib(w, IF ok THEN "set" ELSE "set_error", "unlock_L")
  /\ mtx' = [mtx EXCEPT ![w] = Free]
  /\ UNCHANGED <<proc, next, tgt, cur_w, set_mtx, shown, widgetVars, lifeVars>>

\* do_lua_call(L, 1, 1) in plugin_call_end(): the cb and its argument are replaced
\* by its result, or by nothing when it raised an error; then LOCK_B is next.
PluginPcall(w, ok) ==
  /\ proc = "alive" /\ pc[w] = "pcall"
  /\ top' = [top EXCEPT ![w] = IF ok THEN @ - 1 ELSE @ - 2]
  /\ WillCallBarlib(w, IF ok THEN "set" ELSE "set_error", "unlock_L")
  /\ UNCHANGED <<proc, next, tgt, cur_w, mtx, set_mtx, shown, widgetVars, lifeVars>>

\* Mutant: UNLOCK_L is forgotten.
PluginUnlockForgets(w) ==
  /\ proc = "alive" /\ pc[w] = "unlock_L"
  /\ mtx' = mtx
  /\ Goto(w, "run")
  /\ UNCHANGED <<proc, next, tgt, cur_w, set_mtx, top, call, ret, shown, widgetVars, lifeVars>>

\* UNLOCK_L at the end of plugin_call_end(): back in the plugin's run().
PluginUnlock(w) ==
  /\ proc = "alive" /\ pc[w] = "unlock_L"
  /\ mtx' = [mtx EXCEPT ![w] = Free]
  /\ Goto(w, "run")
  /\ UNCHANGED <<proc, next, tgt, cur_w, set_mtx, top, call, ret, shown, widgetVars, lifeVars>>

\* Mutant: UNLOCK_L is forgotten.
PluginCallCancelKeepsL(w) ==
  /\ proc = "alive" /\ pc[w] \in {"begun", "pushed"}
  /\ top' = [top EXCEPT ![w] = 1]
  /\ mtx' = mtx
  /\ Goto(w, "run")
  /\ UNCHANGED <<proc, next, tgt, cur_w, set_mtx, call, ret, shown, widgetVars, lifeVars>>

\* plugin_call_cancel(): whatever the plugin pushed is dropped.
PluginCallCancel(w) ==
  /\ proc = "alive" /\ pc[w] \in {"begun", "pushed"}
  /\ top' = [top EXCEPT ![w] = 1]
  /\ mtx' = [mtx EXCEPT ![w] = Free]
  /\ Goto(w, "run")
  /\ UNCHANGED <<proc, next, tgt, cur_w, set_mtx, call, ret, shown, widgetVars, lifeVars>>

\* Mutant: set_error() is called without B.
PluginRunReturnsNoLock(w) ==
  /\ proc = "alive" /\ pc[w] = "run"
  /\ Goto(w, "set_error")
  /\ call' = [call EXCEPT ![w] = "set_error"]
  /\ ret' = [ret EXCEPT ![w] = "done"]
  /\ UNCHANGED <<proc, next, tgt, cur_w, mtx, set_mtx, top, shown, widgetVars, lifeVars>>

\* run() returns in widget_thread(): set_error() under B, then the thread ends.
PluginRunReturns(w) ==
  /\ proc = "alive" /\ pc[w] = "run"
  /\ WillCallBarlib(w, "set_error", "done")
  /\ UNCHANGED <<proc, next, tgt, cur_w, mtx, set_mtx, top, shown, widgetVars, lifeVars>>

-----------------------------------------------------------------------------
(* Calls into the barlib, from any thread.                                 *)

LockB(t) ==
  /\ proc = "alive" /\ pc[t] = "want_B"
  /\ set_mtx = Free
  /\ set_mtx' = t
  /\ Goto(t, call[t])
  /\ UNCHANGED <<proc, next, tgt, cur_w, mtx, top, call, ret, shown, widgetVars, lifeVars>>

\* barlib.iface.set(): OK shows the value; a non-fatal error is followed by
\* set_error_unlocked(); a fatal one ends the process.  It may leave values on the stack.
BarlibSet(t, result, junk) ==
  /\ proc = "alive" /\ pc[t] = "set"
  /\ shown' = [shown EXCEPT ![Target(t)] = IF result = "ok" THEN "value" ELSE @]
  /\ proc' = IF result = "err" THEN "fatal" ELSE "alive"
  /\ Goto(t, IF result = "nonfatal" THEN "set_error" ELSE "unlock_B")
  /\ top' = [top EXCEPT ![t] = @ + junk]
  /\ UNCHANGED <<next, tgt, cur_w, mtx, set_mtx, call, ret, widgetVars, lifeVars>>

\* set_error_unlocked(): an error of the barlib is fatal.
BarlibSetError(t, ok) ==
  /\ proc = "alive" /\ pc[t] = "set_error"
  /\ shown' = [shown EXCEPT ![Target(t)] = IF ok THEN "error" ELSE @]
  /\ proc' = IF ok THEN "alive" ELSE "fatal"
  /\ Goto(t, "unlock_B")
  /\ UNCHANGED <<next, tgt, cur_w, mtx, set_mtx, top, call, ret, widgetVars, lifeVars>>

\* Mutant: lua_settop(L, 1) is forgotten.
UnlockBNoSettop(t) ==
  /\ proc = "alive" /\ pc[t] = "unlock_B"
  /\ top' = top
  /\ set_mtx' = Free
  /\ Goto(t, ret[t])
  /\ UNCHANGED <<proc, next, tgt, cur_w, mtx, call, ret, shown, widgetVars, lifeVars>>

\* UNLOCK_B, after the lua_settop(L, 1) that follows a successful cb.
UnlockB(t) ==
  /\ proc = "alive" /\ pc[t] = "unlock_B"
  /\ top' = IF call[t] = "set" THEN [top EXCEPT ![t] = 1] ELSE top
  /\ set_mtx' = Free
  /\ Goto(t, ret[t])
  /\ UNCHANGED <<proc, next, tgt, cur_w, mtx, call, ret, shown, widgetVars, lifeVars>>

-----------------------------------------------------------------------------
(* The barlib's event watcher, on the main thread.                         *)

\* The event watcher has an event for widget w and calls ew_call_begin().
EwWantsCall(w) ==
  /\ proc = "alive" /\ pc[Main] = "ew"
  /\ tgt' = w
  /\ Goto(Main, "want_E")
  /\ UNCHANGED <<proc, next, cur_w, mtx, set_mtx, top, call, ret, shown, widgetVars, lifeVars>>

\* ew_call_begin(): LOCK_E, possibly_sepstate_call_begin(), the stack check, push the handler.
EwCallBegin ==
  /\ proc = "alive" /\ pc[Main] = "want_E"
  /\ mtx[E(tgt)] = Free
  /\ mtx' = [mtx EXCEPT ![E(tgt)] = Main]
  /\ cur_w' = IF sepstate_event[tgt] THEN tgt ELSE cur_w
  /\ proc' = LsAssert(top[E(tgt)] = 1)
  /\ top' = [top EXCEPT ![E(tgt)] = @ + 1]
  /\ Goto(Main, "ew_begun")
  /\ UNCHANGED <<next, tgt, set_mtx, call, ret, shown, widgetVars, lifeVars>>

EwPush ==
  /\ proc = "alive" /\ pc[Main] = "ew_begun"
  /\ top' = [top EXCEPT ![E(tgt)] = @ + 1]
  /\ Goto(Main, "ew_pushed")
  /\ UNCHANGED <<proc, next, tgt, cur_w, mtx, set_mtx, call, ret, shown, widgetVars, lifeVars>>

\* ew_call_end(): the stack check; without a handler the event is popped, else it is
\* about to run under E.
EwCallEnd ==
  /\ proc = "alive" /\ pc[Main] = "ew_pushed"
  /\ proc' = LsAssert(top[E(tgt)] = 3)
  /\ top' = IF lref_event[tgt] THEN top ELSE [top EXCEPT ![E(tgt)] = @ - 2]
  /\ Goto(Main, IF lref_event[tgt] THEN "ew_pcall" ELSE "unlock_E")
  /\ UNCHANGED <<next, tgt, cur_w, mtx, set_mtx, call, ret, shown, widgetVars, lifeVars>>

\* do_lua_call(L, 1, 0) in ew_call_end(); an error is reported under B.
EwPcall(ok) ==
  /\ proc = "alive" /\ pc[Main] = "ew_pcall"
  /\ top' = [top EXCEPT ![E(tgt)] = @ - 2]
  /\ IF ok THEN Goto(Main, "unlock_E") /\ UNCHANGED <<call, ret>>
           ELSE WillCallBarlib(Main, "set_error", "unlock_E")
  /\ UNCHANGED <<proc, next, tgt, cur_w, mtx, set_mtx, shown, widgetVars, lifeVars>>

\* Mutant: UNLOCK_E is forgotten.
EwUnlockForgets ==
  /\ proc = "alive" /\ pc[Main] = "unlock_E"
  /\ cur_w' = IF sepstate_event[tgt] THEN NULL ELSE cur_w
  /\ mtx' = mtx
  /\ Goto(Main, "ew")
  /\ UNCHANGED <<proc, next, tgt, set_mtx, top, call, ret, shown, widgetVars, lifeVars>>

\* possibly_sepstate_call_end() and UNLOCK_E.
EwUnlock ==
  /\ proc = "alive" /\ pc[Main] = "unlock_E"
  /\ cur_w' = IF sepstate_event[tgt] THEN NULL ELSE cur_w
  /\ mtx' = [mtx EXCEPT ![E(tgt)] = Free]
  /\ Goto(Main, "ew")
  /\ UNCHANGED <<proc, next, tgt, set_mtx, top, call, ret, shown, widgetVars, lifeVars>>

\* ew_call_cancel().
EwCallCancel ==
  /\ proc = "alive" /\ pc[Main] \in {"ew_begun", "ew_pushed"}
  /\ top' = [top EXCEPT ![E(tgt)] = 1]
  /\ cur_w' = IF sepstate_event[tgt] THEN NULL ELSE cur_w
  /\ mtx' = [mtx EXCEPT ![E(tgt)] = Free]
  /\ Goto(Main, "ew")
  /\ UNCHANGED <<proc, next, tgt, set_mtx, call, ret, shown, widgetVars, lifeVars>>

\* event_watcher() returns (or is absent); LUASTATUS_ERR is fatal.
EwReturns(ok) ==
  /\ proc = "alive" /\ pc[Main] = "ew"
  /\ proc' = IF ok THEN "alive" ELSE "fatal"
  /\ next' = 1
  /\ Goto(Main, "join")
  /\ UNCHANGED <<tgt, cur_w, mtx, set_mtx, top, call, ret, shown, widgetVars, lifeVars>>

-----------------------------------------------------------------------------
(* The end of main().                                                      *)

\* Mutant: pthread_join() is forgotten.
JoinDoesNotWait ==
  /\ proc = "alive" /\ pc[Main] = "join" /\ next <= N
  /\ next' = next + 1
  /\ UNCHANGED <<proc, pc, tgt, cur_w, mtx, set_mtx, top, call, ret, shown, widgetVars, lifeVars>>

\* pthread_join() of the next widget thread; stillborn widgets have none.
Join ==
  /\ proc = "alive" /\ pc[Main] = "join" /\ next <= N
  /\ kind[next] = "live" => pc[next] = "done"
  /\ next' = next + 1
  /\ UNCHANGED <<proc, pc, tgt, cur_w, mtx, set_mtx, top, call, ret, shown, widgetVars, lifeVars>>

\* Mutant: -e is ignored.
AllJoinedNeverExits ==
  /\ proc = "alive" /\ pc[Main] = "join" /\ next = N + 1
  /\ next' = 1
  /\ Goto(Main, "hang")
  /\ UNCHANGED <<proc, tgt, cur_w, mtx, set_mtx, top, call, ret, shown, widgetVars, lifeVars>>

\* All threads are joined: with -e go to the cleanup, else hang in pause().
AllJoined ==
  /\ proc = "alive" /\ pc[Main] = "join" /\ next = N + 1
  /\ next' = 1
  /\ Goto(Main, IF EFlag THEN "cleanup" ELSE "hang")
  /\ UNCHANGED <<proc, tgt, cur_w, mtx, set_mtx, top, call, ret, shown, widgetVars, lifeVars>>

Hang == proc = "alive" /\ pc[Main] = "hang" /\ UNCHANGED vars

\* widget_destroy() of the next widget.
DestroyWidget ==
  /\ proc = "alive" /\ pc[Main] = "cleanup" /\ next <= N
  /\ destroyed' = IF kind[next] = "live" THEN destroyed \cup {next} ELSE destroyed
  /\ next' = next + 1
  /\ UNCHANGED <<proc, pc, tgt, cur_w, mtx, set_mtx, top, call, ret, shown, widgetVars, barlibUp>>

\* barlib_destroy(), sepstate_maybe_destroy(), and main() returns.
DestroyRest ==
  /\ proc = "alive" /\ pc[Main] = "cleanup" /\ next = N + 1
  /\ barlibUp' = FALSE
  /\ destroyed' = IF sepUp THEN destroyed \cup {SepState} ELSE destroyed
  /\ proc' = "exited"
  /\ UNCHANGED <<pc, next, tgt, cur_w, mtx, set_mtx, top, call, ret, shown, widgetVars>>

\* l_os_exit(): Lua code ends the process from a widget file, a cb or an event handler.
OsExit(t) ==
  /\ proc = "alive"
  /\ pc[t] \in {"pcall", "ew_pcall"} \/ (pc[t] = "widgets_init" /\ next <= N)
  /\ proc' = "exited"
  /\ UNCHANGED <<pc, next, tgt, cur_w, mtx, set_mtx, top, call, ret, shown, widgetVars, lifeVars>>

\* The process is no more.
Ended == proc # "alive" /\ UNCHANGED vars
-----------------------------------------------------------------------------
StartUp ==
  \/ \E hasEvent, inSep \in BOOLEAN : WidgetInitOk(hasEvent, inSep)
  \/ WidgetInitFails
  \/ \E ok \in BOOLEAN : BarlibInit(ok)
  \/ SpawnStillborn \/ SpawnRegister \/ SpawnCreate \/ StartEventWatcher

PluginStep(w) ==
  \/ PluginWantsCall(w) \/ PluginCallBegin(w) \/ PluginPush(w) \/ PluginCallEnd(w)
  \/ \E ok \in BOOLEAN : PluginPcall(w, ok)
  \/ PluginUnlock(w) \/ PluginCallCancel(w) \/ PluginRunReturns(w)

BarlibStep(t) ==
  \/ LockB(t)
  \/ \E r \in {"ok", "nonfatal", "err"}, junk \in 0..1 : BarlibSet(t, r, junk)
  \/ \E ok \in BOOLEAN : BarlibSetError(t, ok)
  \/ UnlockB(t)

EventStep ==
  \/ \E w \in Widgets : EwWantsCall(w)
  \/ EwCallBegin \/ EwPush \/ EwCallEnd
  \/ \E ok \in BOOLEAN : EwPcall(ok)
  \/ EwUnlock \/ EwCallCancel
  \/ \E ok \in BOOLEAN : EwReturns(ok)

ShutDown == Join \/ AllJoined \/ Hang \/ DestroyWidget \/ DestroyRest

Next ==
  \/ StartUp
  \/ \E w \in Widgets : PluginStep(w)
  \/ \E t \in Threads : BarlibStep(t) \/ OsExit(t)
  \/ EventStep
  \/ ShutDown
  \/ Ended

Spec == Init /\ [][Next]_vars

-----------------------------------------------------------------------------
(* Control points, named for what a thread is doing there.                 *)

InBarlib     == {"set", "set_error", "unlock_B"}            \* holds B
AroundBarlib == {"want_B"} \cup InBarlib
PluginPCs    == {"none", "run", "want_L", "begun", "pushed", "pcall", "unlock_L", "done"}
                  \cup AroundBarlib
MainPCs      == {"widgets_init", "spawn", "create", "ew", "want_E", "ew_begun", "ew_pushed",
                 "ew_pcall", "unlock_E", "join", "hang", "cleanup", "want_B", "set_error",
                 "unlock_B"}

\* Widget thread w is between LOCK_L and UNLOCK_L.
InPluginCall(w) ==
  \/ pc[w] \in {"begun", "pushed", "pcall", "unlock_L"}
  \/ pc[w] \in AroundBarlib /\ ret[w] = "unlock_L"

\* The main thread is between LOCK_E and UNLOCK_E.
InEventCall ==
  \/ pc[Main] \in {"ew_begun", "ew_pushed", "ew_pcall", "unlock_E"}
  \/ pc[Main] \in AroundBarlib /\ ret[Main] = "unlock_E"

\* The main thread is in the event watcher or past it.
Spawned ==
  \/ pc[Main] \in {"ew", "want_E", "join", "hang"}
  \/ InEventCall

\* Thread t may be executing on interpreter s.
Uses(t, s) ==
  \/ t # Main /\ s = t /\ InPluginCall(t)
  \/ t = Main /\ InEventCall /\ s = E(tgt)
  \/ t = Main /\ pc[Main] \in {"widgets_init", "spawn", "cleanup"} /\ next <= N /\ s = next
  \/ t = Main /\ pc[Main] \in {"widgets_init", "cleanup"} /\ next = N + 1 /\ s = SepState

TypeOK ==
  /\ proc \in {"alive", "fatal", "aborted", "exited"}
  /\ pc \in [Threads -> MainPCs \cup PluginPCs]
  /\ pc[Main] \in MainPCs /\ \A w \in Widgets : pc[w] \in PluginPCs
  /\ next \in 1..(N + 1) /\ tgt \in 0..N
  /\ kind \in [Widgets -> {"uninit", "live", "stillborn"}]
  /\ lref_event \in [Widgets -> BOOLEAN] /\ sepstate_event \in [Widgets -> BOOLEAN]
  /\ sepUp \in BOOLEAN /\ cur_w \in 0..N
  /\ mtx \in [LuaStates -> Owners] /\ set_mtx \in Owners
  /\ top \in [LuaStates -> Int]
  /\ call \in [Threads -> {"none", "set", "set_error"}]
  /\ ret \in [Threads -> {"none", "unlock_L", "unlock_E", "spawn", "done"}]
  /\ shown \in [Widgets -> {"blank", "value", "error"}]
  /\ registered \subseteq LuaStates /\ destroyed \subseteq LuaStates
  /\ barlibUp \in BOOLEAN

\* A Lua interpreter is never used by two threads at once: neither by a cb and an
\* event handler, nor by the unlocked register_funcs() and lua_close() of main().
LuaStateExclusive ==
  \A s \in LuaStates : \A t, u \in Threads : Uses(t, s) /\ Uses(u, s) => t = u

\* barlib.set() and barlib.set_error() never run concurrently.
BarlibExclusive ==
  \A t, u \in Threads : pc[t] \in InBarlib /\ pc[u] \in InBarlib => t = u

\* None of the LS_ASSERTs on the height of a Lua stack ever fails, whatever sequence
\* of completed, failed and cancelled calls came before.
NoAssertFails == proc # "aborted"

\* DOCS/design/locking-patterns.md: the order is E < L < B, and no mutex is locked
\* twice, so that whoever holds B waits for no lock and whoever waits for L or E has none.
LockOrder ==
  \A t \in Threads :
    /\ pc[t] \in {"want_L", "want_E"} => set_mtx # t /\ \A s \in LuaStates : mtx[s] # t
    /\ pc[t] = "want_B" => set_mtx # t
    /\ set_mtx = t => pc[t] \in InBarlib

\* The cleanup destroys a widget, the barlib or the separate state only when no
\* widget thread can reach it any more.
NoUseAfterDestroy ==
  destroyed # {} => \A w \in Widgets : pc[w] \in {"none", "done"}

-----------------------------------------------------------------------------
(* Liveness.  Plugins and event watchers owe no call and no return; but a  *)
(* begun call is ended or cancelled, Lua code and barlib calls return, and *)
(* a mutex that is released again and again is eventually acquired.        *)

Fairness ==
  /\ WF_vars(StartUp) /\ WF_vars(ShutDown)
  /\ \A w \in Widgets :
       /\ SF_vars(PluginCallBegin(w))
       /\ WF_vars(PluginPush(w)) /\ WF_vars(PluginCallEnd(w))
       /\ WF_vars(\E ok \in BOOLEAN : PluginPcall(w, ok))
       /\ WF_vars(PluginUnlock(w))
  /\ \A t \in Threads :
       /\ SF_vars(LockB(t))
       /\ WF_vars(BarlibStep(t))
  /\ SF_vars(EwCallBegin)
  /\ WF_vars(EwPush) /\ WF_vars(EwCallEnd) /\ WF_vars(EwUnlock)
  /\ WF_vars(\E ok \in BOOLEAN : EwPcall(ok))

FairSpec == Spec /\ Fairness

\* Every plugin call that is begun comes back to the plugin, unless the process ends.
CallsReturn ==
  \A w \in Widgets : pc[w] = "want_L" ~> (pc[w] = "run" \/ proc # "alive")

\* Every event reaches its widget's interpreter, and the event watcher gets control back.
EventsReturn == pc[Main] = "want_E" ~> (pc[Main] = "ew" \/ proc # "alive")

\* With -e the process exits once the event watcher and every run() have returned.
ExitsWhenAllReturned ==
  (EFlag /\ pc[Main] = "join" /\ \A w \in Widgets : kind[w] = "live" =>
      pc[w] = "done" \/ (pc[w] \in AroundBarlib /\ ret[w] = "done")) ~> (proc # "alive")
=============================================================================
