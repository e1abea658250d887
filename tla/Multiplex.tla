------------------------------ MODULE Multiplex ------------------------------
(***************************************************************************)
(* The multiplex plugin: widgets that run nested widgets (multiplex.c,     *)
(* runner.c, map_ref.c).  Each multiplexing widget has a thread in run(),  *)
(* each nested widget one in runner_run(); call_event() runs on the thread *)
(* of whoever calls it: the event watcher's, in the widget's event         *)
(* handler, or the widget's own, in its cb.  conq.c is the module Conq;    *)
(* here its two operations are one step each.                              *)
(***************************************************************************)
EXTENDS Integers, FiniteSets

CONSTANTS Muxes,   \* widgets with the multiplex plugin
          MxSources, \* data sources of each
          Greets,  \* the widgets with the greet option
          OnL,     \* the widgets whose event handler is a function, so runs under L
          Ew,      \* the thread of the event watcher
          None     \* nobody, nothing, NULL

Sources == 1..MxSources
Nested  == Muxes \X Sources   \* the nested widgets, and their threads
Callers == Muxes \cup {Ew}    \* the threads that call call_event()

ASSUME MultiplexAssumption ==
  /\ MxSources \in Nat \ {0} /\ Greets \subseteq Muxes /\ OnL \subseteq Muxes
  /\ Ew \notin Muxes /\ None \notin Callers /\ Nested \cap (Callers \cup {None}) = {}
  /\ None # "live" /\ None \notin [holder : Muxes \cup {None}, nrefs : Nat]

VARIABLES phase,     \* of main(): "init" the widgets one by one, or "threads"
          control,   \* the value of "plugin-init-mtx": None, or its holder and nrefs
          mpc,       \* [Muxes -> control point of init() and run()]
          nxt,       \* [Muxes -> i of the loops in run()]
          L,         \* [Muxes -> holder of the widget's own L]
          runner,    \* [Nested -> what p->rtdata.runners[i] is: None or "live"]
          published, \* the widgets whose p->runners is set
          handler,   \* the nested widgets that have an event function
          nestedL,   \* [Nested -> holder of its L_mtx]
          mtop,      \* [Nested -> lua_gettop() of its interpreter]
          npc,       \* [Nested -> control point of its thread]
          bits,      \* q->new_data_mask, as the set of nested widgets it stands for
          epc,       \* [Callers -> control point in l_call_event()]
          target,    \* [Callers -> the nested widget it is for, or None]
          answer,    \* [Callers -> what call_event() returns or throws]
          aborted    \* whether an LS_ASSERT failed

initvars   == <<phase, control>>
muxvars    == <<mpc, nxt, L, runner, published, handler>>
nestedvars == <<nestedL, mtop, npc, bits>>
callvars   == <<epc, target, answer>>
mxvars == <<initvars, muxvars, nestedvars, callvars, aborted>>

MxStart(p, l) ==
  /\ phase = p /\ control = None
  /\ mpc = [m \in Muxes |-> l]
  /\ nxt = [m \in Muxes |-> 1]
  /\ L = [m \in Muxes |-> None]
  /\ runner = [r \in Nested |-> None]
  /\ published = {} /\ handler = {}
  /\ nestedL = [r \in Nested |-> None]
  /\ mtop = [r \in Nested |-> 0]
  /\ npc = [r \in Nested |-> "none"]
  /\ bits = {}
  /\ epc = [c \in Callers |-> "idle"]
  /\ target = [c \in Callers |-> None]
  /\ answer = [c \in Callers |-> None]
  /\ aborted = FALSE

MxInit == MxStart("init", "uninit")
MxOff  == MxStart("off", "stillborn")

MxAssert(e) == aborted' = (aborted \/ ~e)
MGoto(m, l) == mpc' = [mpc EXCEPT ![m] = l]

\* map_ref_init() and map_ref_destroy()
MapRef(c)   == IF c = None THEN [holder |-> None, nrefs |-> 1] ELSE [c EXCEPT !.nrefs = @ + 1]
MapUnref(c) == IF c.nrefs = 1 THEN None ELSE [c EXCEPT !.nrefs = @ - 1]
-----------------------------------------------------------------------------
\* init() of a multiplexing widget, on the main thread.
InitOk(m) ==
  /\ phase = "init" /\ mpc[m] = "uninit"
  /\ control' = MapRef(control)
  /\ MGoto(m, "ready")
  /\ UNCHANGED <<phase, nxt, L, runner, published, handler, nestedvars, callvars, aborted>>

\* Mutant: the options are parsed before map_ref_init().
InitFailsBeforeRef(m) ==
  /\ phase = "init" /\ mpc[m] = "uninit"
  /\ control' = IF control = None THEN None ELSE MapUnref(control)
  /\ MGoto(m, "stillborn")
  /\ UNCHANGED <<phase, nxt, L, runner, published, handler, nestedvars, callvars, aborted>>

\* init() fails on its options, after map_ref_init(), and calls destroy().
InitFails(m) ==
  /\ phase = "init" /\ mpc[m] = "uninit"
  /\ control' = MapUnref(MapRef(control))
  /\ MGoto(m, "stillborn")
  /\ UNCHANGED <<phase, nxt, L, runner, published, handler, nestedvars, callvars, aborted>>

\* main() starts the widgets' threads and the event watcher.
StartThreads ==
  /\ phase = "init" /\ \A m \in Muxes : mpc[m] # "uninit"
  /\ phase' = "threads"
  /\ UNCHANGED <<control, muxvars, nestedvars, callvars, aborted>>
\* With no widget alive main() has nothing to do but hang.
MxHang ==
  /\ phase = "threads" /\ \A m \in Muxes : mpc[m] = "stillborn"
  /\ UNCHANGED mxvars
-----------------------------------------------------------------------------
\* run(): map_ref_lock_mtx()
LockInit(m) ==
  /\ phase = "threads" /\ mpc[m] = "ready" /\ control.holder = None
  /\ control' = [control EXCEPT !.holder = m]
  /\ MGoto(m, "create")
  /\ UNCHANGED <<phase, nxt, L, runner, published, handler, nestedvars, callvars, aborted>>

\* runner_new() enters widget_init(): a new interpreter, and the nested plugin's init().
RunnerNew(m) ==
  /\ mpc[m] = "create" /\ nxt[m] \in Sources
  /\ mtop' = [mtop EXCEPT ![<<m, nxt[m]>>] = 1]
  /\ MGoto(m, "creating")
  /\ UNCHANGED <<initvars, nxt, L, runner, published, handler, nestedL, npc, bits, callvars,
                 aborted>>

\* runner_new() succeeds, for a nested widget with an event function or without; a nested
\* widget that is a multiplexer itself takes a reference of its own.
RunnerNewOk(m, h, mux) ==
  /\ mpc[m] = "creating"
  /\ runner' = [runner EXCEPT ![<<m, nxt[m]>>] = "live"]
  /\ handler' = IF h THEN handler \cup {<<m, nxt[m]>>} ELSE handler
  /\ control' = IF mux THEN MapRef(control) ELSE control
  /\ nxt' = [nxt EXCEPT ![m] = @ + 1]
  /\ MGoto(m, "create")
  /\ UNCHANGED <<phase, L, published, nestedvars, callvars, aborted>>

\* runner_new() returns NULL.
RunnerNewFails(m, mux) ==
  /\ mpc[m] = "creating"
  /\ control' = IF mux THEN MapUnref(MapRef(control)) ELSE control
  /\ mtop' = [mtop EXCEPT ![<<m, nxt[m]>>] = 0]
  /\ nxt' = [nxt EXCEPT ![m] = @ + 1]
  /\ MGoto(m, "create")
  /\ UNCHANGED <<phase, L, runner, published, handler, nestedL, npc, bits, callvars, aborted>>

\* map_ref_unlock_mtx()
UnlockInit(m) ==
  /\ mpc[m] = "create" /\ nxt[m] \notin Sources
  /\ control' = [control EXCEPT !.holder = None]
  /\ MGoto(m, "publish")
  /\ UNCHANGED <<phase, nxt, L, runner, published, handler, nestedvars, callvars, aborted>>

\* p->runners = p->rtdata.runners, under runners_mtx.
Publish(m) ==
  /\ mpc[m] = "publish"
  /\ published' = published \cup {m}
  /\ nxt' = [nxt EXCEPT ![m] = 1]
  /\ MGoto(m, IF m \in Greets THEN "hello" ELSE "spawn")
  /\ UNCHANGED <<initvars, L, runner, handler, nestedvars, callvars, aborted>>

\* pthread_create() for the next nested widget; it may fail, which is only logged.
Spawn(m, ok) ==
  /\ mpc[m] = "spawn" /\ nxt[m] \in Sources
  /\ IF runner[<<m, nxt[m]>>] = "live" /\ ok
     THEN npc' = [npc EXCEPT ![<<m, nxt[m]>>] = "run"] ELSE UNCHANGED npc
  /\ nxt' = [nxt EXCEPT ![m] = @ + 1]
  /\ MGoto(m, IF nxt[m] = MxSources THEN "fetch" ELSE "spawn")
  /\ UNCHANGED <<initvars, L, runner, published, handler, nestedL, mtop, bits, callvars, aborted>>

\* conq_fetch_updates()
OfMux(m) == {r \in Nested : r[1] = m}
Fetch(m) ==
  /\ mpc[m] = "fetch" /\ bits \cap OfMux(m) # {}
  /\ bits' = bits \ OfMux(m)
  /\ MGoto(m, "update")
  /\ UNCHANGED <<initvars, nxt, L, runner, published, handler, nestedL, mtop, npc, callvars,
                 aborted>>

\* make_call_simple() and make_call_update(): call_begin, and the widget's cb is called,
CallBegin(m) ==
  /\ mpc[m] \in {"hello", "update"} /\ L[m] = None
  /\ L' = [L EXCEPT ![m] = m]
  /\ MGoto(m, IF mpc[m] = "hello" THEN "hello_cb" ELSE "update_cb")
  /\ UNCHANGED <<initvars, nxt, runner, published, handler, nestedvars, callvars, aborted>>

\* and returns.
CallEnd(m) ==
  /\ mpc[m] \in {"hello_cb", "update_cb"} /\ epc[m] = "idle"
  /\ L' = [L EXCEPT ![m] = None]
  /\ MGoto(m, IF mpc[m] = "hello_cb" THEN "spawn" ELSE "fetch")
  /\ UNCHANGED <<initvars, nxt, runner, published, handler, nestedvars, callvars, aborted>>
-----------------------------------------------------------------------------
NGoto(r, l) == npc' = [npc EXCEPT ![r] = l]
unchangedByNested == <<initvars, muxvars, callvars>>

\* plugin_call_begin() of a nested widget's plugin; it pushes cb on the stack,
NCallBegin(r) ==
  /\ npc[r] = "run" /\ nestedL[r] = None
  /\ nestedL' = [nestedL EXCEPT ![r] = r]
  /\ MxAssert(mtop[r] = 1)
  /\ mtop' = [mtop EXCEPT ![r] = @ + 1]
  /\ NGoto(r, "begun")
  /\ UNCHANGED <<bits, unchangedByNested>>

\* the plugin pushes the data,
NPush(r) ==
  /\ npc[r] = "begun"
  /\ mtop' = [mtop EXCEPT ![r] = @ + 1]
  /\ NGoto(r, "pushed")
  /\ UNCHANGED <<nestedL, bits, aborted, unchangedByNested>>

\* plugin_call_end() calls cb and recv_callback(); an equal content sets no bit.
NCallEnd(r, new) ==
  /\ npc[r] = "pushed"
  /\ MxAssert(mtop[r] = 3)
  /\ mtop' = [mtop EXCEPT ![r] = @ - 1]
  /\ bits' = IF new THEN bits \cup {r} ELSE bits
  /\ NGoto(r, "called")
  /\ UNCHANGED <<nestedL, unchangedByNested>>

\* lua_settop(L, 1) and UNLOCK_L, at the end of plugin_call_end() or plugin_call_cancel().
NUnlock(r) ==
  /\ npc[r] \in {"begun", "pushed", "called"}
  /\ mtop' = [mtop EXCEPT ![r] = 1]
  /\ nestedL' = [nestedL EXCEPT ![r] = None]
  /\ NGoto(r, "run")
  /\ UNCHANGED <<bits, aborted, unchangedByNested>>

\* runner_run(): the plugin's run() has returned.
NReturn(r) ==
  /\ npc[r] = "run"
  /\ bits' = bits \cup {r}
  /\ NGoto(r, "exited")
  /\ UNCHANGED <<nestedL, mtop, aborted, unchangedByNested>>
-----------------------------------------------------------------------------
EGoto(c, l) == epc' = [epc EXCEPT ![c] = l]
unchangedByCall == <<initvars, mpc, nxt, runner, published, handler, npc, bits>>

\* The widget's event handler runs and calls call_event().
EventHandler(r) ==
  /\ phase = "threads" /\ mpc[r[1]] # "stillborn" /\ epc[Ew] = "idle"
  /\ r[1] \in OnL => L[r[1]] = None
  /\ L' = IF r[1] \in OnL THEN [L EXCEPT ![r[1]] = Ew] ELSE L
  /\ EGoto(Ew, "lookup")
  /\ target' = [target EXCEPT ![Ew] = r]
  /\ UNCHANGED <<unchangedByCall, nestedL, mtop, answer, aborted>>

\* The widget's cb calls call_event().
CbCallsEvent(r) ==
  /\ mpc[r[1]] \in {"hello_cb", "update_cb"} /\ epc[r[1]] = "idle"
  /\ EGoto(r[1], "lookup")
  /\ target' = [target EXCEPT ![r[1]] = r]
  /\ UNCHANGED <<unchangedByCall, L, nestedL, mtop, answer, aborted>>

Answer(c, a) == answer' = [answer EXCEPT ![c] = a] /\ EGoto(c, "return")

\* l_call_event(): p->runners, under runners_mtx, is NULL or the array,
Lookup(c) ==
  /\ epc[c] = "lookup"
  /\ IF target[c][1] \in published THEN EGoto(c, "deref") /\ UNCHANGED answer
                                   ELSE Answer(c, "not_spawned")
  /\ UNCHANGED <<unchangedByCall, L, nestedL, mtop, target, aborted>>

\* *R, after that mutex was released.
Deref(c) ==
  /\ epc[c] = "deref"
  /\ IF runner[target[c]] = "live" THEN EGoto(c, "lock") /\ UNCHANGED answer
                                   ELSE Answer(c, "failed_to_init")
  /\ UNCHANGED <<unchangedByCall, L, nestedL, mtop, target, aborted>>

\* Mutant: runner_event_begin() does not wait for the nested widget's L.
EventBeginNoWait(c) ==
  /\ epc[c] = "lock"
  /\ nestedL' = [nestedL EXCEPT ![target[c]] = c]
  /\ MxAssert(mtop[target[c]] = 1)
  /\ mtop' = [mtop EXCEPT ![target[c]] = @ + 1]
  /\ EGoto(c, "begun")
  /\ UNCHANGED <<unchangedByCall, L, target, answer>>

\* runner_event_begin() takes the nested widget's L and pushes its event function,
EventBegin(c) ==
  /\ epc[c] = "lock" /\ nestedL[target[c]] = None
  /\ nestedL' = [nestedL EXCEPT ![target[c]] = c]
  /\ MxAssert(mtop[target[c]] = 1)
  /\ mtop' = [mtop EXCEPT ![target[c]] = @ + 1]
  /\ EGoto(c, "begun")
  /\ UNCHANGED <<unchangedByCall, L, target, answer>>

\* lua_pushlstring() the argument,
EventPush(c) ==
  /\ epc[c] = "begun"
  /\ mtop' = [mtop EXCEPT ![target[c]] = @ + 1]
  /\ EGoto(c, "pushed")
  /\ UNCHANGED <<unchangedByCall, L, nestedL, target, answer, aborted>>

\* Mutant: without an event function only the argument is dropped.
EventEndPopsOne(c, a) ==
  /\ epc[c] = "pushed"
  /\ a \in IF target[c] \in handler THEN {"ok", "lua_error"} ELSE {"no_handler"}
  /\ MxAssert(mtop[target[c]] = 3)
  /\ mtop' = [mtop EXCEPT ![target[c]] = IF a = "no_handler" THEN @ - 1 ELSE @ - 2]
  /\ answer' = [answer EXCEPT ![c] = a]
  /\ EGoto(c, "unlock")
  /\ UNCHANGED <<unchangedByCall, L, nestedL, target>>

\* Mutant: without an event function L is not unlocked.
EventEndNoHandlerReturns(c, a) ==
  /\ epc[c] = "pushed"
  /\ a \in IF target[c] \in handler THEN {"ok", "lua_error"} ELSE {"no_handler"}
  /\ MxAssert(mtop[target[c]] = 3)
  /\ mtop' = [mtop EXCEPT ![target[c]] = @ - 2]
  /\ answer' = [answer EXCEPT ![c] = a]
  /\ EGoto(c, IF a = "no_handler" THEN "return" ELSE "unlock")
  /\ UNCHANGED <<unchangedByCall, L, nestedL, target>>

\* and runner_event_end() drops both or calls the function; either takes them off.
EventEnd(c, a) ==
  /\ epc[c] = "pushed"
  /\ a \in IF target[c] \in handler THEN {"ok", "lua_error"} ELSE {"no_handler"}
  /\ MxAssert(mtop[target[c]] = 3)
  /\ mtop' = [mtop EXCEPT ![target[c]] = @ - 2]
  /\ answer' = [answer EXCEPT ![c] = a]
  /\ EGoto(c, "unlock")
  /\ UNCHANGED <<unchangedByCall, L, nestedL, target>>

EventUnlock(c) ==
  /\ epc[c] = "unlock"
  /\ nestedL' = [nestedL EXCEPT ![target[c]] = None]
  /\ EGoto(c, "return")
  /\ UNCHANGED <<unchangedByCall, L, mtop, target, answer, aborted>>

\* call_event() returns or throws, and the handler, if it is one, returns.
Return(c) ==
  /\ epc[c] = "return"
  /\ L' = [m \in Muxes |-> IF c = Ew /\ L[m] = Ew THEN None ELSE L[m]]
  /\ target' = [target EXCEPT ![c] = None]
  /\ answer' = [answer EXCEPT ![c] = None]
  /\ EGoto(c, "idle")
  /\ UNCHANGED <<unchangedByCall, nestedL, mtop, aborted>>
-----------------------------------------------------------------------------
MuxStep(m) ==
  \/ RunnerNew(m) \/ UnlockInit(m) \/ Publish(m) \/ Fetch(m)
  \/ \E h, mux \in BOOLEAN : RunnerNewOk(m, h, mux) \/ RunnerNewFails(m, mux)
  \/ \E ok \in BOOLEAN : Spawn(m, ok)
NestedEnds(r) == NUnlock(r) \/ \E new \in BOOLEAN : NCallEnd(r, new)
CallStep(c) ==
  \/ Lookup(c) \/ Deref(c) \/ EventPush(c) \/ EventUnlock(c) \/ Return(c)
  \/ \E a \in {"ok", "lua_error", "no_handler"} : EventEnd(c, a)

MxNext ==
  /\ ~aborted
  /\ \/ StartThreads \/ MxHang
     \/ \E m \in Muxes : InitOk(m) \/ InitFails(m) \/ LockInit(m) \/ CallBegin(m) \/ CallEnd(m)
                            \/ MuxStep(m)
     \/ \E r \in Nested : NCallBegin(r) \/ NPush(r) \/ NestedEnds(r) \/ NReturn(r)
                            \/ EventHandler(r) \/ CbCallsEvent(r)
     \/ \E c \in Callers : EventBegin(c) \/ CallStep(c)

MxSpec == MxInit /\ [][MxNext]_mxvars

\* Threads that can run do, mutexes are granted, and init(), cb and event functions return; a
\* cb does so whatever number of times it calls call_event().  Widgets owe no event and
\* nested plugins no call.
MxFairness ==
  /\ WF_mxvars(StartThreads)
  /\ \A m \in Muxes : SF_mxvars(LockInit(m)) /\ SF_mxvars(CallBegin(m)) /\ SF_mxvars(CallEnd(m))
                       /\ WF_mxvars(MuxStep(m))
  /\ \A r \in Nested : WF_mxvars(NestedEnds(r))
  /\ \A c \in Callers : SF_mxvars(EventBegin(c)) /\ WF_mxvars(CallStep(c))
-----------------------------------------------------------------------------
\* The threads that are using a nested interpreter: the one creating it, its own, callers.
Using(r) ==
  {m \in Muxes : mpc[m] = "creating" /\ r = <<m, nxt[m]>>}
    \cup {s \in {r} : npc[s] \in {"begun", "pushed", "called"}}
    \cup {c \in Callers : target[c] = r /\ epc[c] \in {"begun", "pushed", "unlock"}}

\* A nested interpreter is used by one thread at a time.
NestedExclusive == \A r \in Nested : \A u, v \in Using(r) : u = v

\* No LS_ASSERT on the stack of a nested interpreter fails.
StackIsBalanced == ~aborted

\* The struct with the mutex exists for everyone who may lock it, and counts them; and who
\* initializes nested widgets holds it, so that one thread at a time does.
Referrers == {m \in Muxes : mpc[m] \notin {"uninit", "stillborn"}}
ControlAlive ==
  IF control = None THEN Referrers = {}
  ELSE /\ control.nrefs >= Cardinality(Referrers)
       /\ \A m \in Muxes : mpc[m] \in {"create", "creating"} => control.holder = m

\* Each call_event() returns.
CallEventReturns == \A c \in Callers : epc[c] = "lookup" ~> epc[c] = "idle"

=============================================================================
