-------------------------- MODULE Luastatus_proofs --------------------------
(***************************************************************************)
(* Safety of the luastatus process for every number of widgets: mutual     *)
(* exclusion on the interpreters and the barlib, the lock order, and the   *)
(* stack assertions, all from one inductive invariant; and of the          *)
(* interpreters the multiplex plugin nests, for any number of multiplexing *)
(* widgets and data sources, from another.                                 *)
(***************************************************************************)
EXTENDS Luastatus, Multiplex, FiniteSetTheorems, TLAPS

\* The main thread is in the loop that spawns the widget threads.
Spawning ==
  \/ pc[Main] \in {"spawn", "create"}
  \/ pc[Main] \in AroundBarlib /\ ret[Main] = "spawn"

\* What the phase of the main thread says of the widgets and their threads.
PhaseInv ==
  /\ pc[Main] = "widgets_init" => \A w \in Widgets : pc[w] = "none"
  /\ pc[Main] = "widgets_init" => \A w \in Widgets : w < next => kind[w] # "uninit"
  /\ pc[Main] \notin {"widgets_init", "cleanup"} => \A w \in Widgets : kind[w] # "uninit"
  /\ Spawning => \A w \in Widgets : w >= next => pc[w] = "none"
  /\ pc[Main] = "create" => next <= N /\ kind[next] = "live"
  /\ pc[Main] \in {"want_E"} \cup AroundBarlib \/ InEventCall => tgt \in Widgets
  /\ pc[Main] = "join" => \A w \in Widgets : w < next => pc[w] \in {"none", "done"}
  /\ pc[Main] = "cleanup" => \A w \in Widgets : pc[w] \in {"none", "done"}
  /\ \A w \in Widgets : kind[w] # "live" => pc[w] = "none"
  /\ pc[Main] \in AroundBarlib => ret[Main] \in {"spawn", "unlock_E"} /\ call[Main] = "set_error"
  /\ \A w \in Widgets : pc[w] \in AroundBarlib => ret[w] \in {"unlock_L", "done"}

\* Each mutex is held exactly by the thread that is between its lock and its unlock.
LockInv ==
  /\ \A w \in Widgets : mtx[w] = w <=> InPluginCall(w)
  /\ \A s \in LuaStates : mtx[s] = Main <=> (InEventCall /\ s = E(tgt))
  /\ \A s \in LuaStates : mtx[s] \in {Free, Main, s}
  /\ \A t \in Threads : set_mtx = t <=> pc[t] \in InBarlib

\* The height of each Lua stack, by who is using it and how far the call is.
StackInv ==
  /\ \A w \in Widgets : kind[w] = "live" /\ mtx[w] = Free => top[w] = 1
  /\ sepUp /\ mtx[SepState] = Free => top[SepState] = 1
  /\ \A w \in Widgets :
       /\ pc[w] = "begun" => top[w] = 2
       /\ pc[w] \in {"pushed", "pcall"} => top[w] = 3
       /\ pc[w] = "unlock_L" => top[w] = 1
       /\ pc[w] \in AroundBarlib => call[w] \in {"set", "set_error"}
       /\ pc[w] = "set" => call[w] = "set" /\ ret[w] = "unlock_L"
       /\ pc[w] \in AroundBarlib /\ call[w] = "set" => ret[w] = "unlock_L"
       /\ pc[w] \in AroundBarlib /\ ret[w] = "unlock_L" /\ call[w] = "set_error" => top[w] = 1
  /\ pc[Main] = "ew_begun" => top[E(tgt)] = 2
  /\ pc[Main] \in {"ew_pushed", "ew_pcall"} => top[E(tgt)] = 3
  /\ pc[Main] = "unlock_E" => top[E(tgt)] = 1
  /\ pc[Main] \in AroundBarlib /\ ret[Main] = "unlock_E" => top[E(tgt)] = 1
  /\ \A w \in Widgets : kind[w] = "stillborn" => sepstate_event[w]
  /\ \A w \in Widgets : sepstate_event[w] => sepUp

IInv == TypeOK /\ PhaseInv /\ LockInv /\ StackInv /\ NoAssertFails

-----------------------------------------------------------------------------

\* Every step keeps the types.
LEMMA TypeStep ==
  ASSUME IInv, Next
  PROVE  TypeOK'
<1> USE ConstAssumption
     DEF Widgets, Main, Threads, SepState, LuaStates, NULL, Free, Owners, Goto, E,
         InBarlib, AroundBarlib, InPluginCall, InEventCall, widgetVars, lifeVars,
         IInv, TypeOK, PluginPCs, MainPCs
<1>1. ASSUME NEW hasEvent \in BOOLEAN, NEW inSep \in BOOLEAN, WidgetInitOk(hasEvent, inSep)
     PROVE  TypeOK'
  BY <1>1, SMT DEF WidgetInitOk
<1>2. ASSUME WidgetInitFails PROVE TypeOK'
  BY <1>2, SMT DEF WidgetInitFails
<1>3. ASSUME NEW ok \in BOOLEAN, BarlibInit(ok) PROVE TypeOK'
  BY <1>3, SMT DEF BarlibInit
<1>4. ASSUME SpawnStillborn PROVE TypeOK'
  BY <1>4, SMT DEF SpawnStillborn, WillCallBarlib
<1>5. ASSUME SpawnRegister PROVE TypeOK'
  BY <1>5, SMT DEF SpawnRegister
<1>6. ASSUME SpawnCreate PROVE TypeOK'
  <2>1. pc' \in [Threads -> MainPCs \cup PluginPCs]
    BY <1>6, SMTT(20) DEF SpawnCreate, PhaseInv, StackInv, Spawning
  <2>2. pc'[Main] \in MainPCs /\ \A w \in Widgets : pc'[w] \in PluginPCs
    BY <1>6, SMTT(20) DEF SpawnCreate, PhaseInv, StackInv, Spawning
  <2>3. /\ proc' \in {"alive", "fatal", "aborted", "exited"}
        /\ next' \in 1..(N + 1)
        /\ tgt' \in 0..N
    BY <1>6, SMTT(20) DEF SpawnCreate, PhaseInv, StackInv, Spawning
  <2>4. shown' \in [Widgets -> {"blank", "value", "error"}]
    BY <1>6, SMTT(20) DEF SpawnCreate, PhaseInv, StackInv, Spawning
  <2>5. mtx' \in [LuaStates -> Owners] /\ set_mtx' \in Owners
    BY <1>6, SMTT(20) DEF SpawnCreate, PhaseInv, StackInv, Spawning
  <2>6. top' \in [LuaStates -> Int]
    BY <1>6, SMTT(20) DEF SpawnCreate, PhaseInv, StackInv, Spawning
  <2>7. /\ call' \in [Threads -> {"none", "set", "set_error"}]
        /\ ret' \in [Threads -> {"none", "unlock_L", "unlock_E", "spawn", "done"}]
    BY <1>6, SMTT(20) DEF SpawnCreate, PhaseInv, StackInv, Spawning
  <2>8. /\ kind' \in [Widgets -> {"uninit", "live", "stillborn"}]
        /\ lref_event' \in [Widgets -> BOOLEAN]
        /\ sepstate_event' \in [Widgets -> BOOLEAN]
    BY <1>6, SMTT(20) DEF SpawnCreate, PhaseInv, StackInv, Spawning
  <2>9. /\ sepUp' \in BOOLEAN
        /\ cur_w' \in 0..N
        /\ registered' \subseteq LuaStates
        /\ destroyed' \subseteq LuaStates
        /\ barlibUp' \in BOOLEAN
    BY <1>6, SMTT(20) DEF SpawnCreate, PhaseInv, StackInv, Spawning
  <2>. QED BY <2>1, <2>2, <2>3, <2>4, <2>5, <2>6, <2>7, <2>8, <2>9
<1>7. ASSUME StartEventWatcher PROVE TypeOK'
  BY <1>7, SMT DEF StartEventWatcher
<1>8. ASSUME NEW w \in Widgets, PluginWantsCall(w) PROVE TypeOK'
  BY <1>8, SMT DEF PluginWantsCall
<1>9. ASSUME NEW w \in Widgets, PluginCallBegin(w) PROVE TypeOK'
  BY <1>9, SMTT(40) DEF PluginCallBegin, LsAssert
<1>10. ASSUME NEW w \in Widgets, PluginPush(w) PROVE TypeOK'
  BY <1>10, SMT DEF PluginPush
<1>11. ASSUME NEW w \in Widgets, PluginCallEnd(w) PROVE TypeOK'
  BY <1>11, SMT DEF PluginCallEnd, LsAssert
<1>12. ASSUME NEW w \in Widgets, NEW ok \in BOOLEAN, PluginPcall(w, ok) PROVE TypeOK'
  BY <1>12, SMT DEF PluginPcall, WillCallBarlib
<1>13. ASSUME NEW w \in Widgets, PluginUnlock(w) PROVE TypeOK'
  BY <1>13, SMTT(40) DEF PluginUnlock
<1>14. ASSUME NEW w \in Widgets, PluginCallCancel(w) PROVE TypeOK'
  BY <1>14, SMT DEF PluginCallCancel
<1>15. ASSUME NEW w \in Widgets, PluginRunReturns(w) PROVE TypeOK'
  BY <1>15, SMT DEF PluginRunReturns, WillCallBarlib
<1>16. ASSUME NEW t \in Threads, LockB(t) PROVE TypeOK'
  <2>1. pc' \in [Threads -> MainPCs \cup PluginPCs]
    BY <1>16, SMTT(20) DEF LockB, PhaseInv, StackInv, Spawning
  <2>2. pc'[Main] \in MainPCs /\ \A w \in Widgets : pc'[w] \in PluginPCs
    BY <1>16, SMTT(20) DEF LockB, PhaseInv, StackInv, Spawning
  <2>3. /\ proc' \in {"alive", "fatal", "aborted", "exited"}
        /\ next' \in 1..(N + 1)
        /\ tgt' \in 0..N
    BY <1>16, SMTT(20) DEF LockB, PhaseInv, StackInv, Spawning
  <2>4. shown' \in [Widgets -> {"blank", "value", "error"}]
    BY <1>16, SMTT(20) DEF LockB, PhaseInv, StackInv, Spawning
  <2>5. mtx' \in [LuaStates -> Owners] /\ set_mtx' \in Owners
    BY <1>16, SMTT(20) DEF LockB, PhaseInv, StackInv, Spawning
  <2>6. top' \in [LuaStates -> Int]
    BY <1>16, SMTT(20) DEF LockB, PhaseInv, StackInv, Spawning
  <2>7. /\ call' \in [Threads -> {"none", "set", "set_error"}]
        /\ ret' \in [Threads -> {"none", "unlock_L", "unlock_E", "spawn", "done"}]
    BY <1>16, SMTT(20) DEF LockB, PhaseInv, StackInv, Spawning
  <2>8. /\ kind' \in [Widgets -> {"uninit", "live", "stillborn"}]
        /\ lref_event' \in [Widgets -> BOOLEAN]
        /\ sepstate_event' \in [Widgets -> BOOLEAN]
    BY <1>16, SMTT(20) DEF LockB, PhaseInv, StackInv, Spawning
  <2>9. /\ sepUp' \in BOOLEAN
        /\ cur_w' \in 0..N
        /\ registered' \subseteq LuaStates
        /\ destroyed' \subseteq LuaStates
        /\ barlibUp' \in BOOLEAN
    BY <1>16, SMTT(20) DEF LockB, PhaseInv, StackInv, Spawning
  <2>. QED BY <2>1, <2>2, <2>3, <2>4, <2>5, <2>6, <2>7, <2>8, <2>9
<1>17. ASSUME NEW t \in Threads, NEW r \in {"ok", "nonfatal", "err"}, NEW junk \in 0..1, BarlibSet(t, r, junk)
     PROVE  TypeOK'
  BY <1>17, SMTT(20) DEF BarlibSet, Target
<1>18. ASSUME NEW t \in Threads, NEW ok \in BOOLEAN, BarlibSetError(t, ok) PROVE TypeOK'
  <2>1. pc' \in [Threads -> MainPCs \cup PluginPCs]
    BY <1>18, SMTT(20) DEF BarlibSetError, Target, PhaseInv, StackInv, Spawning
  <2>2. pc'[Main] \in MainPCs /\ \A w \in Widgets : pc'[w] \in PluginPCs
    BY <1>18, SMTT(20) DEF BarlibSetError, Target, PhaseInv, StackInv, Spawning
  <2>3. /\ proc' \in {"alive", "fatal", "aborted", "exited"}
        /\ next' \in 1..(N + 1)
        /\ tgt' \in 0..N
    BY <1>18, SMTT(20) DEF BarlibSetError, Target, PhaseInv, StackInv, Spawning
  <2>4. shown' \in [Widgets -> {"blank", "value", "error"}]
    BY <1>18, SMTT(20) DEF BarlibSetError, Target, PhaseInv, StackInv, Spawning
  <2>5. mtx' \in [LuaStates -> Owners] /\ set_mtx' \in Owners
    BY <1>18, SMTT(20) DEF BarlibSetError, Target, PhaseInv, StackInv, Spawning
  <2>6. top' \in [LuaStates -> Int]
    BY <1>18, SMTT(20) DEF BarlibSetError, Target, PhaseInv, StackInv, Spawning
  <2>7. /\ call' \in [Threads -> {"none", "set", "set_error"}]
        /\ ret' \in [Threads -> {"none", "unlock_L", "unlock_E", "spawn", "done"}]
    BY <1>18, SMTT(20) DEF BarlibSetError, Target, PhaseInv, StackInv, Spawning
  <2>8. /\ kind' \in [Widgets -> {"uninit", "live", "stillborn"}]
        /\ lref_event' \in [Widgets -> BOOLEAN]
        /\ sepstate_event' \in [Widgets -> BOOLEAN]
    BY <1>18, SMTT(20) DEF BarlibSetError, Target, PhaseInv, StackInv, Spawning
  <2>9. /\ sepUp' \in BOOLEAN
        /\ cur_w' \in 0..N
        /\ registered' \subseteq LuaStates
        /\ destroyed' \subseteq LuaStates
        /\ barlibUp' \in BOOLEAN
    BY <1>18, SMTT(20) DEF BarlibSetError, Target, PhaseInv, StackInv, Spawning
  <2>. QED BY <2>1, <2>2, <2>3, <2>4, <2>5, <2>6, <2>7, <2>8, <2>9
<1>19. ASSUME NEW t \in Threads, UnlockB(t) PROVE TypeOK'
  <2>1. pc' \in [Threads -> MainPCs \cup PluginPCs]
    BY <1>19, SMTT(20) DEF UnlockB, PhaseInv, StackInv, Spawning
  <2>2. pc'[Main] \in MainPCs /\ \A w \in Widgets : pc'[w] \in PluginPCs
    BY <1>19, SMTT(20) DEF UnlockB, PhaseInv, StackInv, Spawning
  <2>3. /\ proc' \in {"alive", "fatal", "aborted", "exited"}
        /\ next' \in 1..(N + 1)
        /\ tgt' \in 0..N
    BY <1>19, SMTT(20) DEF UnlockB, PhaseInv, StackInv, Spawning
  <2>4. shown' \in [Widgets -> {"blank", "value", "error"}]
    BY <1>19, SMTT(20) DEF UnlockB, PhaseInv, StackInv, Spawning
  <2>5. mtx' \in [LuaStates -> Owners] /\ set_mtx' \in Owners
    BY <1>19, SMTT(20) DEF UnlockB, PhaseInv, StackInv, Spawning
  <2>6. top' \in [LuaStates -> Int]
    BY <1>19, SMTT(20) DEF UnlockB, PhaseInv, StackInv, Spawning
  <2>7. /\ call' \in [Threads -> {"none", "set", "set_error"}]
        /\ ret' \in [Threads -> {"none", "unlock_L", "unlock_E", "spawn", "done"}]
    BY <1>19, SMTT(20) DEF UnlockB, PhaseInv, StackInv, Spawning
  <2>8. /\ kind' \in [Widgets -> {"uninit", "live", "stillborn"}]
        /\ lref_event' \in [Widgets -> BOOLEAN]
        /\ sepstate_event' \in [Widgets -> BOOLEAN]
    BY <1>19, SMTT(20) DEF UnlockB, PhaseInv, StackInv, Spawning
  <2>9. /\ sepUp' \in BOOLEAN
        /\ cur_w' \in 0..N
        /\ registered' \subseteq LuaStates
        /\ destroyed' \subseteq LuaStates
        /\ barlibUp' \in BOOLEAN
    BY <1>19, SMTT(20) DEF UnlockB, PhaseInv, StackInv, Spawning
  <2>. QED BY <2>1, <2>2, <2>3, <2>4, <2>5, <2>6, <2>7, <2>8, <2>9
<1>20. ASSUME NEW t \in Threads, OsExit(t) PROVE TypeOK'
  BY <1>20, SMT DEF OsExit
<1>21. ASSUME NEW w \in Widgets, EwWantsCall(w) PROVE TypeOK'
  BY <1>21, SMT DEF EwWantsCall
<1>22. ASSUME EwCallBegin PROVE TypeOK'
  BY <1>22, SMTT(40) DEF EwCallBegin, LsAssert
<1>23. ASSUME EwPush PROVE TypeOK'
  BY <1>23, SMT DEF EwPush
<1>24. ASSUME EwCallEnd PROVE TypeOK'
  BY <1>24, SMTT(20) DEF EwCallEnd, LsAssert
<1>25. ASSUME NEW ok \in BOOLEAN, EwPcall(ok) PROVE TypeOK'
  <2>1. pc' \in [Threads -> MainPCs \cup PluginPCs]
    <3>1. CASE ok
      BY <1>25, <3>1, SMTT(20) DEF EwPcall
    <3>2. CASE ~ok
      <4>1. pc' = [pc EXCEPT ![Main] = "want_B"]
        BY <1>25, <3>2, SMT DEF EwPcall, WillCallBarlib
      <4>. QED BY <4>1, SMT
    <3>. QED BY <3>1, <3>2
  <2>2. pc'[Main] \in MainPCs /\ \A w \in Widgets : pc'[w] \in PluginPCs
    BY <1>25, SMTT(20) DEF EwPcall, WillCallBarlib, PhaseInv, StackInv, Spawning
  <2>3. /\ proc' \in {"alive", "fatal", "aborted", "exited"}
        /\ next' \in 1..(N + 1)
        /\ tgt' \in 0..N
    BY <1>25, SMTT(20) DEF EwPcall, WillCallBarlib, PhaseInv, StackInv, Spawning
  <2>4. shown' \in [Widgets -> {"blank", "value", "error"}]
    BY <1>25, SMTT(20) DEF EwPcall, WillCallBarlib, PhaseInv, StackInv, Spawning
  <2>5. mtx' \in [LuaStates -> Owners] /\ set_mtx' \in Owners
    BY <1>25, SMTT(20) DEF EwPcall, WillCallBarlib, PhaseInv, StackInv, Spawning
  <2>6. top' \in [LuaStates -> Int]
    BY <1>25, SMTT(20) DEF EwPcall, WillCallBarlib, PhaseInv, StackInv, Spawning
  <2>7. /\ call' \in [Threads -> {"none", "set", "set_error"}]
        /\ ret' \in [Threads -> {"none", "unlock_L", "unlock_E", "spawn", "done"}]
    <3>1. CASE ok
      BY <1>25, <3>1, SMT DEF EwPcall
    <3>2. CASE ~ok
      <4>1. call' = [call EXCEPT ![Main] = "set_error"]
        BY <1>25, <3>2, SMT DEF EwPcall, WillCallBarlib
      <4>2. ret' = [ret EXCEPT ![Main] = "unlock_E"]
        BY <1>25, <3>2, SMT DEF EwPcall, WillCallBarlib
      <4>. QED BY <4>1, <4>2, SMT
    <3>. QED BY <3>1, <3>2
  <2>8. /\ kind' \in [Widgets -> {"uninit", "live", "stillborn"}]
        /\ lref_event' \in [Widgets -> BOOLEAN]
        /\ sepstate_event' \in [Widgets -> BOOLEAN]
    BY <1>25, SMTT(20) DEF EwPcall, WillCallBarlib, PhaseInv, StackInv, Spawning
  <2>9. /\ sepUp' \in BOOLEAN
        /\ cur_w' \in 0..N
        /\ registered' \subseteq LuaStates
        /\ destroyed' \subseteq LuaStates
        /\ barlibUp' \in BOOLEAN
    BY <1>25, SMTT(20) DEF EwPcall, WillCallBarlib, PhaseInv, StackInv, Spawning
  <2>. QED BY <2>1, <2>2, <2>3, <2>4, <2>5, <2>6, <2>7, <2>8, <2>9
<1>26. ASSUME EwUnlock PROVE TypeOK'
  BY <1>26, SMT DEF EwUnlock
<1>27. ASSUME EwCallCancel PROVE TypeOK'
  BY <1>27, SMTT(40) DEF EwCallCancel
<1>28. ASSUME NEW ok \in BOOLEAN, EwReturns(ok) PROVE TypeOK'
  BY <1>28, SMT DEF EwReturns
<1>29. ASSUME Join PROVE TypeOK'
  BY <1>29, SMT DEF Join
<1>30. ASSUME AllJoined PROVE TypeOK'
  BY <1>30, SMT DEF AllJoined
<1>31. ASSUME DestroyWidget PROVE TypeOK'
  BY <1>31, SMT DEF DestroyWidget
<1>32. ASSUME DestroyRest PROVE TypeOK'
  <2>1. pc' \in [Threads -> MainPCs \cup PluginPCs]
    BY <1>32, SMTT(20) DEF DestroyRest, PhaseInv, StackInv, Spawning
  <2>2. pc'[Main] \in MainPCs /\ \A w \in Widgets : pc'[w] \in PluginPCs
    BY <1>32, SMTT(20) DEF DestroyRest, PhaseInv, StackInv, Spawning
  <2>3. /\ proc' \in {"alive", "fatal", "aborted", "exited"}
        /\ next' \in 1..(N + 1)
        /\ tgt' \in 0..N
    BY <1>32, SMTT(20) DEF DestroyRest, PhaseInv, StackInv, Spawning
  <2>4. shown' \in [Widgets -> {"blank", "value", "error"}]
    BY <1>32, SMTT(20) DEF DestroyRest, PhaseInv, StackInv, Spawning
  <2>5. mtx' \in [LuaStates -> Owners] /\ set_mtx' \in Owners
    BY <1>32, SMTT(20) DEF DestroyRest, PhaseInv, StackInv, Spawning
  <2>6. top' \in [LuaStates -> Int]
    BY <1>32, SMTT(20) DEF DestroyRest, PhaseInv, StackInv, Spawning
  <2>7. /\ call' \in [Threads -> {"none", "set", "set_error"}]
        /\ ret' \in [Threads -> {"none", "unlock_L", "unlock_E", "spawn", "done"}]
    BY <1>32, SMTT(20) DEF DestroyRest, PhaseInv, StackInv, Spawning
  <2>8. /\ kind' \in [Widgets -> {"uninit", "live", "stillborn"}]
        /\ lref_event' \in [Widgets -> BOOLEAN]
        /\ sepstate_event' \in [Widgets -> BOOLEAN]
    BY <1>32, SMTT(20) DEF DestroyRest, PhaseInv, StackInv, Spawning
  <2>9. sepUp' \in BOOLEAN /\ cur_w' \in 0..N
    BY <1>32, SMTT(20) DEF DestroyRest, PhaseInv, StackInv, Spawning
  <2>10. registered' \subseteq LuaStates
    BY <1>32, SMT DEF DestroyRest
  <2>12. barlibUp' \in BOOLEAN
    BY <1>32 DEF DestroyRest
  <2>11. destroyed' \subseteq LuaStates
    BY <1>32, SMTT(20) DEF DestroyRest, PhaseInv, StackInv, Spawning
  <2>. QED BY <2>1, <2>2, <2>3, <2>4, <2>5, <2>6, <2>7, <2>8, <2>9, <2>10, <2>11, <2>12
<1>33. ASSUME UNCHANGED vars PROVE TypeOK'
  BY <1>33, SMT DEF vars
<1> HIDE DEF IInv, TypeOK, PhaseInv, LockInv, StackInv, NoAssertFails
<1>. QED
  BY <1>1, <1>2, <1>3, <1>4, <1>5, <1>6, <1>7, <1>8, <1>9, <1>10, <1>11, <1>12,
     <1>13, <1>14, <1>15, <1>16, <1>17, <1>18, <1>19, <1>20, <1>21, <1>22, <1>23,
     <1>24, <1>25, <1>26, <1>27, <1>28, <1>29, <1>30, <1>31, <1>32, <1>33
     DEF Next, StartUp, PluginStep, BarlibStep, EventStep, ShutDown, Hang, Ended

\* Every step keeps what the phases of the main thread promise.
LEMMA PhaseStep ==
  ASSUME IInv, Next
  PROVE  PhaseInv'
<1> USE ConstAssumption
     DEF Widgets, Main, Threads, SepState, LuaStates, NULL, Free, Owners, Goto, E,
         InBarlib, AroundBarlib, InPluginCall, InEventCall, widgetVars, lifeVars,
         IInv, TypeOK, PhaseInv, Spawning
<1>1. ASSUME NEW hasEvent \in BOOLEAN, NEW inSep \in BOOLEAN, WidgetInitOk(hasEvent, inSep)
     PROVE  PhaseInv'
  BY <1>1, SMT DEF WidgetInitOk
<1>2. ASSUME WidgetInitFails PROVE PhaseInv'
  BY <1>2, SMT DEF WidgetInitFails
<1>3. ASSUME NEW ok \in BOOLEAN, BarlibInit(ok) PROVE PhaseInv'
  BY <1>3, SMT DEF BarlibInit
<1>4. ASSUME SpawnStillborn PROVE PhaseInv'
  BY <1>4, SMT DEF SpawnStillborn, WillCallBarlib
<1>5. ASSUME SpawnRegister PROVE PhaseInv'
  BY <1>5, SMT DEF SpawnRegister
<1>6. ASSUME SpawnCreate PROVE PhaseInv'
  BY <1>6, SMT DEF SpawnCreate
<1>7. ASSUME StartEventWatcher PROVE PhaseInv'
  BY <1>7, SMT DEF StartEventWatcher
<1>8. ASSUME NEW w \in Widgets, PluginWantsCall(w) PROVE PhaseInv'
  BY <1>8, SMT DEF PluginWantsCall
<1>9. ASSUME NEW w \in Widgets, PluginCallBegin(w) PROVE PhaseInv'
  BY <1>9, SMT DEF PluginCallBegin, LsAssert
<1>10. ASSUME NEW w \in Widgets, PluginPush(w) PROVE PhaseInv'
  BY <1>10, SMT DEF PluginPush
<1>11. ASSUME NEW w \in Widgets, PluginCallEnd(w) PROVE PhaseInv'
  BY <1>11, SMT DEF PluginCallEnd, LsAssert
<1>12. ASSUME NEW w \in Widgets, NEW ok \in BOOLEAN, PluginPcall(w, ok) PROVE PhaseInv'
  BY <1>12, SMT DEF PluginPcall, WillCallBarlib
<1>13. ASSUME NEW w \in Widgets, PluginUnlock(w) PROVE PhaseInv'
  BY <1>13, SMT DEF PluginUnlock
<1>14. ASSUME NEW w \in Widgets, PluginCallCancel(w) PROVE PhaseInv'
  BY <1>14, SMT DEF PluginCallCancel
<1>15. ASSUME NEW w \in Widgets, PluginRunReturns(w) PROVE PhaseInv'
  BY <1>15, SMT DEF PluginRunReturns, WillCallBarlib
<1>16. ASSUME NEW t \in Threads, LockB(t) PROVE PhaseInv'
  BY <1>16, SMT DEF LockB
<1>17. ASSUME NEW t \in Threads, NEW r \in {"ok", "nonfatal", "err"}, NEW junk \in 0..1, BarlibSet(t, r, junk)
     PROVE  PhaseInv'
  BY <1>17, SMTT(40) DEF BarlibSet, Target
<1>18. ASSUME NEW t \in Threads, NEW ok \in BOOLEAN, BarlibSetError(t, ok) PROVE PhaseInv'
  BY <1>18, SMT DEF BarlibSetError, Target
<1>19. ASSUME NEW t \in Threads, UnlockB(t) PROVE PhaseInv'
  BY <1>19, SMT DEF UnlockB
<1>20. ASSUME NEW t \in Threads, OsExit(t) PROVE PhaseInv'
  BY <1>20, SMT DEF OsExit
<1>21. ASSUME NEW w \in Widgets, EwWantsCall(w) PROVE PhaseInv'
  BY <1>21, SMT DEF EwWantsCall
<1>22. ASSUME EwCallBegin PROVE PhaseInv'
  BY <1>22, SMT DEF EwCallBegin, LsAssert
<1>23. ASSUME EwPush PROVE PhaseInv'
  BY <1>23, SMT DEF EwPush
<1>24. ASSUME EwCallEnd PROVE PhaseInv'
  BY <1>24, SMT DEF EwCallEnd, LsAssert
<1>25. ASSUME NEW ok \in BOOLEAN, EwPcall(ok) PROVE PhaseInv'
  BY <1>25, SMTT(40) DEF EwPcall, WillCallBarlib
<1>26. ASSUME EwUnlock PROVE PhaseInv'
  BY <1>26, SMT DEF EwUnlock
<1>27. ASSUME EwCallCancel PROVE PhaseInv'
  BY <1>27, SMT DEF EwCallCancel
<1>28. ASSUME NEW ok \in BOOLEAN, EwReturns(ok) PROVE PhaseInv'
  BY <1>28, SMT DEF EwReturns
<1>29. ASSUME Join PROVE PhaseInv'
  BY <1>29, SMT DEF Join
<1>30. ASSUME AllJoined PROVE PhaseInv'
  BY <1>30, SMT DEF AllJoined
<1>31. ASSUME DestroyWidget PROVE PhaseInv'
  BY <1>31, SMT DEF DestroyWidget
<1>32. ASSUME DestroyRest PROVE PhaseInv'
  BY <1>32, SMT DEF DestroyRest
<1>33. ASSUME UNCHANGED vars PROVE PhaseInv'
  BY <1>33, SMT DEF vars
<1> HIDE DEF IInv, TypeOK, PhaseInv, LockInv, StackInv, NoAssertFails
<1>. QED
  BY <1>1, <1>2, <1>3, <1>4, <1>5, <1>6, <1>7, <1>8, <1>9, <1>10, <1>11, <1>12,
     <1>13, <1>14, <1>15, <1>16, <1>17, <1>18, <1>19, <1>20, <1>21, <1>22, <1>23,
     <1>24, <1>25, <1>26, <1>27, <1>28, <1>29, <1>30, <1>31, <1>32, <1>33
     DEF Next, StartUp, PluginStep, BarlibStep, EventStep, ShutDown, Hang, Ended

\* Every step keeps the mutexes in the hands of the threads in their critical sections.
LEMMA LockStep ==
  ASSUME IInv, Next
  PROVE  LockInv'
<1> USE ConstAssumption
     DEF Widgets, Main, Threads, SepState, LuaStates, NULL, Free, Owners, Goto, E,
         InBarlib, AroundBarlib, InPluginCall, InEventCall, widgetVars, lifeVars,
         IInv, TypeOK, PhaseInv, LockInv, Spawning
<1>1. ASSUME NEW hasEvent \in BOOLEAN, NEW inSep \in BOOLEAN, WidgetInitOk(hasEvent, inSep)
     PROVE  LockInv'
  BY <1>1, SMT DEF WidgetInitOk
<1>2. ASSUME WidgetInitFails PROVE LockInv'
  BY <1>2, SMT DEF WidgetInitFails
<1>3. ASSUME NEW ok \in BOOLEAN, BarlibInit(ok) PROVE LockInv'
  <2>1. \A v \in Widgets : mtx'[v] = v <=> InPluginCall(v)'
    BY <1>3, SMTT(20) DEF BarlibInit
  <2>2. \A s \in LuaStates : mtx'[s] = Main <=> (InEventCall' /\ s = E(tgt)')
    BY <1>3, SMTT(20) DEF BarlibInit
  <2>3. \A s \in LuaStates : mtx'[s] \in {Free, Main, s}
    BY <1>3, SMTT(20) DEF BarlibInit
  <2>4. \A u \in Threads : set_mtx' = u <=> pc'[u] \in InBarlib
    BY <1>3, SMTT(20) DEF BarlibInit
  <2>. QED BY <2>1, <2>2, <2>3, <2>4
<1>4. ASSUME SpawnStillborn PROVE LockInv'
  BY <1>4, SMT DEF SpawnStillborn, WillCallBarlib
<1>5. ASSUME SpawnRegister PROVE LockInv'
  BY <1>5, SMT DEF SpawnRegister
<1>6. ASSUME SpawnCreate PROVE LockInv'
  <2>1. \A v \in Widgets : mtx'[v] = v <=> InPluginCall(v)'
    BY <1>6, SMTT(20) DEF SpawnCreate
  <2>2. \A s \in LuaStates : mtx'[s] = Main <=> (InEventCall' /\ s = E(tgt)')
    BY <1>6, SMTT(20) DEF SpawnCreate
  <2>3. \A s \in LuaStates : mtx'[s] \in {Free, Main, s}
    BY <1>6, SMTT(20) DEF SpawnCreate
  <2>4. \A u \in Threads : set_mtx' = u <=> pc'[u] \in InBarlib
    BY <1>6, SMTT(20) DEF SpawnCreate
  <2>. QED BY <2>1, <2>2, <2>3, <2>4
<1>7. ASSUME StartEventWatcher PROVE LockInv'
  <2>1. \A v \in Widgets : mtx'[v] = v <=> InPluginCall(v)'
    BY <1>7, SMTT(20) DEF StartEventWatcher
  <2>2. \A s \in LuaStates : mtx'[s] = Main <=> (InEventCall' /\ s = E(tgt)')
    BY <1>7, SMTT(20) DEF StartEventWatcher
  <2>3. \A s \in LuaStates : mtx'[s] \in {Free, Main, s}
    BY <1>7, SMTT(20) DEF StartEventWatcher
  <2>4. \A u \in Threads : set_mtx' = u <=> pc'[u] \in InBarlib
    BY <1>7, SMTT(20) DEF StartEventWatcher
  <2>. QED BY <2>1, <2>2, <2>3, <2>4
<1>8. ASSUME NEW w \in Widgets, PluginWantsCall(w) PROVE LockInv'
  BY <1>8, SMT DEF PluginWantsCall
<1>9. ASSUME NEW w \in Widgets, PluginCallBegin(w) PROVE LockInv'
  BY <1>9, SMT DEF PluginCallBegin, LsAssert
<1>10. ASSUME NEW w \in Widgets, PluginPush(w) PROVE LockInv'
  BY <1>10, SMT DEF PluginPush
<1>11. ASSUME NEW w \in Widgets, PluginCallEnd(w) PROVE LockInv'
  BY <1>11, SMT DEF PluginCallEnd, LsAssert
<1>12. ASSUME NEW w \in Widgets, NEW ok \in BOOLEAN, PluginPcall(w, ok) PROVE LockInv'
  BY <1>12, SMT DEF PluginPcall, WillCallBarlib
<1>13. ASSUME NEW w \in Widgets, PluginUnlock(w) PROVE LockInv'
  BY <1>13, SMT DEF PluginUnlock
<1>14. ASSUME NEW w \in Widgets, PluginCallCancel(w) PROVE LockInv'
  BY <1>14, SMT DEF PluginCallCancel
<1>15. ASSUME NEW w \in Widgets, PluginRunReturns(w) PROVE LockInv'
  <2>1. \A v \in Widgets : mtx'[v] = v <=> InPluginCall(v)'
    <3> SUFFICES ASSUME NEW v \in Widgets PROVE (mtx'[v] = v <=> InPluginCall(v)')
      OBVIOUS
    <3>1. CASE v = w
      <4>1. pc'[w] = "want_B" /\ ret'[w] = "done" /\ mtx'[w] = mtx[w]
        BY <1>15, SMT DEF PluginRunReturns, WillCallBarlib
      <4>2. ~InPluginCall(w)'
        BY <4>1
      <4>3. pc[w] = "run"
        BY <1>15 DEF PluginRunReturns
      <4>4. ~InPluginCall(w)
        BY <4>3
      <4>5. mtx[w] # w
        BY <4>4
      <4>. QED BY <3>1, <4>1, <4>2, <4>5
    <3>2. CASE v # w
      BY <1>15, <3>2, SMTT(20) DEF PluginRunReturns, WillCallBarlib
    <3>. QED BY <3>1, <3>2
  <2>2. \A s \in LuaStates : mtx'[s] = Main <=> (InEventCall' /\ s = E(tgt)')
    BY <1>15, SMTT(20) DEF PluginRunReturns, WillCallBarlib
  <2>3. \A s \in LuaStates : mtx'[s] \in {Free, Main, s}
    BY <1>15, SMTT(20) DEF PluginRunReturns, WillCallBarlib
  <2>4. \A u \in Threads : set_mtx' = u <=> pc'[u] \in InBarlib
    BY <1>15, SMTT(20) DEF PluginRunReturns, WillCallBarlib
  <2>. QED BY <2>1, <2>2, <2>3, <2>4
<1>16. ASSUME NEW t \in Threads, LockB(t) PROVE LockInv'
  <2>1. \A v \in Widgets : mtx'[v] = v <=> InPluginCall(v)'
    <3> SUFFICES ASSUME NEW v \in Widgets PROVE (mtx'[v] = v <=> InPluginCall(v)')
      OBVIOUS
    <3>1. CASE v = t
      <4>1. pc[v] = "want_B" /\ pc'[v] \in {"set", "set_error"}
        BY <1>16, <3>1, SMTT(40) DEF LockB, StackInv
      <4>2. mtx' = mtx /\ ret' = ret
        BY <1>16 DEF LockB
      <4>3. InPluginCall(v)' <=> InPluginCall(v)
        BY <4>1, <4>2, SMTT(40)
      <4>. QED BY <4>2, <4>3
    <3>2. CASE v # t
      BY <1>16, <3>2, SMTT(20) DEF LockB, StackInv
    <3>. QED BY <3>1, <3>2
  <2>2. \A s \in LuaStates : mtx'[s] = Main <=> (InEventCall' /\ s = E(tgt)')
    BY <1>16, SMTT(20) DEF LockB
  <2>3. \A s \in LuaStates : mtx'[s] \in {Free, Main, s}
    BY <1>16, SMTT(20) DEF LockB
  <2>4. \A u \in Threads : set_mtx' = u <=> pc'[u] \in InBarlib
    <3> SUFFICES ASSUME NEW u \in Threads PROVE (set_mtx' = u <=> pc'[u] \in InBarlib)
      OBVIOUS
    <3>1. CASE u = t
      BY <1>16, <3>1, SMTT(40) DEF LockB, StackInv
    <3>2. CASE u # t
      BY <1>16, <3>2, SMTT(20) DEF LockB, StackInv
    <3>. QED BY <3>1, <3>2
  <2>. QED BY <2>1, <2>2, <2>3, <2>4
<1>17. ASSUME NEW t \in Threads, NEW r \in {"ok", "nonfatal", "err"}, NEW junk \in 0..1, BarlibSet(t, r, junk)
     PROVE  LockInv'
  BY <1>17, SMTT(40) DEF BarlibSet, Target
<1>18. ASSUME NEW t \in Threads, NEW ok \in BOOLEAN, BarlibSetError(t, ok) PROVE LockInv'
  BY <1>18, SMT DEF BarlibSetError, Target
<1>19. ASSUME NEW t \in Threads, UnlockB(t) PROVE LockInv'
  BY <1>19, SMTT(40) DEF UnlockB
<1>20. ASSUME NEW t \in Threads, OsExit(t) PROVE LockInv'
  BY <1>20, SMT DEF OsExit
<1>21. ASSUME NEW w \in Widgets, EwWantsCall(w) PROVE LockInv'
  BY <1>21, SMT DEF EwWantsCall
<1>22. ASSUME EwCallBegin PROVE LockInv'
  BY <1>22, SMTT(40) DEF EwCallBegin, LsAssert
<1>23. ASSUME EwPush PROVE LockInv'
  BY <1>23, SMT DEF EwPush
<1>24. ASSUME EwCallEnd PROVE LockInv'
  BY <1>24, SMT DEF EwCallEnd, LsAssert
<1>25. ASSUME NEW ok \in BOOLEAN, EwPcall(ok) PROVE LockInv'
  BY <1>25, SMTT(20) DEF EwPcall, WillCallBarlib
<1>26. ASSUME EwUnlock PROVE LockInv'
  BY <1>26, SMT DEF EwUnlock
<1>27. ASSUME EwCallCancel PROVE LockInv'
  BY <1>27, SMT DEF EwCallCancel
<1>28. ASSUME NEW ok \in BOOLEAN, EwReturns(ok) PROVE LockInv'
  <2>1. \A v \in Widgets : mtx'[v] = v <=> InPluginCall(v)'
    BY <1>28, SMTT(20) DEF EwReturns
  <2>2. \A s \in LuaStates : mtx'[s] = Main <=> (InEventCall' /\ s = E(tgt)')
    BY <1>28, SMTT(20) DEF EwReturns
  <2>3. \A s \in LuaStates : mtx'[s] \in {Free, Main, s}
    BY <1>28, SMTT(20) DEF EwReturns
  <2>4. \A u \in Threads : set_mtx' = u <=> pc'[u] \in InBarlib
    BY <1>28, SMTT(20) DEF EwReturns
  <2>. QED BY <2>1, <2>2, <2>3, <2>4
<1>29. ASSUME Join PROVE LockInv'
  BY <1>29, SMT DEF Join
<1>30. ASSUME AllJoined PROVE LockInv'
  BY <1>30, SMT DEF AllJoined
<1>31. ASSUME DestroyWidget PROVE LockInv'
  BY <1>31, SMT DEF DestroyWidget
<1>32. ASSUME DestroyRest PROVE LockInv'
  BY <1>32, SMT DEF DestroyRest
<1>33. ASSUME UNCHANGED vars PROVE LockInv'
  BY <1>33, SMT DEF vars
<1> HIDE DEF IInv, TypeOK, PhaseInv, LockInv, StackInv, NoAssertFails
<1>. QED
  BY <1>1, <1>2, <1>3, <1>4, <1>5, <1>6, <1>7, <1>8, <1>9, <1>10, <1>11, <1>12,
     <1>13, <1>14, <1>15, <1>16, <1>17, <1>18, <1>19, <1>20, <1>21, <1>22, <1>23,
     <1>24, <1>25, <1>26, <1>27, <1>28, <1>29, <1>30, <1>31, <1>32, <1>33
     DEF Next, StartUp, PluginStep, BarlibStep, EventStep, ShutDown, Hang, Ended

\* Every step keeps the heights of the Lua stacks.
LEMMA StackStep ==
  ASSUME IInv, Next
  PROVE  StackInv'
<1> USE ConstAssumption
     DEF Widgets, Main, Threads, SepState, LuaStates, NULL, Free, Owners, Goto, E,
         InBarlib, AroundBarlib, InPluginCall, InEventCall, widgetVars, lifeVars,
         IInv, TypeOK, PhaseInv, LockInv, StackInv, Spawning
<1>1. ASSUME NEW hasEvent \in BOOLEAN, NEW inSep \in BOOLEAN, WidgetInitOk(hasEvent, inSep)
     PROVE  StackInv'
  BY <1>1, SMT DEF WidgetInitOk
<1>2. ASSUME WidgetInitFails PROVE StackInv'
  BY <1>2, SMT DEF WidgetInitFails
<1>3. ASSUME NEW ok \in BOOLEAN, BarlibInit(ok) PROVE StackInv'
  BY <1>3, SMT DEF BarlibInit
<1>4. ASSUME SpawnStillborn PROVE StackInv'
  BY <1>4, SMT DEF SpawnStillborn, WillCallBarlib
<1>5. ASSUME SpawnRegister PROVE StackInv'
  BY <1>5, SMT DEF SpawnRegister
<1>6. ASSUME SpawnCreate PROVE StackInv'
  BY <1>6, SMT DEF SpawnCreate
<1>7. ASSUME StartEventWatcher PROVE StackInv'
  BY <1>7, SMT DEF StartEventWatcher
<1>8. ASSUME NEW w \in Widgets, PluginWantsCall(w) PROVE StackInv'
  BY <1>8, SMT DEF PluginWantsCall
<1>9. ASSUME NEW w \in Widgets, PluginCallBegin(w) PROVE StackInv'
  BY <1>9, SMTT(40) DEF PluginCallBegin, LsAssert
<1>10. ASSUME NEW w \in Widgets, PluginPush(w) PROVE StackInv'
  BY <1>10, SMT DEF PluginPush
<1>11. ASSUME NEW w \in Widgets, PluginCallEnd(w) PROVE StackInv'
  BY <1>11, SMT DEF PluginCallEnd, LsAssert
<1>12. ASSUME NEW w \in Widgets, NEW ok \in BOOLEAN, PluginPcall(w, ok) PROVE StackInv'
  BY <1>12, SMT DEF PluginPcall, WillCallBarlib
<1>13. ASSUME NEW w \in Widgets, PluginUnlock(w) PROVE StackInv'
  BY <1>13, SMT DEF PluginUnlock
<1>14. ASSUME NEW w \in Widgets, PluginCallCancel(w) PROVE StackInv'
  BY <1>14, SMT DEF PluginCallCancel
<1>15. ASSUME NEW w \in Widgets, PluginRunReturns(w) PROVE StackInv'
  BY <1>15, SMT DEF PluginRunReturns, WillCallBarlib
<1>16. ASSUME NEW t \in Threads, LockB(t) PROVE StackInv'
  BY <1>16, SMT DEF LockB
<1>17. ASSUME NEW t \in Threads, NEW r \in {"ok", "nonfatal", "err"}, NEW junk \in 0..1, BarlibSet(t, r, junk)
     PROVE  StackInv'
  <2>1. t \in Widgets /\ pc[t] = "set" /\ call[t] = "set" /\ ret[t] = "unlock_L" /\ mtx[t] = t
    <3>1. pc[t] = "set"
      BY <1>17, SMT DEF BarlibSet
    <3>2. t # Main
      BY <3>1, SMT DEF MainPCs
    <3>3. t \in Widgets
      BY <3>2, SMT
    <3>4. call[t] = "set" /\ ret[t] = "unlock_L" /\ InPluginCall(t)
      BY <3>1, <3>3, SMT
    <3>. QED BY <3>1, <3>3, <3>4, SMT
  <2>2. pc' = [pc EXCEPT ![t] = IF r = "nonfatal" THEN "set_error" ELSE "unlock_B"]
    BY <1>17, SMT DEF BarlibSet
  <2>3. top' = [top EXCEPT ![t] = @ + junk] /\ top[t] \in Int /\ top'[t] \in Int
    BY <1>17, SMT DEF BarlibSet
  <2>4. UNCHANGED <<kind, mtx, call, ret, sepUp, sepstate_event, lref_event, tgt>>
    BY <1>17, SMT DEF BarlibSet
  <2>5. \A w \in Widgets : kind'[w] = "live" /\ mtx'[w] = Free => top'[w] = 1
    BY <2>1, <2>3, <2>4, SMT
  <2>6. sepUp' /\ mtx'[SepState] = Free => top'[SepState] = 1
    BY <2>1, <2>3, <2>4, SMT
  <2>7. \A w \in Widgets :
       /\ pc'[w] = "begun" => top'[w] = 2
       /\ pc'[w] \in {"pushed", "pcall"} => top'[w] = 3
       /\ pc'[w] = "unlock_L" => top'[w] = 1
       /\ pc'[w] \in AroundBarlib => call'[w] \in {"set", "set_error"}
       /\ pc'[w] = "set" => call'[w] = "set" /\ ret'[w] = "unlock_L"
       /\ pc'[w] \in AroundBarlib /\ call'[w] = "set" => ret'[w] = "unlock_L"
       /\ pc'[w] \in AroundBarlib /\ ret'[w] = "unlock_L" /\ call'[w] = "set_error" => top'[w] = 1
    BY <2>1, <2>2, <2>3, <2>4, SMTT(20)
  <2>8. E(tgt)' = E(tgt) /\ pc'[Main] = pc[Main] /\ (InEventCall => E(tgt) # t)
    BY <2>1, <2>2, <2>4, SMTT(20)
  <2>9. InEventCall => top'[E(tgt)] = top[E(tgt)]
    BY <2>1, <2>3, <2>8, SMT
  <2>. QED BY <2>1, <2>2, <2>4, <2>5, <2>6, <2>7, <2>8, <2>9, SMTT(20)
<1>18. ASSUME NEW t \in Threads, NEW ok \in BOOLEAN, BarlibSetError(t, ok) PROVE StackInv'
  BY <1>18, SMT DEF BarlibSetError, Target
<1>19. ASSUME NEW t \in Threads, UnlockB(t) PROVE StackInv'
  BY <1>19, SMTT(40) DEF UnlockB
<1>20. ASSUME NEW t \in Threads, OsExit(t) PROVE StackInv'
  BY <1>20, SMT DEF OsExit
<1>21. ASSUME NEW w \in Widgets, EwWantsCall(w) PROVE StackInv'
  BY <1>21, SMT DEF EwWantsCall
<1>22. ASSUME EwCallBegin PROVE StackInv'
  BY <1>22, SMT DEF EwCallBegin, LsAssert
<1>23. ASSUME EwPush PROVE StackInv'
  BY <1>23, SMT DEF EwPush
<1>24. ASSUME EwCallEnd PROVE StackInv'
  BY <1>24, SMT DEF EwCallEnd, LsAssert
<1>25. ASSUME NEW ok \in BOOLEAN, EwPcall(ok) PROVE StackInv'
  BY <1>25, SMTT(20) DEF EwPcall, WillCallBarlib
<1>26. ASSUME EwUnlock PROVE StackInv'
  BY <1>26, SMT DEF EwUnlock
<1>27. ASSUME EwCallCancel PROVE StackInv'
  BY <1>27, SMT DEF EwCallCancel
<1>28. ASSUME NEW ok \in BOOLEAN, EwReturns(ok) PROVE StackInv'
  BY <1>28, SMT DEF EwReturns
<1>29. ASSUME Join PROVE StackInv'
  BY <1>29, SMT DEF Join
<1>30. ASSUME AllJoined PROVE StackInv'
  BY <1>30, SMT DEF AllJoined
<1>31. ASSUME DestroyWidget PROVE StackInv'
  BY <1>31, SMT DEF DestroyWidget
<1>32. ASSUME DestroyRest PROVE StackInv'
  BY <1>32, SMT DEF DestroyRest
<1>33. ASSUME UNCHANGED vars PROVE StackInv'
  BY <1>33, SMT DEF vars
<1> HIDE DEF IInv, TypeOK, PhaseInv, LockInv, StackInv, NoAssertFails
<1>. QED
  BY <1>1, <1>2, <1>3, <1>4, <1>5, <1>6, <1>7, <1>8, <1>9, <1>10, <1>11, <1>12,
     <1>13, <1>14, <1>15, <1>16, <1>17, <1>18, <1>19, <1>20, <1>21, <1>22, <1>23,
     <1>24, <1>25, <1>26, <1>27, <1>28, <1>29, <1>30, <1>31, <1>32, <1>33
     DEF Next, StartUp, PluginStep, BarlibStep, EventStep, ShutDown, Hang, Ended

\* No step fails an assertion.
LEMMA AssertStep ==
  ASSUME IInv, Next
  PROVE  NoAssertFails'
<1> USE ConstAssumption
     DEF Widgets, Main, Threads, SepState, LuaStates, NULL, Free, Owners, Goto, E,
         InBarlib, AroundBarlib, InPluginCall, InEventCall, widgetVars, lifeVars,
         IInv, TypeOK, PhaseInv, LockInv, StackInv, NoAssertFails
<1>1. ASSUME NEW hasEvent \in BOOLEAN, NEW inSep \in BOOLEAN, WidgetInitOk(hasEvent, inSep)
     PROVE  NoAssertFails'
  BY <1>1, SMT DEF WidgetInitOk
<1>2. ASSUME WidgetInitFails PROVE NoAssertFails'
  BY <1>2, SMT DEF WidgetInitFails
<1>3. ASSUME NEW ok \in BOOLEAN, BarlibInit(ok) PROVE NoAssertFails'
  BY <1>3, SMT DEF BarlibInit
<1>4. ASSUME SpawnStillborn PROVE NoAssertFails'
  BY <1>4, SMT DEF SpawnStillborn, WillCallBarlib
<1>5. ASSUME SpawnRegister PROVE NoAssertFails'
  BY <1>5, SMT DEF SpawnRegister
<1>6. ASSUME SpawnCreate PROVE NoAssertFails'
  BY <1>6, SMT DEF SpawnCreate
<1>7. ASSUME StartEventWatcher PROVE NoAssertFails'
  BY <1>7, SMT DEF StartEventWatcher
<1>8. ASSUME NEW w \in Widgets, PluginWantsCall(w) PROVE NoAssertFails'
  BY <1>8, SMT DEF PluginWantsCall
<1>9. ASSUME NEW w \in Widgets, PluginCallBegin(w) PROVE NoAssertFails'
  BY <1>9, SMT DEF PluginCallBegin, LsAssert
<1>10. ASSUME NEW w \in Widgets, PluginPush(w) PROVE NoAssertFails'
  BY <1>10, SMT DEF PluginPush
<1>11. ASSUME NEW w \in Widgets, PluginCallEnd(w) PROVE NoAssertFails'
  BY <1>11, SMT DEF PluginCallEnd, LsAssert
<1>12. ASSUME NEW w \in Widgets, NEW ok \in BOOLEAN, PluginPcall(w, ok) PROVE NoAssertFails'
  BY <1>12, SMT DEF PluginPcall, WillCallBarlib
<1>13. ASSUME NEW w \in Widgets, PluginUnlock(w) PROVE NoAssertFails'
  BY <1>13, SMT DEF PluginUnlock
<1>14. ASSUME NEW w \in Widgets, PluginCallCancel(w) PROVE NoAssertFails'
  BY <1>14, SMT DEF PluginCallCancel
<1>15. ASSUME NEW w \in Widgets, PluginRunReturns(w) PROVE NoAssertFails'
  BY <1>15, SMT DEF PluginRunReturns, WillCallBarlib
<1>16. ASSUME NEW t \in Threads, LockB(t) PROVE NoAssertFails'
  BY <1>16, SMT DEF LockB
<1>17. ASSUME NEW t \in Threads, NEW r \in {"ok", "nonfatal", "err"}, NEW junk \in 0..1, BarlibSet(t, r, junk)
     PROVE  NoAssertFails'
  BY <1>17, SMT DEF BarlibSet, Target
<1>18. ASSUME NEW t \in Threads, NEW ok \in BOOLEAN, BarlibSetError(t, ok) PROVE NoAssertFails'
  BY <1>18, SMT DEF BarlibSetError, Target
<1>19. ASSUME NEW t \in Threads, UnlockB(t) PROVE NoAssertFails'
  BY <1>19, SMT DEF UnlockB
<1>20. ASSUME NEW t \in Threads, OsExit(t) PROVE NoAssertFails'
  BY <1>20, SMT DEF OsExit
<1>21. ASSUME NEW w \in Widgets, EwWantsCall(w) PROVE NoAssertFails'
  BY <1>21, SMT DEF EwWantsCall
<1>22. ASSUME EwCallBegin PROVE NoAssertFails'
  BY <1>22, SMT DEF EwCallBegin, LsAssert
<1>23. ASSUME EwPush PROVE NoAssertFails'
  BY <1>23, SMT DEF EwPush
<1>24. ASSUME EwCallEnd PROVE NoAssertFails'
  BY <1>24, SMT DEF EwCallEnd, LsAssert
<1>25. ASSUME NEW ok \in BOOLEAN, EwPcall(ok) PROVE NoAssertFails'
  BY <1>25, SMT DEF EwPcall, WillCallBarlib
<1>26. ASSUME EwUnlock PROVE NoAssertFails'
  BY <1>26, SMT DEF EwUnlock
<1>27. ASSUME EwCallCancel PROVE NoAssertFails'
  BY <1>27, SMT DEF EwCallCancel
<1>28. ASSUME NEW ok \in BOOLEAN, EwReturns(ok) PROVE NoAssertFails'
  BY <1>28, SMT DEF EwReturns
<1>29. ASSUME Join PROVE NoAssertFails'
  BY <1>29, SMT DEF Join
<1>30. ASSUME AllJoined PROVE NoAssertFails'
  BY <1>30, SMT DEF AllJoined
<1>31. ASSUME DestroyWidget PROVE NoAssertFails'
  BY <1>31, SMT DEF DestroyWidget
<1>32. ASSUME DestroyRest PROVE NoAssertFails'
  BY <1>32, SMT DEF DestroyRest
<1>33. ASSUME UNCHANGED vars PROVE NoAssertFails'
  BY <1>33, SMT DEF vars
<1> HIDE DEF IInv, TypeOK, PhaseInv, LockInv, StackInv, NoAssertFails
<1>. QED
  BY <1>1, <1>2, <1>3, <1>4, <1>5, <1>6, <1>7, <1>8, <1>9, <1>10, <1>11, <1>12,
     <1>13, <1>14, <1>15, <1>16, <1>17, <1>18, <1>19, <1>20, <1>21, <1>22, <1>23,
     <1>24, <1>25, <1>26, <1>27, <1>28, <1>29, <1>30, <1>31, <1>32, <1>33
     DEF Next, StartUp, PluginStep, BarlibStep, EventStep, ShutDown, Hang, Ended

\* The initial state satisfies the invariant.
LEMMA InitIInv ==
  ASSUME Init
  PROVE  IInv
<1>1. pc[Main] = "widgets_init" /\ \A w \in Widgets : pc[w] = "none"
  <2>1. Main \in Threads /\ Main \notin Widgets /\ Widgets \subseteq Threads
    BY ConstAssumption DEF Main, Threads, Widgets
  <2>. QED BY <2>1, Zenon DEF Init, NotStarted
<1>3. /\ pc \in [Threads -> MainPCs \cup PluginPCs]
      /\ pc[Main] \in MainPCs /\ \A w \in Widgets : pc[w] \in PluginPCs
  <2>1. "widgets_init" \in MainPCs /\ "none" \in PluginPCs
    BY DEF MainPCs, PluginPCs
  <2>2. pc \in [Threads -> MainPCs \cup PluginPCs]
    BY <2>1, Zenon DEF Init, NotStarted
  <2>. QED BY <1>1, <2>1, <2>2
<1> USE ConstAssumption
    DEF Widgets, Main, Threads, SepState, LuaStates, NULL, Free, Owners, E,
        InBarlib, AroundBarlib, InPluginCall, InEventCall
<1>2. /\ \A s \in LuaStates : mtx[s] = Free
      /\ set_mtx = Free /\ sepUp = FALSE /\ next = 1 /\ proc = "alive"
      /\ \A w \in Widgets : kind[w] = "uninit" /\ sepstate_event[w] = FALSE
  BY SMT DEF Init, NotStarted
<1>4. TypeOK
  <2>1. /\ kind \in [Widgets -> {"uninit", "live", "stillborn"}]
        /\ lref_event \in [Widgets -> BOOLEAN] /\ sepstate_event \in [Widgets -> BOOLEAN]
        /\ shown \in [Widgets -> {"blank", "value", "error"}]
        /\ sepUp \in BOOLEAN /\ barlibUp \in BOOLEAN
    BY Zenon DEF Init, NotStarted
  <2>2. /\ mtx \in [LuaStates -> Owners] /\ top \in [LuaStates -> Int]
        /\ call \in [Threads -> {"none", "set", "set_error"}]
        /\ ret \in [Threads -> {"none", "unlock_L", "unlock_E", "spawn", "done"}]
    BY SMT DEF Init, NotStarted
  <2>3. /\ proc = "alive" /\ next \in 1..(N + 1) /\ tgt \in 0..N /\ cur_w \in 0..N
        /\ set_mtx \in Owners /\ registered = {} /\ destroyed = {}
    BY SMT DEF Init, NotStarted
  <2>. QED BY <1>3, <2>1, <2>2, <2>3 DEF TypeOK
<1>5. PhaseInv
  BY <1>1, <1>2, SMT DEF PhaseInv, Spawning
<1>6. LockInv
  BY <1>1, <1>2, SMT DEF LockInv
<1>7. StackInv /\ NoAssertFails
  BY <1>1, <1>2, SMT DEF StackInv, NoAssertFails
<1>. QED BY <1>4, <1>5, <1>6, <1>7 DEF IInv

LEMMA Stutter == IInv /\ UNCHANGED vars => IInv'
BY DEF vars, IInv, TypeOK, PhaseInv, LockInv, StackInv, NoAssertFails, Spawning, E,
       InPluginCall, InEventCall

\* The invariant holds throughout every behaviour.
THEOREM Invariance == Spec => []IInv
<1>1. IInv /\ [Next]_vars => IInv'
  BY TypeStep, PhaseStep, LockStep, StackStep, AssertStep, Stutter DEF IInv
<1>. QED BY InitIInv, <1>1, PTL DEF Spec

-----------------------------------------------------------------------------
\* Every variable keeps its type, for any number of widgets.
THEOREM TypeCorrect == Spec => []TypeOK
<1>1. IInv => TypeOK
  BY DEF IInv
<1>. QED BY Invariance, <1>1, PTL

\* No Lua interpreter is ever used by two threads at once: not by a cb and an event
\* handler, not by register_funcs() before the thread starts, not by the cleanup.
THEOREM InterpretersAreExclusive == Spec => []LuaStateExclusive
<1>1. IInv => LuaStateExclusive
  <2> USE ConstAssumption
      DEF Widgets, Main, Threads, SepState, LuaStates, Free, AroundBarlib, InBarlib
  <2> SUFFICES ASSUME IInv, NEW s \in LuaStates, NEW t \in Threads, NEW u \in Threads,
                      Uses(t, s), Uses(u, s), t # u
               PROVE  FALSE
    BY DEF LuaStateExclusive
  <2>1. ASSUME NEW v \in Threads, v # Main, Uses(v, s)
        PROVE  s = v /\ InPluginCall(v) /\ mtx[s] = v
    BY <2>1 DEF Uses, IInv, LockInv
  <2>2. CASE InEventCall
    <3>1. mtx[E(tgt)] = Main /\ pc[Main] \notin {"widgets_init", "spawn", "cleanup"}
      BY <2>2 DEF IInv, LockInv, TypeOK, InEventCall, E
    <3>2. Uses(Main, s) => mtx[s] = Main
      BY <3>1 DEF Uses
    <3>. QED BY <2>1, <3>2
  <2>3. CASE ~InEventCall
    <3>1. Uses(Main, s) => \/ pc[Main] \in {"widgets_init", "cleanup"}
                           \/ pc[Main] = "spawn" /\ next <= N /\ s = next
      BY <2>3 DEF Uses
    <3>2. ASSUME NEW v \in Threads, v # Main, s = v, InPluginCall(v), Uses(Main, s)
          PROVE  FALSE
      BY <3>1, <3>2 DEF IInv, PhaseInv, Spawning, InPluginCall, TypeOK
    <3>. QED BY <2>1, <3>2
  <2>. QED BY <2>2, <2>3
<1>. QED BY Invariance, <1>1, PTL

\* barlib.set() and barlib.set_error() never run concurrently.
THEOREM BarlibIsExclusive == Spec => []BarlibExclusive
<1>1. IInv => BarlibExclusive
  BY DEF IInv, LockInv, BarlibExclusive
<1>. QED BY Invariance, <1>1, PTL

\* The locking discipline of locking-patterns.md: E < L < B, no mutex twice.
THEOREM LocksAreOrdered == Spec => []LockOrder
<1>1. IInv => LockOrder
  <2> SUFFICES ASSUME IInv, NEW t \in Threads
               PROVE  /\ pc[t] \in {"want_L", "want_E"} =>
                           set_mtx # t /\ \A s \in LuaStates : mtx[s] # t
                      /\ pc[t] = "want_B" => set_mtx # t
                      /\ set_mtx = t => pc[t] \in InBarlib
    BY DEF LockOrder
  <2>1. set_mtx = t <=> pc[t] \in InBarlib
    BY DEF IInv, LockInv
  <2>2. ASSUME pc[t] \in {"want_L", "want_E"}, NEW s \in LuaStates
        PROVE  mtx[s] # t
    <3>1. CASE t = Main
      BY <2>2, <3>1 DEF IInv, LockInv, InEventCall, AroundBarlib, InBarlib
    <3>2. CASE t # Main
      <4>1. t \in Widgets /\ ~InPluginCall(t)
        BY <2>2, <3>2, ConstAssumption
           DEF Threads, Widgets, Main, InPluginCall, AroundBarlib, InBarlib
      <4>2. mtx[t] # t /\ mtx[s] \in {Free, Main, s}
        BY <4>1 DEF IInv, LockInv
      <4>. QED BY <4>1, <4>2, <3>2, ConstAssumption DEF Free, Main, Threads
    <3>. QED BY <3>1, <3>2
  <2>. QED BY <2>1, <2>2 DEF InBarlib
<1>. QED BY Invariance, <1>1, PTL

\* No LS_ASSERT on the height of a Lua stack fails after any history of calls.
THEOREM AssertionsHold == Spec => []NoAssertFails
<1>1. IInv => NoAssertFails
  BY DEF IInv
<1>. QED BY Invariance, <1>1, PTL

-----------------------------------------------------------------------------
\* Interpreters are closed in the cleanup only, which the main thread does not leave.
DestroyedInv == destroyed # {} => pc[Main] = "cleanup"

LEMMA DestroyedStep ==
  ASSUME IInv, DestroyedInv, [Next]_vars
  PROVE  DestroyedInv'
<1> USE ConstAssumption
    DEF Widgets, Main, Threads, Goto, InBarlib, IInv, TypeOK, DestroyedInv, widgetVars, lifeVars
<1>1. ASSUME StartUp PROVE DestroyedInv'
  BY <1>1 DEF StartUp, WidgetInitOk, WidgetInitFails, BarlibInit, SpawnStillborn, SpawnRegister,
     SpawnCreate, StartEventWatcher, WillCallBarlib
<1>2. ASSUME NEW w \in Widgets, PluginStep(w) PROVE DestroyedInv'
  <2>1. destroyed' = destroyed /\ pc'[Main] = pc[Main]
    <3>1. CASE PluginWantsCall(w) \/ PluginCallBegin(w) \/ PluginPush(w)
      BY <3>1 DEF PluginWantsCall, PluginCallBegin, PluginPush, LsAssert
    <3>2. CASE PluginCallEnd(w)
      BY <3>2 DEF PluginCallEnd, LsAssert
    <3>3. ASSUME NEW ok \in BOOLEAN, PluginPcall(w, ok)
          PROVE  destroyed' = destroyed /\ pc'[Main] = pc[Main]
      BY <3>3 DEF PluginPcall, WillCallBarlib
    <3>4. CASE PluginUnlock(w) \/ PluginCallCancel(w)
      BY <3>4 DEF PluginUnlock, PluginCallCancel
    <3>5. CASE PluginRunReturns(w)
      BY <3>5 DEF PluginRunReturns, WillCallBarlib
    <3> HIDE DEF IInv, TypeOK, DestroyedInv, Main, Widgets
    <3>. QED BY <1>2, <3>1, <3>2, <3>3, <3>4, <3>5 DEF PluginStep
  <2>. QED BY <2>1
<1>3. ASSUME NEW t \in Threads, BarlibStep(t) PROVE DestroyedInv'
  <2>1. destroyed' = destroyed /\ (pc[Main] = "cleanup" => pc'[Main] = "cleanup")
    <3>1. CASE LockB(t)
      BY <3>1 DEF LockB
    <3>2. ASSUME NEW r \in {"ok", "nonfatal", "err"}, NEW junk \in 0..1, BarlibSet(t, r, junk)
          PROVE  destroyed' = destroyed /\ (pc[Main] = "cleanup" => pc'[Main] = "cleanup")
      BY <3>2 DEF BarlibSet
    <3>3. ASSUME NEW ok \in BOOLEAN, BarlibSetError(t, ok)
          PROVE  destroyed' = destroyed /\ (pc[Main] = "cleanup" => pc'[Main] = "cleanup")
      BY <3>3 DEF BarlibSetError
    <3>4. CASE UnlockB(t)
      BY <3>4 DEF UnlockB
    <3> HIDE DEF IInv, TypeOK, DestroyedInv, Main, Widgets
    <3>. QED BY <1>3, <3>1, <3>2, <3>3, <3>4 DEF BarlibStep
  <2>. QED BY <2>1
<1>4. ASSUME NEW t \in Threads, OsExit(t) PROVE DestroyedInv'
  BY <1>4 DEF OsExit
<1>5. ASSUME EventStep PROVE DestroyedInv'
  <2>1. destroyed' = destroyed /\ pc[Main] # "cleanup"
    BY <1>5 DEF EventStep, EwWantsCall, EwCallBegin, EwPush, EwCallEnd, EwPcall, EwUnlock,
       EwCallCancel, EwReturns
  <2>. QED BY <2>1
<1>6. ASSUME ShutDown PROVE DestroyedInv'
  BY <1>6 DEF ShutDown, Join, AllJoined, Hang, DestroyWidget, DestroyRest, vars
<1>7. ASSUME UNCHANGED vars PROVE DestroyedInv'
  BY <1>7 DEF vars
<1> HIDE DEF IInv, TypeOK, DestroyedInv
<1>. QED BY <1>1, <1>2, <1>3, <1>4, <1>5, <1>6, <1>7 DEF Next, Ended

\* Nothing is destroyed while a widget's thread can still reach it (widget_destroy(),
\* sepstate_maybe_destroy(), after the joins of main()).
THEOREM NothingIsUsedAfterDestroy == Spec => []NoUseAfterDestroy
<1>1. Init => DestroyedInv
  BY DEF Init, NotStarted, DestroyedInv
<1>2. IInv /\ IInv' /\ DestroyedInv /\ [Next]_vars => DestroyedInv'
  BY DestroyedStep
<1>3. IInv /\ DestroyedInv => NoUseAfterDestroy
  BY DEF IInv, PhaseInv, DestroyedInv, NoUseAfterDestroy
<1>. QED BY Invariance, <1>1, <1>2, <1>3, PTL DEF Spec
-----------------------------------------------------------------------------
(* The multiplex plugin: a nested interpreter is used by one thread at a   *)
(* time and with the stack its users expect, and the mutex of the          *)
(* initialization exists for all who use it.                               *)

\* Control points of a multiplexing widget: before its nested widgets are complete, until
\* they may have threads, and after that.
Preparing == {"uninit", "stillborn", "ready", "create", "creating"}
NotSpawned == Preparing \cup {"publish", "hello", "hello_cb"}
MuxPCs == NotSpawned \cup {"spawn", "fetch", "update", "update_cb"}

NestedInCall == {"begun", "pushed", "called"}
NestedPCs == NestedInCall \cup {"none", "run", "exited"}

CallerInCall == {"begun", "pushed", "unlock"}
CallerPCs == CallerInCall \cup {"idle", "lookup", "deref", "lock", "return"}

Structs == [holder : Muxes \cup {None}, nrefs : Nat \ {0}]

MxTypeOK ==
  /\ control \in Structs \cup {None}
  /\ mpc \in [Muxes -> MuxPCs] /\ nxt \in [Muxes -> Nat]
  /\ runner \in [Nested -> {None, "live"}]
  /\ nestedL \in [Nested -> Nested \cup Callers \cup {None}]
  /\ mtop \in [Nested -> Int] /\ npc \in [Nested -> NestedPCs]
  /\ epc \in [Callers -> CallerPCs] /\ target \in [Callers -> Nested \cup {None}]

\* Who initialized the plugin has a reference, and who creates nested widgets the mutex.
Control ==
  /\ IsFiniteSet(Referrers)
  /\ control = None => Referrers = {}
  /\ control # None => control.nrefs >= Cardinality(Referrers)
  /\ \A m \in Muxes : mpc[m] \in {"create", "creating"} => control # None /\ control.holder = m

\* Nested widgets are created one after the other.
Creation ==
  \A m \in Muxes :
    /\ mpc[m] = "creating" => nxt[m] \in Sources
    /\ mpc[m] \in Preparing => \A i \in Sources : i >= nxt[m] => runner[<<m, i>>] # "live"

\* Only a nested widget that was created has a thread, and gets it once.
NestedSpawning ==
  /\ \A r \in Nested : npc[r] # "none" => runner[r] = "live"
  /\ \A m \in Muxes : \A i \in Sources :
       mpc[m] \in NotSpawned \/ (mpc[m] = "spawn" /\ i >= nxt[m]) => npc[<<m, i>>] = "none"

\* call_event() goes on only with a nested widget that was created.
CallsLive ==
  \A c \in Callers :
    /\ epc[c] \in CallerInCall \cup {"lookup", "deref", "lock"} => target[c] \in Nested
    /\ epc[c] \in CallerInCall \cup {"lock"} => runner[target[c]] = "live"

\* L_mtx of a nested widget is held by the thread that is between lock and unlock.
Locks ==
  \A r \in Nested :
    /\ nestedL[r] \in {r, None} \cup Callers
    /\ nestedL[r] = r <=> npc[r] \in NestedInCall
    /\ \A c \in Callers : nestedL[r] = c <=> target[c] = r /\ epc[c] \in CallerInCall

\* The height of the stack follows from where its user is.
Stacks ==
  /\ \A m \in Muxes : mpc[m] = "creating" => mtop[<<m, nxt[m]>>] = 1
  /\ \A r \in Nested :
       /\ runner[r] = "live" /\ nestedL[r] = None => mtop[r] = 1
       /\ npc[r] = "begun" => mtop[r] = 2
       /\ npc[r] = "pushed" => mtop[r] = 3
  /\ \A c \in Callers :
       /\ epc[c] = "begun" => mtop[target[c]] = 2
       /\ epc[c] = "pushed" => mtop[target[c]] = 3
       /\ epc[c] = "unlock" => mtop[target[c]] = 1

MxInv ==
  /\ MxTypeOK /\ Control /\ Creation /\ NestedSpawning /\ CallsLive /\ Locks /\ Stacks
  /\ StackIsBalanced

\* The plugin starts in the invariant.
LEMMA MxInvInit ==
  ASSUME MxInit
  PROVE  MxInv
<1> USE MultiplexAssumption DEF MxInit, MxStart, Sources, Nested, Callers
<1>1. MxTypeOK
  BY DEF MxTypeOK, MuxPCs, NotSpawned, Preparing, NestedPCs, CallerPCs
<1>2. Control
  <2>1. Referrers = {}
    BY DEF Referrers
  <2>. QED BY <2>1, FS_EmptySet DEF Control
<1>3. Creation /\ NestedSpawning /\ CallsLive /\ Locks /\ Stacks /\ StackIsBalanced
  BY DEF Creation, NestedSpawning, CallsLive, Locks, Stacks, StackIsBalanced, NestedInCall, CallerInCall
<1>. QED BY <1>1, <1>2, <1>3 DEF MxInv

\* map_ref_init() makes the struct or counts one more; map_ref_destroy() after it undoes it.
LEMMA MapRefs ==
  ASSUME control \in Structs \cup {None}
  PROVE  /\ MapRef(control) \in Structs
         /\ MapRef(control).nrefs = IF control = None THEN 1 ELSE control.nrefs + 1
         /\ control # None => MapRef(control).holder = control.holder
         /\ MapUnref(MapRef(control)) = control
<1> USE MultiplexAssumption DEF MapRef, MapUnref, Structs, Callers
<1>1. CASE control = None
  BY <1>1
<1>2. CASE control # None
  <2>1. control \in Structs /\ control.nrefs + 1 \in Nat \ {0, 1}
    BY <1>2
  <2>2. MapRef(control) = [control EXCEPT !.nrefs = control.nrefs + 1]
    BY <1>2
  <2>3. /\ MapRef(control) \in Structs /\ MapRef(control).nrefs = control.nrefs + 1
        /\ MapRef(control).holder = control.holder
    BY <2>1, <2>2
  <2>4. MapUnref(MapRef(control)) = [MapRef(control) EXCEPT !.nrefs = MapRef(control).nrefs - 1]
    BY <2>1, <2>3
  <2>5. MapUnref(MapRef(control)) = control
    BY <2>1, <2>2, <2>4
  <2>. QED BY <1>2, <2>3, <2>5
<1>. QED BY <1>1, <1>2

\* The steps: of the initialization, of a multiplexing widget's thread after it, of nested
\* widgets' threads, of call_event(), and what changes nothing the invariant speaks of.
InitActs ==
  \E m \in Muxes :
    \/ InitOk(m) \/ InitFails(m) \/ LockInit(m) \/ RunnerNew(m) \/ UnlockInit(m)
    \/ \E h, mux \in BOOLEAN : RunnerNewOk(m, h, mux) \/ RunnerNewFails(m, mux)
MuxActs ==
  \E m \in Muxes :
    Publish(m) \/ (\E ok \in BOOLEAN : Spawn(m, ok)) \/ Fetch(m) \/ CallBegin(m) \/ CallEnd(m)
NestedActs == \E r \in Nested : NCallBegin(r) \/ NPush(r) \/ NestedEnds(r) \/ NReturn(r)
CallActs ==
  \/ \E r \in Nested : EventHandler(r) \/ CbCallsEvent(r)
  \/ \E c \in Callers : EventBegin(c) \/ CallStep(c)
IdleActs == StartThreads \/ MxHang \/ UNCHANGED mxvars

\* There are no others.
LEMMA Cases ==
  ASSUME [MxNext]_mxvars
  PROVE  InitActs \/ MuxActs \/ NestedActs \/ CallActs \/ IdleActs
BY DEF MxNext, InitActs, MuxActs, NestedActs, CallActs, IdleActs, MuxStep

\* What a group of steps leaves alone.
LEMMA Frames ==
  /\ InitActs => UNCHANGED <<nestedL, npc, epc, target, aborted>>
  /\ MuxActs => UNCHANGED <<control, runner, nestedL, mtop, epc, target, aborted>>
  /\ NestedActs => UNCHANGED <<control, mpc, nxt, runner, epc, target>>
  /\ CallActs => UNCHANGED <<control, mpc, nxt, runner, npc>>
  /\ IdleActs => UNCHANGED <<control, mpc, nxt, runner, nestedL, mtop, npc, epc, target, aborted>>
<1> USE DEF initvars, muxvars, nestedvars, callvars, unchangedByNested, unchangedByCall
<1>1. InitActs => UNCHANGED <<nestedL, npc, epc, target, aborted>>
  BY DEF InitActs, InitOk, InitFails, LockInit, RunnerNew, RunnerNewOk, RunnerNewFails, UnlockInit
<1>2. MuxActs => UNCHANGED <<control, runner, nestedL, mtop, epc, target, aborted>>
  BY DEF MuxActs, Publish, Spawn, Fetch, CallBegin, CallEnd
<1>3. NestedActs => UNCHANGED <<control, mpc, nxt, runner, epc, target>>
  BY DEF NestedActs, NestedEnds, NCallBegin, NPush, NCallEnd, NUnlock, NReturn
<1>4. CallActs => UNCHANGED <<control, mpc, nxt, runner, npc>>
  BY DEF CallActs, CallStep, EventHandler, CbCallsEvent, Lookup, Deref, EventBegin, EventPush,
         EventEnd, EventUnlock, Return
<1>5. IdleActs => UNCHANGED <<control, mpc, nxt, runner, nestedL, mtop, npc, epc, target, aborted>>
  BY DEF IdleActs, StartThreads, MxHang, mxvars
<1>. QED BY <1>1, <1>2, <1>3, <1>4, <1>5

\* The name of a nested widget.
LEMMA Pairs == \A m \in Muxes : \A i \in Sources : <<m, i>> \in Nested
BY DEF Nested

\* Types.
LEMMA NestedTypeStep ==
  ASSUME MxInv, [MxNext]_mxvars
  PROVE  MxTypeOK'
<1>1. CASE InitActs
  <2> USE MultiplexAssumption DEF MxInv, MxTypeOK, MuxPCs, NotSpawned, Preparing, NestedPCs,
          NestedInCall, CallerPCs, CallerInCall, Nested, Sources, Callers, MGoto, initvars,
          nestedvars, callvars
  <2>1. ASSUME NEW m \in Muxes, InitOk(m) PROVE MxTypeOK'
    <3>1. MapRef(control) \in Structs /\ MapUnref(MapRef(control)) = control
      BY MapRefs DEF MxTypeOK
    <3>. QED BY <2>1, <3>1 DEF InitOk
  <2>2. ASSUME NEW m \in Muxes, InitFails(m) PROVE MxTypeOK'
    <3>1. MapRef(control) \in Structs /\ MapUnref(MapRef(control)) = control
      BY MapRefs DEF MxTypeOK
    <3>. QED BY <2>2, <3>1 DEF InitFails
  <2>3. ASSUME NEW m \in Muxes, LockInit(m) PROVE MxTypeOK'
    <3>1. control \in Structs
      BY <2>3 DEF LockInit, Control, Referrers
    <3>2. control' \in Structs
      BY <2>3, <3>1 DEF LockInit, Structs
    <3>. QED BY <2>3, <3>2 DEF LockInit
  <2>4. ASSUME NEW m \in Muxes, RunnerNew(m) PROVE MxTypeOK'
    BY <2>4 DEF RunnerNew
  <2>5. ASSUME NEW m \in Muxes, NEW h \in BOOLEAN, NEW mux \in BOOLEAN, RunnerNewOk(m, h, mux)
        PROVE  MxTypeOK'
    <3>1. MapRef(control) \in Structs /\ MapUnref(MapRef(control)) = control
      BY MapRefs
    <3>2. control' \in Structs \cup {None}
      BY <2>5, <3>1 DEF RunnerNewOk
    <3>3. mpc' \in [Muxes -> MuxPCs] /\ nxt' \in [Muxes -> Nat]
      BY <2>5 DEF RunnerNewOk
    <3>4. runner' \in [Nested -> {None, "live"}] /\ mtop' \in [Nested -> Int]
      <4>1. runner' \in [Nested -> {None, "live"}]
        BY <2>5 DEF RunnerNewOk
      <4>2. mtop' = mtop \/ mtop' = [mtop EXCEPT ![<<m, nxt[m]>>] = 0]
        BY <2>5 DEF RunnerNewOk
      <4>3. mtop' \in [Nested -> Int]
        <5>1. mtop \in [Nested -> Int]
          OBVIOUS
        <5> HIDE DEF MxInv, Nested
        <5>. QED BY <4>2, <5>1
      <4>. QED BY <4>1, <4>3
    <3>5. UNCHANGED <<nestedL, npc, epc, target>>
      BY <2>5 DEF RunnerNewOk
    <3>. QED BY <3>2, <3>3, <3>4, <3>5
  <2>6. ASSUME NEW m \in Muxes, NEW mux \in BOOLEAN, RunnerNewFails(m, mux) PROVE MxTypeOK'
    <3>1. MapRef(control) \in Structs /\ MapUnref(MapRef(control)) = control
      BY MapRefs
    <3>2. control' \in Structs \cup {None}
      BY <2>6, <3>1 DEF RunnerNewFails
    <3>3. mpc' \in [Muxes -> MuxPCs] /\ nxt' \in [Muxes -> Nat]
      BY <2>6 DEF RunnerNewFails
    <3>4. runner' \in [Nested -> {None, "live"}] /\ mtop' \in [Nested -> Int]
      <4>1. runner' \in [Nested -> {None, "live"}]
        BY <2>6 DEF RunnerNewFails
      <4>2. mtop' = mtop \/ mtop' = [mtop EXCEPT ![<<m, nxt[m]>>] = 0]
        BY <2>6 DEF RunnerNewFails
      <4>3. mtop' \in [Nested -> Int]
        <5>1. mtop \in [Nested -> Int]
          OBVIOUS
        <5> HIDE DEF MxInv, Nested
        <5>. QED BY <4>2, <5>1
      <4>. QED BY <4>1, <4>3
    <3>5. UNCHANGED <<nestedL, npc, epc, target>>
      BY <2>6 DEF RunnerNewFails
    <3>. QED BY <3>2, <3>3, <3>4, <3>5
  <2>7. ASSUME NEW m \in Muxes, UnlockInit(m) PROVE MxTypeOK'
    <3>1. control \in Structs
      BY <2>7 DEF UnlockInit, Control, Referrers
    <3>2. control' \in Structs
      BY <2>7, <3>1 DEF UnlockInit, Structs
    <3>. QED BY <2>7, <3>2 DEF UnlockInit
  <2> HIDE DEF MxInv, MxTypeOK, Nested, Sources, Callers
  <2>. QED BY <1>1, <2>1, <2>2, <2>3, <2>4, <2>5, <2>6, <2>7 DEF InitActs
<1>2. CASE MuxActs
  <2> USE MultiplexAssumption DEF MxInv, MxTypeOK, MuxPCs, NotSpawned, Preparing, NestedPCs,
          NestedInCall, CallerPCs, CallerInCall, Nested, Sources, Callers, MGoto, initvars,
          nestedvars, callvars
  <2>1. ASSUME NEW m \in Muxes, Publish(m) PROVE MxTypeOK'
    BY <2>1 DEF Publish
  <2>2. ASSUME NEW m \in Muxes, NEW ok \in BOOLEAN, Spawn(m, ok) PROVE MxTypeOK'
    <3>1. npc' \in [Nested -> NestedPCs]
      <4>1. npc' = npc \/ npc' = [npc EXCEPT ![<<m, nxt[m]>>] = "run"]
        BY <2>2 DEF Spawn
      <4>. QED BY <4>1
    <3>2. mpc' \in [Muxes -> MuxPCs]
      BY <2>2 DEF Spawn
    <3>3. nxt' \in [Muxes -> Nat]
      BY <2>2 DEF Spawn
    <3>4. UNCHANGED <<control, runner, nestedL, mtop, epc, target>>
      BY <2>2 DEF Spawn
    <3>. QED BY <3>1, <3>2, <3>3, <3>4
  <2>3. ASSUME NEW m \in Muxes, Fetch(m) PROVE MxTypeOK'
    BY <2>3 DEF Fetch
  <2>4. ASSUME NEW m \in Muxes, CallBegin(m) PROVE MxTypeOK'
    BY <2>4 DEF CallBegin
  <2>5. ASSUME NEW m \in Muxes, CallEnd(m) PROVE MxTypeOK'
    BY <2>5 DEF CallEnd
  <2> HIDE DEF MxInv, MxTypeOK, Nested, Sources, Callers
  <2>. QED BY <1>2, <2>1, <2>2, <2>3, <2>4, <2>5 DEF MuxActs
<1>3. CASE NestedActs
  <2> USE MultiplexAssumption DEF MxInv, MxTypeOK, MuxPCs, NotSpawned, Preparing, NestedPCs,
          NestedInCall, CallerPCs, CallerInCall, Nested, Sources, Callers, NGoto, MxAssert,
          unchangedByNested, initvars, muxvars, callvars
  <2>1. ASSUME NEW r \in Nested, NCallBegin(r) PROVE MxTypeOK'
    BY <2>1 DEF NCallBegin
  <2>2. ASSUME NEW r \in Nested, NPush(r) PROVE MxTypeOK'
    BY <2>2 DEF NPush
  <2>3. ASSUME NEW r \in Nested, NEW new \in BOOLEAN, NCallEnd(r, new) PROVE MxTypeOK'
    BY <2>3 DEF NCallEnd
  <2>4. ASSUME NEW r \in Nested, NUnlock(r) PROVE MxTypeOK'
    BY <2>4 DEF NUnlock
  <2>5. ASSUME NEW r \in Nested, NReturn(r) PROVE MxTypeOK'
    BY <2>5 DEF NReturn
  <2> HIDE DEF MxInv, MxTypeOK, Nested, Sources, Callers
  <2>. QED BY <1>3, <2>1, <2>2, <2>3, <2>4, <2>5 DEF NestedActs, NestedEnds
<1>4. CASE CallActs
  <2> USE MultiplexAssumption DEF MxInv, MxTypeOK, MuxPCs, NotSpawned, Preparing, NestedPCs,
          NestedInCall, CallerPCs, CallerInCall, Nested, Sources, Callers, EGoto, Answer,
          MxAssert, unchangedByCall, initvars
  <2>1. ASSUME NEW r \in Nested, EventHandler(r) PROVE MxTypeOK'
    BY <2>1 DEF EventHandler
  <2>2. ASSUME NEW r \in Nested, CbCallsEvent(r) PROVE MxTypeOK'
    BY <2>2 DEF CbCallsEvent
  <2>3. ASSUME NEW c \in Callers, Lookup(c) PROVE MxTypeOK'
    BY <2>3 DEF Lookup
  <2>4. ASSUME NEW c \in Callers, Deref(c) PROVE MxTypeOK'
    BY <2>4 DEF Deref
  <2>5. ASSUME NEW c \in Callers, EventBegin(c) PROVE MxTypeOK'
    <3>1. target[c] \in Nested
      BY <2>5 DEF EventBegin, CallsLive
    <3>2. mtop[target[c]] + 1 \in Int /\ mtop[target[c]] - 2 \in Int
      BY <3>1
    <3>3. mtop' \in [Nested -> Int]
      BY <2>5, <3>1, <3>2 DEF EventBegin
    <3>4. /\ nestedL' \in [Nested -> Nested \cup Callers \cup {None}]
          /\ epc' \in [Callers -> CallerPCs]
      BY <2>5, <3>1 DEF EventBegin
    <3>5. UNCHANGED <<control, mpc, nxt, runner, npc, target>>
      BY <2>5 DEF EventBegin
    <3>. QED BY <3>3, <3>4, <3>5
  <2>6. ASSUME NEW c \in Callers, EventPush(c) PROVE MxTypeOK'
    <3>1. target[c] \in Nested
      BY <2>6 DEF EventPush, CallsLive
    <3>2. mtop[target[c]] + 1 \in Int /\ mtop[target[c]] - 2 \in Int
      BY <3>1
    <3>3. mtop' \in [Nested -> Int]
      BY <2>6, <3>1, <3>2 DEF EventPush
    <3>4. /\ nestedL' \in [Nested -> Nested \cup Callers \cup {None}]
          /\ epc' \in [Callers -> CallerPCs]
      BY <2>6, <3>1 DEF EventPush
    <3>5. UNCHANGED <<control, mpc, nxt, runner, npc, target>>
      BY <2>6 DEF EventPush
    <3>. QED BY <3>3, <3>4, <3>5
  <2>7. ASSUME NEW c \in Callers, NEW a \in {"ok", "lua_error", "no_handler"}, EventEnd(c, a)
        PROVE  MxTypeOK'
    <3>1. target[c] \in Nested
      BY <2>7 DEF EventEnd, CallsLive
    <3>2. mtop[target[c]] + 1 \in Int /\ mtop[target[c]] - 2 \in Int
      BY <3>1
    <3>3. mtop' \in [Nested -> Int]
      BY <2>7, <3>1, <3>2 DEF EventEnd
    <3>4. /\ nestedL' \in [Nested -> Nested \cup Callers \cup {None}]
          /\ epc' \in [Callers -> CallerPCs]
      BY <2>7, <3>1 DEF EventEnd
    <3>5. UNCHANGED <<control, mpc, nxt, runner, npc, target>>
      BY <2>7 DEF EventEnd
    <3>. QED BY <3>3, <3>4, <3>5
  <2>8. ASSUME NEW c \in Callers, EventUnlock(c) PROVE MxTypeOK'
    BY <2>8 DEF EventUnlock
  <2>9. ASSUME NEW c \in Callers, Return(c) PROVE MxTypeOK'
    BY <2>9 DEF Return
  <2> HIDE DEF MxInv, MxTypeOK, Nested, Sources, Callers
  <2>. QED BY <1>4, <2>1, <2>2, <2>3, <2>4, <2>5, <2>6, <2>7, <2>8, <2>9 DEF CallActs, CallStep
<1>5. CASE IdleActs
  BY <1>5, Frames DEF MxInv, MxTypeOK
<1>. QED BY <1>1, <1>2, <1>3, <1>4, <1>5, Cases

\* The struct of the mutex is there as long as somebody refers to it.
LEMMA ControlStep ==
  ASSUME MxInv, [MxNext]_mxvars
  PROVE  Control'
<1>1. CASE InitActs
  <2> USE MultiplexAssumption DEF MxInv, Control, MuxPCs, NotSpawned, Preparing, Nested,
          Sources, Callers, MGoto, initvars, nestedvars, callvars
  <2>1. ASSUME NEW m \in Muxes, InitOk(m) PROVE Control'
    <3>1. Referrers' = Referrers \cup {m} /\ m \notin Referrers
      BY <2>1 DEF InitOk, Referrers, MxTypeOK
    <3>2. IsFiniteSet(Referrers') /\ Cardinality(Referrers') = Cardinality(Referrers) + 1
      BY <3>1, FS_AddElement
    <3>3. /\ control' \in Structs /\ control' # None
          /\ control'.nrefs = IF control = None THEN 1 ELSE control.nrefs + 1
          /\ control # None => control'.holder = control.holder
      BY <2>1, MapRefs DEF InitOk, MxTypeOK, Structs
    <3>4. control = None => Cardinality(Referrers) = 0
      BY FS_EmptySet
    <3>5. Cardinality(Referrers) \in Nat
      BY FS_CardinalityType
    <3>6. control'.nrefs >= Cardinality(Referrers')
      BY <3>2, <3>3, <3>4, <3>5 DEF MxTypeOK, Structs
    <3>7. \A k \in Muxes : mpc'[k] \in {"create", "creating"} => control'.holder = k
      BY <2>1, <3>3 DEF InitOk, MxTypeOK, Referrers
    <3>. QED BY <3>2, <3>3, <3>6, <3>7
  <2>2. ASSUME NEW m \in Muxes, InitFails(m) PROVE Control'
    <3>1. control' = control
      BY <2>2, MapRefs DEF InitFails, MxTypeOK
    <3>2. Referrers' = Referrers
      BY <2>2 DEF InitFails, Referrers, MxTypeOK
    <3>. QED BY <2>2, <3>1, <3>2 DEF InitFails, MxTypeOK
  <2>3. ASSUME NEW m \in Muxes, LockInit(m) PROVE Control'
    <3>1. Referrers' = Referrers
      BY <2>3 DEF LockInit, Referrers, MxTypeOK
    <3>2. control \in Structs /\ m \in Referrers
      BY <2>3 DEF LockInit, MxTypeOK, Referrers
    <3>3. control' # None /\ control'.nrefs = control.nrefs /\ control'.holder = m
      BY <2>3, <3>2 DEF LockInit, Structs
    <3>. QED BY <2>3, <3>1, <3>2, <3>3 DEF LockInit, MxTypeOK
  <2>4. ASSUME NEW m \in Muxes, RunnerNew(m) PROVE Control'
    <3>1. Referrers' = Referrers
      BY <2>4 DEF RunnerNew, Referrers, MxTypeOK
    <3>. QED BY <2>4, <3>1 DEF RunnerNew, MxTypeOK
  <2>5. ASSUME NEW m \in Muxes, NEW h \in BOOLEAN, NEW mux \in BOOLEAN, RunnerNewOk(m, h, mux)
        PROVE  Control'
    <3>1. Referrers' = Referrers
      BY <2>5 DEF RunnerNewOk, Referrers, MxTypeOK
    <3>2. control # None /\ control \in Structs
      BY <2>5 DEF RunnerNewOk, MxTypeOK
    <3>3. control' # None /\ control'.nrefs >= control.nrefs /\ control'.holder = control.holder
      BY <2>5, <3>2, MapRefs DEF RunnerNewOk, MxTypeOK, Structs
    <3>4. control'.nrefs >= Cardinality(Referrers')
      <4>1. control'.nrefs \in Nat /\ control.nrefs \in Nat /\ Cardinality(Referrers) \in Nat
        BY <2>5, <3>2, MapRefs, FS_CardinalityType DEF RunnerNewOk, MxTypeOK, Structs
      <4>. QED BY <3>1, <3>2, <3>3, <4>1
    <3>5. \A k \in Muxes : mpc'[k] \in {"create", "creating"} => control'.holder = k
      BY <2>5, <3>3 DEF RunnerNewOk, MxTypeOK
    <3>. QED BY <3>1, <3>3, <3>4, <3>5
  <2>6. ASSUME NEW m \in Muxes, NEW mux \in BOOLEAN, RunnerNewFails(m, mux) PROVE Control'
    <3>1. control' = control
      BY <2>6, MapRefs DEF RunnerNewFails, MxTypeOK
    <3>2. Referrers' = Referrers
      BY <2>6 DEF RunnerNewFails, Referrers, MxTypeOK
    <3>. QED BY <2>6, <3>1, <3>2 DEF RunnerNewFails, MxTypeOK
  <2>7. ASSUME NEW m \in Muxes, UnlockInit(m) PROVE Control'
    <3>1. Referrers' = Referrers
      BY <2>7 DEF UnlockInit, Referrers, MxTypeOK
    <3>2. control \in Structs
      BY <2>7 DEF UnlockInit, MxTypeOK
    <3>3. control' # None /\ control'.nrefs = control.nrefs
      BY <2>7, <3>2 DEF UnlockInit, Structs
    <3>. QED BY <2>7, <3>1, <3>2, <3>3 DEF UnlockInit, MxTypeOK
  <2> HIDE DEF MxInv, Control, Nested, Sources, Callers
  <2>. QED BY <1>1, <2>1, <2>2, <2>3, <2>4, <2>5, <2>6, <2>7 DEF InitActs
<1>2. CASE MuxActs
  <2> USE MultiplexAssumption DEF MxInv, Control, MuxPCs, NotSpawned, Preparing, Nested,
          Sources, Callers, MGoto, initvars, nestedvars, callvars
  <2>1. ASSUME NEW m \in Muxes, Publish(m) PROVE Control'
    <3>1. Referrers' = Referrers
      BY <2>1 DEF Publish, Referrers, MxTypeOK
    <3>. QED BY <2>1, <3>1 DEF Publish, MxTypeOK
  <2>2. ASSUME NEW m \in Muxes, NEW ok \in BOOLEAN, Spawn(m, ok) PROVE Control'
    <3>1. Referrers' = Referrers
      BY <2>2 DEF Spawn, Referrers, MxTypeOK
    <3>. QED BY <2>2, <3>1 DEF Spawn, MxTypeOK
  <2>3. ASSUME NEW m \in Muxes, Fetch(m) PROVE Control'
    <3>1. Referrers' = Referrers
      BY <2>3 DEF Fetch, Referrers, MxTypeOK
    <3>. QED BY <2>3, <3>1 DEF Fetch, MxTypeOK
  <2>4. ASSUME NEW m \in Muxes, CallBegin(m) PROVE Control'
    <3>1. Referrers' = Referrers
      BY <2>4 DEF CallBegin, Referrers, MxTypeOK
    <3>. QED BY <2>4, <3>1 DEF CallBegin, MxTypeOK
  <2>5. ASSUME NEW m \in Muxes, CallEnd(m) PROVE Control'
    <3>1. Referrers' = Referrers
      BY <2>5 DEF CallEnd, Referrers, MxTypeOK
    <3>. QED BY <2>5, <3>1 DEF CallEnd, MxTypeOK
  <2> HIDE DEF MxInv, Control, Nested, Sources, Callers
  <2>. QED BY <1>2, <2>1, <2>2, <2>3, <2>4, <2>5 DEF MuxActs
<1>3. CASE NestedActs
  BY <1>3, Frames DEF MxInv, Control, Referrers
<1>4. CASE CallActs
  BY <1>4, Frames DEF MxInv, Control, Referrers
<1>5. CASE IdleActs
  BY <1>5, Frames DEF MxInv, Control, Referrers
<1>. QED BY <1>1, <1>2, <1>3, <1>4, <1>5, Cases

\* Nested widgets are created one by one.
LEMMA CreationStep ==
  ASSUME MxInv, [MxNext]_mxvars
  PROVE  Creation'
<1>1. CASE InitActs
  <2> USE MultiplexAssumption DEF MxInv, MxTypeOK, Creation, MuxPCs, NotSpawned, Preparing,
          NestedPCs, NestedInCall, CallerPCs, CallerInCall, Nested, Sources, Callers, MGoto,
          initvars, nestedvars, callvars
  <2>1. ASSUME NEW m \in Muxes, InitOk(m) PROVE Creation'
    BY <2>1 DEF InitOk
  <2>2. ASSUME NEW m \in Muxes, InitFails(m) PROVE Creation'
    BY <2>2 DEF InitFails
  <2>3. ASSUME NEW m \in Muxes, LockInit(m) PROVE Creation'
    BY <2>3 DEF LockInit
  <2>4. ASSUME NEW m \in Muxes, RunnerNew(m) PROVE Creation'
    BY <2>4 DEF RunnerNew
  <2>5. ASSUME NEW m \in Muxes, NEW h \in BOOLEAN, NEW mux \in BOOLEAN, RunnerNewOk(m, h, mux)
        PROVE  Creation'
    BY <2>5 DEF RunnerNewOk
  <2>6. ASSUME NEW m \in Muxes, NEW mux \in BOOLEAN, RunnerNewFails(m, mux) PROVE Creation'
    BY <2>6 DEF RunnerNewFails
  <2>7. ASSUME NEW m \in Muxes, UnlockInit(m) PROVE Creation'
    BY <2>7 DEF UnlockInit
  <2> HIDE DEF MxInv, Creation, Nested, Sources, Callers
  <2>. QED BY <1>1, <2>1, <2>2, <2>3, <2>4, <2>5, <2>6, <2>7 DEF InitActs
<1>2. CASE MuxActs
  <2> USE MultiplexAssumption DEF MxInv, MxTypeOK, Creation, MuxPCs, NotSpawned, Preparing,
          NestedPCs, NestedInCall, CallerPCs, CallerInCall, Nested, Sources, Callers, MGoto,
          initvars, nestedvars, callvars
  <2>1. ASSUME NEW m \in Muxes, Publish(m) PROVE Creation'
    BY <2>1 DEF Publish
  <2>2. ASSUME NEW m \in Muxes, NEW ok \in BOOLEAN, Spawn(m, ok) PROVE Creation'
    BY <2>2 DEF Spawn
  <2>3. ASSUME NEW m \in Muxes, Fetch(m) PROVE Creation'
    BY <2>3 DEF Fetch
  <2>4. ASSUME NEW m \in Muxes, CallBegin(m) PROVE Creation'
    BY <2>4 DEF CallBegin
  <2>5. ASSUME NEW m \in Muxes, CallEnd(m) PROVE Creation'
    BY <2>5 DEF CallEnd
  <2> HIDE DEF MxInv, Creation, Nested, Sources, Callers
  <2>. QED BY <1>2, <2>1, <2>2, <2>3, <2>4, <2>5 DEF MuxActs
<1>3. CASE NestedActs
  BY <1>3, Frames DEF MxInv, Creation
<1>4. CASE CallActs
  BY <1>4, Frames DEF MxInv, Creation
<1>5. CASE IdleActs
  BY <1>5, Frames DEF MxInv, Creation
<1>. QED BY <1>1, <1>2, <1>3, <1>4, <1>5, Cases

\* Their threads are started one by one.
LEMMA SpawningStep ==
  ASSUME MxInv, [MxNext]_mxvars
  PROVE  NestedSpawning'
<1>1. CASE InitActs
  <2> USE MultiplexAssumption DEF MxInv, MxTypeOK, NestedSpawning, Creation, MuxPCs, NotSpawned,
          Preparing, NestedPCs, NestedInCall, CallerPCs, CallerInCall, Nested, Sources,
          Callers, MGoto, initvars, nestedvars, callvars
  <2>1. ASSUME NEW m \in Muxes, InitOk(m) PROVE NestedSpawning'
    BY <2>1 DEF InitOk
  <2>2. ASSUME NEW m \in Muxes, InitFails(m) PROVE NestedSpawning'
    BY <2>2 DEF InitFails
  <2>3. ASSUME NEW m \in Muxes, LockInit(m) PROVE NestedSpawning'
    BY <2>3 DEF LockInit
  <2>4. ASSUME NEW m \in Muxes, RunnerNew(m) PROVE NestedSpawning'
    BY <2>4 DEF RunnerNew
  <2>5. ASSUME NEW m \in Muxes, NEW h \in BOOLEAN, NEW mux \in BOOLEAN, RunnerNewOk(m, h, mux)
        PROVE  NestedSpawning'
    BY <2>5 DEF RunnerNewOk
  <2>6. ASSUME NEW m \in Muxes, NEW mux \in BOOLEAN, RunnerNewFails(m, mux) PROVE NestedSpawning'
    BY <2>6 DEF RunnerNewFails
  <2>7. ASSUME NEW m \in Muxes, UnlockInit(m) PROVE NestedSpawning'
    BY <2>7 DEF UnlockInit
  <2> HIDE DEF MxInv, NestedSpawning, Nested, Sources, Callers
  <2>. QED BY <1>1, <2>1, <2>2, <2>3, <2>4, <2>5, <2>6, <2>7 DEF InitActs
<1>2. CASE MuxActs
  <2> USE MultiplexAssumption DEF MxInv, MxTypeOK, NestedSpawning, Creation, MuxPCs, NotSpawned,
          Preparing, NestedPCs, NestedInCall, CallerPCs, CallerInCall, Nested, Sources,
          Callers, MGoto, initvars, nestedvars, callvars
  <2>1. ASSUME NEW m \in Muxes, Publish(m) PROVE NestedSpawning'
    BY <2>1 DEF Publish
  <2>2. ASSUME NEW m \in Muxes, NEW ok \in BOOLEAN, Spawn(m, ok) PROVE NestedSpawning'
    <3> DEFINE new == <<m, nxt[m]>>
    <3>1. nxt[m] \in Sources /\ npc[new] = "none" /\ new \in Nested /\ runner' = runner
      BY <2>2, Pairs DEF Spawn
    <3>2. \A k \in Muxes : \A i \in Sources :
            mpc'[k] \in NotSpawned \/ (mpc'[k] = "spawn" /\ i >= nxt'[k])
              => <<k, i>> # new /\ npc[<<k, i>>] = "none"
      BY <2>2, <3>1 DEF Spawn
    <3>3. CASE runner[new] = "live" /\ ok
      <4>1. npc' = [npc EXCEPT ![new] = "run"]
        BY <2>2, <3>3 DEF Spawn
      <4>2. \A q \in Nested : npc'[q] = IF q = new THEN "run" ELSE npc[q]
        BY <4>1
      <4> HIDE DEF new
      <4>3. \A q \in Nested : npc'[q] # "none" => runner'[q] = "live"
        BY <3>1, <3>3, <4>2
      <4>4. \A k \in Muxes : \A i \in Sources :
              mpc'[k] \in NotSpawned \/ (mpc'[k] = "spawn" /\ i >= nxt'[k])
                => npc'[<<k, i>>] = "none"
        BY <3>2, <4>2, Pairs
      <4>. QED BY <4>3, <4>4
    <3>4. CASE ~(runner[new] = "live" /\ ok)
      <4>1. npc' = npc
        BY <2>2, <3>4 DEF Spawn
      <4>. QED BY <2>2, <4>1 DEF Spawn
    <3>. QED BY <3>3, <3>4
  <2>3. ASSUME NEW m \in Muxes, Fetch(m) PROVE NestedSpawning'
    BY <2>3 DEF Fetch
  <2>4. ASSUME NEW m \in Muxes, CallBegin(m) PROVE NestedSpawning'
    BY <2>4 DEF CallBegin
  <2>5. ASSUME NEW m \in Muxes, CallEnd(m) PROVE NestedSpawning'
    BY <2>5 DEF CallEnd
  <2> HIDE DEF MxInv, NestedSpawning, Nested, Sources, Callers
  <2>. QED BY <1>2, <2>1, <2>2, <2>3, <2>4, <2>5 DEF MuxActs
<1>3. CASE NestedActs
  <2> USE MultiplexAssumption DEF MxInv, MxTypeOK, NestedSpawning, Creation, MuxPCs, NotSpawned,
          Preparing, NestedPCs, NestedInCall, CallerPCs, CallerInCall, Nested, Sources,
          Callers, NGoto, MxAssert, unchangedByNested, initvars, muxvars, callvars
  <2>1. ASSUME NEW r \in Nested, NCallBegin(r) PROVE NestedSpawning'
    BY <2>1 DEF NCallBegin
  <2>2. ASSUME NEW r \in Nested, NPush(r) PROVE NestedSpawning'
    BY <2>2 DEF NPush
  <2>3. ASSUME NEW r \in Nested, NEW new \in BOOLEAN, NCallEnd(r, new) PROVE NestedSpawning'
    BY <2>3 DEF NCallEnd
  <2>4. ASSUME NEW r \in Nested, NUnlock(r) PROVE NestedSpawning'
    BY <2>4 DEF NUnlock
  <2>5. ASSUME NEW r \in Nested, NReturn(r) PROVE NestedSpawning'
    BY <2>5 DEF NReturn
  <2> HIDE DEF MxInv, NestedSpawning, Nested, Sources, Callers
  <2>. QED BY <1>3, <2>1, <2>2, <2>3, <2>4, <2>5 DEF NestedActs, NestedEnds
<1>4. CASE CallActs
  BY <1>4, Frames DEF MxInv, NestedSpawning
<1>5. CASE IdleActs
  BY <1>5, Frames DEF MxInv, NestedSpawning
<1>. QED BY <1>1, <1>2, <1>3, <1>4, <1>5, Cases

\* call_event() does not use what is not there.
LEMMA CallsLiveStep ==
  ASSUME MxInv, [MxNext]_mxvars
  PROVE  CallsLive'
<1>1. CASE InitActs
  <2> USE MultiplexAssumption DEF MxInv, MxTypeOK, CallsLive, MuxPCs, NotSpawned, Preparing,
          NestedPCs, NestedInCall, CallerPCs, CallerInCall, Nested, Sources, Callers, MGoto,
          initvars, nestedvars, callvars
  <2>1. ASSUME NEW m \in Muxes, InitOk(m) PROVE CallsLive'
    BY <2>1 DEF InitOk
  <2>2. ASSUME NEW m \in Muxes, InitFails(m) PROVE CallsLive'
    BY <2>2 DEF InitFails
  <2>3. ASSUME NEW m \in Muxes, LockInit(m) PROVE CallsLive'
    BY <2>3 DEF LockInit
  <2>4. ASSUME NEW m \in Muxes, RunnerNew(m) PROVE CallsLive'
    BY <2>4 DEF RunnerNew
  <2>5. ASSUME NEW m \in Muxes, NEW h \in BOOLEAN, NEW mux \in BOOLEAN, RunnerNewOk(m, h, mux)
        PROVE  CallsLive'
    BY <2>5 DEF RunnerNewOk
  <2>6. ASSUME NEW m \in Muxes, NEW mux \in BOOLEAN, RunnerNewFails(m, mux) PROVE CallsLive'
    BY <2>6 DEF RunnerNewFails
  <2>7. ASSUME NEW m \in Muxes, UnlockInit(m) PROVE CallsLive'
    BY <2>7 DEF UnlockInit
  <2> HIDE DEF MxInv, CallsLive, Nested, Sources, Callers
  <2>. QED BY <1>1, <2>1, <2>2, <2>3, <2>4, <2>5, <2>6, <2>7 DEF InitActs
<1>2. CASE MuxActs
  BY <1>2, Frames DEF MxInv, CallsLive
<1>3. CASE NestedActs
  BY <1>3, Frames DEF MxInv, CallsLive
<1>4. CASE CallActs
  <2> USE MultiplexAssumption DEF MxInv, MxTypeOK, CallsLive, MuxPCs, NotSpawned, Preparing,
          NestedPCs, NestedInCall, CallerPCs, CallerInCall, Nested, Sources, Callers, EGoto,
          Answer, MxAssert, unchangedByCall, initvars
  <2>1. ASSUME NEW r \in Nested, EventHandler(r) PROVE CallsLive'
    BY <2>1 DEF EventHandler
  <2>2. ASSUME NEW r \in Nested, CbCallsEvent(r) PROVE CallsLive'
    BY <2>2 DEF CbCallsEvent
  <2>3. ASSUME NEW c \in Callers, Lookup(c) PROVE CallsLive'
    BY <2>3 DEF Lookup
  <2>4. ASSUME NEW c \in Callers, Deref(c) PROVE CallsLive'
    BY <2>4 DEF Deref
  <2>5. ASSUME NEW c \in Callers, EventBegin(c) PROVE CallsLive'
    BY <2>5 DEF EventBegin
  <2>6. ASSUME NEW c \in Callers, EventPush(c) PROVE CallsLive'
    BY <2>6 DEF EventPush
  <2>7. ASSUME NEW c \in Callers, NEW a \in {"ok", "lua_error", "no_handler"}, EventEnd(c, a)
        PROVE  CallsLive'
    BY <2>7 DEF EventEnd
  <2>8. ASSUME NEW c \in Callers, EventUnlock(c) PROVE CallsLive'
    BY <2>8 DEF EventUnlock
  <2>9. ASSUME NEW c \in Callers, Return(c) PROVE CallsLive'
    BY <2>9 DEF Return
  <2> HIDE DEF MxInv, CallsLive, Nested, Sources, Callers
  <2>. QED BY <1>4, <2>1, <2>2, <2>3, <2>4, <2>5, <2>6, <2>7, <2>8, <2>9 DEF CallActs, CallStep
<1>5. CASE IdleActs
  BY <1>5, Frames DEF MxInv, CallsLive
<1>. QED BY <1>1, <1>2, <1>3, <1>4, <1>5, Cases

\* The mutexes of nested widgets.
LEMMA LocksStep ==
  ASSUME MxInv, [MxNext]_mxvars
  PROVE  Locks'
<1>1. CASE InitActs
  BY <1>1, Frames DEF MxInv, Locks
<1>2. CASE MuxActs
  <2> USE MultiplexAssumption DEF MxInv, MxTypeOK, Locks, NestedSpawning, CallsLive, MuxPCs,
          NotSpawned, Preparing, NestedPCs, NestedInCall, CallerPCs, CallerInCall, Nested,
          Sources, Callers, MGoto, initvars, nestedvars, callvars
  <2>1. ASSUME NEW m \in Muxes, Publish(m) PROVE Locks'
    BY <2>1 DEF Publish
  <2>2. ASSUME NEW m \in Muxes, NEW ok \in BOOLEAN, Spawn(m, ok) PROVE Locks'
    <3> DEFINE new == <<m, nxt[m]>>
    <3>1. nxt[m] \in Sources /\ npc[new] = "none" /\ new \in Nested
      BY <2>2, Pairs DEF Spawn
    <3>2. CASE runner[new] = "live" /\ ok
      <4>1. npc' = [npc EXCEPT ![new] = "run"]
        BY <2>2, <3>2 DEF Spawn
      <4>. QED BY <2>2, <3>1, <3>2, <4>1 DEF Spawn
    <3>3. CASE ~(runner[new] = "live" /\ ok)
      <4>1. npc' = npc
        BY <2>2, <3>3 DEF Spawn
      <4>. QED BY <2>2, <4>1 DEF Spawn
    <3>. QED BY <3>2, <3>3
  <2>3. ASSUME NEW m \in Muxes, Fetch(m) PROVE Locks'
    BY <2>3 DEF Fetch
  <2>4. ASSUME NEW m \in Muxes, CallBegin(m) PROVE Locks'
    BY <2>4 DEF CallBegin
  <2>5. ASSUME NEW m \in Muxes, CallEnd(m) PROVE Locks'
    BY <2>5 DEF CallEnd
  <2> HIDE DEF MxInv, Locks, Nested, Sources, Callers
  <2>. QED BY <1>2, <2>1, <2>2, <2>3, <2>4, <2>5 DEF MuxActs
<1>3. CASE NestedActs
  <2> USE MultiplexAssumption DEF MxInv, MxTypeOK, Locks, NestedSpawning, CallsLive, MuxPCs,
          NotSpawned, Preparing, NestedPCs, NestedInCall, CallerPCs, CallerInCall, Nested,
          Sources, Callers, NGoto, MxAssert, unchangedByNested, initvars, muxvars, callvars
  <2>1. ASSUME NEW r \in Nested, NCallBegin(r) PROVE Locks'
    BY <2>1 DEF NCallBegin
  <2>2. ASSUME NEW r \in Nested, NPush(r) PROVE Locks'
    BY <2>2 DEF NPush
  <2>3. ASSUME NEW r \in Nested, NEW new \in BOOLEAN, NCallEnd(r, new) PROVE Locks'
    BY <2>3 DEF NCallEnd
  <2>4. ASSUME NEW r \in Nested, NUnlock(r) PROVE Locks'
    BY <2>4 DEF NUnlock
  <2>5. ASSUME NEW r \in Nested, NReturn(r) PROVE Locks'
    BY <2>5 DEF NReturn
  <2> HIDE DEF MxInv, Locks, Nested, Sources, Callers
  <2>. QED BY <1>3, <2>1, <2>2, <2>3, <2>4, <2>5 DEF NestedActs, NestedEnds
<1>4. CASE CallActs
  <2> USE MultiplexAssumption DEF MxInv, MxTypeOK, Locks, NestedSpawning, CallsLive, MuxPCs,
          NotSpawned, Preparing, NestedPCs, NestedInCall, CallerPCs, CallerInCall, Nested,
          Sources, Callers, EGoto, Answer, MxAssert, unchangedByCall, initvars
  <2>1. ASSUME NEW r \in Nested, EventHandler(r) PROVE Locks'
    BY <2>1 DEF EventHandler
  <2>2. ASSUME NEW r \in Nested, CbCallsEvent(r) PROVE Locks'
    BY <2>2 DEF CbCallsEvent
  <2>3. ASSUME NEW c \in Callers, Lookup(c) PROVE Locks'
    BY <2>3 DEF Lookup
  <2>4. ASSUME NEW c \in Callers, Deref(c) PROVE Locks'
    BY <2>4 DEF Deref
  <2>5. ASSUME NEW c \in Callers, EventBegin(c) PROVE Locks'
    BY <2>5 DEF EventBegin
  <2>6. ASSUME NEW c \in Callers, EventPush(c) PROVE Locks'
    BY <2>6 DEF EventPush
  <2>7. ASSUME NEW c \in Callers, NEW a \in {"ok", "lua_error", "no_handler"}, EventEnd(c, a)
        PROVE  Locks'
    BY <2>7 DEF EventEnd
  <2>8. ASSUME NEW c \in Callers, EventUnlock(c) PROVE Locks'
    BY <2>8 DEF EventUnlock
  <2>9. ASSUME NEW c \in Callers, Return(c) PROVE Locks'
    BY <2>9 DEF Return
  <2> HIDE DEF MxInv, Locks, Nested, Sources, Callers
  <2>. QED BY <1>4, <2>1, <2>2, <2>3, <2>4, <2>5, <2>6, <2>7, <2>8, <2>9 DEF CallActs, CallStep
<1>5. CASE IdleActs
  BY <1>5, Frames DEF MxInv, Locks
<1>. QED BY <1>1, <1>2, <1>3, <1>4, <1>5, Cases

\* The stacks of nested widgets, and the assertions about them.
LEMMA StacksStep ==
  ASSUME MxInv, [MxNext]_mxvars
  PROVE  Stacks' /\ StackIsBalanced'
<1>1. CASE InitActs
  <2> USE MultiplexAssumption DEF MxInv, MxTypeOK, Creation, NestedSpawning, CallsLive, Locks,
          Stacks, StackIsBalanced, MuxPCs, NotSpawned, Preparing, NestedPCs, NestedInCall,
          CallerPCs, CallerInCall, Nested, Sources, Callers, MGoto, initvars, nestedvars,
          callvars
  <2>1. ASSUME NEW m \in Muxes, InitOk(m) PROVE Stacks' /\ StackIsBalanced'
    BY <2>1 DEF InitOk
  <2>2. ASSUME NEW m \in Muxes, InitFails(m) PROVE Stacks' /\ StackIsBalanced'
    BY <2>2 DEF InitFails
  <2>3. ASSUME NEW m \in Muxes, LockInit(m) PROVE Stacks' /\ StackIsBalanced'
    BY <2>3 DEF LockInit
  <2>4. ASSUME NEW m \in Muxes, RunnerNew(m) PROVE Stacks' /\ StackIsBalanced'
    BY <2>4 DEF RunnerNew
  <2>5. ASSUME NEW m \in Muxes, NEW h \in BOOLEAN, NEW mux \in BOOLEAN, RunnerNewOk(m, h, mux)
        PROVE  Stacks' /\ StackIsBalanced'
    BY <2>5 DEF RunnerNewOk
  <2>6. ASSUME NEW m \in Muxes, NEW mux \in BOOLEAN, RunnerNewFails(m, mux)
        PROVE  Stacks' /\ StackIsBalanced'
    BY <2>6 DEF RunnerNewFails
  <2>7. ASSUME NEW m \in Muxes, UnlockInit(m) PROVE Stacks' /\ StackIsBalanced'
    BY <2>7 DEF UnlockInit
  <2> HIDE DEF MxInv, Stacks, StackIsBalanced, Nested, Sources, Callers
  <2>. QED BY <1>1, <2>1, <2>2, <2>3, <2>4, <2>5, <2>6, <2>7 DEF InitActs
<1>2. CASE MuxActs
  <2> USE MultiplexAssumption DEF MxInv, MxTypeOK, Creation, NestedSpawning, CallsLive, Locks,
          Stacks, StackIsBalanced, MuxPCs, NotSpawned, Preparing, NestedPCs, NestedInCall,
          CallerPCs, CallerInCall, Nested, Sources, Callers, MGoto, initvars, nestedvars,
          callvars
  <2>1. ASSUME NEW m \in Muxes, Publish(m) PROVE Stacks' /\ StackIsBalanced'
    BY <2>1 DEF Publish
  <2>2. ASSUME NEW m \in Muxes, NEW ok \in BOOLEAN, Spawn(m, ok)
        PROVE  Stacks' /\ StackIsBalanced'
    <3> DEFINE new == <<m, nxt[m]>>
    <3>1. nxt[m] \in Sources /\ npc[new] = "none" /\ new \in Nested
      BY <2>2, Pairs DEF Spawn
    <3>2. CASE runner[new] = "live" /\ ok
      <4>1. npc' = [npc EXCEPT ![new] = "run"]
        BY <2>2, <3>2 DEF Spawn
      <4>. QED BY <2>2, <3>1, <3>2, <4>1 DEF Spawn
    <3>3. CASE ~(runner[new] = "live" /\ ok)
      <4>1. npc' = npc
        BY <2>2, <3>3 DEF Spawn
      <4>. QED BY <2>2, <4>1 DEF Spawn
    <3>. QED BY <3>2, <3>3
  <2>3. ASSUME NEW m \in Muxes, Fetch(m) PROVE Stacks' /\ StackIsBalanced'
    BY <2>3 DEF Fetch
  <2>4. ASSUME NEW m \in Muxes, CallBegin(m) PROVE Stacks' /\ StackIsBalanced'
    BY <2>4 DEF CallBegin
  <2>5. ASSUME NEW m \in Muxes, CallEnd(m) PROVE Stacks' /\ StackIsBalanced'
    BY <2>5 DEF CallEnd
  <2> HIDE DEF MxInv, Stacks, StackIsBalanced, Nested, Sources, Callers
  <2>. QED BY <1>2, <2>1, <2>2, <2>3, <2>4, <2>5 DEF MuxActs
<1>3. CASE NestedActs
  <2> USE MultiplexAssumption DEF MxInv, MxTypeOK, Creation, NestedSpawning, CallsLive, Locks,
          Stacks, StackIsBalanced, MuxPCs, NotSpawned, Preparing, NestedPCs, NestedInCall,
          CallerPCs, CallerInCall, Nested, Sources, Callers, NGoto, MxAssert,
          unchangedByNested, initvars, muxvars, callvars
  <2>1. ASSUME NEW r \in Nested, NCallBegin(r) PROVE Stacks' /\ StackIsBalanced'
    <3>1. Stacks'
      BY <2>1 DEF NCallBegin
    <3>2. StackIsBalanced'
      BY <2>1 DEF NCallBegin
    <3>. QED BY <3>1, <3>2
  <2>2. ASSUME NEW r \in Nested, NPush(r) PROVE Stacks' /\ StackIsBalanced'
    BY <2>2 DEF NPush
  <2>3. ASSUME NEW r \in Nested, NEW new \in BOOLEAN, NCallEnd(r, new)
        PROVE  Stacks' /\ StackIsBalanced'
    <3>1. Stacks'
      BY <2>3 DEF NCallEnd
    <3>2. StackIsBalanced'
      BY <2>3 DEF NCallEnd
    <3>. QED BY <3>1, <3>2
  <2>4. ASSUME NEW r \in Nested, NUnlock(r) PROVE Stacks' /\ StackIsBalanced'
    BY <2>4 DEF NUnlock
  <2>5. ASSUME NEW r \in Nested, NReturn(r) PROVE Stacks' /\ StackIsBalanced'
    BY <2>5 DEF NReturn
  <2> HIDE DEF MxInv, Stacks, StackIsBalanced, Nested, Sources, Callers
  <2>. QED BY <1>3, <2>1, <2>2, <2>3, <2>4, <2>5 DEF NestedActs, NestedEnds
<1>4. CASE CallActs
  <2> USE MultiplexAssumption DEF MxInv, MxTypeOK, Creation, NestedSpawning, CallsLive, Locks,
          Stacks, StackIsBalanced, MuxPCs, NotSpawned, Preparing, NestedPCs, NestedInCall,
          CallerPCs, CallerInCall, Nested, Sources, Callers, EGoto, Answer, MxAssert,
          unchangedByCall, initvars
  <2>1. ASSUME NEW r \in Nested, EventHandler(r) PROVE Stacks' /\ StackIsBalanced'
    BY <2>1 DEF EventHandler
  <2>2. ASSUME NEW r \in Nested, CbCallsEvent(r) PROVE Stacks' /\ StackIsBalanced'
    BY <2>2 DEF CbCallsEvent
  <2>3. ASSUME NEW c \in Callers, Lookup(c) PROVE Stacks' /\ StackIsBalanced'
    BY <2>3 DEF Lookup
  <2>4. ASSUME NEW c \in Callers, Deref(c) PROVE Stacks' /\ StackIsBalanced'
    BY <2>4 DEF Deref
  <2>5. ASSUME NEW c \in Callers, EventBegin(c) PROVE Stacks' /\ StackIsBalanced'
    <3>1. Stacks'
      BY <2>5 DEF EventBegin
    <3>2. StackIsBalanced'
      BY <2>5 DEF EventBegin
    <3>. QED BY <3>1, <3>2
  <2>6. ASSUME NEW c \in Callers, EventPush(c) PROVE Stacks' /\ StackIsBalanced'
    BY <2>6 DEF EventPush
  <2>7. ASSUME NEW c \in Callers, NEW a \in {"ok", "lua_error", "no_handler"}, EventEnd(c, a)
        PROVE  Stacks' /\ StackIsBalanced'
    <3>1. Stacks'
      BY <2>7 DEF EventEnd
    <3>2. StackIsBalanced'
      BY <2>7 DEF EventEnd
    <3>. QED BY <3>1, <3>2
  <2>8. ASSUME NEW c \in Callers, EventUnlock(c) PROVE Stacks' /\ StackIsBalanced'
    BY <2>8 DEF EventUnlock
  <2>9. ASSUME NEW c \in Callers, Return(c) PROVE Stacks' /\ StackIsBalanced'
    BY <2>9 DEF Return
  <2> HIDE DEF MxInv, Stacks, StackIsBalanced, Nested, Sources, Callers
  <2>. QED BY <1>4, <2>1, <2>2, <2>3, <2>4, <2>5, <2>6, <2>7, <2>8, <2>9 DEF CallActs, CallStep
<1>5. CASE IdleActs
  BY <1>5, Frames DEF MxInv, Stacks, StackIsBalanced
<1>. QED BY <1>1, <1>2, <1>3, <1>4, <1>5, Cases

\* The invariant of the multiplex plugin.
THEOREM MxInvariance == MxSpec => []MxInv
<1>1. MxInit => MxInv
  BY MxInvInit
<1>2. MxInv /\ [MxNext]_mxvars => MxInv'
  BY NestedTypeStep, ControlStep, CreationStep, SpawningStep, CallsLiveStep, LocksStep, StacksStep
     DEF MxInv
<1>. QED BY <1>1, <1>2, PTL DEF MxSpec

\* A nested interpreter is used by one thread at a time: the one that creates it, its own,
\* or one in call_event().
THEOREM NestedUseIsExclusive == MxSpec => []NestedExclusive
<1>1. MxInv => NestedExclusive
  <2>1. SUFFICES ASSUME MxInv, NEW r \in Nested, NEW u \in Using(r), NEW v \in Using(r)
                 PROVE  u = v
    BY DEF NestedExclusive
  <2>2. CASE \E m \in Muxes : mpc[m] = "creating" /\ r = <<m, nxt[m]>>
    <3>1. PICK m \in Muxes : mpc[m] = "creating" /\ r = <<m, nxt[m]>>
      BY <2>2
    <3>2. runner[r] # "live"
      BY <2>1, <3>1 DEF MxInv, Creation, MxTypeOK, Preparing, Sources
    <3>3. npc[r] = "none" /\ \A c \in Callers : ~(target[c] = r /\ epc[c] \in CallerInCall)
      BY <2>1, <3>2 DEF MxInv, NestedSpawning, CallsLive
    <3>4. Using(r) = {m}
      BY <3>1, <3>3 DEF Using, CallerInCall
    <3>. QED BY <2>1, <3>4
  <2>3. CASE ~\E m \in Muxes : mpc[m] = "creating" /\ r = <<m, nxt[m]>>
    <3>1. \A w \in Using(r) : nestedL[r] = w
      BY <2>1, <2>3 DEF Using, MxInv, Locks, NestedInCall, CallerInCall
    <3>. QED BY <2>1, <3>1
  <2>. QED BY <2>2, <2>3
<1>. QED BY MxInvariance, <1>1, PTL

\* The assertions on the stack of a nested interpreter hold (plugin_call_begin(),
\* plugin_call_end(), runner_event_begin(), runner_event_end()).
THEOREM NestedStacksAreBalanced == MxSpec => []StackIsBalanced
BY MxInvariance, PTL DEF MxInv

\* The mutex of the initialization of nested widgets exists for everyone who may lock it, and
\* whoever creates nested widgets holds it.
THEOREM ControlIsAlive == MxSpec => []ControlAlive
<1>1. MxInv => ControlAlive
  BY DEF MxInv, Control, ControlAlive, Referrers
<1>. QED BY MxInvariance, <1>1, PTL
=============================================================================
