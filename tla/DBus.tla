-------------------------------- MODULE DBus --------------------------------
(***************************************************************************)
(* The dbus plugin (plugins/dbus/dbus.c): the widgets that use it, each    *)
(* with its thread, its list of signals per bus and its timeout.           *)
(*                                                                         *)
(* GLib is external.  Its main context is the default one of the process,  *)
(* and the connection to a bus is one for all widgets: the thread that is  *)
(* first in its main loop owns the context and dispatches the sources of   *)
(* all widgets, a signal is queued for each widget that has subscribed,    *)
(* and whoever closes the connection closes it for all.                    *)
(***************************************************************************)
EXTENDS Integers, Sequences, SequencesExt, FiniteSets

CONSTANTS DbWidgets,      \* the widgets
          DbOptionSet,    \* the options the widgets may have
          DbSignals,      \* the kinds of signals that rules tell apart
          DbMaxSignals,   \* bound: signals of both buses
          DbPeriod        \* a timeout, in ticks of the clock

ASSUME DbAssumption ==
  IsFiniteSet(DbWidgets) /\ DbMaxSignals \in Nat /\ DbPeriod \in Nat \ {0}

Buses == {"session", "system"}

VARIABLES
  dbOpt,   \* the options of each widget
  db,      \* the thread of each: pc, cnx (cnx_session and cnx_system are set)
  dbBus,   \* each bus: sent (the signals), closed (the connection)
  dbCtx,   \* the context: owner, queue of signals, idle sources, timers (age, or -1)
  dbSubs,  \* <<widget, bus>> -> its subscriptions: rule, from (how many were sent before)
  dbTold   \* the calls of each cb: what was last, signals told of each bus (<<r, n>>, the
           \* n-th signal, for subscription r), names told

dbvars == <<dbOpt, db, dbBus, dbCtx, dbSubs, dbTold>>

\* parse_signals_elem(): a list of match rules for each bus, each the signals it matches;
\* init() and its defaults.
DbOptions == [rules : [Buses -> Seq(SUBSET DbSignals)],
              timeout : BOOLEAN, greet : BOOLEAN, ready : BOOLEAN]
NoRules == [rules |-> [b \in Buses |-> <<>>], timeout |-> FALSE, greet |-> FALSE, ready |-> FALSE]

DbStart(pc) ==
  /\ db = [w \in DbWidgets |-> [pc |-> pc, cnx |-> FALSE]]
  /\ dbBus = [b \in Buses |-> [sent |-> <<>>, closed |-> FALSE]]
  /\ dbCtx = [owner |-> {}, queue |-> <<>>, idle |-> {}, timer |-> [w \in DbWidgets |-> -1]]
  /\ dbSubs = [s \in DbWidgets \X Buses |-> <<>>]
  /\ dbTold = [w \in DbWidgets |-> [what |-> "none", signals |-> [b \in Buses |-> <<>>],
                                    named |-> {}]]

DbInit == dbOpt \in [DbWidgets -> DbOptionSet \cap DbOptions] /\ DbStart("session")
DbOff  == dbOpt = [w \in DbWidgets |-> NoRules] /\ DbStart("returned")

DbGoto(w, l) == db' = [db EXCEPT ![w].pc = l]
-----------------------------------------------------------------------------
(* The buses and the clock.                                                *)

\* A signal is queued once for every subscription it matches, in any order.
Receivers(b, s) ==
  UNION {{<<w, r>> : r \in {i \in DOMAIN dbSubs[<<w, b>>] : s \in dbSubs[<<w, b>>][i].rule}} :
         w \in DbWidgets}

Emit(b) ==
  /\ \E w \in DbWidgets : db[w].pc \notin {"returned", "aborted"}
  /\ Len(dbBus["session"].sent) + Len(dbBus["system"].sent) < DbMaxSignals /\ ~dbBus[b].closed
  /\ LET n == Len(dbBus[b].sent) + 1 IN
       \E s \in DbSignals :
         /\ \E order \in SetToSeqs(Receivers(b, s)) :
              dbCtx' = [dbCtx EXCEPT !.queue = @ \o
                          [k \in 1..Len(order) |-> <<order[k][1], b, <<order[k][2], n>>>>]]
         /\ dbBus' = [dbBus EXCEPT ![b].sent = Append(@, s)]
  /\ UNCHANGED <<dbOpt, db, dbSubs, dbTold>>

\* A tick; sources that are due are dispatched first.
Tick ==
  /\ dbCtx.owner # {} /\ dbCtx.queue = <<>>
  /\ \E w \in DbWidgets : dbCtx.timer[w] >= 0
  /\ \A w \in DbWidgets : dbCtx.timer[w] < DbPeriod
  /\ dbCtx' = [dbCtx EXCEPT !.timer = [w \in DbWidgets |-> IF @[w] < 0 THEN @[w] ELSE @[w] + 1]]
  /\ UNCHANGED <<dbOpt, db, dbBus, dbSubs, dbTold>>
-----------------------------------------------------------------------------
(* run(), by the thread of a widget.                                       *)

\* The bus of the step, and what follows it.
NextStep(b) == IF b = "session" THEN "system" ELSE "set"

\* The next of the rules is subscribed to, or the list is at its end.
SubscribeNext(w, b, rules) ==
  LET subs == dbSubs[<<w, b>>] IN
    IF Len(subs) < Len(rules)
    THEN /\ dbSubs' = [dbSubs EXCEPT ![<<w, b>>] =
                         Append(@, [rule |-> rules[Len(subs) + 1], from |-> Len(dbBus[b].sent)])]
         /\ UNCHANGED db
    ELSE DbGoto(w, NextStep(b)) /\ UNCHANGED dbSubs

\* Mutant: the list of the session bus is used for both.
SubscribeOneList(w) ==
  \E b \in Buses :
    /\ db[w].pc = b
    /\ SubscribeNext(w, b, dbOpt[w].rules["session"])
    /\ UNCHANGED <<dbOpt, dbBus, dbCtx, dbTold>>

\* A step of the loop of maybe_connect_and_subscribe(); signals may come between two.
Subscribe(w) ==
  \E b \in Buses :
    /\ db[w].pc = b
    /\ SubscribeNext(w, b, dbOpt[w].rules[b])
    /\ UNCHANGED <<dbOpt, dbBus, dbCtx, dbTold>>

\* The bus cannot be reached, which is found before the loop.
ConnectFails(w) ==
  \E b \in Buses :
    /\ db[w].pc = b /\ dbOpt[w].rules[b] # <<>> /\ dbSubs[<<w, b>>] = <<>>
    /\ DbGoto(w, "error")
    /\ UNCHANGED <<dbOpt, dbBus, dbCtx, dbSubs, dbTold>>

\* The error path of run(): the other connection, if there is one, is closed, for all; args
\* and its mutex are gone, but nothing is unsubscribed.
Return(w) ==
  /\ db[w].pc = "error"
  /\ DbGoto(w, "returned")
  /\ dbBus' = IF dbSubs[<<w, "session">>] # <<>> THEN [dbBus EXCEPT !["session"].closed = TRUE]
              ELSE dbBus
  /\ UNCHANGED <<dbOpt, dbCtx, dbSubs, dbTold>>

\* cnx_session and cnx_system; the timeout source.
SetConnections(w) ==
  /\ db[w].pc = "set"
  /\ db' = [db EXCEPT ![w] = [pc |-> "greet", cnx |-> TRUE]]
  /\ dbCtx' = IF dbOpt[w].timeout THEN [dbCtx EXCEPT !.timer[w] = 0] ELSE dbCtx
  /\ UNCHANGED <<dbOpt, dbBus, dbSubs, dbTold>>

\* report_simple("hello"), and the idle source.
Greet(w) ==
  /\ db[w].pc = "greet"
  /\ DbGoto(w, "loop")
  /\ dbTold' = IF dbOpt[w].greet THEN [dbTold EXCEPT ![w].what = "hello"] ELSE dbTold
  /\ dbCtx' = IF dbOpt[w].ready THEN [dbCtx EXCEPT !.idle = @ \cup {w}] ELSE dbCtx
  /\ UNCHANGED <<dbOpt, dbBus, dbSubs>>

\* g_main_loop_run(): the first thread becomes the owner, the others wait.
RunLoop(w) ==
  /\ db[w].pc = "loop" /\ dbCtx.owner = {}
  /\ dbCtx' = [dbCtx EXCEPT !.owner = {w}]
  /\ UNCHANGED <<dbOpt, db, dbBus, dbSubs, dbTold>>
-----------------------------------------------------------------------------
(* The callbacks, by the owner's thread, under args->mtx of their widget.  *)

\* The name is found by comparing with cnx_session and cnx_system.
BusName(w, b) == IF db[w].cnx THEN b ELSE ""

\* cb is called with a signal, of what it was told before.
WithSignal(t, w, b, c) ==
  [t EXCEPT !.what = "signal", !.signals[b] = Append(@, c),
            !.named = @ \cup {<<b, BusName(w, b)>>}]

TellSignal(w, b, c) == [dbTold EXCEPT ![w] = WithSignal(@, w, b, c)]

\* callback_signal(). It does not look whether run() of the widget has returned: args is
\* then on a stack that is gone, and this is one of the outcomes, with what it held still
\* there. Another, waiting for its mutex for ever, is the action that is never taken.
CallbackSignal ==
  /\ dbCtx.owner # {} /\ dbCtx.queue # <<>>
  /\ dbCtx' = [dbCtx EXCEPT !.queue = Tail(@)]
  /\ LET s == Head(dbCtx.queue) IN dbTold' = TellSignal(s[1], s[2], s[3])
  /\ UNCHANGED <<dbOpt, db, dbBus, dbSubs>>

\* The third: the process ends, in LS_PTH_CHECK() or where args points to.
CallbackAborts ==
  /\ dbCtx.owner # {} /\ dbCtx.queue # <<>>
  /\ db[Head(dbCtx.queue)[1]].pc = "returned"
  /\ db' = [w \in DbWidgets |-> [db[w] EXCEPT !.pc = "aborted"]]
  /\ dbCtx' = [dbCtx EXCEPT !.owner = {}]
  /\ UNCHANGED <<dbOpt, dbBus, dbSubs, dbTold>>

\* callback_timeout(): the source goes on, from now.
CallbackTimeout(w) ==
  /\ dbCtx.owner # {} /\ dbCtx.timer[w] = DbPeriod
  /\ dbCtx' = [dbCtx EXCEPT !.timer[w] = 0]
  /\ dbTold' = [dbTold EXCEPT ![w].what = "timeout"]
  /\ UNCHANGED <<dbOpt, db, dbBus, dbSubs>>

\* callback_idle(): the source is removed.
CallbackIdle(w) ==
  /\ dbCtx.owner # {} /\ w \in dbCtx.idle
  /\ dbCtx' = [dbCtx EXCEPT !.idle = @ \ {w}]
  /\ dbTold' = [dbTold EXCEPT ![w].what = "ready"]
  /\ UNCHANGED <<dbOpt, db, dbBus, dbSubs>>

DbThread(w) == Subscribe(w) \/ SetConnections(w) \/ Greet(w) \/ RunLoop(w) \/ Return(w)
DbDispatch == CallbackSignal \/ CallbackAborts \/ \E w \in DbWidgets : CallbackTimeout(w) \/ CallbackIdle(w)

DbNext ==
  \/ \E b \in Buses : Emit(b)
  \/ Tick
  \/ \E w \in DbWidgets : DbThread(w) \/ ConnectFails(w)
  \/ DbDispatch

DbSpec == DbInit /\ [][DbNext]_dbvars
-----------------------------------------------------------------------------
Told(w, b) == dbTold[w].signals[b]
Queued(w, b) ==
  {k \in 1..Len(dbCtx.queue) : dbCtx.queue[k][1] = w /\ dbCtx.queue[k][2] = b}
QueuedCall(k) == dbCtx.queue[k][3]

\* The calls that are due to a widget: the signals of the bus that were sent since it
\* subscribed by a rule that matches them, once for each such rule.
Due(w, b) ==
  LET rules == dbOpt[w].rules[b]
      subs  == dbSubs[<<w, b>>]
      sent  == dbBus[b].sent
  IN {c \in (1..Len(rules)) \X (1..Len(sent)) :
        c[1] <= Len(subs) /\ subs[c[1]].from < c[2] /\ sent[c[2]] \in rules[c[1]]}

\* No call twice, and none of a signal before a call of an earlier one.
Before(c, d) == c # d /\ c[2] <= d[2]

\* Whichever thread dispatches them, a widget is told the signals of each of its buses
\* that were sent since it subscribed, each once for each of its rules that matches it and
\* in their order, and nothing else: what it was told and then what is queued for it are
\* the calls that are due. When it gets to its main loop, no rule of its lists is left out.
\* (It is so for a widget whose run() has returned, too: nothing unsubscribes it.)
SignalsInOrder ==
  \A w \in DbWidgets, b \in Buses :
    LET told   == Told(w, b)
        queued == Queued(w, b)
    IN /\ {told[k] : k \in 1..Len(told)} \cup {QueuedCall(k) : k \in queued} = Due(w, b)
       /\ \A j, k \in 1..Len(told) : j < k => Before(told[j], told[k])
       /\ \A j \in 1..Len(told), k \in queued : Before(told[j], QueuedCall(k))
       /\ \A j, k \in queued : j < k => Before(QueuedCall(j), QueuedCall(k))
       /\ db[w].pc \in {"set", "greet", "loop"} => Len(dbSubs[<<w, b>>]) = Len(dbOpt[w].rules[b])
=============================================================================
