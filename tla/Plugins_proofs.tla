---------------------------- MODULE Plugins_proofs ----------------------------
(*****************************************************************************)
(* Safety of single plugins, for any bounds: what the planner of web is      *)
(* resumed with and what a request sends and is told of; the order in which  *)
(* dbus tells signals, and whose the references to its values are; that      *)
(* xtitle, xkb, pulse and alsa show what the server has; and that network-   *)
(* linux tells of the interfaces as they are.                                *)
(*****************************************************************************)
EXTENDS Network, Web, DBus, Zoo, Desktop, Induction, FiniteSetTheorems, SequenceTheorems, TLAPS

-----------------------------------------------------------------------------
(* web.                                                                    *)

\* What the planner yields is a record of one of several shapes; all have an action.
Actions == {"none", "request", "sleep", "call_cb", "bad params", "unknown", "not a table",
            "two values", "finished", "error"}

\* What cb is called with: what the planner has given, or a response.
Calls ==
  [what : {"none", "w1", "w2", "bad"}]
    \cup [what : {"response"}, status : {"200", "0"}, headers : BOOLEAN, sent : SUBSET Params]

WbTypeOK ==
  /\ wbOpt \in WbOptions
  /\ wb \in [pc : {"flash", "planner", "act", "returned"},
             nact : {"none", "request", "sleep", "call_cb"},
             opts : SUBSET Params, flags : SUBSET Params,
             what : {"none", "w1", "w2", "bad"}, wake : {"nil", "true", "false"}]
  /\ wbPipe \in Nat
  /\ wbTold \in [arg : {"nil", "true", "false"}, call : Calls]
  /\ wbPast \in [yielded : Yields \cup {NoYield}, slept : {"no", "yes"}, owed : BOOLEAN]

\* A wake-up that no sleep has told of is a byte in the pipe; so sleeping finds it.
OwedIsInPipe ==
  wbPast.owed => wbPipe > 0

\* What the planner is to be told next, from what it yielded.
Answer ==
  IF wbPast.yielded.action # "sleep" \/ ~wbOpt.self_pipe THEN "nil"
  ELSE IF wbPast.slept = "yes" THEN "true" ELSE "false"

\* The status of a sleep is kept from its end to the next call of the planner, no longer.
StatusInv ==
  /\ wb.pc = "flash" => wb.wake = Answer
  /\ wb.pc \in {"planner", "act"} => wb.wake = "nil"

\* What is about to be done is what the planner has yielded.
ActionInv ==
  wb.pc = "act" =>
    /\ wb.nact = wbPast.yielded.action
    /\ wb.nact = "request" =>
         /\ wb.opts = wbPast.yielded.params \ Flags
         /\ wb.flags = wbPast.yielded.params \cap Flags

WbInv ==
  WbTypeOK /\ OwedIsInPipe /\ StatusInv /\ ActionInv /\ PlannerToldOfWakeUps /\ ResponseFitsRequest

-----------------------------------------------------------------------------
\* The fields of what a planner yields.
LEMMA YieldShapes ==
  ASSUME NEW y \in Yields
  PROVE  /\ y.action = "request" => y.params \subseteq Params
         /\ y.action = "call_cb" => y.what \in {"w1", "w2", "bad"}
BY DEF Yields, Tables

LEMMA WbInvInit ==
  ASSUME WbInit
  PROVE  WbInv
<1> USE DEF WbInit, WbStart, NoYield
<1>1. WbTypeOK
  <2>1. [what |-> "none"] \in Calls
    BY DEF Calls
  <2>. QED BY <2>1 DEF WbTypeOK
<1>2. OwedIsInPipe /\ ActionInv /\ PlannerToldOfWakeUps /\ ResponseFitsRequest
  BY DEF OwedIsInPipe, ActionInv, PlannerToldOfWakeUps, ResponseFitsRequest
<1>3. StatusInv
  BY DEF StatusInv, Answer
<1>. QED BY <1>1, <1>2, <1>3 DEF WbInv

LEMMA WbInvStep ==
  ASSUME WbInv, [WbNext]_wbvars
  PROVE  WbInv'
<1> USE WbAssumption
    DEF WbInv, WbTypeOK, OwedIsInPipe, StatusInv, Answer, ActionInv,
        PlannerToldOfWakeUps, ResponseFitsRequest, WbGoto
<1>1. CASE WbWakeUp
  <2>1. WbTypeOK'
    <3>1. wbOpt' \in WbOptions
      BY <1>1 DEF WbWakeUp
    <3>2. wb' \in [pc : {"flash", "planner", "act", "returned"},
                nact : {"none", "request", "sleep", "call_cb"},
                opts : SUBSET Params, flags : SUBSET Params,
                what : {"none", "w1", "w2", "bad"}, wake : {"nil", "true", "false"}]
      BY <1>1 DEF WbWakeUp
    <3>3. wbPipe' \in Nat
      BY <1>1 DEF WbWakeUp
    <3>4. wbTold' \in [arg : {"nil", "true", "false"}, call : Calls]
      BY <1>1 DEF WbWakeUp
    <3>5. wbPast' \in [yielded : Yields \cup {NoYield}, slept : {"no", "yes"}, owed : BOOLEAN]
      BY <1>1 DEF WbWakeUp
    <3>. QED BY <3>1, <3>2, <3>3, <3>4, <3>5
  <2>2. OwedIsInPipe'
    BY <1>1 DEF WbWakeUp
  <2>3. StatusInv'
    BY <1>1 DEF WbWakeUp
  <2>4. ActionInv'
    BY <1>1 DEF WbWakeUp
  <2>5. PlannerToldOfWakeUps'
    BY <1>1 DEF WbWakeUp
  <2>6. ResponseFitsRequest'
    BY <1>1 DEF WbWakeUp
  <2>. QED BY <2>1, <2>2, <2>3, <2>4, <2>5, <2>6
<1>2. CASE FlashCall
  <2>1. WbTypeOK'
    BY <1>2 DEF FlashCall
  <2>2. OwedIsInPipe'
    BY <1>2 DEF FlashCall
  <2>3. StatusInv'
    BY <1>2 DEF FlashCall
  <2>4. ActionInv'
    BY <1>2 DEF FlashCall
  <2>5. PlannerToldOfWakeUps'
    BY <1>2 DEF FlashCall
  <2>6. ResponseFitsRequest'
    BY <1>2 DEF FlashCall
  <2>. QED BY <2>1, <2>2, <2>3, <2>4, <2>5, <2>6
<1>3. ASSUME NEW y \in Yields, PlannerYields(y) PROVE WbInv'
  <2>1. WbTypeOK'
    <3>1. wbOpt' \in WbOptions
      BY <1>3 DEF PlannerYields, ParseRequest, ParseSleep, ParseCallCb
    <3>2. wb' \in [pc : {"flash", "planner", "act", "returned"},
                nact : {"none", "request", "sleep", "call_cb"},
                opts : SUBSET Params, flags : SUBSET Params,
                what : {"none", "w1", "w2", "bad"}, wake : {"nil", "true", "false"}]
      <4>1. y.action = "request" => y.params \subseteq Params
        BY YieldShapes
      <4>2. y.action = "call_cb" => y.what \in {"w1", "w2", "bad"}
        BY YieldShapes
      <4>3. CASE ParseRequest(y) /\ y.action = "request"
        BY <4>1, <4>3 DEF ParseRequest
      <4>4. CASE ParseSleep(y)
        BY <4>4 DEF ParseSleep
      <4>5. CASE ParseCallCb(y) /\ y.action = "call_cb"
        BY <4>2, <4>5 DEF ParseCallCb
      <4>6. CASE wb' = WbGoto("returned")
        BY <4>6
      <4>. QED BY <1>3, <4>3, <4>4, <4>5, <4>6 DEF PlannerYields
    <3>3. wbPipe' \in Nat
      BY <1>3 DEF PlannerYields, ParseRequest, ParseSleep, ParseCallCb
    <3>4. wbTold' \in [arg : {"nil", "true", "false"}, call : Calls]
      BY <1>3 DEF PlannerYields, ParseRequest, ParseSleep, ParseCallCb
    <3>5. wbPast' \in [yielded : Yields \cup {NoYield}, slept : {"no", "yes"}, owed : BOOLEAN]
      BY <1>3 DEF PlannerYields, ParseRequest, ParseSleep, ParseCallCb
    <3>. QED BY <3>1, <3>2, <3>3, <3>4, <3>5
  <2>2. OwedIsInPipe'
    BY <1>3 DEF PlannerYields, ParseRequest, ParseSleep, ParseCallCb
  <2>3. StatusInv'
    BY <1>3 DEF PlannerYields, ParseRequest, ParseSleep, ParseCallCb
  <2>4. ActionInv'
    <3>1. wbPast'.yielded = y
      BY <1>3 DEF PlannerYields
    <3>2. CASE ParseRequest(y) /\ y.action = "request"
      <4>1. wb'.nact = "request" /\ wb'.opts = y.params \ Flags
            /\ wb'.flags = y.params \cap Flags
        BY <3>2 DEF ParseRequest
      <4> QED BY <3>1, <3>2, <4>1
    <3>3. CASE ParseSleep(y) /\ y.action = "sleep"
      BY <3>1, <3>3 DEF ParseSleep
    <3>4. CASE ParseCallCb(y) /\ y.action = "call_cb"
      BY <3>1, <3>4 DEF ParseCallCb
    <3>5. CASE wb' = WbGoto("returned")
      BY <3>5
    <3> QED BY <1>3, <3>2, <3>3, <3>4, <3>5 DEF PlannerYields
  <2>5. PlannerToldOfWakeUps'
    BY <1>3 DEF PlannerYields, ParseRequest, ParseSleep, ParseCallCb
  <2>6. ResponseFitsRequest'
    BY <1>3 DEF PlannerYields, ParseRequest, ParseSleep, ParseCallCb
  <2>. QED BY <2>1, <2>2, <2>3, <2>4, <2>5, <2>6
<1>4. CASE ActionCallCb
  <2>1. WbTypeOK'
    <3>1. wbOpt' \in WbOptions
      BY <1>4 DEF ActionCallCb, Calls
    <3>2. wb' \in [pc : {"flash", "planner", "act", "returned"},
                nact : {"none", "request", "sleep", "call_cb"},
                opts : SUBSET Params, flags : SUBSET Params,
                what : {"none", "w1", "w2", "bad"}, wake : {"nil", "true", "false"}]
      BY <1>4 DEF ActionCallCb, Calls
    <3>3. wbPipe' \in Nat
      BY <1>4 DEF ActionCallCb, Calls
    <3>4. wbTold' \in [arg : {"nil", "true", "false"}, call : Calls]
      BY <1>4 DEF ActionCallCb, Calls
    <3>5. wbPast' \in [yielded : Yields \cup {NoYield}, slept : {"no", "yes"}, owed : BOOLEAN]
      BY <1>4 DEF ActionCallCb, Calls
    <3>. QED BY <3>1, <3>2, <3>3, <3>4, <3>5
  <2>2. OwedIsInPipe'
    BY <1>4 DEF ActionCallCb, Calls
  <2>3. StatusInv'
    BY <1>4 DEF ActionCallCb, Calls
  <2>4. ActionInv'
    BY <1>4 DEF ActionCallCb, Calls
  <2>5. PlannerToldOfWakeUps'
    BY <1>4 DEF ActionCallCb, Calls
  <2>6. ResponseFitsRequest'
    BY <1>4 DEF ActionCallCb, Calls
  <2>. QED BY <2>1, <2>2, <2>3, <2>4, <2>5, <2>6
<1>5. CASE ActionRequest
  <2>1. WbTypeOK'
    <3>1. wbOpt' \in WbOptions
      BY <1>5 DEF ActionRequest, Flags, Calls
    <3>2. wb' \in [pc : {"flash", "planner", "act", "returned"},
                nact : {"none", "request", "sleep", "call_cb"},
                opts : SUBSET Params, flags : SUBSET Params,
                what : {"none", "w1", "w2", "bad"}, wake : {"nil", "true", "false"}]
      BY <1>5 DEF ActionRequest, Flags, Calls
    <3>3. wbPipe' \in Nat
      BY <1>5 DEF ActionRequest, Flags, Calls
    <3>4. wbTold' \in [arg : {"nil", "true", "false"}, call : Calls]
      <4>1. PICK status \in {"200", "0"}, headers \in BOOLEAN :
              wbTold' = [wbTold EXCEPT !.call = [what |-> "response", status |-> status,
                                                 headers |-> headers, sent |-> wb.opts]]
        BY <1>5 DEF ActionRequest
      <4>2. [what |-> "response", status |-> status, headers |-> headers, sent |-> wb.opts] \in Calls
        BY DEF Calls
      <4>. QED BY <4>1, <4>2
    <3>5. wbPast' \in [yielded : Yields \cup {NoYield}, slept : {"no", "yes"}, owed : BOOLEAN]
      BY <1>5 DEF ActionRequest, Flags, Calls
    <3>. QED BY <3>1, <3>2, <3>3, <3>4, <3>5
  <2>2. OwedIsInPipe'
    BY <1>5 DEF ActionRequest, Flags, Calls
  <2>3. StatusInv'
    BY <1>5 DEF ActionRequest, Flags, Calls
  <2>4. ActionInv'
    BY <1>5 DEF ActionRequest, Flags, Calls
  <2>5. PlannerToldOfWakeUps'
    BY <1>5 DEF ActionRequest, Flags, Calls
  <2>6. ResponseFitsRequest'
    <3>1. PICK status \in {"200", "0"} :
            wbTold'.call = [what |-> "response", status |-> status,
                            headers |-> wbOpt.with_headers_global \/ wb.flags # {},
                            sent |-> wb.opts]
      BY <1>5 DEF ActionRequest
    <3>2. UNCHANGED <<wbOpt, wbPast>> /\ wb.nact = "request" /\ wb.pc = "act"
      BY <1>5 DEF ActionRequest
    <3>3. wb.opts = wbPast.yielded.params \ Flags /\ wb.flags = wbPast.yielded.params \cap Flags
      BY <3>2
    <3>4. wbTold'.call.sent = wbPast.yielded.params \ Flags
          /\ wbTold'.call.headers = (wbOpt.with_headers_global \/ wbPast.yielded.params \cap Flags # {})
      BY <3>1, <3>3
    <3> DEFINE options == wbPast.yielded.params
               asked   == wbOpt.with_headers_global \/ "with_headers" \in options
    <3>5. wbTold'.call.sent = options \ {"with_headers", "with_headers_false"}
      BY <3>4 DEF Flags
    <3>6. asked \/ "with_headers_false" \notin options =>
            (wbOpt.with_headers_global \/ options \cap Flags # {}) = asked
      BY DEF Flags
    <3>7. asked \/ "with_headers_false" \notin options => wbTold'.call.headers = asked
      <4> HIDE DEF asked
      <4> QED BY <3>4, <3>6
    <3>8. wbPast' = wbPast /\ wbOpt' = wbOpt
      BY <3>2
    <3> QED BY <3>5, <3>6, <3>7, <3>8
  <2>. QED BY <2>1, <2>2, <2>3, <2>4, <2>5, <2>6
<1>6. CASE ActionSleep
  <2>1. WbTypeOK'
    <3>1. wbOpt' \in WbOptions
      BY <1>6 DEF ActionSleep
    <3>2. wb' \in [pc : {"flash", "planner", "act", "returned"},
                nact : {"none", "request", "sleep", "call_cb"},
                opts : SUBSET Params, flags : SUBSET Params,
                what : {"none", "w1", "w2", "bad"}, wake : {"nil", "true", "false"}]
      BY <1>6 DEF ActionSleep
    <3>3. wbPipe' \in Nat
      BY <1>6 DEF ActionSleep
    <3>4. wbTold' \in [arg : {"nil", "true", "false"}, call : Calls]
      BY <1>6 DEF ActionSleep
    <3>5. wbPast' \in [yielded : Yields \cup {NoYield}, slept : {"no", "yes"}, owed : BOOLEAN]
      BY <1>6 DEF ActionSleep
    <3>. QED BY <3>1, <3>2, <3>3, <3>4, <3>5
  <2>2. OwedIsInPipe'
    BY <1>6 DEF ActionSleep
  <2>3. StatusInv'
    BY <1>6 DEF ActionSleep
  <2>4. ActionInv'
    BY <1>6 DEF ActionSleep
  <2>5. PlannerToldOfWakeUps'
    BY <1>6 DEF ActionSleep
  <2>6. ResponseFitsRequest'
    BY <1>6 DEF ActionSleep
  <2>. QED BY <2>1, <2>2, <2>3, <2>4, <2>5, <2>6
<1>7. CASE UNCHANGED wbvars
  BY <1>7 DEF wbvars
<1>. QED BY <1>1, <1>2, <1>3, <1>4, <1>5, <1>6, <1>7 DEF WbNext, WbThread

\* The invariant of the plugin's rounds.
THEOREM WbInvariance == WbSpec => []WbInv
<1>1. WbInit => WbInv
  BY WbInvInit
<1>2. WbInv /\ [WbNext]_wbvars => WbInv'
  BY WbInvStep
<1>. QED BY <1>1, <1>2, PTL DEF WbSpec

\* The planner is resumed with a boolean exactly after a sleep that wake_up() can end, with
\* true if a wake-up came since the last sleep told of one (action_sleep(),
\* make_flash_call()).
THEOREM PlannerIsToldOfWakeUps == WbSpec => []PlannerToldOfWakeUps
BY WbInvariance, PTL DEF WbInv

\* What a request sends, and whether its response is told with its headers, depends on its
\* own options and the global one, not on those of earlier requests set on the same handle
\* (parseY_request(), make_request()); of the headers after an error, and after
\* with_headers = false, nothing is claimed.
THEOREM ResponsesFitRequests == WbSpec => []ResponseFitsRequest
BY WbInvariance, PTL DEF WbInv

-----------------------------------------------------------------------------
(* dbus: signals.                                                          *)

DbPcs == {"session", "system", "set", "greet", "loop", "error", "returned", "aborted"}
BusCalls == Nat \X Nat
Entries == DbWidgets \X Buses \X BusCalls
Tells ==
  [what : {"none", "signal", "hello", "timeout", "ready"}, signals : [Buses -> Seq(BusCalls)],
   named : SUBSET (Buses \X (Buses \cup {""}))]
Contexts ==
  [owner : SUBSET DbWidgets, queue : Seq(Entries), idle : SUBSET DbWidgets,
   timer : [DbWidgets -> Nat \cup {-1}]]
Subscriptions == [rule : SUBSET DbSignals, from : Nat]

DbTypeOK ==
  /\ dbOpt \in [DbWidgets -> DbOptions]
  /\ db \in [DbWidgets -> [pc : DbPcs, cnx : BOOLEAN]]
  /\ dbBus \in [Buses -> [sent : Seq(DbSignals), closed : BOOLEAN]]
  /\ dbCtx \in Contexts
  /\ dbSubs \in [DbWidgets \X Buses -> Seq(Subscriptions)]
  /\ dbTold \in [DbWidgets -> Tells]

Queue == dbCtx.queue
Sent(b) == dbBus[b].sent
Rules(w, b) == dbOpt[w].rules[b]
Subs(w, b) == dbSubs[<<w, b>>]
QueuedFor(k, w, b) == Queue[k][1] = w /\ Queue[k][2] = b

\* The thread of a widget is past its loop over the rules of a bus.
Past(w, b) ==
  db[w].pc \in (IF b = "session" THEN {"system", "set", "greet", "loop"} ELSE {"set", "greet", "loop"})

\* A widget subscribes by the rules of its lists, in their order.
DbSubscribed ==
  \A w \in DbWidgets, b \in Buses :
    /\ Len(Subs(w, b)) <= Len(Rules(w, b))
    /\ \A r \in 1..Len(Subs(w, b)) :
         Subs(w, b)[r].rule = Rules(w, b)[r] /\ Subs(w, b)[r].from <= Len(Sent(b))
    /\ Past(w, b) => Len(Subs(w, b)) = Len(Rules(w, b))

\* A call that is due, by the positions of its rule and of its signal.
DueBy(subs, sent, c) ==
  /\ c \in BusCalls
  /\ c[1] \in 1..Len(subs) /\ c[2] \in 1..Len(sent)
  /\ subs[c[1]].from < c[2] /\ sent[c[2]] \in subs[c[1]].rule
IsDue(w, b, c) == DueBy(Subs(w, b), Sent(b), c)

\* What a widget was told of a bus, and what is queued for it, are what is due, in order.
DbHeard(w, b) ==
  /\ \A k \in 1..Len(Told(w, b)) : IsDue(w, b, Told(w, b)[k])
  /\ \A k \in 1..Len(Queue) : QueuedFor(k, w, b) => IsDue(w, b, Queue[k][3])
  /\ \A c \in BusCalls : IsDue(w, b, c) =>
       \/ \E k \in 1..Len(Told(w, b)) : Told(w, b)[k] = c
       \/ \E k \in 1..Len(Queue) : Queue[k] = <<w, b, c>>
  /\ \A j, k \in 1..Len(Told(w, b)) : j < k => Before(Told(w, b)[j], Told(w, b)[k])
  /\ \A j \in 1..Len(Told(w, b)), k \in 1..Len(Queue) :
       QueuedFor(k, w, b) => Before(Told(w, b)[j], Queue[k][3])
  /\ \A j, k \in 1..Len(Queue) :
       j < k /\ QueuedFor(j, w, b) /\ QueuedFor(k, w, b) => Before(Queue[j][3], Queue[k][3])

DbQueued == \A w \in DbWidgets, b \in Buses : DbHeard(w, b)

DbInv == DbTypeOK /\ DbSubscribed /\ DbQueued

-----------------------------------------------------------------------------
LEMMA DbInvInit == DbInit => DbInv
<1> SUFFICES ASSUME DbInit PROVE DbInv
  OBVIOUS
<1> USE DEF DbInit, DbStart
<1>1. /\ <<>> \in Seq(BusCalls) /\ <<>> \in Seq(Entries) /\ <<>> \in Seq(DbSignals)
      /\ <<>> \in Seq(Subscriptions) /\ Len(<<>>) = 0
  BY EmptySeq
<1>2. dbTold \in [DbWidgets -> Tells]
  BY <1>1 DEF Tells
<1>3. DbTypeOK
  BY <1>1, <1>2 DEF DbTypeOK, DbPcs, Contexts
<1>4. \A w \in DbWidgets, b \in Buses : Subs(w, b) = <<>> /\ Told(w, b) = <<>> /\ Queue = <<>>
  BY DEF Subs, Told, Queue
<1>5. ASSUME NEW w \in DbWidgets, NEW b \in Buses PROVE Len(Rules(w, b)) \in Nat
  <2>1. Rules(w, b) \in Seq(SUBSET DbSignals)
    BY <1>3 DEF DbTypeOK, DbOptions, Rules
  <2> QED BY <2>1, LenProperties
<1>6. \A w \in DbWidgets, b \in Buses : ~Past(w, b)
  BY DEF Past
<1>7. DbSubscribed
  BY <1>1, <1>4, <1>5, <1>6 DEF DbSubscribed
<1>8. ASSUME NEW w \in DbWidgets, NEW b \in Buses PROVE DbHeard(w, b)
  <2>1. Len(Told(w, b)) = 0 /\ Len(Queue) = 0 /\ Len(Subs(w, b)) = 0
    BY <1>1, <1>4
  <2>2. \A c : ~IsDue(w, b, c)
    BY <2>1 DEF IsDue, DueBy
  <2> QED BY <2>1, <2>2 DEF DbHeard
<1> QED BY <1>3, <1>7, <1>8 DEF DbInv, DbQueued

-----------------------------------------------------------------------------
(* An order of a finite set holds each of its elements.                    *)
LEMMA OrderIsAll ==
  ASSUME NEW S, IsFiniteSet(S), NEW order \in SetToSeqs(S)
  PROVE  /\ order \in [1..Len(order) -> S] /\ Len(order) \in Nat
         /\ \A i, j \in 1..Len(order) : i # j => order[i] # order[j]
         /\ \A w \in S : \E k \in 1..Len(order) : order[k] = w
<1> DEFINE n == Cardinality(S)
<1>1. n \in Nat
  BY FS_CardinalityType
<1>2. order \in [1..n -> S] /\ \A i, j \in 1..n : i # j => order[i] # order[j]
  BY DEF SetToSeqs
<1> HIDE DEF n
<1>3. Len(order) = n
  BY <1>1, <1>2
<1>4. order \in Injection(1..n, S)
  BY <1>2 DEF Injection, IsInjective
<1>5. IsFiniteSet(1..n) /\ Cardinality(1..n) = n
  BY <1>1, FS_Interval
<1>6. order \in Surjection(1..n, S)
  BY <1>4, <1>5, FS_Injection DEF n
<1>7. \A w \in S : \E k \in 1..n : order[k] = w
  BY <1>6 DEF Surjection
<1> QED BY <1>1, <1>2, <1>3, <1>7

\* The subscriptions that a signal matches are finitely many.
LEMMA ReceiversAre ==
  ASSUME DbTypeOK, NEW b \in Buses, NEW s \in DbSignals
  PROVE  /\ IsFiniteSet(Receivers(b, s))
         /\ \A w, r : <<w, r>> \in Receivers(b, s) <=>
              w \in DbWidgets /\ r \in 1..Len(Subs(w, b)) /\ s \in Subs(w, b)[r].rule
         /\ \A x \in Receivers(b, s) : x = <<x[1], x[2]>> /\ x[1] \in DbWidgets /\ x[2] \in Nat
<1> DEFINE R(w) == {i \in DOMAIN dbSubs[<<w, b>>] : s \in dbSubs[<<w, b>>][i].rule}
           P(w) == {<<w, r>> : r \in R(w)}
           All  == {P(w) : w \in DbWidgets}
<1>1. ASSUME NEW w \in DbWidgets
      PROVE  /\ Subs(w, b) \in Seq(Subscriptions) /\ Len(Subs(w, b)) \in Nat
             /\ DOMAIN dbSubs[<<w, b>>] = 1..Len(Subs(w, b))
  <2>1. dbSubs[<<w, b>>] \in Seq(Subscriptions)
    BY DEF DbTypeOK
  <2> QED BY <2>1, LenProperties DEF Subs
<1>2. ASSUME NEW w \in DbWidgets PROVE IsFiniteSet(P(w))
  <2>1. IsFiniteSet(1..Len(Subs(w, b)))
    BY <1>1, FS_Interval
  <2>2. R(w) \in SUBSET (1..Len(Subs(w, b)))
    BY <1>1
  <2> HIDE DEF R
  <2>3. IsFiniteSet(R(w))
    BY <2>1, <2>2, FS_Subset
  <2> DEFINE f == [r \in R(w) |-> <<w, r>>]
  <2>4. f \in Surjection(R(w), P(w))
    BY DEF Surjection
  <2> HIDE DEF P, f
  <2> QED BY <2>3, <2>4, FS_Surjection
<1>3. IsFiniteSet(All)
  <2> DEFINE g == [w \in DbWidgets |-> P(w)]
  <2> HIDE DEF P
  <2>1. g \in Surjection(DbWidgets, All)
    BY DEF Surjection
  <2> HIDE DEF g, All
  <2> QED BY <2>1, DbAssumption, FS_Surjection
<1>4. Receivers(b, s) = UNION All
  BY DEF Receivers
<1>5. \A T \in All : IsFiniteSet(T)
  <2> HIDE DEF P
  <2> QED BY <1>2
<1>6. IsFiniteSet(Receivers(b, s))
  <2> HIDE DEF All
  <2>1. IsFiniteSet(UNION All)
    BY <1>3, <1>5, FS_UNION
  <2> QED BY <2>1, <1>4
<1>7. \A w, r : <<w, r>> \in Receivers(b, s) <=> w \in DbWidgets /\ r \in R(w)
  <2> SUFFICES ASSUME NEW w, NEW r
               PROVE  <<w, r>> \in Receivers(b, s) <=> w \in DbWidgets /\ r \in R(w)
    OBVIOUS
  <2> HIDE DEF R
  <2>1. ASSUME NEW v PROVE <<w, r>> \in P(v) <=> v = w /\ r \in R(w)
    OBVIOUS
  <2> HIDE DEF P
  <2>2. <<w, r>> \in Receivers(b, s) <=> \E v \in DbWidgets : <<w, r>> \in P(v)
    BY <1>4
  <2> QED BY <2>1, <2>2
<1>8. \A x \in Receivers(b, s) : \E w \in DbWidgets : \E r \in R(w) : x = <<w, r>>
  BY <1>4
<1>9. \A w \in DbWidgets : \A r : r \in R(w) <=> r \in 1..Len(Subs(w, b)) /\ s \in Subs(w, b)[r].rule
  BY <1>1 DEF Subs
<1> HIDE DEF R, P, All
<1>10. \A w, r : <<w, r>> \in Receivers(b, s) <=>
         w \in DbWidgets /\ r \in 1..Len(Subs(w, b)) /\ s \in Subs(w, b)[r].rule
  BY <1>7, <1>9
<1>11. \A x \in Receivers(b, s) : x = <<x[1], x[2]>> /\ x[1] \in DbWidgets /\ x[2] \in Nat
  <2> SUFFICES ASSUME NEW x \in Receivers(b, s)
               PROVE  x = <<x[1], x[2]>> /\ x[1] \in DbWidgets /\ x[2] \in Nat
    OBVIOUS
  <2>1. PICK w \in DbWidgets : \E r \in R(w) : x = <<w, r>>
    BY <1>8
  <2>2. PICK r \in R(w) : x = <<w, r>>
    BY <2>1
  <2>3. r \in 1..Len(Subs(w, b)) /\ Len(Subs(w, b)) \in Nat
    BY <1>1, <1>9
  <2> QED BY <2>2, <2>3
<1> QED BY <1>6, <1>10, <1>11

LEMMA EntryParts ==
  ASSUME NEW v, NEW w, NEW b, NEW q, NEW r, NEW n, <<v, b, <<q, n>>>> = <<w, b, <<r, n>>>>
  PROVE  v = w /\ q = r
OBVIOUS

\* What a signal adds to the queue: a call for each of the subscriptions it matches.
Added(b, s, n) ==
  /\ dbCtx' \in Contexts /\ Len(Queue) \in Nat /\ Len(Queue') \in Nat /\ Len(Queue) <= Len(Queue')
  /\ \A k \in 1..Len(Queue) : Queue'[k] = Queue[k]
  /\ \A k \in Len(Queue) + 1..Len(Queue') : \E w \in DbWidgets : \E r \in 1..Len(Subs(w, b)) :
       s \in Subs(w, b)[r].rule /\ Queue'[k] = <<w, b, <<r, n>>>>
  /\ \A w \in DbWidgets : \A r \in 1..Len(Subs(w, b)) : s \in Subs(w, b)[r].rule =>
       \E k \in Len(Queue) + 1..Len(Queue') : Queue'[k] = <<w, b, <<r, n>>>>
  /\ \A j, k \in Len(Queue) + 1..Len(Queue') : j # k => Queue'[j] # Queue'[k]

LEMMA EmitFields ==
  ASSUME DbInv, NEW b \in Buses, Emit(b)
  PROVE  \E s \in DbSignals :
           /\ UNCHANGED <<dbOpt, db, dbSubs, dbTold>>
           /\ dbBus' = [dbBus EXCEPT ![b].sent = Append(@, s)]
           /\ Added(b, s, Len(Sent(b)) + 1)
<1>n. PICK n : n = Len(Sent(b)) + 1
  OBVIOUS
<1>0. PICK s \in DbSignals :
        /\ \E order \in SetToSeqs(Receivers(b, s)) :
             dbCtx' = [dbCtx EXCEPT !.queue = @ \o
                         [k \in 1..Len(order) |->
                            <<order[k][1], b, <<order[k][2], Len(dbBus[b].sent) + 1>>>>]]
        /\ dbBus' = [dbBus EXCEPT ![b].sent = Append(@, s)]
  BY DEF Emit
<1>1. /\ \E order \in SetToSeqs(Receivers(b, s)) :
           dbCtx' = [dbCtx EXCEPT !.queue = @ \o
                       [k \in 1..Len(order) |-> <<order[k][1], b, <<order[k][2], n>>>>]]
      /\ dbBus' = [dbBus EXCEPT ![b].sent = Append(@, s)]
  BY <1>0, <1>n DEF Sent
<1>a. PICK order \in SetToSeqs(Receivers(b, s)) :
        dbCtx' = [dbCtx EXCEPT !.queue = @ \o
                    [k \in 1..Len(order) |-> <<order[k][1], b, <<order[k][2], n>>>>]]
  BY <1>1
<1>t. DbTypeOK
  BY DEF DbInv
<1>2. dbCtx \in Contexts /\ Queue \in Seq(Entries) /\ n \in Nat
  <2>1. dbCtx \in Contexts /\ Queue \in Seq(Entries)
    BY <1>t DEF DbTypeOK, Contexts, Queue
  <2>2. Sent(b) \in Seq(DbSignals)
    BY <1>t DEF DbTypeOK, Sent
  <2> QED BY <2>1, <2>2, <1>n, LenProperties
<1>3. /\ IsFiniteSet(Receivers(b, s))
      /\ \A w, r : <<w, r>> \in Receivers(b, s) <=>
           w \in DbWidgets /\ r \in 1..Len(Subs(w, b)) /\ s \in Subs(w, b)[r].rule
      /\ \A x \in Receivers(b, s) : x = <<x[1], x[2]>> /\ x[1] \in DbWidgets /\ x[2] \in Nat
  BY <1>t, ReceiversAre
<1>4. /\ order \in [1..Len(order) -> Receivers(b, s)] /\ Len(order) \in Nat
      /\ \A i, j \in 1..Len(order) : i # j => order[i] # order[j]
      /\ \A w \in Receivers(b, s) : \E k \in 1..Len(order) : order[k] = w
  BY <1>3, OrderIsAll
<1> DEFINE added == [k \in 1..Len(order) |-> <<order[k][1], b, <<order[k][2], n>>>>]
<1>5. /\ added \in Seq(Entries) /\ Len(added) = Len(order)
      /\ Len(order) \in Nat
      /\ \A k \in 1..Len(order) : added[k] = <<order[k][1], b, <<order[k][2], n>>>>
  <2>1. \A k \in 1..Len(order) : <<order[k][1], b, <<order[k][2], n>>>> \in Entries
    <3> SUFFICES ASSUME NEW k \in 1..Len(order)
                 PROVE  <<order[k][1], b, <<order[k][2], n>>>> \in Entries
      OBVIOUS
    <3>1. order[k][1] \in DbWidgets /\ order[k][2] \in Nat
      BY <1>3, <1>4
    <3> QED BY <3>1, <1>2 DEF Entries, BusCalls
  <2>2. added \in [1..Len(order) -> Entries]
    BY <2>1
  <2>3. added \in Seq(Entries) /\ DOMAIN added = 1..Len(order)
    BY <2>2, <1>4
  <2>4. Len(added) = Len(order)
    BY <2>3, <1>4
  <2> QED BY <2>3, <2>4, <1>4
<1>6. Queue' = Queue \o added /\ dbCtx' = [dbCtx EXCEPT !.queue = @ \o added]
  BY <1>a, <1>2 DEF Contexts, Queue
<1> HIDE DEF added
<1>7. /\ Queue' \in Seq(Entries) /\ Len(Queue) \in Nat
      /\ Len(Queue') = Len(Queue) + Len(order)
      /\ \A k \in 1..Len(Queue) + Len(order) :
           Queue'[k] = IF k <= Len(Queue) THEN Queue[k] ELSE added[k - Len(Queue)]
  <2>1. /\ Queue \o added \in Seq(Entries)
        /\ Len(Queue \o added) = Len(Queue) + Len(added)
        /\ \A k \in 1..Len(Queue) + Len(added) :
             (Queue \o added)[k] = IF k <= Len(Queue) THEN Queue[k] ELSE added[k - Len(Queue)]
    BY <1>2, <1>5, ConcatProperties, ZenonT(40)
  <2> QED BY <2>1, <1>2, <1>5, <1>6
<1>8. \A k \in Len(Queue) + 1..Len(Queue') :
        /\ k - Len(Queue) \in 1..Len(order)
        /\ Queue'[k] = <<order[k - Len(Queue)][1], b, <<order[k - Len(Queue)][2], n>>>>
  <2> SUFFICES ASSUME NEW k \in Len(Queue) + 1..Len(Queue')
               PROVE  /\ k - Len(Queue) \in 1..Len(order)
                      /\ Queue'[k] = <<order[k - Len(Queue)][1], b, <<order[k - Len(Queue)][2], n>>>>
    OBVIOUS
  <2>1. /\ k \in 1..Len(Queue) + Len(order) /\ ~(k <= Len(Queue))
        /\ k - Len(Queue) \in 1..Len(order)
    BY <1>5, <1>7
  <2>2. Queue'[k] = added[k - Len(Queue)]
    BY <2>1, <1>7
  <2> QED BY <2>1, <2>2, <1>5
<1>9. \A k \in Len(Queue) + 1..Len(Queue') : \E w \in DbWidgets : \E r \in 1..Len(Subs(w, b)) :
        s \in Subs(w, b)[r].rule /\ Queue'[k] = <<w, b, <<r, n>>>>
  <2> SUFFICES ASSUME NEW k \in Len(Queue) + 1..Len(Queue')
               PROVE  \E w \in DbWidgets : \E r \in 1..Len(Subs(w, b)) :
                        s \in Subs(w, b)[r].rule /\ Queue'[k] = <<w, b, <<r, n>>>>
    OBVIOUS
  <2> DEFINE x == order[k - Len(Queue)]
  <2>1. k - Len(Queue) \in 1..Len(order) /\ Queue'[k] = <<x[1], b, <<x[2], n>>>>
    BY <1>8
  <2>2. x \in Receivers(b, s)
    BY <2>1, <1>4
  <2> HIDE DEF x
  <2>3. x[1] \in DbWidgets /\ x[2] \in 1..Len(Subs(x[1], b)) /\ s \in Subs(x[1], b)[x[2]].rule
    BY <2>2, <1>3
  <2> QED BY <2>1, <2>3
<1>10. \A w \in DbWidgets : \A r \in 1..Len(Subs(w, b)) : s \in Subs(w, b)[r].rule =>
         \E k \in Len(Queue) + 1..Len(Queue') : Queue'[k] = <<w, b, <<r, n>>>>
  <2> SUFFICES ASSUME NEW w \in DbWidgets, NEW r \in 1..Len(Subs(w, b)), s \in Subs(w, b)[r].rule
               PROVE  \E k \in Len(Queue) + 1..Len(Queue') : Queue'[k] = <<w, b, <<r, n>>>>
    OBVIOUS
  <2>0. <<w, r>> \in Receivers(b, s)
    BY <1>3
  <2>1. PICK i \in 1..Len(order) : order[i] = <<w, r>>
    BY <2>0, <1>4
  <2>2. Len(Queue) + i \in Len(Queue) + 1..Len(Queue') /\ (Len(Queue) + i) - Len(Queue) = i
    BY <1>7, <1>5
  <2>3. Queue'[Len(Queue) + i] = <<w, b, <<r, n>>>>
    BY <1>8, <2>1, <2>2
  <2> QED BY <2>2, <2>3
<1>11. \A j, k \in Len(Queue) + 1..Len(Queue') : j # k => Queue'[j] # Queue'[k]
  <2> SUFFICES ASSUME NEW j \in Len(Queue) + 1..Len(Queue'), NEW k \in Len(Queue) + 1..Len(Queue'),
                      j # k, Queue'[j] = Queue'[k]
               PROVE  FALSE
    OBVIOUS
  <2> DEFINE x == order[j - Len(Queue)]
             y == order[k - Len(Queue)]
  <2>1. j - Len(Queue) # k - Len(Queue)
    BY <1>7, <1>5
  <2>2. /\ j - Len(Queue) \in 1..Len(order) /\ k - Len(Queue) \in 1..Len(order)
        /\ Queue'[j] = <<x[1], b, <<x[2], n>>>> /\ Queue'[k] = <<y[1], b, <<y[2], n>>>>
    BY <1>8
  <2>3. x # y /\ x \in Receivers(b, s) /\ y \in Receivers(b, s)
    BY <2>1, <2>2, <1>4
  <2> HIDE DEF x, y
  <2>4. \A z \in Receivers(b, s) : z = <<z[1], z[2]>>
    BY <1>3
  <2>5. x[1] = y[1] /\ x[2] = y[2]
    <3>1. <<x[1], b, <<x[2], n>>>> = <<y[1], b, <<y[2], n>>>>
      BY <2>2
    <3> QED BY <3>1, EntryParts
  <2>6. x = <<x[1], x[2]>> /\ y = <<y[1], y[2]>>
    BY <2>3, <2>4
  <2> QED BY <2>3, <2>5, <2>6
<1>12. dbCtx' \in Contexts
  <2>1. dbCtx'.queue = Queue'
    BY DEF Queue
  <2> QED BY <1>6, <1>2, <1>7 DEF Contexts, Queue
<1>13. Len(Queue') \in Nat /\ Len(Queue) <= Len(Queue')
  BY <1>5, <1>7
<1>14. UNCHANGED <<dbOpt, db, dbSubs, dbTold>> /\ dbBus' = [dbBus EXCEPT ![b].sent = Append(@, s)]
  BY <1>1 DEF Emit
<1>16. \A k \in 1..Len(Queue) : Queue'[k] = Queue[k]
  BY <1>7, <1>5
<1>17. Added(b, s, n)
  BY <1>7, <1>9, <1>10, <1>11, <1>12, <1>13, <1>16 DEF Added
<1> QED BY <1>14, <1>17, <1>n

\* The signals of the buses after one was sent.
LEMMA SentFields ==
  ASSUME DbTypeOK, NEW b \in Buses, NEW s \in DbSignals,
         dbBus' = [dbBus EXCEPT ![b].sent = Append(@, s)]
  PROVE  /\ dbBus' \in [Buses -> [sent : Seq(DbSignals), closed : BOOLEAN]]
         /\ Len(Sent(b)) \in Nat /\ Len(Sent(b)') = Len(Sent(b)) + 1
         /\ \A k \in 1..Len(Sent(b)) : Sent(b)'[k] = Sent(b)[k]
         /\ Sent(b)'[Len(Sent(b)) + 1] = s
         /\ \A c \in Buses : c # b => Sent(c)' = Sent(c)
<1>1. dbBus \in [Buses -> [sent : Seq(DbSignals), closed : BOOLEAN]]
  BY DEF DbTypeOK
<1>2. dbBus[b] \in [sent : Seq(DbSignals), closed : BOOLEAN] /\ Sent(b) \in Seq(DbSignals)
  BY <1>1 DEF Sent
<1>3. /\ Append(Sent(b), s) \in Seq(DbSignals) /\ Len(Append(Sent(b), s)) = Len(Sent(b)) + 1
      /\ \A k \in 1..Len(Sent(b)) : Append(Sent(b), s)[k] = Sent(b)[k]
      /\ Append(Sent(b), s)[Len(Sent(b)) + 1] = s /\ Len(Sent(b)) \in Nat
  BY <1>2, AppendProperties, LenProperties
<1> DEFINE t == [dbBus[b] EXCEPT !.sent = Append(Sent(b), s)]
<1>4. dbBus' = [dbBus EXCEPT ![b] = t]
  BY DEF Sent
<1>5. t \in [sent : Seq(DbSignals), closed : BOOLEAN] /\ t.sent = Append(Sent(b), s)
  BY <1>2, <1>3
<1> HIDE DEF t
<1>6. dbBus' \in [Buses -> [sent : Seq(DbSignals), closed : BOOLEAN]]
  BY <1>1, <1>4, <1>5
<1>7. Sent(b)' = Append(Sent(b), s)
  BY <1>1, <1>4, <1>5 DEF Sent
<1>8. \A c \in Buses : c # b => Sent(c)' = Sent(c)
  BY <1>1, <1>4 DEF Sent
<1> QED BY <1>3, <1>6, <1>7, <1>8

\* What is left of the queue when its first call is made.
LEMMA CallbackFields ==
  ASSUME DbInv, CallbackSignal
  PROVE  /\ dbCtx' \in Contexts /\ Len(Queue) \in Nat \ {0} /\ Len(Queue') = Len(Queue) - 1
         /\ Head(Queue) = Queue[1] /\ Queue[1] \in Entries
         /\ \A k \in 1..Len(Queue') : k + 1 \in 1..Len(Queue) /\ Queue'[k] = Queue[k + 1]
         /\ \A k \in 1..Len(Queue) : k # 1 => k - 1 \in 1..Len(Queue') /\ Queue'[k - 1] = Queue[k]
<1>1. dbCtx \in Contexts /\ Queue \in Seq(Entries) /\ Queue # <<>>
  BY DEF DbInv, DbTypeOK, Contexts, Queue, CallbackSignal
<1>2. Queue' = Tail(Queue) /\ dbCtx' = [dbCtx EXCEPT !.queue = Tail(@)]
  BY <1>1 DEF CallbackSignal, Queue, Contexts
<1>3. /\ Head(Queue) = Queue[1] /\ Queue[1] \in Entries
      /\ Len(Queue) \in Nat \ {0} /\ Queue' \in Seq(Entries)
      /\ Len(Queue') = Len(Queue) - 1
      /\ \A k \in 1..Len(Queue) - 1 : Queue'[k] = Queue[k + 1]
  BY <1>1, <1>2, HeadTailProperties, EmptySeq
<1>4. \A k \in 1..Len(Queue) : k # 1 => k - 1 \in 1..Len(Queue') /\ Queue'[k - 1] = Queue[k]
  <2> SUFFICES ASSUME NEW k \in 1..Len(Queue), k # 1
               PROVE  k - 1 \in 1..Len(Queue') /\ Queue'[k - 1] = Queue[k]
    OBVIOUS
  <2>1. k - 1 \in 1..Len(Queue) - 1 /\ (k - 1) + 1 = k
    BY <1>3
  <2> QED BY <2>1, <1>3
<1>5. \A k \in 1..Len(Queue') : k + 1 \in 1..Len(Queue) /\ Queue'[k] = Queue[k + 1]
  BY <1>3
<1>6. dbCtx' \in Contexts
  BY <1>1, <1>2, <1>3 DEF Contexts, Queue
<1> QED BY <1>3, <1>4, <1>5, <1>6

-----------------------------------------------------------------------------
(* Types, and what a widget has subscribed to.                             *)

LEMMA TellsTyped ==
  ASSUME NEW t \in Tells
  PROVE  /\ \A what \in {"hello", "timeout", "ready"} : [t EXCEPT !.what = what] \in Tells
         /\ \A b \in Buses, c \in BusCalls, s \in Buses \X (Buses \cup {""}) :
              [t EXCEPT !.what = "signal", !.signals[b] = Append(@, c), !.named = @ \cup {s}]
                \in Tells
<1>1. \A what \in {"hello", "timeout", "ready"} : [t EXCEPT !.what = what] \in Tells
  BY DEF Tells
<1>2. ASSUME NEW b \in Buses, NEW c \in BusCalls, NEW s \in Buses \X (Buses \cup {""})
      PROVE  [t EXCEPT !.what = "signal", !.signals[b] = Append(@, c), !.named = @ \cup {s}]
               \in Tells
  <2>1. t.signals \in [Buses -> Seq(BusCalls)] /\ t.named \in SUBSET (Buses \X (Buses \cup {""}))
    BY DEF Tells
  <2>2. Append(t.signals[b], c) \in Seq(BusCalls)
    BY <2>1, AppendProperties
  <2>3. [t.signals EXCEPT ![b] = Append(@, c)] \in [Buses -> Seq(BusCalls)]
    BY <2>1, <2>2
  <2>4. t.named \cup {s} \in SUBSET (Buses \X (Buses \cup {""}))
    BY <2>1
  <2> QED BY <2>3, <2>4 DEF Tells
<1> QED BY <1>1, <1>2

LEMMA TellSignalFields ==
  ASSUME dbTold \in [DbWidgets -> Tells], NEW w \in DbWidgets, NEW b \in Buses, NEW n \in BusCalls
  PROVE  /\ TellSignal(w, b, n) \in [DbWidgets -> Tells]
         /\ \A v \in DbWidgets, c \in Buses : TellSignal(w, b, n)[v].signals[c] =
              IF v = w /\ c = b THEN Append(dbTold[v].signals[c], n) ELSE dbTold[v].signals[c]
<1> DEFINE t == WithSignal(dbTold[w], w, b, n)
<1>1. TellSignal(w, b, n) = [dbTold EXCEPT ![w] = t]
  BY DEF TellSignal
<1>2. <<b, BusName(w, b)>> \in Buses \X (Buses \cup {""}) /\ dbTold[w] \in Tells
  BY DEF BusName
<1>3. t \in Tells
  <2> HIDE DEF BusName
  <2> QED BY <1>2, TellsTyped DEF WithSignal
<1>4. \A c \in Buses : t.signals[c] = IF c = b THEN Append(dbTold[w].signals[c], n)
                                      ELSE dbTold[w].signals[c]
  BY <1>2 DEF Tells, WithSignal
<1> HIDE DEF t
<1> QED BY <1>1, <1>3, <1>4

\* A connection of the session that is closed has the signals it had.
LEMMA SessionCloses ==
  ASSUME DbTypeOK, dbBus' \in {dbBus, [dbBus EXCEPT !["session"].closed = TRUE]}
  PROVE  /\ dbBus' \in [Buses -> [sent : Seq(DbSignals), closed : BOOLEAN]]
         /\ \A b \in Buses : Sent(b)' = Sent(b)
<1>1. "session" \in Buses
  BY DEF Buses
<1>2. CASE dbBus' = dbBus
  BY <1>2 DEF DbTypeOK, Sent
<1>3. CASE dbBus' = [dbBus EXCEPT !["session"].closed = TRUE]
  <2>1. dbBus \in [Buses -> [sent : Seq(DbSignals), closed : BOOLEAN]]
    BY DEF DbTypeOK
  <2>2. dbBus["session"] \in [sent : Seq(DbSignals), closed : BOOLEAN]
    BY <1>1, <2>1
  <2> DEFINE closed == [dbBus["session"] EXCEPT !.closed = TRUE]
  <2>3. closed \in [sent : Seq(DbSignals), closed : BOOLEAN] /\ closed.sent = dbBus["session"].sent
    BY <2>2
  <2>4. dbBus' = [dbBus EXCEPT !["session"] = closed]
    BY <1>3
  <2> HIDE DEF closed
  <2>5. dbBus' \in [Buses -> [sent : Seq(DbSignals), closed : BOOLEAN]]
    BY <2>1, <2>3, <2>4
  <2>6. ASSUME NEW b \in Buses PROVE dbBus'[b].sent = dbBus[b].sent
    <3>1. CASE b = "session"
      BY <1>1, <2>1, <2>3, <2>4, <3>1
    <3>2. CASE b # "session"
      BY <2>1, <2>4, <3>2
    <3> QED BY <3>1, <3>2
  <2> QED BY <2>5, <2>6 DEF Sent
<1> QED BY <1>2, <1>3

\* A step of the loop over the rules of a bus: one more subscription, of the next rule.
LEMMA SubscribeFields ==
  ASSUME DbTypeOK, NEW w \in DbWidgets, NEW b \in Buses, SubscribeNext(w, b, Rules(w, b))
  PROVE  /\ Rules(w, b) \in Seq(SUBSET DbSignals) /\ Len(Rules(w, b)) \in Nat
         /\ Subs(w, b) \in Seq(Subscriptions) /\ Len(Subs(w, b)) \in Nat
         /\ dbSubs' \in [DbWidgets \X Buses -> Seq(Subscriptions)]
         /\ \/ /\ UNCHANGED db /\ Len(Subs(w, b)) < Len(Rules(w, b))
               /\ Len(Subs(w, b)') = Len(Subs(w, b)) + 1
               /\ \A r \in 1..Len(Subs(w, b)) : Subs(w, b)'[r] = Subs(w, b)[r]
               /\ Subs(w, b)'[Len(Subs(w, b)) + 1] =
                    [rule |-> Rules(w, b)[Len(Subs(w, b)) + 1], from |-> Len(Sent(b))]
               /\ \A v \in DbWidgets, c \in Buses : v # w \/ c # b => Subs(v, c)' = Subs(v, c)
            \/ /\ DbGoto(w, NextStep(b)) /\ UNCHANGED dbSubs
               /\ ~(Len(Subs(w, b)) < Len(Rules(w, b)))
<1>1. Rules(w, b) \in Seq(SUBSET DbSignals) /\ Len(Rules(w, b)) \in Nat
  <2>1. Rules(w, b) \in Seq(SUBSET DbSignals)
    BY DEF DbTypeOK, DbOptions, Rules
  <2> QED BY <2>1, LenProperties
<1>2. /\ Subs(w, b) \in Seq(Subscriptions) /\ Len(Subs(w, b)) \in Nat
      /\ dbSubs \in [DbWidgets \X Buses -> Seq(Subscriptions)]
  <2>1. Subs(w, b) \in Seq(Subscriptions)
    BY DEF DbTypeOK, Subs
  <2> QED BY <2>1, LenProperties DEF DbTypeOK
<1>3. CASE Len(Subs(w, b)) < Len(Rules(w, b))
  <2> DEFINE e == [rule |-> Rules(w, b)[Len(Subs(w, b)) + 1], from |-> Len(Sent(b))]
  <2>1. UNCHANGED db /\ dbSubs' = [dbSubs EXCEPT ![<<w, b>>] = Append(@, e)]
    BY <1>3 DEF SubscribeNext, Subs, Sent
  <2>2. e \in Subscriptions
    <3>1. Len(Subs(w, b)) + 1 \in 1..Len(Rules(w, b))
      BY <1>1, <1>2, <1>3
    <3>2. Rules(w, b)[Len(Subs(w, b)) + 1] \in SUBSET DbSignals
      BY <1>1, <3>1, ElementOfSeq
    <3>3. Sent(b) \in Seq(DbSignals)
      BY DEF DbTypeOK, Sent
    <3>4. Len(Sent(b)) \in Nat
      BY <3>3, LenProperties
    <3> QED BY <3>2, <3>4 DEF Subscriptions
  <2> HIDE DEF e
  <2>3. /\ Append(Subs(w, b), e) \in Seq(Subscriptions)
        /\ Len(Append(Subs(w, b), e)) = Len(Subs(w, b)) + 1
        /\ \A r \in 1..Len(Subs(w, b)) : Append(Subs(w, b), e)[r] = Subs(w, b)[r]
        /\ Append(Subs(w, b), e)[Len(Subs(w, b)) + 1] = e
    BY <1>2, <2>2, AppendProperties
  <2>4. dbSubs' = [dbSubs EXCEPT ![<<w, b>>] = Append(Subs(w, b), e)]
    BY <2>1 DEF Subs
  <2>5. Subs(w, b)' = Append(Subs(w, b), e)
    BY <1>2, <2>4 DEF Subs
  <2>6. dbSubs' \in [DbWidgets \X Buses -> Seq(Subscriptions)]
    BY <1>2, <2>3, <2>4
  <2>7. \A v \in DbWidgets, c \in Buses : v # w \/ c # b => Subs(v, c)' = Subs(v, c)
    BY <1>2, <2>4 DEF Subs
  <2> QED BY <1>1, <1>2, <1>3, <2>1, <2>3, <2>5, <2>6, <2>7 DEF e
<1>4. CASE ~(Len(Subs(w, b)) < Len(Rules(w, b)))
  <2>1. DbGoto(w, NextStep(b)) /\ UNCHANGED dbSubs
    BY <1>4 DEF SubscribeNext, Subs
  <2> QED BY <1>1, <1>2, <1>4, <2>1
<1> QED BY <1>3, <1>4

\* A step of the thread, without the wrapping of the loop.
LEMMA SubscribeStep ==
  ASSUME NEW w \in DbWidgets, Subscribe(w)
  PROVE  \E b \in Buses : db[w].pc = b /\ SubscribeNext(w, b, Rules(w, b))
                          /\ UNCHANGED <<dbOpt, dbBus, dbCtx, dbTold>>
BY DEF Subscribe, Rules

\* The types are kept.
LEMMA DbTypeStep == DbInv /\ [DbNext]_dbvars => DbTypeOK'
<1> SUFFICES ASSUME DbInv, [DbNext]_dbvars PROVE DbTypeOK'
  OBVIOUS
<1>t. DbTypeOK
  BY DEF DbInv
<1> USE DEF DbTypeOK
<1>1. ASSUME NEW b \in Buses, Emit(b) PROVE DbTypeOK'
  <2>1. PICK s \in DbSignals :
          /\ UNCHANGED <<dbOpt, db, dbSubs, dbTold>>
          /\ dbBus' = [dbBus EXCEPT ![b].sent = Append(@, s)]
          /\ Added(b, s, Len(Sent(b)) + 1)
    BY <1>1, EmitFields
  <2>2. dbBus' \in [Buses -> [sent : Seq(DbSignals), closed : BOOLEAN]]
    <3> HIDE DEF DbTypeOK
    <3> QED BY <2>1, <1>t, SentFields
  <2>3. dbCtx' \in Contexts
    BY <2>1 DEF Added
  <2> QED BY <2>1, <2>2, <2>3, <1>t
<1>2. CASE Tick
  <2>1. [w \in DbWidgets |-> IF dbCtx.timer[w] < 0 THEN dbCtx.timer[w] ELSE dbCtx.timer[w] + 1]
          \in [DbWidgets -> Nat \cup {-1}]
    BY <1>t DEF Contexts
  <2>2. dbCtx' \in Contexts
    BY <1>2, <2>1, <1>t DEF Tick, Contexts
  <2> QED BY <1>2, <2>2, <1>t DEF Tick
<1>g. ASSUME NEW w \in DbWidgets, NEW pc \in DbPcs, DbGoto(w, pc)
      PROVE  db' \in [DbWidgets -> [pc : DbPcs, cnx : BOOLEAN]]
  BY <1>g, <1>t DEF DbGoto
<1>3. ASSUME NEW w \in DbWidgets, Subscribe(w) PROVE DbTypeOK'
  <2>1. PICK b \in Buses : SubscribeNext(w, b, Rules(w, b)) /\ UNCHANGED <<dbOpt, dbBus, dbCtx, dbTold>>
    BY <1>3, SubscribeStep
  <2>2. /\ dbSubs' \in [DbWidgets \X Buses -> Seq(Subscriptions)]
        /\ UNCHANGED db \/ DbGoto(w, NextStep(b))
    <3> HIDE DEF DbTypeOK
    <3> QED BY <2>1, <1>t, SubscribeFields
  <2>3. NextStep(b) \in DbPcs
    BY DEF NextStep, DbPcs
  <2>4. db' \in [DbWidgets -> [pc : DbPcs, cnx : BOOLEAN]]
    BY <2>2, <2>3, <1>g, <1>t
  <2> QED BY <2>1, <2>2, <2>4, <1>t
<1>4. ASSUME NEW w \in DbWidgets, ConnectFails(w) PROVE DbTypeOK'
  <2>1. DbGoto(w, "error") /\ "error" \in DbPcs
    BY <1>4 DEF ConnectFails, DbPcs
  <2> QED BY <1>4, <2>1, <1>g, <1>t DEF ConnectFails
<1>r. ASSUME NEW w \in DbWidgets, Return(w) PROVE DbTypeOK'
  <2>1. DbGoto(w, "returned") /\ "returned" \in DbPcs
    BY <1>r DEF Return, DbPcs
  <2>2. dbBus' \in [Buses -> [sent : Seq(DbSignals), closed : BOOLEAN]]
    <3>1. dbBus' \in {dbBus, [dbBus EXCEPT !["session"].closed = TRUE]}
      BY <1>r DEF Return
    <3> HIDE DEF DbTypeOK
    <3> QED BY <3>1, <1>t, SessionCloses
  <2> QED BY <1>r, <2>1, <2>2, <1>g, <1>t DEF Return
<1>5. ASSUME NEW w \in DbWidgets, SetConnections(w) PROVE DbTypeOK'
  <2>1. dbCtx' \in Contexts
    BY <1>5, <1>t DEF SetConnections, Contexts
  <2> QED BY <1>5, <2>1, <1>t DEF SetConnections, DbPcs
<1>6. ASSUME NEW w \in DbWidgets, Greet(w) PROVE DbTypeOK'
  <2>1. DbGoto(w, "loop") /\ "loop" \in DbPcs
    BY <1>6 DEF Greet, DbPcs
  <2>2. dbCtx' \in Contexts
    BY <1>6, <1>t DEF Greet, Contexts
  <2>3. dbTold' \in [DbWidgets -> Tells]
    <3>1. dbTold' \in {dbTold, [dbTold EXCEPT ![w].what = "hello"]}
      BY <1>6 DEF Greet
    <3>2. [dbTold[w] EXCEPT !.what = "hello"] \in Tells
      BY <1>t, TellsTyped
    <3> QED BY <3>1, <3>2, <1>t
  <2> QED BY <1>6, <2>1, <2>2, <2>3, <1>g, <1>t DEF Greet
<1>7. ASSUME NEW w \in DbWidgets, RunLoop(w) PROVE DbTypeOK'
  BY <1>7, <1>t DEF RunLoop, Contexts
<1>8. CASE CallbackSignal
  <2>1. PICK w \in DbWidgets, b \in Buses, n \in BusCalls : Queue[1] = <<w, b, n>>
    BY <1>8, CallbackFields DEF Entries
  <2>2. Head(dbCtx.queue) = <<w, b, n>>
    BY <1>8, <2>1, CallbackFields DEF Queue
  <2>3. dbTold' = TellSignal(w, b, n)
    BY <1>8, <2>2 DEF CallbackSignal
  <2>4. dbTold' \in [DbWidgets -> Tells]
    BY <2>3, <1>t, TellSignalFields
  <2> QED BY <1>8, <2>4, <1>t, CallbackFields DEF CallbackSignal
<1>a. CASE CallbackAborts
  <2>1. dbCtx' \in Contexts
    BY <1>a, <1>t DEF CallbackAborts, Contexts
  <2>2. db' \in [DbWidgets -> [pc : DbPcs, cnx : BOOLEAN]]
    BY <1>a, <1>t DEF CallbackAborts, DbPcs
  <2> QED BY <1>a, <2>1, <2>2, <1>t DEF CallbackAborts
<1>9. ASSUME NEW w \in DbWidgets, CallbackTimeout(w) PROVE DbTypeOK'
  <2>1. dbCtx' \in Contexts
    BY <1>9, <1>t DEF CallbackTimeout, Contexts
  <2>2. dbTold' \in [DbWidgets -> Tells]
    BY <1>9, <1>t, TellsTyped DEF CallbackTimeout
  <2> QED BY <1>9, <2>1, <2>2, <1>t DEF CallbackTimeout
<1>10. ASSUME NEW w \in DbWidgets, CallbackIdle(w) PROVE DbTypeOK'
  <2>1. dbCtx' \in Contexts
    BY <1>10, <1>t DEF CallbackIdle, Contexts
  <2>2. dbTold' \in [DbWidgets -> Tells]
    BY <1>10, <1>t, TellsTyped DEF CallbackIdle
  <2> QED BY <1>10, <2>1, <2>2, <1>t DEF CallbackIdle
<1>11. CASE UNCHANGED dbvars
  BY <1>11, <1>t DEF dbvars
<1> QED BY <1>1, <1>2, <1>3, <1>4, <1>r, <1>5, <1>6, <1>7, <1>8, <1>a, <1>9, <1>10, <1>11
        DEF DbNext, DbThread, DbDispatch

-----------------------------------------------------------------------------
(* What a widget has subscribed to.                                        *)

LEMMA DbTypes ==
  ASSUME DbInv, NEW w \in DbWidgets, NEW b \in Buses
  PROVE  /\ DbTypeOK /\ DbSubscribed /\ Queue \in Seq(Entries) /\ Len(Queue) \in Nat
         /\ Sent(b) \in Seq(DbSignals) /\ Len(Sent(b)) \in Nat
         /\ Rules(w, b) \in Seq(SUBSET DbSignals) /\ Len(Rules(w, b)) \in Nat
         /\ Subs(w, b) \in Seq(Subscriptions) /\ Len(Subs(w, b)) \in Nat
         /\ Told(w, b) \in Seq(BusCalls) /\ Len(Told(w, b)) \in Nat
<1>1. DbTypeOK /\ DbSubscribed
  BY DEF DbInv
<1>2. Queue \in Seq(Entries)
  BY <1>1 DEF DbTypeOK, Contexts, Queue
<1>3. Sent(b) \in Seq(DbSignals)
  BY <1>1 DEF DbTypeOK, Sent
<1>4. dbTold[w] \in Tells
  BY <1>1 DEF DbTypeOK
<1>5. Told(w, b) \in Seq(BusCalls)
  BY <1>4 DEF Tells, Told
<1>6. Rules(w, b) \in Seq(SUBSET DbSignals)
  BY <1>1 DEF DbTypeOK, DbOptions, Rules
<1>7. Subs(w, b) \in Seq(Subscriptions)
  BY <1>1 DEF DbTypeOK, Subs
<1> QED BY <1>1, <1>2, <1>3, <1>5, <1>6, <1>7, LenProperties

\* What DbSubscribed says of a widget and a bus.
SubscribedTo(w, b) ==
  /\ Len(Subs(w, b)) <= Len(Rules(w, b))
  /\ \A r \in 1..Len(Subs(w, b)) :
       Subs(w, b)[r].rule = Rules(w, b)[r] /\ Subs(w, b)[r].from <= Len(Sent(b))
  /\ Past(w, b) => Len(Subs(w, b)) = Len(Rules(w, b))

\* It stays so where nothing of it changes, and when signals are added to the bus.
LEMMA SubscribedStays ==
  ASSUME NEW w, NEW b, SubscribedTo(w, b), Subs(w, b)' = Subs(w, b), Rules(w, b)' = Rules(w, b),
         Past(w, b)' => Past(w, b) \/ Len(Subs(w, b)) = Len(Rules(w, b)),
         Len(Sent(b)) \in Nat, Len(Sent(b)') \in Nat, Len(Sent(b)) <= Len(Sent(b)'),
         Subs(w, b) \in Seq(Subscriptions)
  PROVE  SubscribedTo(w, b)'
<1>1. ASSUME NEW r \in 1..Len(Subs(w, b)) PROVE Subs(w, b)[r].from <= Len(Sent(b)')
  <2>1. Subs(w, b)[r] \in Subscriptions
    BY ElementOfSeq
  <2>2. Subs(w, b)[r].from \in Nat /\ Subs(w, b)[r].from <= Len(Sent(b))
    BY <2>1 DEF Subscriptions, SubscribedTo
  <2> QED BY <2>2
<1> QED BY <1>1 DEF SubscribedTo

LEMMA DbSubscribedStep == DbInv /\ [DbNext]_dbvars => DbSubscribed'
<1> SUFFICES ASSUME DbInv, [DbNext]_dbvars, NEW w \in DbWidgets, NEW b \in Buses
             PROVE  SubscribedTo(w, b)'
  BY DEF DbSubscribed, SubscribedTo
<1>t. /\ DbTypeOK /\ Len(Sent(b)) \in Nat
      /\ Subs(w, b) \in Seq(Subscriptions) /\ Len(Subs(w, b)) \in Nat /\ Len(Rules(w, b)) \in Nat
  BY DbTypes
<1>i. SubscribedTo(w, b)
  BY DEF DbInv, DbSubscribed, SubscribedTo
<1>d. db \in [DbWidgets -> [pc : DbPcs, cnx : BOOLEAN]]
  BY <1>t DEF DbTypeOK
<1>u. ASSUME UNCHANGED <<dbOpt, dbSubs>>, Past(w, b)' => Past(w, b), Len(Sent(b)') = Len(Sent(b))
      PROVE  SubscribedTo(w, b)'
  <2>1. Subs(w, b)' = Subs(w, b) /\ Rules(w, b)' = Rules(w, b)
    BY <1>u DEF Subs, Rules
  <2> QED BY <2>1, <1>u, <1>t, <1>i, SubscribedStays
<1>v. ASSUME UNCHANGED <<dbOpt, dbSubs, db, dbBus>> PROVE SubscribedTo(w, b)'
  BY <1>v, <1>u DEF Past, Sent
<1>1. ASSUME NEW c \in Buses, Emit(c) PROVE SubscribedTo(w, b)'
  <2>1. PICK s \in DbSignals :
          UNCHANGED <<dbOpt, db, dbSubs, dbTold>> /\ dbBus' = [dbBus EXCEPT ![c].sent = Append(@, s)]
    BY <1>1, EmitFields
  <2>2. Len(Sent(b)') \in Nat /\ Len(Sent(b)) <= Len(Sent(b)')
    <3>1. Len(Sent(c)') = Len(Sent(c)) + 1 /\ (c # b => Sent(b)' = Sent(b))
      BY <2>1, <1>t, SentFields
    <3>2. CASE c = b
      BY <3>1, <3>2, <1>t
    <3>3. CASE c # b
      BY <3>1, <3>3, <1>t
    <3> QED BY <3>2, <3>3
  <2>3. Subs(w, b)' = Subs(w, b) /\ Rules(w, b)' = Rules(w, b) /\ (Past(w, b)' => Past(w, b))
    BY <2>1 DEF Subs, Rules, Past
  <2> QED BY <2>2, <2>3, <1>t, <1>i, SubscribedStays
<1>2. CASE Tick
  BY <1>2, <1>v DEF Tick
<1>3. ASSUME NEW v \in DbWidgets, Subscribe(v) PROVE SubscribedTo(w, b)'
  <2>1. PICK c \in Buses : /\ db[v].pc = c /\ SubscribeNext(v, c, Rules(v, c))
                           /\ UNCHANGED <<dbOpt, dbBus, dbCtx, dbTold>>
    BY <1>3, SubscribeStep
  <2>2. Sent(b)' = Sent(b) /\ Rules(w, b)' = Rules(w, b)
    BY <2>1 DEF Sent, Rules
  <2>3. CASE UNCHANGED db /\ ~(v = w /\ c = b)
    <3>1. Subs(w, b)' = Subs(w, b)
      BY <2>1, <2>3, <1>t, SubscribeFields DEF Subs
    <3>2. Past(w, b)' => Past(w, b)
      BY <2>3 DEF Past
    <3> QED BY <2>2, <3>1, <3>2, <1>t, <1>i, SubscribedStays
  <2>4. CASE /\ UNCHANGED db /\ v = w /\ c = b /\ Len(Subs(w, b)) < Len(Rules(w, b))
             /\ Len(Subs(w, b)') = Len(Subs(w, b)) + 1
             /\ \A r \in 1..Len(Subs(w, b)) : Subs(w, b)'[r] = Subs(w, b)[r]
             /\ Subs(w, b)'[Len(Subs(w, b)) + 1] =
                  [rule |-> Rules(w, b)[Len(Subs(w, b)) + 1], from |-> Len(Sent(b))]
    <3>1. ~Past(w, b)'
      BY <2>1, <2>4 DEF Past, Buses
    <3>2. ASSUME NEW r \in 1..Len(Subs(w, b)')
          PROVE  Subs(w, b)'[r].rule = Rules(w, b)[r] /\ Subs(w, b)'[r].from <= Len(Sent(b))
      <4>1. CASE r \in 1..Len(Subs(w, b))
        BY <4>1, <2>4, <1>i DEF SubscribedTo
      <4>2. CASE r = Len(Subs(w, b)) + 1
        BY <4>2, <2>4, <1>t
      <4> QED BY <4>1, <4>2, <2>4, <1>t
    <3>3. Len(Subs(w, b)') <= Len(Rules(w, b))
      BY <2>4, <1>t
    <3> QED BY <3>1, <3>2, <3>3, <2>2 DEF SubscribedTo
  <2>5. CASE DbGoto(v, NextStep(c)) /\ UNCHANGED dbSubs /\ ~(Len(Subs(v, c)) < Len(Rules(v, c)))
    <3>1. Subs(w, b)' = Subs(w, b)
      BY <2>5 DEF Subs
    <3>2. db'[w].pc = IF v = w THEN NextStep(c) ELSE db[w].pc
      BY <2>5, <1>d DEF DbGoto
    <3>3. v = w /\ c = b => Len(Subs(w, b)) = Len(Rules(w, b))
      BY <2>5, <1>t, <1>i DEF SubscribedTo
    <3>4. Past(w, b)' => Past(w, b) \/ Len(Subs(w, b)) = Len(Rules(w, b))
      <4>1. CASE v # w
        BY <3>2, <4>1 DEF Past
      <4>2. CASE v = w /\ c = b
        BY <3>3, <4>2
      <4>3. CASE v = w /\ c # b
        BY <2>1, <3>2, <4>3 DEF Past, NextStep, Buses
      <4> QED BY <4>1, <4>2, <4>3
    <3> QED BY <2>2, <3>1, <3>4, <1>t, <1>i, SubscribedStays
  <2>6. \/ UNCHANGED db /\ Len(Subs(v, c)) < Len(Rules(v, c))
           /\ Len(Subs(v, c)') = Len(Subs(v, c)) + 1
           /\ (\A r \in 1..Len(Subs(v, c)) : Subs(v, c)'[r] = Subs(v, c)[r])
           /\ Subs(v, c)'[Len(Subs(v, c)) + 1] =
                [rule |-> Rules(v, c)[Len(Subs(v, c)) + 1], from |-> Len(Sent(c))]
        \/ DbGoto(v, NextStep(c)) /\ UNCHANGED dbSubs /\ ~(Len(Subs(v, c)) < Len(Rules(v, c)))
    BY <2>1, <1>t, SubscribeFields
  <2> QED BY <2>3, <2>4, <2>5, <2>6
<1>g. ASSUME NEW v \in DbWidgets, NEW pc \in {"error", "returned"}, DbGoto(v, pc)
      PROVE  Past(w, b)' => Past(w, b)
  <2>1. db'[w].pc = IF v = w THEN pc ELSE db[w].pc
    BY <1>g, <1>d DEF DbGoto
  <2> QED BY <2>1 DEF Past
<1>4. ASSUME NEW v \in DbWidgets, ConnectFails(v) PROVE SubscribedTo(w, b)'
  BY <1>4, <1>g, <1>u DEF ConnectFails, Sent
<1>r. ASSUME NEW v \in DbWidgets, Return(v) PROVE SubscribedTo(w, b)'
  <2>1. DbGoto(v, "returned") /\ UNCHANGED <<dbOpt, dbSubs>>
        /\ dbBus' \in {dbBus, [dbBus EXCEPT !["session"].closed = TRUE]}
    BY <1>r DEF Return
  <2>2. Sent(b)' = Sent(b)
    BY <2>1, <1>t, SessionCloses
  <2> QED BY <2>1, <2>2, <1>g, <1>u
<1>5. ASSUME NEW v \in DbWidgets, SetConnections(v) PROVE SubscribedTo(w, b)'
  <2>1. db[v].pc = "set" /\ db'[w].pc = IF v = w THEN "greet" ELSE db[w].pc
    BY <1>5, <1>d DEF SetConnections
  <2>2. Past(w, b)' => Past(w, b)
    BY <2>1 DEF Past
  <2> QED BY <1>5, <2>2, <1>u DEF SetConnections, Sent
<1>6. ASSUME NEW v \in DbWidgets, Greet(v) PROVE SubscribedTo(w, b)'
  <2>1. db[v].pc = "greet" /\ db'[w].pc = IF v = w THEN "loop" ELSE db[w].pc
    BY <1>6, <1>d DEF Greet, DbGoto
  <2>2. Past(w, b)' => Past(w, b)
    BY <2>1 DEF Past
  <2> QED BY <1>6, <2>2, <1>u DEF Greet, Sent
<1>7. ASSUME NEW v \in DbWidgets, RunLoop(v) PROVE SubscribedTo(w, b)'
  BY <1>7, <1>v DEF RunLoop
<1>8. CASE CallbackSignal
  BY <1>8, <1>v DEF CallbackSignal
<1>a. CASE CallbackAborts
  <2>1. db'[w].pc = "aborted"
    BY <1>a, <1>d DEF CallbackAborts
  <2>2. ~Past(w, b)'
    BY <2>1 DEF Past
  <2> QED BY <1>a, <2>2, <1>u DEF CallbackAborts, Sent
<1>9. ASSUME NEW v \in DbWidgets, CallbackTimeout(v) \/ CallbackIdle(v) PROVE SubscribedTo(w, b)'
  BY <1>9, <1>v DEF CallbackTimeout, CallbackIdle
<1>10. CASE UNCHANGED dbvars
  BY <1>10, <1>v DEF dbvars
<1> QED BY <1>1, <1>2, <1>3, <1>4, <1>r, <1>5, <1>6, <1>7, <1>8, <1>a, <1>9, <1>10
        DEF DbNext, DbThread, DbDispatch

-----------------------------------------------------------------------------
(* What is told and what is queued.                                        *)

\* Nothing of a widget and a bus has changed.
SameHeard(w, b) ==
  Queue' = Queue /\ Told(w, b)' = Told(w, b) /\ Subs(w, b)' = Subs(w, b) /\ Sent(b)' = Sent(b)

LEMMA HeardStays ==
  ASSUME NEW w, NEW b, DbHeard(w, b), SameHeard(w, b)
  PROVE  DbHeard(w, b)'
<1>1. \A c : DueBy(Subs(w, b)', Sent(b)', c) <=> IsDue(w, b, c)
  BY DEF SameHeard, IsDue, DueBy
<1>2. \A k : QueuedFor(k, w, b)' <=> QueuedFor(k, w, b)
  BY DEF SameHeard, QueuedFor
<1> HIDE DEF QueuedFor, Queue, Told
<1> QED BY <1>1, <1>2 DEF DbHeard, SameHeard, IsDue

\* A signal is sent: it is due to those that have a rule for it, and queued for them.
LEMMA EmitHeard ==
  ASSUME DbInv, NEW e \in Buses, Emit(e), NEW w \in DbWidgets, NEW b \in Buses
  PROVE  DbHeard(w, b)'
<1> DEFINE n == Len(Sent(e)) + 1
           T == Told(w, b)
<1>1. PICK s \in DbSignals :
        /\ UNCHANGED <<dbOpt, db, dbSubs, dbTold>>
        /\ dbBus' = [dbBus EXCEPT ![e].sent = Append(@, s)]
        /\ Added(e, s, n)
  BY EmitFields
<1>t. /\ DbTypeOK /\ DbSubscribed /\ Queue \in Seq(Entries) /\ Len(Queue) \in Nat
      /\ Len(Sent(b)) \in Nat /\ Len(Sent(e)) \in Nat /\ n \in Nat
      /\ Subs(w, b) \in Seq(Subscriptions) /\ Len(Subs(w, b)) \in Nat
      /\ T \in Seq(BusCalls) /\ Len(T) \in Nat
  <2>1. Len(Sent(e)) \in Nat
    BY DbTypes
  <2> QED BY <2>1, DbTypes
<1>h. DbHeard(w, b)
  BY DEF DbInv, DbQueued
<1>2. Told(w, b)' = T /\ Subs(w, b)' = Subs(w, b)
  BY <1>1 DEF Told, Subs
<1>3. /\ Len(Sent(e)') = n /\ (\A k \in 1..Len(Sent(e)) : Sent(e)'[k] = Sent(e)[k])
      /\ Sent(e)'[n] = s /\ (b # e => Sent(b)' = Sent(b))
  BY <1>1, <1>t, SentFields
<1> HIDE DEF n, T
<1>4. ASSUME NEW c \in BusCalls, IsDue(w, b, c)
      PROVE  DueBy(Subs(w, b)', Sent(b)', c) /\ c[2] <= Len(Sent(b))
  <2>1. CASE b # e
    BY <2>1, <1>2, <1>3, <1>4 DEF IsDue, DueBy
  <2>2. CASE b = e
    <3>1. c[2] \in 1..Len(Sent(b)) /\ c[2] \in 1..Len(Sent(b)') /\ Sent(b)'[c[2]] = Sent(b)[c[2]]
      BY <2>2, <1>3, <1>4, <1>t DEF IsDue, DueBy, n
    <3> QED BY <3>1, <1>2, <1>4 DEF IsDue, DueBy
  <2> QED BY <2>1, <2>2
<1>5. ASSUME NEW c \in BusCalls, DueBy(Subs(w, b)', Sent(b)', c), ~IsDue(w, b, c)
      PROVE  b = e /\ c[2] = n /\ c[1] \in 1..Len(Subs(w, b)) /\ s \in Subs(w, b)[c[1]].rule
  <2>1. b = e
    BY <1>2, <1>3, <1>5 DEF IsDue, DueBy
  <2>2. CASE c[2] \in 1..Len(Sent(b))
    BY <2>1, <2>2, <1>2, <1>3, <1>5 DEF IsDue, DueBy
  <2>3. CASE c[2] \notin 1..Len(Sent(b))
    <3>1. c[2] \in 1..n
      BY <2>1, <1>3, <1>5 DEF IsDue, DueBy
    <3>2. c[2] = n
      BY <2>1, <2>3, <3>1, <1>t DEF n
    <3> QED BY <2>1, <3>2, <1>2, <1>3, <1>5 DEF IsDue, DueBy
  <2> QED BY <2>2, <2>3
<1>6. ASSUME NEW r \in 1..Len(Subs(w, b)), s \in Subs(w, b)[r].rule, b = e
      PROVE  DueBy(Subs(w, b)', Sent(b)', <<r, n>>)
  <2>1. Subs(w, b)[r].from < n
    <3>1. Subs(w, b)[r] \in Subscriptions
      BY <1>t, ElementOfSeq
    <3>2. Subs(w, b)[r].from \in Nat /\ Subs(w, b)[r].from <= Len(Sent(b))
      BY <3>1, <1>t DEF Subscriptions, DbSubscribed
    <3> QED BY <3>2, <1>6, <1>t DEF n
  <2>2. r \in Nat /\ n \in Nat /\ n \in 1..n
    BY <1>t DEF n
  <2>3. <<r, n>> \in BusCalls /\ <<r, n>>[1] = r /\ <<r, n>>[2] = n
    BY <2>2 DEF BusCalls
  <2>4. Len(Sent(b)') = n /\ Sent(b)'[n] = s
    BY <1>3, <1>6
  <2>5. DueBy(Subs(w, b), Sent(b)', <<r, n>>)
    BY <2>1, <2>2, <2>3, <2>4, <1>6 DEF DueBy
  <2> QED BY <2>5, <1>2
<1>7. /\ Len(Queue') \in Nat /\ Len(Queue) <= Len(Queue')
      /\ \A k \in 1..Len(Queue) : Queue'[k] = Queue[k]
      /\ \A k \in Len(Queue) + 1..Len(Queue') : \E v \in DbWidgets : \E r \in 1..Len(Subs(v, e)) :
           s \in Subs(v, e)[r].rule /\ Queue'[k] = <<v, e, <<r, n>>>>
      /\ \A r \in 1..Len(Subs(w, e)) : s \in Subs(w, e)[r].rule =>
           \E k \in Len(Queue) + 1..Len(Queue') : Queue'[k] = <<w, e, <<r, n>>>>
      /\ \A j, k \in Len(Queue) + 1..Len(Queue') : j # k => Queue'[j] # Queue'[k]
  BY <1>1, <1>t DEF Added
<1>8. \A k \in 1..Len(Queue') : k \in 1..Len(Queue) \/ k \in Len(Queue) + 1..Len(Queue')
  BY <1>7, <1>t
<1>q. ASSUME NEW k \in 1..Len(Queue)
      PROVE  /\ k \in 1..Len(Queue') /\ (QueuedFor(k, w, b)' <=> QueuedFor(k, w, b))
             /\ Queue'[k][3] = Queue[k][3] /\ Queue[k][3] \in BusCalls
  <2>1. k \in 1..Len(Queue') /\ Queue'[k] = Queue[k]
    BY <1>7, <1>t
  <2>2. Queue[k] \in Entries
    BY <1>t, ElementOfSeq
  <2> QED BY <2>1, <2>2 DEF QueuedFor, Entries
<1>n. ASSUME NEW k \in Len(Queue) + 1..Len(Queue'), QueuedFor(k, w, b)'
      PROVE  \E r \in 1..Len(Subs(w, b)) :
               b = e /\ s \in Subs(w, b)[r].rule /\ Queue'[k] = <<w, b, <<r, n>>>>
  <2>0. PICK v \in DbWidgets : \E r \in 1..Len(Subs(v, e)) :
          s \in Subs(v, e)[r].rule /\ Queue'[k] = <<v, e, <<r, n>>>>
    BY <1>7
  <2>1. PICK r \in 1..Len(Subs(v, e)) : s \in Subs(v, e)[r].rule /\ Queue'[k] = <<v, e, <<r, n>>>>
    BY <2>0
  <2>2. v = w /\ b = e
    BY <2>1, <1>n DEF QueuedFor
  <2> QED BY <2>1, <2>2
\* Told and queued before.
<1>9. ASSUME NEW j \in 1..Len(T) PROVE T[j] \in BusCalls /\ IsDue(w, b, T[j])
  BY <1>h, <1>t, ElementOfSeq DEF DbHeard, T
<1>10. ASSUME NEW k \in 1..Len(Queue), QueuedFor(k, w, b) PROVE IsDue(w, b, Queue[k][3])
  BY <1>10, <1>h DEF DbHeard
<1>o. ASSUME NEW c \in BusCalls, IsDue(w, b, c), NEW r \in Nat, b = e
      PROVE  Before(c, <<r, n>>)
  <2>1. c[2] <= Len(Sent(b)) /\ c[2] \in Nat
    BY <1>o, <1>4 DEF BusCalls
  <2>2. c[2] # n /\ c[2] <= n
    BY <2>1, <1>o, <1>t DEF n
  <2> QED BY <2>2 DEF Before
\* The clauses of DbHeard.
<1>11. \A k \in 1..Len(T) : DueBy(Subs(w, b)', Sent(b)', T[k])
  BY <1>4, <1>9
<1>12. ASSUME NEW k \in 1..Len(Queue'), QueuedFor(k, w, b)' PROVE DueBy(Subs(w, b)', Sent(b)', Queue'[k][3])
  <2>1. CASE k \in 1..Len(Queue)
    <3>1. Queue'[k][3] = Queue[k][3] /\ Queue[k][3] \in BusCalls /\ IsDue(w, b, Queue[k][3])
      BY <2>1, <1>q, <1>10, <1>12
    <3> QED BY <3>1, <1>4
  <2>2. CASE k \in Len(Queue) + 1..Len(Queue')
    <3>1. PICK r \in 1..Len(Subs(w, b)) :
            b = e /\ s \in Subs(w, b)[r].rule /\ Queue'[k] = <<w, b, <<r, n>>>>
      BY <2>2, <1>n, <1>12
    <3>2. DueBy(Subs(w, b)', Sent(b)', <<r, n>>)
      BY <3>1, <1>6
    <3> QED BY <3>1, <3>2
  <2> QED BY <2>1, <2>2, <1>8
<1>13. ASSUME NEW c \in BusCalls, DueBy(Subs(w, b)', Sent(b)', c)
       PROVE  \/ \E k \in 1..Len(T) : T[k] = c
              \/ \E k \in 1..Len(Queue') : Queue'[k] = <<w, b, c>>
  <2>1. CASE IsDue(w, b, c)
    <3>1. \/ \E k \in 1..Len(T) : T[k] = c
          \/ \E k \in 1..Len(Queue) : Queue[k] = <<w, b, c>>
      BY <2>1, <1>h DEF DbHeard, T
    <3> QED BY <3>1, <1>7, <1>q
  <2>2. CASE ~IsDue(w, b, c)
    <3>1. b = e /\ c[2] = n /\ c[1] \in 1..Len(Subs(w, b)) /\ s \in Subs(w, b)[c[1]].rule
      BY <2>2, <1>5, <1>13
    <3>2. c = <<c[1], n>>
      BY <3>1 DEF BusCalls
    <3>3. PICK k \in Len(Queue) + 1..Len(Queue') : Queue'[k] = <<w, e, <<c[1], n>>>>
      BY <3>1, <1>7
    <3>4. k \in 1..Len(Queue')
      BY <3>3, <1>7, <1>t
    <3> QED BY <3>1, <3>2, <3>3, <3>4
  <2> QED BY <2>1, <2>2
<1>14. \A j, k \in 1..Len(T) : j < k => Before(T[j], T[k])
  BY <1>h DEF DbHeard, T
<1>15. ASSUME NEW j \in 1..Len(T), NEW k \in 1..Len(Queue'), QueuedFor(k, w, b)'
       PROVE  Before(T[j], Queue'[k][3])
  <2>1. CASE k \in 1..Len(Queue)
    <3>1. Queue'[k][3] = Queue[k][3] /\ QueuedFor(k, w, b)
      BY <2>1, <1>q, <1>15
    <3>2. Before(T[j], Queue[k][3])
      BY <2>1, <3>1, <1>h DEF DbHeard, T
    <3> QED BY <3>1, <3>2
  <2>2. CASE k \in Len(Queue) + 1..Len(Queue')
    <3>1. PICK r \in 1..Len(Subs(w, b)) : b = e /\ Queue'[k] = <<w, b, <<r, n>>>>
      BY <2>2, <1>n, <1>15
    <3>2. Before(T[j], <<r, n>>)
      BY <3>1, <1>9, <1>o
    <3> QED BY <3>1, <3>2
  <2> QED BY <2>1, <2>2, <1>8
<1>16. ASSUME NEW j \in 1..Len(Queue'), NEW k \in 1..Len(Queue'), j < k,
              QueuedFor(j, w, b)', QueuedFor(k, w, b)'
       PROVE  Before(Queue'[j][3], Queue'[k][3])
  <2>1. CASE k \in 1..Len(Queue)
    <3>0. j \in 1..Len(Queue)
      BY <2>1, <1>16, <1>t
    <3>1. Queue'[k][3] = Queue[k][3] /\ QueuedFor(k, w, b) /\ Queue'[j][3] = Queue[j][3]
          /\ QueuedFor(j, w, b)
      BY <2>1, <3>0, <1>q, <1>16
    <3>2. Before(Queue[j][3], Queue[k][3])
      BY <2>1, <3>0, <3>1, <1>16, <1>h DEF DbHeard
    <3> QED BY <3>1, <3>2
  <2>2. CASE k \in Len(Queue) + 1..Len(Queue') /\ j \in 1..Len(Queue)
    <3>1. PICK r \in 1..Len(Subs(w, b)) : b = e /\ Queue'[k] = <<w, b, <<r, n>>>>
      BY <2>2, <1>n, <1>16
    <3>2. Queue'[j][3] = Queue[j][3] /\ Queue[j][3] \in BusCalls /\ IsDue(w, b, Queue[j][3])
      BY <2>2, <1>q, <1>10, <1>16
    <3>3. Before(Queue[j][3], <<r, n>>)
      BY <3>1, <3>2, <1>o
    <3> QED BY <3>1, <3>2, <3>3
  <2>3. CASE k \in Len(Queue) + 1..Len(Queue') /\ j \in Len(Queue) + 1..Len(Queue')
    <3>1. PICK r \in 1..Len(Subs(w, b)) : Queue'[k] = <<w, b, <<r, n>>>>
      BY <2>3, <1>n, <1>16
    <3>2. PICK q \in 1..Len(Subs(w, b)) : Queue'[j] = <<w, b, <<q, n>>>>
      BY <2>3, <1>n, <1>16
    <3>3. Queue'[j] # Queue'[k]
      BY <2>3, <1>7, <1>16
    <3>4. <<q, n>> # <<r, n>>
      BY <3>1, <3>2, <3>3
    <3>5. <<q, n>>[2] <= <<r, n>>[2]
      BY <1>t
    <3>6. Before(<<q, n>>, <<r, n>>)
      BY <3>4, <3>5 DEF Before
    <3> QED BY <3>1, <3>2, <3>6
  <2> QED BY <2>1, <2>2, <2>3, <1>8
<1> QED BY <1>2, <1>11, <1>12, <1>13, <1>14, <1>15, <1>16 DEF DbHeard, IsDue, T

\* A call is made: the first of the queue is the last of what was told.
LEMMA CallbackHeard ==
  ASSUME DbInv, CallbackSignal, NEW w \in DbWidgets, NEW b \in Buses
  PROVE  DbHeard(w, b)'
<1> DEFINE T == Told(w, b)
<1>t. /\ DbTypeOK /\ Queue \in Seq(Entries) /\ Len(Queue) \in Nat
      /\ T \in Seq(BusCalls) /\ Len(T) \in Nat
  BY DbTypes
<1>h. DbHeard(w, b)
  BY DEF DbInv, DbQueued
<1>1. /\ Len(Queue) \in Nat \ {0} /\ Len(Queue') = Len(Queue) - 1
      /\ Queue[1] \in Entries
      /\ \A k \in 1..Len(Queue') : k + 1 \in 1..Len(Queue) /\ Queue'[k] = Queue[k + 1]
      /\ \A k \in 1..Len(Queue) : k # 1 => k - 1 \in 1..Len(Queue') /\ Queue'[k - 1] = Queue[k]
  BY CallbackFields
<1>2. PICK v \in DbWidgets, e \in Buses, n \in BusCalls : Queue[1] = <<v, e, n>>
  BY <1>1 DEF Entries
<1>3. UNCHANGED <<dbOpt, db, dbBus, dbSubs>> /\ dbTold' = TellSignal(v, e, n)
  <2>1. Head(dbCtx.queue) = <<v, e, n>>
    BY <1>2, CallbackFields DEF Queue
  <2> QED BY <2>1 DEF CallbackSignal
<1>4. Told(w, b)' = IF v = w /\ e = b THEN Append(T, n) ELSE T
  <2>1. dbTold \in [DbWidgets -> Tells]
    BY <1>t DEF DbTypeOK
  <2> QED BY <1>3, <2>1, TellSignalFields DEF Told
<1>5. \A c : DueBy(Subs(w, b)', Sent(b)', c) <=> IsDue(w, b, c)
  BY <1>3 DEF IsDue, DueBy, Sent, Subs
<1>6. \A k \in 1..Len(Queue') :
        /\ k + 1 \in 1..Len(Queue) /\ Queue'[k] = Queue[k + 1]
        /\ QueuedFor(k, w, b)' <=> QueuedFor(k + 1, w, b)
  BY <1>1 DEF QueuedFor
<1> HIDE DEF T
<1>7. \A k \in 1..Len(Queue') : QueuedFor(k, w, b)' => DueBy(Subs(w, b)', Sent(b)', Queue'[k][3])
  BY <1>h, <1>5, <1>6 DEF DbHeard
<1>8. \A j, k \in 1..Len(Queue') :
        j < k /\ QueuedFor(j, w, b)' /\ QueuedFor(k, w, b)' => Before(Queue'[j][3], Queue'[k][3])
  <2> SUFFICES ASSUME NEW j \in 1..Len(Queue'), NEW k \in 1..Len(Queue'), j < k,
                      QueuedFor(j, w, b)', QueuedFor(k, w, b)'
               PROVE  Before(Queue'[j][3], Queue'[k][3])
    OBVIOUS
  <2>1. j + 1 \in 1..Len(Queue) /\ k + 1 \in 1..Len(Queue) /\ j + 1 < k + 1
    BY <1>6
  <2>2. QueuedFor(j + 1, w, b) /\ QueuedFor(k + 1, w, b)
    BY <1>6
  <2>3. Before(Queue[j + 1][3], Queue[k + 1][3])
    BY <2>1, <2>2, <1>h DEF DbHeard
  <2> QED BY <2>3, <1>6
<1>9. CASE ~(v = w /\ e = b)
  <2>1. Told(w, b)' = T
    BY <1>4, <1>9
  <2>2. ASSUME NEW c \in BusCalls, IsDue(w, b, c)
        PROVE  \/ \E k \in 1..Len(T) : T[k] = c
               \/ \E k \in 1..Len(Queue') : Queue'[k] = <<w, b, c>>
    <3>1. CASE \E k \in 1..Len(T) : T[k] = c
      BY <3>1
    <3>2. CASE \E k \in 1..Len(Queue) : Queue[k] = <<w, b, c>>
      <4>1. PICK k \in 1..Len(Queue) : Queue[k] = <<w, b, c>>
        BY <3>2
      <4>2. k # 1
        BY <4>1, <1>2, <1>9
      <4> QED BY <4>1, <4>2, <1>1
    <3> QED BY <2>2, <3>1, <3>2, <1>h DEF DbHeard, T
  <2>3. \A k \in 1..Len(T) : DueBy(Subs(w, b)', Sent(b)', T[k])
    BY <1>h, <1>5 DEF DbHeard, T
  <2>4. \A j, k \in 1..Len(T) : j < k => Before(T[j], T[k])
    BY <1>h DEF DbHeard, T
  <2>5. \A j \in 1..Len(T), k \in 1..Len(Queue') : QueuedFor(k, w, b)' => Before(T[j], Queue'[k][3])
    BY <1>h, <1>6 DEF DbHeard, T
  <2> QED BY <2>1, <2>2, <2>3, <2>4, <2>5, <1>5, <1>7, <1>8 DEF DbHeard, IsDue
<1>10. CASE v = w /\ e = b
  <2>1. /\ Told(w, b)' = Append(T, n) /\ Len(Told(w, b)') = Len(T) + 1
        /\ \A k \in 1..Len(T) : Told(w, b)'[k] = T[k]
        /\ Told(w, b)'[Len(T) + 1] = n
    <3>1. Told(w, b)' = Append(T, n)
      BY <1>4, <1>10
    <3> QED BY <3>1, <1>t, AppendProperties
  <2>2. 1 \in 1..Len(Queue) /\ QueuedFor(1, w, b) /\ Queue[1][3] = n
    BY <1>1, <1>2, <1>10 DEF QueuedFor
  <2>3. IsDue(w, b, n) /\ \A j \in 1..Len(T) : Before(T[j], n)
    BY <2>2, <1>h DEF DbHeard, T
  <2>4. \A k \in 1..Len(Told(w, b)') : k \in 1..Len(T) \/ k = Len(T) + 1
    BY <2>1, <1>t
  <2>5. \A k \in 1..Len(Told(w, b)') : DueBy(Subs(w, b)', Sent(b)', Told(w, b)'[k])
    <3>1. \A k \in 1..Len(T) : IsDue(w, b, T[k])
      BY <1>h DEF DbHeard, T
    <3> QED BY <3>1, <2>1, <2>3, <2>4, <1>5
  <2>6. ASSUME NEW c \in BusCalls, IsDue(w, b, c)
        PROVE  \/ \E k \in 1..Len(Told(w, b)') : Told(w, b)'[k] = c
               \/ \E k \in 1..Len(Queue') : Queue'[k] = <<w, b, c>>
    <3>1. CASE \E k \in 1..Len(T) : T[k] = c
      <4>1. PICK k \in 1..Len(T) : T[k] = c
        BY <3>1
      <4>2. k \in 1..Len(Told(w, b)')
        BY <2>1, <1>t
      <4> QED BY <4>1, <4>2, <2>1
    <3>2. CASE \E k \in 1..Len(Queue) : Queue[k] = <<w, b, c>>
      <4>1. PICK k \in 1..Len(Queue) : Queue[k] = <<w, b, c>>
        BY <3>2
      <4>2. CASE k # 1
        BY <4>1, <4>2, <1>1
      <4>3. CASE k = 1
        <5>1. c = n
          BY <4>1, <4>3, <1>2
        <5>2. Len(T) + 1 \in 1..Len(Told(w, b)')
          BY <2>1, <1>t
        <5> QED BY <5>1, <5>2, <2>1
      <4> QED BY <4>2, <4>3
    <3> QED BY <2>6, <3>1, <3>2, <1>h DEF DbHeard, T
  <2>7. ASSUME NEW j \in 1..Len(Told(w, b)'), NEW k \in 1..Len(Told(w, b)'), j < k
        PROVE  Before(Told(w, b)'[j], Told(w, b)'[k])
    <3>0. j \in 1..Len(T)
      BY <2>1, <2>7, <1>t
    <3>1. CASE k \in 1..Len(T)
      BY <3>0, <3>1, <2>1, <2>7, <1>h DEF DbHeard, T
    <3>2. CASE k = Len(T) + 1
      BY <3>0, <3>2, <2>1, <2>3
    <3> QED BY <3>1, <3>2, <2>4
  <2>8. ASSUME NEW j \in 1..Len(Told(w, b)'), NEW k \in 1..Len(Queue'), QueuedFor(k, w, b)'
        PROVE  Before(Told(w, b)'[j], Queue'[k][3])
    <3>1. k + 1 \in 1..Len(Queue) /\ Queue'[k] = Queue[k + 1] /\ QueuedFor(k + 1, w, b) /\ 1 < k + 1
      BY <2>8, <1>6
    <3>2. CASE j \in 1..Len(T)
      <4>1. Before(T[j], Queue[k + 1][3])
        BY <3>1, <3>2, <1>h DEF DbHeard, T
      <4> QED BY <4>1, <3>1, <3>2, <2>1
    <3>3. CASE j = Len(T) + 1
      <4>1. Before(Queue[1][3], Queue[k + 1][3])
        BY <3>1, <2>2, <1>h DEF DbHeard
      <4> QED BY <4>1, <3>1, <3>3, <2>1, <2>2
    <3> QED BY <3>2, <3>3, <2>4
  <2> QED BY <2>5, <2>6, <2>7, <2>8, <1>5, <1>7, <1>8 DEF DbHeard, IsDue
<1> QED BY <1>9, <1>10

\* Subscribing makes nothing due: only what is sent from then on is.
LEMMA SubscribeHeard ==
  ASSUME DbInv, NEW v \in DbWidgets, Subscribe(v), NEW w \in DbWidgets, NEW b \in Buses
  PROVE  DbHeard(w, b)'
<1>t. /\ DbTypeOK /\ Len(Sent(b)) \in Nat
      /\ Subs(w, b) \in Seq(Subscriptions) /\ Len(Subs(w, b)) \in Nat
  BY DbTypes
<1>h. DbHeard(w, b)
  BY DEF DbInv, DbQueued
<1>1. PICK c \in Buses : SubscribeNext(v, c, Rules(v, c)) /\ UNCHANGED <<dbOpt, dbBus, dbCtx, dbTold>>
  BY SubscribeStep
<1>2. Queue' = Queue /\ Told(w, b)' = Told(w, b) /\ Sent(b)' = Sent(b)
  BY <1>1 DEF Queue, Told, Sent
<1>3. CASE Subs(w, b)' = Subs(w, b)
  BY <1>2, <1>3, <1>h, HeardStays DEF SameHeard
<1>4. CASE Subs(w, b)' # Subs(w, b)
  <2>1. v = w /\ c = b
    BY <1>1, <1>4, <1>t, SubscribeFields DEF Subs
  <2>2. /\ Len(Subs(w, b)') = Len(Subs(w, b)) + 1
        /\ \A r \in 1..Len(Subs(w, b)) : Subs(w, b)'[r] = Subs(w, b)[r]
        /\ Subs(w, b)'[Len(Subs(w, b)) + 1].from = Len(Sent(b))
    <3>1. ~UNCHANGED dbSubs
      BY <1>4 DEF Subs
    <3>2. /\ Len(Subs(w, b)') = Len(Subs(w, b)) + 1
          /\ \A r \in 1..Len(Subs(w, b)) : Subs(w, b)'[r] = Subs(w, b)[r]
          /\ Subs(w, b)'[Len(Subs(w, b)) + 1] =
               [rule |-> Rules(w, b)[Len(Subs(w, b)) + 1], from |-> Len(Sent(b))]
      BY <3>1, <2>1, <1>1, <1>t, SubscribeFields
    <3> QED BY <3>2
  <2>3. \A c2 : DueBy(Subs(w, b)', Sent(b)', c2) <=> IsDue(w, b, c2)
    <3> SUFFICES ASSUME NEW d PROVE DueBy(Subs(w, b)', Sent(b)', d) <=> IsDue(w, b, d)
      OBVIOUS
    <3>1. CASE d \in BusCalls /\ d[1] \in 1..Len(Subs(w, b))
      <4>1. d[1] \in 1..Len(Subs(w, b)') /\ Subs(w, b)'[d[1]] = Subs(w, b)[d[1]]
        BY <3>1, <2>2, <1>t
      <4> QED BY <4>1, <3>1, <1>2 DEF IsDue, DueBy
    <3>2. CASE d \in BusCalls /\ d[1] = Len(Subs(w, b)) + 1
      <4>1. ~IsDue(w, b, d)
        BY <3>2, <1>t DEF IsDue, DueBy
      <4>2. ~(Len(Sent(b)) < d[2] /\ d[2] \in 1..Len(Sent(b)))
        BY <1>t
      <4>3. ~DueBy(Subs(w, b)', Sent(b)', d)
        BY <4>2, <3>2, <2>2, <1>2 DEF IsDue, DueBy
      <4> QED BY <4>1, <4>3
    <3>3. CASE ~(d \in BusCalls /\ d[1] \in 1..Len(Subs(w, b)) + 1)
      <4>1. d \in BusCalls => d[1] \notin 1..Len(Subs(w, b)) /\ d[1] \notin 1..Len(Subs(w, b)')
        BY <3>3, <2>2, <1>t
      <4> QED BY <4>1 DEF IsDue, DueBy
    <3> QED BY <3>1, <3>2, <3>3, <1>t
  <2>4. \A k : QueuedFor(k, w, b)' <=> QueuedFor(k, w, b)
    BY <1>2 DEF QueuedFor
  <2> HIDE DEF QueuedFor, Queue, Told
  <2> QED BY <2>3, <2>4, <1>2, <1>h DEF DbHeard, IsDue
<1> QED BY <1>3, <1>4

LEMMA DbQueuedStep == DbInv /\ [DbNext]_dbvars => DbQueued'
<1> SUFFICES ASSUME DbInv, [DbNext]_dbvars, NEW w \in DbWidgets, NEW b \in Buses
             PROVE  DbHeard(w, b)'
  BY DEF DbQueued
<1>t. DbTypeOK
  BY DEF DbInv
<1>h. DbHeard(w, b)
  BY DEF DbInv, DbQueued
<1>c. dbCtx \in Contexts
  BY <1>t DEF DbTypeOK
<1>d. dbTold \in [DbWidgets -> Tells]
  BY <1>t DEF DbTypeOK
<1>u. ASSUME Queue' = Queue, Told(w, b)' = Told(w, b), UNCHANGED dbSubs, Sent(b)' = Sent(b)
      PROVE  DbHeard(w, b)'
  BY <1>u, <1>h, HeardStays DEF SameHeard, Subs
<1>s. ASSUME NEW v \in DbWidgets, NEW what \in {"hello", "timeout", "ready"},
             dbTold' = [dbTold EXCEPT ![v].what = what]
      PROVE  Told(w, b)' = Told(w, b)
  <2>1. dbTold[v] \in Tells /\ dbTold[w] \in Tells
    BY <1>d
  <2>2. [dbTold[v] EXCEPT !.what = what].signals = dbTold[v].signals
    BY <2>1 DEF Tells
  <2>3. dbTold'[w].signals = dbTold[w].signals
    BY <2>2, <1>s, <1>d
  <2> QED BY <2>3 DEF Told
<1>1. ASSUME NEW c \in Buses, Emit(c) PROVE DbHeard(w, b)'
  BY <1>1, EmitHeard
<1>2. CASE Tick
  <2>1. Queue' = Queue
    BY <1>2, <1>c DEF Tick, Queue, Contexts
  <2> QED BY <1>2, <2>1, <1>u DEF Tick, Told, Sent
<1>3. ASSUME NEW v \in DbWidgets, Subscribe(v) PROVE DbHeard(w, b)'
  BY <1>3, SubscribeHeard
<1>4. ASSUME NEW v \in DbWidgets, ConnectFails(v) PROVE DbHeard(w, b)'
  BY <1>4, <1>u DEF ConnectFails, Queue, Told, Sent
<1>r. ASSUME NEW v \in DbWidgets, Return(v) PROVE DbHeard(w, b)'
  <2>1. dbBus' \in {dbBus, [dbBus EXCEPT !["session"].closed = TRUE]}
        /\ UNCHANGED <<dbCtx, dbSubs, dbTold>>
    BY <1>r DEF Return
  <2>2. Sent(b)' = Sent(b)
    BY <2>1, <1>t, SessionCloses
  <2> QED BY <2>1, <2>2, <1>u DEF Queue, Told
<1>5. ASSUME NEW v \in DbWidgets, SetConnections(v) PROVE DbHeard(w, b)'
  <2>1. Queue' = Queue
    BY <1>5, <1>c DEF SetConnections, Queue, Contexts
  <2> QED BY <1>5, <2>1, <1>u DEF SetConnections, Told, Sent
<1>6. ASSUME NEW v \in DbWidgets, Greet(v) PROVE DbHeard(w, b)'
  <2>1. Queue' = Queue
    BY <1>6, <1>c DEF Greet, Queue, Contexts
  <2>2. dbTold' = dbTold \/ dbTold' = [dbTold EXCEPT ![v].what = "hello"]
    BY <1>6 DEF Greet
  <2>3. Told(w, b)' = Told(w, b)
    BY <2>2, <1>s DEF Told
  <2> QED BY <1>6, <2>1, <2>3, <1>u DEF Greet, Sent
<1>7. ASSUME NEW v \in DbWidgets, RunLoop(v) PROVE DbHeard(w, b)'
  <2>1. Queue' = Queue
    BY <1>7, <1>c DEF RunLoop, Queue, Contexts
  <2> QED BY <1>7, <2>1, <1>u DEF RunLoop, Told, Sent
<1>8. CASE CallbackSignal
  BY <1>8, CallbackHeard
<1>a. CASE CallbackAborts
  <2>1. Queue' = Queue
    BY <1>a, <1>c DEF CallbackAborts, Queue, Contexts
  <2> QED BY <1>a, <2>1, <1>u DEF CallbackAborts, Told, Sent
<1>9. ASSUME NEW v \in DbWidgets, CallbackTimeout(v) \/ CallbackIdle(v) PROVE DbHeard(w, b)'
  <2>1. UNCHANGED <<db, dbBus, dbSubs>> /\ Queue' = Queue
    BY <1>9, <1>c DEF CallbackTimeout, CallbackIdle, Queue, Contexts
  <2>2. PICK what \in {"timeout", "ready"} : dbTold' = [dbTold EXCEPT ![v].what = what]
    BY <1>9 DEF CallbackTimeout, CallbackIdle
  <2>3. Told(w, b)' = Told(w, b)
    BY <2>2, <1>s
  <2> QED BY <2>1, <2>3, <1>u DEF Sent
<1>10. CASE UNCHANGED dbvars
  BY <1>10, <1>u DEF dbvars, Queue, Told, Sent
<1> QED BY <1>1, <1>2, <1>3, <1>4, <1>r, <1>5, <1>6, <1>7, <1>8, <1>a, <1>9, <1>10
        DEF DbNext, DbThread, DbDispatch

-----------------------------------------------------------------------------
\* The inductive invariant of the dbus widgets: types, subscriptions, and for each widget
\* and bus, that what it was told and what is queued for it are what is due.
THEOREM DbInvariance == DbSpec => []DbInv
<1>1. DbInit => DbInv
  BY DbInvInit
<1>2. DbInv /\ [DbNext]_dbvars => DbInv'
  BY DbTypeStep, DbSubscribedStep, DbQueuedStep DEF DbInv
<1> QED BY <1>1, <1>2, PTL DEF DbSpec

\* What is due, as the property says it, is what is due by the subscriptions.
LEMMA DueIs ==
  ASSUME DbInv, NEW w \in DbWidgets, NEW b \in Buses, NEW c
  PROVE  c \in Due(w, b) <=> IsDue(w, b, c)
<1>t. /\ DbTypeOK /\ DbSubscribed /\ Len(Sent(b)) \in Nat /\ Len(Rules(w, b)) \in Nat
      /\ Len(Subs(w, b)) \in Nat
  BY DbTypes
<1>1. /\ Len(Subs(w, b)) <= Len(Rules(w, b))
      /\ \A r \in 1..Len(Subs(w, b)) : Subs(w, b)[r].rule = Rules(w, b)[r]
  BY <1>t DEF DbSubscribed
<1>2. c \in Due(w, b) <=>
        /\ c \in (1..Len(Rules(w, b))) \X (1..Len(Sent(b)))
        /\ c[1] <= Len(Subs(w, b)) /\ Subs(w, b)[c[1]].from < c[2]
        /\ Sent(b)[c[2]] \in Rules(w, b)[c[1]]
  BY DEF Due, Rules, Subs, Sent
<1>3. ASSUME c \in Due(w, b) PROVE IsDue(w, b, c)
  <2>1. /\ c \in BusCalls /\ c[1] \in 1..Len(Subs(w, b)) /\ c[2] \in 1..Len(Sent(b))
    BY <1>2, <1>3, <1>t DEF BusCalls
  <2> QED BY <2>1, <1>1, <1>2, <1>3 DEF IsDue, DueBy
<1>4. ASSUME IsDue(w, b, c) PROVE c \in Due(w, b)
  <2>1. c \in (1..Len(Rules(w, b))) \X (1..Len(Sent(b))) /\ c[1] <= Len(Subs(w, b))
    BY <1>4, <1>1, <1>t DEF IsDue, DueBy, BusCalls
  <2> QED BY <2>1, <1>1, <1>2, <1>4 DEF IsDue, DueBy
<1> QED BY <1>3, <1>4

\* Whichever thread dispatches them, a widget is told the signals of each of its buses that
\* were sent since it subscribed, each once for each of its rules that matches it, in their
\* order, and nothing else; this is so after its run() has returned, too (callback_signal(),
\* maybe_connect_and_subscribe()).
THEOREM SignalsAreInOrder == DbSpec => []SignalsInOrder
<1>1. DbInv => SignalsInOrder
  <2> SUFFICES ASSUME DbInv, NEW w \in DbWidgets, NEW b \in Buses
               PROVE  /\ {Told(w, b)[k] : k \in 1..Len(Told(w, b))} \cup
                           {QueuedCall(k) : k \in Queued(w, b)} = Due(w, b)
                      /\ \A j, k \in 1..Len(Told(w, b)) : j < k => Before(Told(w, b)[j], Told(w, b)[k])
                      /\ \A j \in 1..Len(Told(w, b)), k \in Queued(w, b) :
                           Before(Told(w, b)[j], QueuedCall(k))
                      /\ \A j, k \in Queued(w, b) : j < k => Before(QueuedCall(j), QueuedCall(k))
                      /\ db[w].pc \in {"set", "greet", "loop"} =>
                           Len(dbSubs[<<w, b>>]) = Len(dbOpt[w].rules[b])
    BY DEF SignalsInOrder
  <2>h. DbHeard(w, b) /\ DbSubscribed
    BY DEF DbInv, DbQueued
  <2>t. Queue \in Seq(Entries) /\ Told(w, b) \in Seq(BusCalls)
    BY DbTypes
  <2>q. \A k : k \in Queued(w, b) <=> k \in 1..Len(Queue) /\ QueuedFor(k, w, b)
    BY DEF Queued, Queue, QueuedFor
  <2>n. \A k : QueuedCall(k) = Queue[k][3]
    BY DEF QueuedCall, Queue
  <2>d. \A c : c \in Due(w, b) <=> IsDue(w, b, c)
    BY DueIs
  <2>1. ASSUME NEW c \in {Told(w, b)[k] : k \in 1..Len(Told(w, b))} \cup
                           {QueuedCall(k) : k \in Queued(w, b)}
        PROVE  c \in Due(w, b)
    BY <2>h, <2>q, <2>n, <2>d DEF DbHeard
  <2>2. ASSUME NEW c \in Due(w, b)
        PROVE  c \in {Told(w, b)[k] : k \in 1..Len(Told(w, b))} \cup
                       {QueuedCall(k) : k \in Queued(w, b)}
    <3>1. c \in BusCalls /\ IsDue(w, b, c)
      BY <2>d DEF IsDue, DueBy
    <3>2. CASE \E k \in 1..Len(Told(w, b)) : Told(w, b)[k] = c
      BY <3>2
    <3>3. CASE \E k \in 1..Len(Queue) : Queue[k] = <<w, b, c>>
      <4>1. PICK k \in 1..Len(Queue) : Queue[k] = <<w, b, c>>
        BY <3>3
      <4>2. k \in Queued(w, b) /\ QueuedCall(k) = c
        BY <4>1, <2>q, <2>n DEF QueuedFor
      <4> QED BY <4>2
    <3> QED BY <3>1, <3>2, <3>3, <2>h DEF DbHeard
  <2>3. \A j, k \in 1..Len(Told(w, b)) : j < k => Before(Told(w, b)[j], Told(w, b)[k])
    BY <2>h DEF DbHeard
  <2>4. \A j \in 1..Len(Told(w, b)), k \in Queued(w, b) : Before(Told(w, b)[j], QueuedCall(k))
    BY <2>h, <2>q, <2>n DEF DbHeard
  <2>5. \A j, k \in Queued(w, b) : j < k => Before(QueuedCall(j), QueuedCall(k))
    BY <2>h, <2>q, <2>n DEF DbHeard
  <2>6. db[w].pc \in {"set", "greet", "loop"} => Len(dbSubs[<<w, b>>]) = Len(dbOpt[w].rules[b])
    BY <2>h DEF DbSubscribed, Past, Subs, Rules
  <2>7. {Told(w, b)[k] : k \in 1..Len(Told(w, b))} \cup {QueuedCall(k) : k \in Queued(w, b)} = Due(w, b)
    <3> HIDE DEF Due
    <3> QED BY <2>1, <2>2
  <2> QED BY <2>3, <2>4, <2>5, <2>6, <2>7
<1> QED BY <1>1, DbInvariance, PTL

-----------------------------------------------------------------------------
(* dbus: values.                                                           *)

\* The places of v in values that are not freed.
AlivePlaces(refs, v) == {p \in PlacesOf(v) : refs[p[1]] > 0}

\* The reference of the object.
ObjectHas(v) == IF zoObj[v] = "live" THEN 1 ELSE 0

ZoPcs == {"off", "idle", "items", "failed", "params", "value", "call", "called",
          "unloaded", "closed", "crashed"}

ZoFns == {"none", "mkval", "call_method", "get_all_properties", "set_property"}

ZoTypeOK ==
  /\ zoRefs \in Seq(Nat)
  /\ zoKids \in Seq(Seq(Nat)) /\ Len(zoKids) = Len(zoRefs)
  /\ zoObj \in Seq({"live", "final"}) /\ Len(zoObj) = Len(zoRefs)
  /\ zo \in [pc : ZoPcs, fn : ZoFns, todo : Seq(Made), held : Seq(Made), strs : Nat]

\* A value is made of values made earlier.
MadeOfEarlier == \A u \in Made : zoKids[u] \in Seq(1..u - 1)

\* When a function has arguments, and when it has references.
ArgumentsOfRunning ==
  /\ zo.pc = "idle" => zo = ZoIdle
  /\ zo.pc \notin {"items", "failed", "call", "called"} => zo.held = <<>>
  /\ zo.pc \notin {"items", "params", "value"} => zo.todo = <<>>
  /\ zo.pc \in {"params", "value"} => Len(zo.todo) <= 1

ZoInv == ZoTypeOK /\ MadeOfEarlier /\ ArgumentsOfRunning /\ ReferencesAreOwned

-----------------------------------------------------------------------------
(* Counting.                                                               *)

LEMMA CountType ==
  ASSUME NEW S, NEW list \in Seq(S), NEW v
  PROVE  /\ IsFiniteSet({i \in 1..Len(list) : list[i] = v})
         /\ CountIn(list, v) \in Nat
         /\ CountIn(list, v) > 0 <=> \E i \in 1..Len(list) : list[i] = v
<1> DEFINE I == {i \in 1..Len(list) : list[i] = v}
<1>1. Len(list) \in Nat
  OBVIOUS
<1>2. IsFiniteSet(1..Len(list))
  BY <1>1, FS_Interval
<1>3. I \in SUBSET (1..Len(list))
  OBVIOUS
<1>4. IsFiniteSet(I)
  <2> HIDE DEF I
  <2> QED BY <1>2, <1>3, FS_Subset
<1>5. Cardinality(I) \in Nat /\ (Cardinality(I) = 0 <=> I = {})
  <2> HIDE DEF I
  <2> QED BY <1>4, FS_CardinalityType, FS_EmptySet
<1>6. I = {} <=> ~ \E i \in 1..Len(list) : list[i] = v
  OBVIOUS
<1>7. CountIn(list, v) = Cardinality(I)
  BY DEF CountIn
<1> HIDE DEF I
<1>8. CountIn(list, v) \in Nat /\ (CountIn(list, v) > 0 <=> I # {})
  BY <1>5, <1>7
<1> QED BY <1>4, <1>6, <1>8 DEF I

LEMMA CountEmpty ==
  ASSUME NEW v PROVE CountIn(<<>>, v) = 0
<1>1. {i \in 1..Len(<<>>) : <<>>[i] = v} = {}
  OBVIOUS
<1> QED BY <1>1, FS_EmptySet DEF CountIn

LEMMA CountAppended ==
  ASSUME NEW S, NEW list \in Seq(S), NEW u \in S, NEW v
  PROVE  CountIn(Append(list, u), v) = CountIn(list, v) + (IF u = v THEN 1 ELSE 0)
<1> DEFINE I == {i \in 1..Len(list) : list[i] = v}
           J == {i \in 1..Len(Append(list, u)) : Append(list, u)[i] = v}
           n == Len(list)
<1>1. n \in Nat /\ Len(Append(list, u)) = n + 1 /\ Append(list, u)[n + 1] = u
      /\ \A i \in 1..n : Append(list, u)[i] = list[i]
  OBVIOUS
<1>2. 1..n + 1 = (1..n) \cup {n + 1} /\ n + 1 \notin 1..n
  BY <1>1
<1>3. IsFiniteSet(I) /\ Cardinality(I) \in Nat
  BY CountType, FS_CardinalityType, Zenon
<1>4. CountIn(list, v) = Cardinality(I) /\ CountIn(Append(list, u), v) = Cardinality(J)
  BY DEF CountIn
<1>5. n + 1 \notin I
  BY <1>2
<1>6. CASE u = v
  <2>1. J = I \cup {n + 1}
    BY <1>1, <1>2, <1>6
  <2>2. Cardinality(J) = Cardinality(I) + 1
    <3> HIDE DEF I, J, n
    <3> QED BY <1>3, <1>5, <2>1, FS_AddElement
  <2> HIDE DEF I, J
  <2> QED BY <1>4, <1>6, <2>2
<1>7. CASE u # v
  <2>1. J = I
    BY <1>1, <1>2, <1>7
  <2> HIDE DEF I, J
  <2> QED BY <1>3, <1>4, <1>7, <2>1
<1> QED BY <1>6, <1>7

LEMMA CountOne ==
  ASSUME NEW u, NEW v
  PROVE  CountIn(<<u>>, v) = IF u = v THEN 1 ELSE 0
<1>1. Append(<<>>, u) = <<u>> /\ <<>> \in Seq({u}) /\ u \in {u}
  OBVIOUS
<1> DEFINE S == {u}
           list == <<>>
<1>2. list \in Seq(S) /\ u \in S
  OBVIOUS
<1> HIDE DEF S, list
<1>3. CountIn(Append(list, u), v) = CountIn(list, v) + (IF u = v THEN 1 ELSE 0)
  BY <1>2, CountAppended
<1> QED BY <1>1, <1>3, CountEmpty DEF list

-----------------------------------------------------------------------------
(* Places.                                                                 *)

\* A value is in finitely many places, all in values made later.
LEMMA PlacesType ==
  ASSUME ZoTypeOK, MadeOfEarlier, NEW v
  PROVE  /\ IsFiniteSet(PlacesOf(v))
         /\ \A p \in PlacesOf(v) : p[1] \in Made /\ (v \in Made => p[1] > v)
<1>1. ASSUME NEW u \in Made
      PROVE  IsFiniteSet({u} \X {i \in 1..Len(zoKids[u]) : zoKids[u][i] = v})
  <2>1. zoKids[u] \in Seq(1..u - 1)
    BY DEF MadeOfEarlier
  <2>2. IsFiniteSet({i \in 1..Len(zoKids[u]) : zoKids[u][i] = v})
    BY <2>1, CountType, Zenon
  <2>3. IsFiniteSet({u})
    BY FS_Singleton
  <2> HIDE DEF Made
  <2> QED BY <2>2, <2>3, FS_Product
<1> DEFINE F == {{u} \X {i \in 1..Len(zoKids[u]) : zoKids[u][i] = v} : u \in Made}
<1>2. IsFiniteSet(Made)
  <2>1. Len(zoRefs) \in Nat
    BY DEF ZoTypeOK
  <2> QED BY <2>1, FS_Interval DEF Made
<1>3. IsFiniteSet(F)
  <2> DEFINE h == [u \in Made |-> {u} \X {i \in 1..Len(zoKids[u]) : zoKids[u][i] = v}]
  <2>1. h \in [Made -> F] /\ \A T \in F : \E u \in Made : h[u] = T
    OBVIOUS
  <2>2. h \in Surjection(Made, F)
    <3> HIDE DEF h, F
    <3> QED BY <2>1 DEF Surjection
  <2> HIDE DEF h, F
  <2> QED BY <1>2, <2>2, FS_Surjection
<1>4. \A T \in F : IsFiniteSet(T)
  BY <1>1
<1>5. IsFiniteSet(UNION F)
  <2> HIDE DEF F
  <2> QED BY <1>3, <1>4, FS_UNION
<1>6. ASSUME NEW p \in PlacesOf(v) PROVE p[1] \in Made /\ (v \in Made => p[1] > v)
  <2>1. PICK u \in Made : p \in {u} \X {i \in 1..Len(zoKids[u]) : zoKids[u][i] = v}
    BY Zenon DEF PlacesOf
  <2>2. p[1] = u /\ zoKids[u][p[2]] = v /\ p[2] \in 1..Len(zoKids[u])
    BY <2>1
  <2>3. zoKids[u] \in Seq(1..u - 1)
    BY <2>1 DEF MadeOfEarlier
  <2>4. v \in 1..u - 1
    <3> DEFINE S == 1..u - 1
               k == zoKids[u]
    <3>1. k \in Seq(S) /\ p[2] \in 1..Len(k) /\ k[p[2]] = v
      BY <2>2, <2>3
    <3> HIDE DEF S, k
    <3>2. v \in S
      BY <3>1, ElementOfSeq
    <3> QED BY <3>2 DEF S
  <2>5. u \in Nat
    BY <2>1 DEF Made, ZoTypeOK
  <2> QED BY <2>1, <2>2, <2>4, <2>5
<1> QED BY <1>5, <1>6 DEF PlacesOf

LEMMA AliveType ==
  ASSUME ZoTypeOK, MadeOfEarlier, NEW v, NEW refs
  PROVE  /\ IsFiniteSet(AlivePlaces(refs, v))
         /\ Cardinality(AlivePlaces(refs, v)) \in Nat
<1>1. AlivePlaces(refs, v) \in SUBSET PlacesOf(v)
  BY DEF AlivePlaces
<1>2. IsFiniteSet(PlacesOf(v))
  BY PlacesType
<1> QED BY <1>1, <1>2, FS_Subset, FS_CardinalityType

-----------------------------------------------------------------------------
(* UnrefAll().                                                             *)

\* UnrefAll() takes away what is given up, and what freed values had.
LEMMA UnrefIsRecursive ==
  ASSUME ZoTypeOK, MadeOfEarlier, NEW refs \in [Made -> Nat], NEW list \in Seq(Made)
  PROVE  /\ UnrefAll(refs, list) \in [Made -> Int]
         /\ \A v \in Made :
              UnrefAll(refs, list)[v] =
                refs[v] - CountIn(list, v)
                - Cardinality({p \in PlacesOf(v) :
                                 UnrefAll(refs, list)[p[1]] <= 0 /\ refs[p[1]] > 0})
<1> DEFINE n == Len(zoRefs)
           Freed(f, v) == {p \in PlacesOf(v) : p[1] > v /\ f[p[1]] <= 0 /\ refs[p[1]] > 0}
           Left(f, v) == refs[v] - CountIn(list, v) - Cardinality(Freed(f, v))
           IsLeft(f) == f = [v \in Made |-> Left(f, v)]
           left == CHOOSE f : IsLeft(f)
           T == {k \in 0..n : \E f \in [n - k + 1..n -> Int] :
                                \A v \in n - k + 1..n : f[v] = Left(f, v)}
<1>1. n \in Nat /\ Made = 1..n
  BY DEF ZoTypeOK, Made
<1>2. ASSUME NEW f, NEW v \in Made PROVE Left(f, v) \in Int
  <2>1. CountIn(list, v) \in Nat /\ refs[v] \in Nat
    BY CountType, Zenon
  <2>2. IsFiniteSet(PlacesOf(v))
    BY PlacesType
  <2>3. Freed(f, v) \in SUBSET PlacesOf(v)
    OBVIOUS
  <2>4. Cardinality(Freed(f, v)) \in Nat
    <3> HIDE DEF Freed
    <3> QED BY <2>2, <2>3, FS_Subset, FS_CardinalityType
  <2> HIDE DEF Freed
  <2> QED BY <2>1, <2>4
<1>3. 0 \in T
  <2> DEFINE f0 == [v \in n + 1..n |-> 0]
  <2>1. n + 1..n = {}
    BY <1>1
  <2>2. f0 \in [n - 0 + 1..n -> Int] /\ \A v \in n - 0 + 1..n : f0[v] = Left(f0, v)
    <3> HIDE DEF Left
    <3> QED BY <1>1, <2>1
  <2>3. 0 \in 0..n
    BY <1>1
  <2> HIDE DEF f0, Left, n
  <2> QED BY <2>2, <2>3
<1>4. \A k \in 0..n - 1 : k \in T => k + 1 \in T
  <2> SUFFICES ASSUME NEW k \in 0..n - 1, k \in T PROVE k + 1 \in T
    OBVIOUS
  <2> DEFINE w == n - k
  <2>1. PICK f \in [n - k + 1..n -> Int] : \A v \in n - k + 1..n : f[v] = Left(f, v)
    <3> HIDE DEF Left
    <3> QED OBVIOUS
  <2>2. w \in Made /\ n - (k + 1) + 1 = w /\ k + 1 \in 0..n
        /\ w..n = {w} \cup (w + 1..n) /\ w \notin w + 1..n
    BY <1>1
  <2> DEFINE g == [v \in w..n |-> IF v = w THEN Left(f, w) ELSE f[v]]
  <2>3. g \in [w..n -> Int]
    <3>1. Left(f, w) \in Int
      BY <1>2, <2>2
    <3> HIDE DEF Left
    <3> QED BY <2>1, <2>2, <3>1
  <2>4. \A v \in w + 1..n : g[v] = f[v]
    <3> HIDE DEF Left, n, w
    <3> QED BY <2>2
  <2>5. ASSUME NEW v \in w..n PROVE Freed(g, v) = Freed(f, v)
    <3>1. ASSUME NEW p \in PlacesOf(v), p[1] > v PROVE g[p[1]] = f[p[1]]
      <4>1. p[1] \in Made
        BY PlacesType
      <4>2. p[1] \in w + 1..n
        BY <1>1, <2>2, <3>1, <4>1
      <4> HIDE DEF g
      <4> QED BY <2>4, <4>2
    <3> HIDE DEF g
    <3> QED BY <3>1
  <2>6. ASSUME NEW v \in w..n PROVE g[v] = Left(g, v)
    <3>1. Left(g, v) = Left(f, v)
      <4> HIDE DEF Freed, g
      <4> QED BY <2>5
    <3>2. g[v] = Left(f, v)
      <4> HIDE DEF Left
      <4>1. CASE v = w
        BY <4>1
      <4>2. CASE v # w
        <5>1. v \in w + 1..n
          <6> HIDE DEF w, n
          <6> QED BY <2>2, <4>2
        <5> HIDE DEF g
        <5> QED BY <2>1, <2>4, <5>1
      <4> QED BY <4>1, <4>2
    <3> HIDE DEF Left, g
    <3> QED BY <3>1, <3>2
  <2> HIDE DEF g, Left
  <2> QED BY <2>2, <2>3, <2>6
<1>5. n \in T
  <2>1. n \in 0..n
    BY <1>1
  <2> HIDE DEF T, n
  <2> QED BY <1>1, <1>3, <1>4, <2>1, IntervalInduction
<1>6. PICK f \in [1..n -> Int] : \A v \in 1..n : f[v] = Left(f, v)
  <2>1. n - n + 1 = 1
    BY <1>1
  <2> HIDE DEF Left, n
  <2> QED BY <1>5, <2>1
<1>7. IsLeft(f)
  <2> HIDE DEF Left, n
  <2> QED BY <1>1, <1>6
<1>8. IsLeft(left)
  <2> HIDE DEF IsLeft
  <2> QED BY <1>7, Zenon
<1>9. UnrefAll(refs, list) = left
  BY Zenon DEF UnrefAll
<1>10. left = [v \in Made |-> Left(left, v)]
  <2> HIDE DEF Left, left
  <2> QED BY <1>8
<1> HIDE DEF left, IsLeft
<1>11. left \in [Made -> Int]
  <2> DEFINE h == [v \in Made |-> Left(left, v)]
  <2>1. h \in [Made -> Int]
    <3> HIDE DEF Left
    <3> QED BY <1>2
  <2> HIDE DEF h, Left
  <2> QED BY <1>10, <2>1 DEF h
<1>12. ASSUME NEW v \in Made
       PROVE  left[v] = refs[v] - CountIn(list, v)
                        - Cardinality({p \in PlacesOf(v) : left[p[1]] <= 0 /\ refs[p[1]] > 0})
  <2>1. left[v] = Left(left, v)
    <3> HIDE DEF Left
    <3> QED BY <1>10
  <2>2. Freed(left, v) = {p \in PlacesOf(v) : left[p[1]] <= 0 /\ refs[p[1]] > 0}
    <3>1. \A p \in PlacesOf(v) : p[1] > v
      BY PlacesType
    <3> QED BY <3>1
  <2> HIDE DEF Freed
  <2> QED BY <2>1, <2>2
<1> HIDE DEF Left
<1> QED BY <1>9, <1>11, <1>12

\* If every reference was somebody's, then what is left are the others.
LEMMA UnrefLeavesOwned ==
  ASSUME ZoTypeOK, MadeOfEarlier,
         NEW refs \in [Made -> Nat], NEW list \in Seq(Made), NEW own \in [Made -> Nat],
         \A v \in Made :
           refs[v] = own[v] + CountIn(list, v) + Cardinality(AlivePlaces(refs, v))
  PROVE  /\ UnrefAll(refs, list) \in [Made -> Nat]
         /\ \A v \in Made :
              UnrefAll(refs, list)[v] =
                own[v] + Cardinality(AlivePlaces(UnrefAll(refs, list), v))
<1> DEFINE left == UnrefAll(refs, list)
           Freed(v) == {p \in PlacesOf(v) : left[p[1]] <= 0 /\ refs[p[1]] > 0}
<1>1. left \in [Made -> Int]
      /\ \A v \in Made : left[v] = refs[v] - CountIn(list, v) - Cardinality(Freed(v))
  BY UnrefIsRecursive
<1> HIDE DEF left
<1>2. ASSUME NEW v \in Made
      PROVE  left[v] \in Nat /\ left[v] = own[v] + Cardinality(AlivePlaces(left, v))
  <2>1. IsFiniteSet(AlivePlaces(refs, v)) /\ Cardinality(AlivePlaces(refs, v)) \in Nat
        /\ Cardinality(AlivePlaces(left, v)) \in Nat
    BY AliveType
  <2>2. ASSUME NEW u \in Made PROVE left[u] <= refs[u]
    <3>1. CountIn(list, u) \in Nat /\ refs[u] \in Nat
      BY CountType, Zenon
    <3>2. Cardinality(Freed(u)) \in Nat
      <4>1. IsFiniteSet(PlacesOf(u))
        BY PlacesType
      <4>2. Freed(u) \in SUBSET PlacesOf(u)
        OBVIOUS
      <4> HIDE DEF Freed
      <4> QED BY <4>1, <4>2, FS_Subset, FS_CardinalityType
    <3>3. left[u] = refs[u] - CountIn(list, u) - Cardinality(Freed(u))
      BY <1>1
    <3> HIDE DEF Freed
    <3> QED BY <3>1, <3>2, <3>3
  <2>3. ASSUME NEW p \in PlacesOf(v)
        PROVE  /\ left[p[1]] \in Int /\ refs[p[1]] \in Nat
               /\ left[p[1]] <= refs[p[1]]
    <3>1. p[1] \in Made
      BY PlacesType
    <3> QED BY <1>1, <2>2, <3>1
  <2>4. AlivePlaces(left, v) = AlivePlaces(refs, v) \ Freed(v)
    BY <2>3 DEF AlivePlaces
  <2>5. AlivePlaces(refs, v) \cap Freed(v) = Freed(v)
    BY DEF AlivePlaces
  <2>6. Cardinality(AlivePlaces(left, v))
        = Cardinality(AlivePlaces(refs, v)) - Cardinality(Freed(v))
    <3> HIDE DEF Freed
    <3> QED BY <2>1, <2>4, <2>5, FS_Difference, ZenonT(40)
  <2>7. Cardinality(Freed(v)) \in Nat
    <3>1. Freed(v) \in SUBSET AlivePlaces(refs, v)
      BY DEF AlivePlaces
    <3> HIDE DEF Freed
    <3> QED BY <2>1, <3>1, FS_Subset, FS_CardinalityType
  <2>8. left[v] = refs[v] - CountIn(list, v) - Cardinality(Freed(v))
    BY <1>1
  <2>9. CountIn(list, v) \in Nat /\ own[v] \in Nat /\ refs[v] \in Nat
    BY CountType, Zenon
  <2>10. refs[v] = own[v] + CountIn(list, v) + Cardinality(AlivePlaces(refs, v))
    OBVIOUS
  <2> HIDE DEF Freed
  <2> QED BY <2>1, <2>6, <2>7, <2>8, <2>9, <2>10, SMTT(40)
<1>3. left \in [Made -> Nat]
  BY <1>1, <1>2
<1> QED BY <1>2, <1>3 DEF left

-----------------------------------------------------------------------------
(* The steps.                                                              *)

LEMMA FunctionIsSequence ==
  ASSUME NEW n \in Nat, NEW S, NEW f \in [1..n -> S]
  PROVE  f \in Seq(S) /\ Len(f) = n
<1>1. f \in Seq(S)
  BY SeqDef
<1>2. Len(f) = n
  BY <1>1, LenProperties
<1> QED BY <1>1, <1>2

LEMMA RefsAreFunction ==
  ASSUME ZoTypeOK
  PROVE  /\ zoRefs \in [Made -> Nat]
         /\ Len(zoRefs) \in Nat /\ Made = 1..Len(zoRefs)
         /\ \A v \in Made : zoObj[v] \in {"live", "final"} /\ ObjectHas(v) \in {0, 1}
<1>1. zoRefs \in Seq(Nat) /\ Made = 1..Len(zoRefs) /\ zoObj \in Seq({"live", "final"})
      /\ Len(zoObj) = Len(zoRefs)
  BY DEF ZoTypeOK, Made
<1>2. zoRefs \in [Made -> Nat] /\ Len(zoRefs) \in Nat
  BY <1>1, LenProperties
<1>3. \A v \in Made : zoObj[v] \in {"live", "final"}
  BY <1>1
<1> QED BY <1>1, <1>2, <1>3 DEF ObjectHas

\* What ReferencesAreOwned says of one value.
LEMMA OwnedBy ==
  ASSUME ZoInv, NEW v \in Made
  PROVE  /\ zoRefs[v] = ObjectHas(v) + CountIn(zo.held, v) + Cardinality(AlivePlaces(zoRefs, v))
         /\ zoRefs[v] \in Nat /\ ObjectHas(v) \in Nat /\ CountIn(zo.held, v) \in Nat
         /\ Cardinality(AlivePlaces(zoRefs, v)) \in Nat
<1>1. zoRefs[v] = ObjectHas(v) + CountIn(zo.held, v) + Cardinality(AlivePlaces(zoRefs, v))
  BY Zenon DEF ZoInv, ReferencesAreOwned, ObjectHas, AlivePlaces
<1>2. zo.held \in Seq(Made)
  BY DEF ZoInv, ZoTypeOK
<1>3. CountIn(zo.held, v) \in Nat
  BY <1>2, CountType, Zenon
<1> QED BY <1>1, <1>3, AliveType, RefsAreFunction DEF ZoInv

\* A live object's value, or one that is held, is not freed.
LEMMA UsedIsAlive ==
  ASSUME ZoInv, NEW v \in Made,
         zoObj[v] = "live" \/ \E i \in 1..Len(zo.held) : zo.held[i] = v
  PROVE  zoRefs[v] > 0
<1>1. zo.held \in Seq(Made)
  BY DEF ZoInv, ZoTypeOK
<1>2. ObjectHas(v) > 0 \/ CountIn(zo.held, v) > 0
  <2>1. CASE zoObj[v] = "live"
    BY <2>1 DEF ObjectHas
  <2>2. CASE \E i \in 1..Len(zo.held) : zo.held[i] = v
    BY <1>1, <2>2, CountType, Zenon
  <2> QED BY <2>1, <2>2
<1> QED BY <1>2, OwnedBy

\* Giving up what is held: the references that are left are the others.
LEMMA GiveUpHeld ==
  ASSUME ZoInv
  PROVE  /\ UnrefAll(zoRefs, zo.held) \in [Made -> Nat]
         /\ \A v \in Made :
              UnrefAll(zoRefs, zo.held)[v]
                = ObjectHas(v) + Cardinality(AlivePlaces(UnrefAll(zoRefs, zo.held), v))
<1> DEFINE own == [v \in Made |-> ObjectHas(v)]
<1>1. own \in [Made -> Nat]
  BY RefsAreFunction DEF ZoInv
<1>2. zoRefs \in [Made -> Nat] /\ zo.held \in Seq(Made)
  BY RefsAreFunction DEF ZoInv, ZoTypeOK
<1>3. \A v \in Made :
        zoRefs[v] = own[v] + CountIn(zo.held, v) + Cardinality(AlivePlaces(zoRefs, v))
  BY OwnedBy
<1>4. \A v \in Made : own[v] = ObjectHas(v)
  OBVIOUS
<1> HIDE DEF own
<1>5. /\ UnrefAll(zoRefs, zo.held) \in [Made -> Nat]
      /\ \A v \in Made :
           UnrefAll(zoRefs, zo.held)[v]
             = own[v] + Cardinality(AlivePlaces(UnrefAll(zoRefs, zo.held), v))
  BY <1>1, <1>2, <1>3, UnrefLeavesOwned DEF ZoInv
<1> QED BY <1>4, <1>5

\* The same when the values that are held are also those a new value is made of.
LEMMA GiveUpMade ==
  ASSUME ZoInv, NEW kids \in Seq(Made), \A i \in 1..Len(kids) : zoRefs[kids[i]] > 0,
         NEW refs, refs = [v \in Made |-> zoRefs[v] + CountIn(kids, v)]
  PROVE  /\ UnrefAll(refs, zo.held) \in [Made -> Nat]
         /\ \A v \in Made :
              UnrefAll(refs, zo.held)[v]
                = ObjectHas(v) + CountIn(kids, v)
                  + Cardinality(AlivePlaces(UnrefAll(refs, zo.held), v))
<1> DEFINE own == [v \in Made |-> ObjectHas(v) + CountIn(kids, v)]
<1>1. ASSUME NEW v \in Made PROVE CountIn(kids, v) \in Nat
  BY CountType, Zenon
<1>2. own \in [Made -> Nat]
  BY <1>1, OwnedBy
<1>3. refs \in [Made -> Nat] /\ zo.held \in Seq(Made)
  <2>1. \A v \in Made : zoRefs[v] + CountIn(kids, v) \in Nat
    BY <1>1, OwnedBy
  <2>2. zo.held \in Seq(Made)
    BY DEF ZoInv, ZoTypeOK
  <2> QED BY <2>1, <2>2
<1>4. ASSUME NEW u \in Made PROVE refs[u] > 0 <=> zoRefs[u] > 0
  <2>1. CountIn(kids, u) > 0 => zoRefs[u] > 0
    <3>1. ASSUME CountIn(kids, u) > 0 PROVE \E i \in 1..Len(kids) : kids[i] = u
      BY <3>1, CountType, Zenon
    <3> QED BY <3>1
  <2>2. zoRefs[u] \in Nat /\ CountIn(kids, u) \in Nat
    BY <1>1, OwnedBy
  <2> QED BY <2>1, <2>2
<1>5. ASSUME NEW v \in Made PROVE AlivePlaces(refs, v) = AlivePlaces(zoRefs, v)
  <2>1. \A p \in PlacesOf(v) : p[1] \in Made
    BY PlacesType DEF ZoInv
  <2> QED BY <1>4, <2>1 DEF AlivePlaces
<1>6. ASSUME NEW v \in Made
      PROVE  refs[v] = own[v] + CountIn(zo.held, v) + Cardinality(AlivePlaces(refs, v))
  <2>1. refs[v] = zoRefs[v] + CountIn(kids, v) /\ own[v] = ObjectHas(v) + CountIn(kids, v)
    OBVIOUS
  <2>2. zoRefs[v] = ObjectHas(v) + CountIn(zo.held, v) + Cardinality(AlivePlaces(zoRefs, v))
        /\ ObjectHas(v) \in Nat /\ CountIn(zo.held, v) \in Nat
        /\ Cardinality(AlivePlaces(zoRefs, v)) \in Nat
    BY OwnedBy
  <2>3. CountIn(kids, v) \in Nat /\ AlivePlaces(refs, v) = AlivePlaces(zoRefs, v)
    BY <1>1, <1>5
  <2> HIDE DEF own
  <2> QED BY <2>1, <2>2, <2>3
<1>7. \A v \in Made : own[v] = ObjectHas(v) + CountIn(kids, v)
  OBVIOUS
<1> HIDE DEF own
<1>8. /\ UnrefAll(refs, zo.held) \in [Made -> Nat]
      /\ \A v \in Made :
           UnrefAll(refs, zo.held)[v]
             = own[v] + Cardinality(AlivePlaces(UnrefAll(refs, zo.held), v))
  BY <1>2, <1>3, <1>6, UnrefLeavesOwned DEF ZoInv
<1> QED BY <1>7, <1>8

\* A new value, and the function ends.
LEMMA MakeKeepsOwned ==
  ASSUME ZoInv, NEW kids \in Seq(Made), \A i \in 1..Len(kids) : zoRefs[kids[i]] > 0,
         MakeValue(kids, zo.held), zo'.held = <<>>, zo'.todo = <<>>
  PROVE  /\ zoRefs' \in Seq(Nat)
         /\ zoKids' \in Seq(Seq(Nat)) /\ Len(zoKids') = Len(zoRefs')
         /\ zoObj' \in Seq({"live", "final"}) /\ Len(zoObj') = Len(zoRefs')
         /\ MadeOfEarlier' /\ ReferencesAreOwned'
<1> DEFINE n == Len(zoRefs)
           refs == [v \in Made |-> zoRefs[v] + CountIn(kids, v)]
           left == UnrefAll(refs, zo.held)
<1>1. n \in Nat /\ Made = 1..n
  BY RefsAreFunction DEF ZoInv
<1>2. left \in [1..n -> Nat]
      /\ \A v \in Made : left[v] = ObjectHas(v) + CountIn(kids, v)
                                   + Cardinality(AlivePlaces(left, v))
  <2> HIDE DEF refs, n
  <2>1. refs = [v \in Made |-> zoRefs[v] + CountIn(kids, v)]
    BY DEF refs
  <2> QED BY <1>1, <2>1, GiveUpMade
<1>3. left \in Seq(Nat) /\ Len(left) = n
  <2> HIDE DEF left, n
  <2> QED BY <1>1, <1>2, FunctionIsSequence
<1>4. zoRefs' = Append(left, 1) /\ zoKids' = Append(zoKids, kids) /\ zoObj' = Append(zoObj, "live")
  BY Zenon DEF MakeValue
<1> HIDE DEF left, refs
<1>5. /\ zoRefs' \in Seq(Nat) /\ Len(zoRefs') = n + 1 /\ zoRefs'[n + 1] = 1
      /\ \A v \in Made : zoRefs'[v] = left[v]
  BY <1>1, <1>3, <1>4
<1>6. zoKids \in Seq(Seq(Nat)) /\ Len(zoKids) = n /\ zoObj \in Seq({"live", "final"})
      /\ Len(zoObj) = n
  BY DEF ZoInv, ZoTypeOK
<1>7. kids \in Seq(Nat)
  BY <1>1
<1>8. /\ zoKids' \in Seq(Seq(Nat)) /\ Len(zoKids') = n + 1 /\ zoKids'[n + 1] = kids
      /\ \A v \in Made : zoKids'[v] = zoKids[v]
  BY <1>1, <1>4, <1>6, <1>7
<1>9. /\ zoObj' \in Seq({"live", "final"}) /\ Len(zoObj') = n + 1 /\ zoObj'[n + 1] = "live"
      /\ \A v \in Made : zoObj'[v] = zoObj[v]
  BY <1>1, <1>4, <1>6
<1>10. Made' = Made \cup {n + 1} /\ n + 1 \notin Made
  BY <1>1, <1>5 DEF Made
<1>11. MadeOfEarlier'
  <2> SUFFICES ASSUME NEW u \in Made' PROVE zoKids'[u] \in Seq(1..u - 1)
    BY DEF MadeOfEarlier
  <2>1. CASE u = n + 1
    <3>1. 1..u - 1 = Made
      BY <1>1, <2>1
    <3> QED BY <1>8, <2>1, <3>1
  <2>2. CASE u \in Made
    BY <1>8, <2>2 DEF ZoInv, MadeOfEarlier
  <2> QED BY <1>10, <2>1, <2>2
<1>12. ASSUME NEW v
       PROVE  PlacesOf(v)' = PlacesOf(v) \cup ({n + 1} \X {i \in 1..Len(kids) : kids[i] = v})
  <2> DEFINE At(k, u) == {u} \X {i \in 1..Len(k[u]) : k[u][i] = v}
  <2>1. PlacesOf(v) = UNION {At(zoKids, u) : u \in Made}
    BY DEF PlacesOf
  <2>2. PlacesOf(v)' = UNION {At(zoKids', u) : u \in Made'}
    BY DEF PlacesOf
  <2>3. \A u \in Made : At(zoKids', u) = At(zoKids, u)
    BY <1>8
  <2>4. At(zoKids', n + 1) = {n + 1} \X {i \in 1..Len(kids) : kids[i] = v}
    BY <1>8
  <2> HIDE DEF At
  <2>5. UNION {At(zoKids', u) : u \in Made'}
        = (UNION {At(zoKids, u) : u \in Made}) \cup At(zoKids', n + 1)
    BY <1>10, <2>3, Zenon
  <2> QED BY <2>1, <2>2, <2>4, <2>5
<1>13. ASSUME NEW v \in Made
       PROVE  {p \in PlacesOf(v)' : zoRefs'[p[1]] > 0}
              = AlivePlaces(left, v) \cup ({n + 1} \X {i \in 1..Len(kids) : kids[i] = v})
  <2>1. \A p \in PlacesOf(v) : p[1] \in Made
    BY PlacesType DEF ZoInv
  <2> DEFINE X == {n + 1} \X {i \in 1..Len(kids) : kids[i] = v}
  <2>2. \A p \in X : p[1] = n + 1
    OBVIOUS
  <2>3. \A p \in X : zoRefs'[p[1]] > 0
    BY <1>5, <2>2
  <2>4. \A p \in PlacesOf(v) : zoRefs'[p[1]] = left[p[1]]
    BY <1>5, <2>1
  <2>5. PlacesOf(v)' = PlacesOf(v) \cup X
    BY <1>12
  <2> HIDE DEF X
  <2>6. {p \in PlacesOf(v)' : zoRefs'[p[1]] > 0}
        = {p \in PlacesOf(v) : left[p[1]] > 0} \cup X
    BY <2>3, <2>4, <2>5
  <2> QED BY <2>6 DEF X, AlivePlaces
<1>14. ASSUME NEW v \in Made
       PROVE  Cardinality({p \in PlacesOf(v)' : zoRefs'[p[1]] > 0})
              = Cardinality(AlivePlaces(left, v)) + CountIn(kids, v)
  <2> DEFINE I == {i \in 1..Len(kids) : kids[i] = v}
             X == {n + 1} \X I
             A == AlivePlaces(left, v)
  <2>1. IsFiniteSet(I) /\ CountIn(kids, v) = Cardinality(I) /\ Cardinality(I) \in Nat
    BY CountType, FS_CardinalityType, Zenon DEF CountIn
  <2>2. IsFiniteSet({n + 1}) /\ Cardinality({n + 1}) = 1
    BY FS_Singleton
  <2>3. A \cap X = {}
    <3>1. \A p \in A : p[1] \in Made
      BY PlacesType DEF ZoInv, AlivePlaces
    <3>2. \A p \in X : p[1] = n + 1
      OBVIOUS
    <3> HIDE DEF A, X
    <3> QED BY <1>10, <3>1, <3>2
  <2>4. IsFiniteSet(A) /\ Cardinality(A) \in Nat
    BY AliveType DEF ZoInv
  <2>5. {p \in PlacesOf(v)' : zoRefs'[p[1]] > 0} = A \cup X
    BY <1>13
  <2> HIDE DEF I, A
  <2>6. IsFiniteSet(X) /\ Cardinality(X) = Cardinality(I)
    <3>1. IsFiniteSet(X) /\ Cardinality(X) = Cardinality({n + 1}) * Cardinality(I)
      BY <2>1, <2>2, FS_Product
    <3> HIDE DEF X
    <3> QED BY <2>1, <2>2, <3>1
  <2> HIDE DEF X
  <2>7. Cardinality(A \cup X) = Cardinality(A) + Cardinality(X)
    <3>1. Cardinality(A \cap X) = 0
      BY <2>3, FS_EmptySet, Zenon
    <3>2. Cardinality(X) \in Nat
      BY <2>1, <2>6
    <3>3. Cardinality(A \cup X) = Cardinality(A) + Cardinality(X) - Cardinality(A \cap X)
      BY <2>4, <2>6, FS_Union
    <3> QED BY <2>4, <3>1, <3>2, <3>3
  <2>8. Cardinality(A \cup X) = Cardinality(A) + CountIn(kids, v)
    BY <2>1, <2>6, <2>7
  <2> QED BY <2>5, <2>8, Zenon DEF A
<1>15. ASSUME NEW v, v = n + 1
       PROVE  {p \in PlacesOf(v)' : zoRefs'[p[1]] > 0} = {}
  <2>1. ASSUME NEW p \in PlacesOf(v)' PROVE FALSE
    <3>1. CASE p \in PlacesOf(v)
      <4>1. PICK u \in Made :
              p \in {u} \X {i \in 1..Len(zoKids[u]) : zoKids[u][i] = v}
        BY <3>1, Zenon DEF PlacesOf
      <4>2. zoKids[u] \in Seq(1..u - 1) /\ u \in 1..n
        BY <1>1, <4>1 DEF ZoInv, MadeOfEarlier
      <4>3. p[2] \in 1..Len(zoKids[u]) /\ zoKids[u][p[2]] = v
        BY <4>1
      <4>4. v \in 1..u - 1
        <5> DEFINE S == 1..u - 1
                   k == zoKids[u]
        <5>1. k \in Seq(S) /\ p[2] \in 1..Len(k) /\ k[p[2]] = v
          BY <4>2, <4>3
        <5> HIDE DEF S, k
        <5>2. v \in S
          BY <5>1, ElementOfSeq
        <5> QED BY <5>2 DEF S
      <4> QED BY <1>1, <1>15, <4>2, <4>4
    <3>2. CASE p \in {n + 1} \X {i \in 1..Len(kids) : kids[i] = v}
      <4>1. p[2] \in 1..Len(kids) /\ kids[p[2]] = v
        BY <3>2
      <4> HIDE DEF n
      <4>2. kids[p[2]] \in Made
        BY <4>1, ElementOfSeq
      <4> QED BY <1>10, <1>15, <4>1, <4>2
    <3> QED BY <1>12, <3>1, <3>2
  <2> QED BY <2>1
<1>16. ReferencesAreOwned'
  <2> SUFFICES ASSUME NEW v \in Made'
               PROVE  zoRefs'[v] = (IF zoObj'[v] = "live" THEN 1 ELSE 0)
                                   + CountIn(zo'.held, v)
                                   + Cardinality({p \in PlacesOf(v)' : zoRefs'[p[1]] > 0})
    BY Zenon DEF ReferencesAreOwned, CountIn
  <2>1. CountIn(zo'.held, v) = 0
    BY CountEmpty
  <2>2. CASE v = n + 1
    <3>1. Cardinality({p \in PlacesOf(v)' : zoRefs'[p[1]] > 0}) = 0
      BY <1>15, <2>2, FS_EmptySet
    <3> QED BY <1>5, <1>9, <2>1, <2>2, <3>1
  <2>3. CASE v \in Made
    <3>1. zoRefs'[v] = ObjectHas(v) + CountIn(kids, v) + Cardinality(AlivePlaces(left, v))
      BY <1>2, <1>5, <2>3
    <3>2. (IF zoObj'[v] = "live" THEN 1 ELSE 0) = ObjectHas(v)
      BY <1>9, <2>3 DEF ObjectHas
    <3>3. CountIn(kids, v) \in Nat
      BY CountType, Zenon
    <3>4. Cardinality(AlivePlaces(left, v)) \in Nat /\ ObjectHas(v) \in Nat
      BY <2>3, AliveType, OwnedBy DEF ZoInv
    <3>5. Cardinality({p \in PlacesOf(v)' : zoRefs'[p[1]] > 0})
          = Cardinality(AlivePlaces(left, v)) + CountIn(kids, v)
      BY <1>14, <2>3
    <3> QED BY <2>1, <3>1, <3>2, <3>3, <3>4, <3>5
  <2> QED BY <1>10, <2>2, <2>3
<1> QED BY <1>5, <1>8, <1>9, <1>11, <1>16

ZoRecords == [pc : ZoPcs, fn : ZoFns, todo : Seq(Made), held : Seq(Made), strs : Nat]

\* No value is made: what is to be shown of the references.
LEMMA NoneMade ==
  ASSUME ZoInv, zoKids' = zoKids, zoRefs' \in [Made -> Nat],
         zoObj' \in Seq({"live", "final"}), Len(zoObj') = Len(zoObj), zo' \in ZoRecords,
         \A v \in Made : zoRefs'[v] = (IF zoObj'[v] = "live" THEN 1 ELSE 0)
                                      + CountIn(zo'.held, v)
                                      + Cardinality(AlivePlaces(zoRefs', v))
  PROVE  ZoTypeOK' /\ MadeOfEarlier' /\ ReferencesAreOwned'
<1>1. zoRefs' \in Seq(Nat) /\ Len(zoRefs') = Len(zoRefs)
  <2>1. Made = 1..Len(zoRefs) /\ Len(zoRefs) \in Nat
    BY RefsAreFunction DEF ZoInv
  <2> QED BY <2>1, FunctionIsSequence
<1>2. Made' = Made
  BY <1>1 DEF Made
<1>3. ZoTypeOK'
  BY <1>1, <1>2 DEF ZoInv, ZoTypeOK, ZoRecords
<1>4. MadeOfEarlier'
  BY <1>2, Zenon DEF ZoInv, MadeOfEarlier
<1>5. ASSUME NEW v PROVE PlacesOf(v)' = PlacesOf(v)
  <2>1. zoKids' = zoKids
    OBVIOUS
  <2> QED BY <1>2, <2>1 DEF PlacesOf
<1>6. ReferencesAreOwned'
  <2> SUFFICES ASSUME NEW v \in Made'
               PROVE  zoRefs'[v] = (IF zoObj'[v] = "live" THEN 1 ELSE 0)
                                   + CountIn(zo'.held, v)
                                   + Cardinality({p \in PlacesOf(v)' : zoRefs'[p[1]] > 0})
    BY Zenon DEF ReferencesAreOwned, CountIn
  <2>1. {p \in PlacesOf(v)' : zoRefs'[p[1]] > 0} = AlivePlaces(zoRefs', v)
    BY <1>5, Zenon DEF AlivePlaces
  <2> QED BY <1>2, <2>1, Zenon
<1> QED BY <1>3, <1>4, <1>6

\* A step of the function that takes no reference and gives none up.
LEMMA NothingReferred ==
  ASSUME ZoInv, UNCHANGED <<zoRefs, zoKids, zoObj>>, zo' \in ZoRecords, zo'.held = zo.held
  PROVE  ZoTypeOK' /\ MadeOfEarlier' /\ ReferencesAreOwned'
<1>1. zoRefs' \in [Made -> Nat] /\ zoObj' \in Seq({"live", "final"}) /\ Len(zoObj') = Len(zoObj)
  BY RefsAreFunction DEF ZoInv, ZoTypeOK
<1>2. \A v \in Made : zoRefs'[v] = (IF zoObj'[v] = "live" THEN 1 ELSE 0)
                                   + CountIn(zo'.held, v) + Cardinality(AlivePlaces(zoRefs', v))
  BY Zenon DEF ZoInv, ReferencesAreOwned, AlivePlaces
<1> QED BY <1>1, <1>2, NoneMade

\* A live object's value is referred to, and held.
LEMMA OneReferred ==
  ASSUME ZoInv, NEW v \in Made, zoObj[v] = "live",
         zoRefs' = Ref(zoRefs, v), UNCHANGED <<zoKids, zoObj>>,
         zo' \in ZoRecords, zo'.held = Append(zo.held, v)
  PROVE  ZoTypeOK' /\ MadeOfEarlier' /\ ReferencesAreOwned'
<1>1. \A u \in Made : zoRefs'[u] = IF u = v THEN zoRefs[u] + 1 ELSE zoRefs[u]
  BY RefsAreFunction DEF ZoInv, Ref
<1>2. zoRefs' \in [Made -> Nat]
  <2>1. zoRefs[v] + 1 \in Nat
    BY OwnedBy
  <2> QED BY <2>1, RefsAreFunction DEF ZoInv, Ref
<1>3. zoObj' \in Seq({"live", "final"}) /\ Len(zoObj') = Len(zoObj)
  BY DEF ZoInv, ZoTypeOK
<1>4. ASSUME NEW u \in Made PROVE AlivePlaces(zoRefs', u) = AlivePlaces(zoRefs, u)
  <2>1. \A w \in Made : zoRefs'[w] > 0 <=> zoRefs[w] > 0
    <3>1. zoRefs[v] > 0
      BY UsedIsAlive
    <3>2. zoRefs[v] \in Nat
      BY OwnedBy
    <3> QED BY <1>1, <3>1, <3>2
  <2>2. \A p \in PlacesOf(u) : p[1] \in Made
    BY PlacesType DEF ZoInv
  <2> QED BY <2>1, <2>2 DEF AlivePlaces
<1>5. ASSUME NEW u \in Made
      PROVE  zoRefs'[u] = (IF zoObj'[u] = "live" THEN 1 ELSE 0)
                          + CountIn(zo'.held, u) + Cardinality(AlivePlaces(zoRefs', u))
  <2>1. CountIn(zo'.held, u) = CountIn(zo.held, u) + (IF v = u THEN 1 ELSE 0)
    <3>1. zo.held \in Seq(Made)
      BY DEF ZoInv, ZoTypeOK
    <3>2. CountIn(Append(zo.held, v), u) = CountIn(zo.held, u) + (IF v = u THEN 1 ELSE 0)
      <4> HIDE DEF Made
      <4> QED BY <3>1, CountAppended, SMTT(20)
    <3>3. zo'.held = Append(zo.held, v)
      OBVIOUS
    <3> QED BY <3>2, <3>3, Zenon
  <2>2. (IF zoObj'[u] = "live" THEN 1 ELSE 0) = ObjectHas(u)
    BY DEF ObjectHas
  <2>3. zoRefs[u] = ObjectHas(u) + CountIn(zo.held, u) + Cardinality(AlivePlaces(zoRefs, u))
        /\ ObjectHas(u) \in Nat /\ CountIn(zo.held, u) \in Nat
        /\ Cardinality(AlivePlaces(zoRefs, u)) \in Nat
    BY OwnedBy
  <2> QED BY <1>1, <1>4, <2>1, <2>2, <2>3
<1> QED BY <1>2, <1>3, <1>5, NoneMade

\* What is held is given up, and the function ends.
LEMMA HeldGivenUp ==
  ASSUME ZoInv, zoRefs' = UnrefAll(zoRefs, zo.held), UNCHANGED <<zoKids, zoObj>>, zo' = ZoIdle
  PROVE  ZoTypeOK' /\ MadeOfEarlier' /\ ReferencesAreOwned'
<1>1. zoObj' \in Seq({"live", "final"}) /\ Len(zoObj') = Len(zoObj)
  BY DEF ZoInv, ZoTypeOK
<1>2. zo' \in ZoRecords /\ zo'.held = <<>>
  <2>1. "idle" \in ZoPcs /\ "none" \in ZoFns /\ <<>> \in Seq(Made) /\ 0 \in Nat
    BY DEF ZoPcs, ZoFns
  <2> QED BY <2>1 DEF ZoIdle, ZoRecords
<1>3. /\ zoRefs' \in [Made -> Nat]
      /\ \A v \in Made : zoRefs'[v] = ObjectHas(v) + Cardinality(AlivePlaces(zoRefs', v))
  BY GiveUpHeld
<1>4. ASSUME NEW v \in Made
      PROVE  zoRefs'[v] = (IF zoObj'[v] = "live" THEN 1 ELSE 0)
                          + CountIn(zo'.held, v) + Cardinality(AlivePlaces(zoRefs', v))
  <2>1. CountIn(zo'.held, v) = 0
    BY <1>2, CountEmpty
  <2>2. (IF zoObj'[v] = "live" THEN 1 ELSE 0) = ObjectHas(v)
    BY DEF ObjectHas
  <2>3. ObjectHas(v) \in Nat
    BY OwnedBy
  <2>4. zoRefs'[v] = ObjectHas(v) + Cardinality(AlivePlaces(zoRefs', v))
    BY <1>3
  <2> QED BY <2>1, <2>2, <2>3, <2>4
<1> QED BY <1>1, <1>2, <1>3, <1>4, NoneMade

-----------------------------------------------------------------------------
(* The actions.                                                            *)

\* What has been made is idle again, with one value more.
LEMMA MadeThenIdle ==
  ASSUME ZoInv, NEW kids \in Seq(Made), \A i \in 1..Len(kids) : zoRefs[kids[i]] > 0,
         MakeValue(kids, zo.held), zo' = ZoIdle
  PROVE  ZoInv'
<1>1. zo'.held = <<>> /\ zo'.todo = <<>> /\ zo'.pc = "idle"
  BY DEF ZoIdle
<1>2. /\ zoRefs' \in Seq(Nat)
      /\ zoKids' \in Seq(Seq(Nat)) /\ Len(zoKids') = Len(zoRefs')
      /\ zoObj' \in Seq({"live", "final"}) /\ Len(zoObj') = Len(zoRefs')
      /\ MadeOfEarlier' /\ ReferencesAreOwned'
  BY <1>1, MakeKeepsOwned
<1>3. zo' \in [pc : ZoPcs, fn : ZoFns, todo : Seq(Made'), held : Seq(Made'), strs : Nat]
  <2>1. "idle" \in ZoPcs /\ "none" \in ZoFns /\ <<>> \in Seq(Made') /\ 0 \in Nat
    BY DEF ZoPcs, ZoFns
  <2> QED BY <2>1 DEF ZoIdle
<1>4. ZoTypeOK'
  BY <1>2, <1>3, Zenon DEF ZoTypeOK
<1>5. ArgumentsOfRunning'
  BY <1>1 DEF ArgumentsOfRunning
<1> QED BY <1>2, <1>4, <1>5, Zenon DEF ZoInv

LEMMA MkvalSimpleKeeps == ASSUME ZoInv, MkvalSimple PROVE ZoInv'
<1>1. PICK kids \in {<<>>} \cup {<<v>> : v \in Made} \cup (Made \X Made) :
        /\ \A i \in 1..Len(kids) : Fetchable(kids[i])
        /\ MakeValue(kids, <<>>)
  BY Zenon DEF MkvalSimple
<1>2. kids \in Seq(Made)
  <2> HIDE DEF Made
  <2>1. CASE kids = <<>>
    BY <2>1
  <2>2. CASE kids \in {<<v>> : v \in Made}
    <3>1. PICK v \in Made : kids = <<v>>
      BY <2>2
    <3> QED BY <3>1
  <2>3. CASE kids \in Made \X Made
    <3>1. PICK v \in Made, w \in Made : kids = <<v, w>>
      BY <2>3
    <3> QED BY <3>1
  <2> QED BY <1>1, <2>1, <2>2, <2>3
<1>3. \A i \in 1..Len(kids) : zoRefs[kids[i]] > 0
  <2> SUFFICES ASSUME NEW i \in 1..Len(kids) PROVE zoRefs[kids[i]] > 0
    OBVIOUS
  <2>1. kids[i] \in Made
    BY <1>2, ElementOfSeq
  <2>2. zoObj[kids[i]] = "live"
    BY <1>1 DEF Fetchable
  <2> QED BY <2>1, <2>2, UsedIsAlive
<1>4. zo = ZoIdle /\ zo' = ZoIdle
  BY DEF MkvalSimple, Idle, ZoInv, ArgumentsOfRunning
<1>5. zo.held = <<>>
  BY <1>4 DEF ZoIdle
<1>6. MakeValue(kids, zo.held)
  BY <1>1, <1>5, Zenon
<1> QED BY <1>2, <1>3, <1>4, <1>6, MadeThenIdle

LEMMA EndMakeKeeps == ASSUME ZoInv, EndMake PROVE ZoInv'
<1>1. zo' = ZoIdle
  BY DEF EndMake
<1>2. CASE zo.pc = "items" /\ zo.todo = <<>> /\ MakeValue(zo.held, zo.held)
  <2>1. zo.held \in Seq(Made)
    BY DEF ZoInv, ZoTypeOK
  <2>2. \A i \in 1..Len(zo.held) : zoRefs[zo.held[i]] > 0
    <3> SUFFICES ASSUME NEW i \in 1..Len(zo.held) PROVE zoRefs[zo.held[i]] > 0
      OBVIOUS
    <3>1. zo.held[i] \in Made
      BY <2>1, ElementOfSeq
    <3> QED BY <3>1, UsedIsAlive
  <2> QED BY <1>1, <1>2, <2>1, <2>2, MadeThenIdle
<1>3. CASE zoRefs' = UnrefAll(zoRefs, zo.held) /\ UNCHANGED <<zoKids, zoObj>>
  <2>1. ZoTypeOK' /\ MadeOfEarlier' /\ ReferencesAreOwned'
    BY <1>1, <1>3, HeldGivenUp
  <2>2. ArgumentsOfRunning'
    BY <1>1 DEF ArgumentsOfRunning, ZoIdle
  <2> QED BY <2>1, <2>2, Zenon DEF ZoInv
<1> QED BY <1>2, <1>3 DEF EndMake

LEMMA EndCallKeeps == ASSUME ZoInv, EndCall PROVE ZoInv'
<1>1. zo' = ZoIdle /\ zoRefs' = UnrefAll(zoRefs, zo.held) /\ UNCHANGED <<zoKids, zoObj>>
  BY DEF EndCall
<1>2. ZoTypeOK' /\ MadeOfEarlier' /\ ReferencesAreOwned'
  BY <1>1, HeldGivenUp
<1>3. ArgumentsOfRunning'
  BY <1>1 DEF ArgumentsOfRunning, ZoIdle
<1> QED BY <1>2, <1>3, Zenon DEF ZoInv

LEMMA VobjGcKeeps == ASSUME ZoInv, NEW v \in Made, VobjGc(v) PROVE ZoInv'
<1> DEFINE left == UnrefAll(zoRefs, <<v>>)
           own == [u \in Made |-> CountIn(zo.held, u) + (IF u = v THEN 0 ELSE ObjectHas(u))]
<1>1. zoRefs' = left /\ zoObj' = [zoObj EXCEPT ![v] = "final"] /\ zoKids' = zoKids /\ zo' = zo
      /\ zoObj[v] = "live"
  BY Zenon DEF VobjGc
<1>2. own \in [Made -> Nat]
  BY OwnedBy
<1>3. zoRefs \in [Made -> Nat] /\ <<v>> \in Seq(Made)
  BY RefsAreFunction DEF ZoInv
<1>4. ASSUME NEW u \in Made
      PROVE  zoRefs[u] = own[u] + CountIn(<<v>>, u) + Cardinality(AlivePlaces(zoRefs, u))
  <2>1. CountIn(<<v>>, u) = IF v = u THEN 1 ELSE 0
    BY CountOne
  <2>2. ObjectHas(v) = 1
    BY <1>1 DEF ObjectHas
  <2>3. own[u] = CountIn(zo.held, u) + (IF u = v THEN 0 ELSE ObjectHas(u))
    OBVIOUS
  <2>4. zoRefs[u] = ObjectHas(u) + CountIn(zo.held, u) + Cardinality(AlivePlaces(zoRefs, u))
        /\ ObjectHas(u) \in Nat /\ CountIn(zo.held, u) \in Nat
        /\ Cardinality(AlivePlaces(zoRefs, u)) \in Nat
    BY OwnedBy
  <2> HIDE DEF own
  <2> QED BY <2>1, <2>2, <2>3, <2>4
<1>5. \A u \in Made : own[u] = CountIn(zo.held, u) + (IF u = v THEN 0 ELSE ObjectHas(u))
  OBVIOUS
<1> HIDE DEF own
<1>6. /\ left \in [Made -> Nat]
      /\ \A u \in Made : left[u] = own[u] + Cardinality(AlivePlaces(left, u))
  BY <1>2, <1>3, <1>4, UnrefLeavesOwned DEF ZoInv
<1> HIDE DEF left
<1>7. zoObj' \in Seq({"live", "final"}) /\ Len(zoObj') = Len(zoObj)
      /\ \A u \in Made : zoObj'[u] = IF u = v THEN "final" ELSE zoObj[u]
  BY <1>1 DEF ZoInv, ZoTypeOK, Made
<1>8. zo' \in ZoRecords
  BY <1>1 DEF ZoInv, ZoTypeOK, ZoRecords
<1>9. ASSUME NEW u \in Made
      PROVE  zoRefs'[u] = (IF zoObj'[u] = "live" THEN 1 ELSE 0)
                          + CountIn(zo'.held, u) + Cardinality(AlivePlaces(zoRefs', u))
  <2>1. (IF zoObj'[u] = "live" THEN 1 ELSE 0) = IF u = v THEN 0 ELSE ObjectHas(u)
    BY <1>7 DEF ObjectHas
  <2>2. zoRefs'[u] = CountIn(zo.held, u) + (IF u = v THEN 0 ELSE ObjectHas(u))
                     + Cardinality(AlivePlaces(zoRefs', u))
    BY <1>1, <1>5, <1>6
  <2>3. ObjectHas(u) \in Nat /\ CountIn(zo.held, u) \in Nat /\ zo' = zo
        /\ Cardinality(AlivePlaces(zoRefs', u)) \in Nat
    BY <1>1, OwnedBy, AliveType DEF ZoInv
  <2> QED BY <2>1, <2>2, <2>3
<1>10. ZoTypeOK' /\ MadeOfEarlier' /\ ReferencesAreOwned'
  BY <1>1, <1>6, <1>7, <1>8, <1>9, NoneMade
<1>11. ArgumentsOfRunning'
  BY <1>1 DEF ZoInv, ArgumentsOfRunning, ZoIdle
<1> QED BY <1>10, <1>11, Zenon DEF ZoInv

LEMMA TakeItemKeeps == ASSUME ZoInv, TakeItem PROVE ZoInv'
<1> DEFINE v == Head(zo.todo)
<1>1. zo.pc = "items" /\ zo.todo # <<>> /\ UNCHANGED <<zoKids, zoObj>>
  BY DEF TakeItem
<1>2. zo \in ZoRecords /\ zo.todo \in Seq(Made) /\ zo.held \in Seq(Made)
  BY DEF ZoInv, ZoTypeOK, ZoRecords
<1>3. v \in Made /\ Tail(zo.todo) \in Seq(Made) /\ Append(zo.held, v) \in Seq(Made)
  <2> HIDE DEF Made
  <2> QED BY <1>1, <1>2
<1>4. CASE /\ Fetchable(v) /\ zoRefs' = Ref(zoRefs, v)
           /\ zo' = [zo EXCEPT !.todo = Tail(@), !.held = Append(@, v)]
  <2> HIDE DEF v
  <2>1. zo' \in ZoRecords /\ zo'.held = Append(zo.held, v) /\ zo'.pc = "items"
    BY <1>1, <1>2, <1>3, <1>4 DEF ZoRecords
  <2>2. ZoTypeOK' /\ MadeOfEarlier' /\ ReferencesAreOwned'
    BY <1>1, <1>3, <1>4, <2>1, OneReferred DEF Fetchable
  <2>3. ArgumentsOfRunning'
    BY <2>1 DEF ArgumentsOfRunning
  <2> QED BY <2>2, <2>3, Zenon DEF ZoInv
<1>5. CASE zo' = [zo EXCEPT !.pc = "failed", !.todo = <<>>] /\ UNCHANGED zoRefs
  <2>1. "failed" \in ZoPcs /\ <<>> \in Seq(Made)
    BY DEF ZoPcs
  <2>2. zo' \in ZoRecords /\ zo'.held = zo.held /\ zo'.pc = "failed" /\ zo'.todo = <<>>
    BY <1>2, <1>5, <2>1 DEF ZoRecords
  <2>3. ZoTypeOK' /\ MadeOfEarlier' /\ ReferencesAreOwned'
    BY <1>1, <1>5, <2>2, NothingReferred
  <2>4. ArgumentsOfRunning'
    BY <2>2 DEF ArgumentsOfRunning
  <2> QED BY <2>3, <2>4, Zenon DEF ZoInv
<1> QED BY <1>4, <1>5, Zenon DEF TakeItem

\* A step that changes the function only, and not what it holds.
LEMMA FunctionSteps ==
  ASSUME ZoInv, UNCHANGED <<zoRefs, zoKids, zoObj>>, zo' \in ZoRecords, zo'.held = zo.held,
         ArgumentsOfRunning'
  PROVE  ZoInv'
BY NothingReferred, Zenon DEF ZoInv

LEMMA StartMakeKeeps == ASSUME ZoInv, NEW items \in Items, StartMake(items) PROVE ZoInv'
<1>1. zo = ZoIdle /\ UNCHANGED <<zoRefs, zoKids, zoObj>>
      /\ zo' = [zo EXCEPT !.pc = "items", !.fn = "mkval", !.todo = items]
  BY DEF StartMake, Idle, ZoInv, ArgumentsOfRunning
<1>2. items \in Seq(Made)
  <2>1. PICK n \in 0..ZoMaxItems : items \in [1..n -> Made]
    BY DEF Items
  <2>2. n \in Nat
    BY ZoAssumption
  <2> HIDE DEF Made
  <2> QED BY <2>1, <2>2, SeqDef
<1>3. zo' = [pc |-> "items", fn |-> "mkval", todo |-> items, held |-> <<>>, strs |-> 0]
  BY <1>1 DEF ZoIdle
<1>4. "items" \in ZoPcs /\ "mkval" \in ZoFns /\ <<>> \in Seq(Made)
  BY DEF ZoPcs, ZoFns
<1>5. zo' \in ZoRecords /\ zo'.held = zo.held /\ zo'.pc = "items" /\ zo'.held = <<>>
  <2>1. zo' \in ZoRecords
    BY <1>2, <1>3, <1>4 DEF ZoRecords
  <2>2. zo'.held = <<>> /\ zo'.pc = "items"
    BY <1>3
  <2>3. zo.held = <<>>
    BY <1>1 DEF ZoIdle
  <2> QED BY <2>1, <2>2, <2>3
<1>6. ArgumentsOfRunning'
  BY <1>5 DEF ArgumentsOfRunning
<1> QED BY <1>1, <1>5, <1>6, FunctionSteps

LEMMA StartCallKeeps ==
  ASSUME ZoInv, NEW f \in CallFunctions, NEW args \in {<<>>} \cup {<<v>> : v \in Made},
         StartCall(f, args)
  PROVE  ZoInv'
<1>1. zo = ZoIdle /\ UNCHANGED <<zoRefs, zoKids, zoObj>>
      /\ zo' = [zo EXCEPT !.pc = "params", !.fn = f.name, !.todo = args]
  BY DEF StartCall, Idle, ZoInv, ArgumentsOfRunning
<1>2. args \in Seq(Made) /\ Len(args) <= 1
  <2> HIDE DEF Made
  <2>1. CASE args = <<>>
    BY <2>1
  <2>2. CASE args \in {<<v>> : v \in Made}
    <3>1. PICK v \in Made : args = <<v>>
      BY <2>2
    <3> QED BY <3>1
  <2> QED BY <2>1, <2>2
<1>3. f.name \in ZoFns
  BY DEF CallFunctions, ZoFns
<1>4. zo' = [pc |-> "params", fn |-> f.name, todo |-> args, held |-> <<>>, strs |-> 0]
  BY <1>1 DEF ZoIdle
<1>5. "params" \in ZoPcs /\ <<>> \in Seq(Made)
  BY DEF ZoPcs
<1>6. /\ zo' \in ZoRecords /\ zo'.held = zo.held /\ zo'.pc = "params" /\ zo'.held = <<>>
      /\ zo'.todo = args
  <2>1. zo' \in ZoRecords
    BY <1>2, <1>3, <1>4, <1>5 DEF ZoRecords
  <2>2. zo'.held = <<>> /\ zo'.pc = "params" /\ zo'.todo = args
    BY <1>4
  <2>3. zo.held = <<>>
    BY <1>1 DEF ZoIdle
  <2> QED BY <2>1, <2>2, <2>3
<1>7. ArgumentsOfRunning'
  BY <1>2, <1>6 DEF ArgumentsOfRunning
<1> QED BY <1>1, <1>6, <1>7, FunctionSteps

LEMMA ParseStringsKeeps == ASSUME ZoInv, ParseStrings PROVE ZoInv'
<1>1. zo.pc = "params" /\ UNCHANGED <<zoRefs, zoKids, zoObj>>
  BY DEF ParseStrings
<1>2. zo \in ZoRecords /\ zo.held = <<>> /\ Len(zo.todo) <= 1 /\ zo.todo \in Seq(Made)
  BY <1>1 DEF ZoInv, ZoTypeOK, ArgumentsOfRunning, ZoRecords
<1>3. PICK f \in CallFunctions :
        \/ zo' = [zo EXCEPT !.pc = "value", !.strs = f.strs]
        \/ \E k \in 0..(f.strs - 1) : zo' = [zo EXCEPT !.pc = "failed", !.strs = k, !.todo = <<>>]
  BY Zenon DEF ParseStrings
<1>4. f.strs \in Nat
  BY DEF CallFunctions
<1>5. "value" \in ZoPcs /\ "failed" \in ZoPcs /\ <<>> \in Seq(Made)
  BY DEF ZoPcs
<1>6. CASE zo' = [zo EXCEPT !.pc = "value", !.strs = f.strs]
  <2>1. /\ zo' \in ZoRecords /\ zo'.held = zo.held /\ zo'.pc = "value" /\ zo'.todo = zo.todo
    BY <1>2, <1>4, <1>5, <1>6 DEF ZoRecords
  <2>2. ArgumentsOfRunning'
    BY <1>2, <2>1 DEF ArgumentsOfRunning
  <2> QED BY <1>1, <2>1, <2>2, FunctionSteps
<1>7. ASSUME NEW k \in 0..(f.strs - 1),
             zo' = [zo EXCEPT !.pc = "failed", !.strs = k, !.todo = <<>>]
      PROVE  ZoInv'
  <2>1. k \in Nat
    BY <1>4
  <2>2. zo' \in ZoRecords /\ zo'.held = zo.held /\ zo'.pc = "failed" /\ zo'.todo = <<>>
    BY <1>2, <1>5, <1>7, <2>1 DEF ZoRecords
  <2>3. ArgumentsOfRunning'
    BY <2>2 DEF ArgumentsOfRunning
  <2> QED BY <1>1, <2>2, <2>3, FunctionSteps
<1> QED BY <1>3, <1>6, <1>7

\* A sequence of at most one element that is not empty.
LEMMA OnlyOne ==
  ASSUME NEW S, NEW s \in Seq(S), s # <<>>, Len(s) <= 1
  PROVE  s[1] \in S /\ s = Append(<<>>, s[1])
<1>1. Len(s) = 1
  <2>1. Len(s) \in Nat /\ Len(s) # 0
    BY EmptySeq
  <2> QED BY <2>1
<1> QED BY <1>1

LEMMA ParseValueKeeps == ASSUME ZoInv, ParseValue PROVE ZoInv'
<1>1. zo.pc = "value" /\ UNCHANGED <<zoKids, zoObj>>
  BY DEF ParseValue
<1>2. zo \in ZoRecords /\ zo.held = <<>> /\ Len(zo.todo) <= 1 /\ zo.todo \in Seq(Made)
  BY <1>1 DEF ZoInv, ZoTypeOK, ArgumentsOfRunning, ZoRecords
<1>3. "call" \in ZoPcs /\ "failed" \in ZoPcs /\ <<>> \in Seq(Made)
  BY DEF ZoPcs
<1>4. ASSUME NEW pc \in {"call", "failed"}, zo.todo # <<>>, Fetchable(zo.todo[1]),
             zoRefs' = Ref(zoRefs, zo.todo[1]),
             zo' = [zo EXCEPT !.pc = pc, !.held = zo.todo, !.todo = <<>>]
      PROVE  ZoInv'
  <2> DEFINE v == zo.todo[1]
  <2>1. v \in Made /\ zo.todo = Append(<<>>, v)
    BY <1>2, <1>4, OnlyOne
  <2>2. zo' \in ZoRecords /\ zo'.held = zo.todo /\ zo'.pc = pc /\ zo'.todo = <<>>
    BY <1>2, <1>3, <1>4 DEF ZoRecords
  <2>3. zo'.held = Append(zo.held, v)
    BY <1>2, <2>1, <2>2
  <2>4. zoObj[v] = "live" /\ zoRefs' = Ref(zoRefs, v)
    BY <1>4 DEF Fetchable
  <2> HIDE DEF v
  <2>5. ZoTypeOK' /\ MadeOfEarlier' /\ ReferencesAreOwned'
    BY <1>1, <2>1, <2>2, <2>3, <2>4, OneReferred
  <2>6. ArgumentsOfRunning'
    BY <2>2 DEF ArgumentsOfRunning
  <2> QED BY <2>5, <2>6, Zenon DEF ZoInv
<1>5. ASSUME NEW pc \in {"call", "failed"}, UNCHANGED zoRefs,
             zo' = [zo EXCEPT !.pc = pc, !.todo = <<>>]
      PROVE  ZoInv'
  <2>1. zo' \in ZoRecords /\ zo'.held = zo.held /\ zo'.pc = pc /\ zo'.todo = <<>>
    BY <1>2, <1>3, <1>5 DEF ZoRecords
  <2>2. ArgumentsOfRunning'
    BY <2>1 DEF ArgumentsOfRunning
  <2> QED BY <1>1, <1>5, <2>1, <2>2, FunctionSteps
<1>6. \/ /\ zo.todo # <<>> /\ Fetchable(zo.todo[1]) /\ zoRefs' = Ref(zoRefs, zo.todo[1])
         /\ \E pc \in {"call", "failed"} :
              zo' = [zo EXCEPT !.pc = pc, !.held = zo.todo, !.todo = <<>>]
      \/ /\ UNCHANGED zoRefs
         /\ \E pc \in {"call", "failed"} : zo' = [zo EXCEPT !.pc = pc, !.todo = <<>>]
  BY DEF ParseValue
<1> QED BY <1>4, <1>5, <1>6

LEMMA CallKeeps == ASSUME ZoInv, Call PROVE ZoInv'
<1>1. zo.pc = "call" /\ UNCHANGED <<zoRefs, zoKids, zoObj>> /\ zo' = [zo EXCEPT !.pc = "called"]
  BY DEF Call
<1>2. zo \in ZoRecords /\ zo.todo = <<>>
  BY <1>1 DEF ZoInv, ZoTypeOK, ArgumentsOfRunning, ZoRecords
<1>3. "called" \in ZoPcs
  BY DEF ZoPcs
<1>4. zo' \in ZoRecords /\ zo'.held = zo.held /\ zo'.pc = "called" /\ zo'.todo = <<>>
  BY <1>1, <1>2, <1>3 DEF ZoRecords
<1>5. ArgumentsOfRunning'
  BY <1>4 DEF ArgumentsOfRunning
<1> QED BY <1>1, <1>4, <1>5, FunctionSteps

\* The end of the widget.
LEMMA EndKeeps == ASSUME ZoInv, PluginUnload \/ LuaClose PROVE ZoInv'
<1>1. UNCHANGED <<zoRefs, zoKids, zoObj>> /\ zo.pc \in {"idle", "unloaded"}
      /\ \E pc \in {"unloaded", "crashed", "closed"} : zo' = [zo EXCEPT !.pc = pc]
  BY DEF PluginUnload, LuaClose, Idle
<1>2. zo \in ZoRecords /\ zo.todo = <<>> /\ zo.held = <<>>
  BY <1>1 DEF ZoInv, ZoTypeOK, ArgumentsOfRunning, ZoRecords
<1>3. {"unloaded", "crashed", "closed"} \subseteq ZoPcs
  BY DEF ZoPcs
<1>4. PICK pc \in {"unloaded", "crashed", "closed"} : zo' = [zo EXCEPT !.pc = pc]
  BY <1>1
<1>5. zo' \in ZoRecords /\ zo'.held = zo.held /\ zo'.pc = pc /\ zo'.todo = <<>>
  BY <1>2, <1>3, <1>4 DEF ZoRecords
<1>6. ArgumentsOfRunning'
  BY <1>2, <1>5 DEF ArgumentsOfRunning
<1> QED BY <1>1, <1>5, <1>6, FunctionSteps

-----------------------------------------------------------------------------
\* The inductive invariant: values are made of values made earlier, a function has arguments
\* and references only while it runs, and every reference is somebody's.
THEOREM ZoInvariance == ZoSpec => []ZoInv
<1>1. ZoInit => ZoInv
  <2> SUFFICES ASSUME ZoInit PROVE ZoInv
    OBVIOUS
  <2>1. zoRefs = <<>> /\ zoKids = <<>> /\ zoObj = <<>> /\ zo = ZoIdle
    BY DEF ZoInit, ZoStart, ZoIdle
  <2>2. Made = {}
    BY <2>1 DEF Made
  <2>3. zo \in [pc : ZoPcs, fn : ZoFns, todo : Seq(Made), held : Seq(Made), strs : Nat]
    <3>1. "idle" \in ZoPcs /\ "none" \in ZoFns /\ <<>> \in Seq(Made) /\ 0 \in Nat
      BY DEF ZoPcs, ZoFns
    <3> QED BY <2>1, <3>1 DEF ZoIdle
  <2>4. ZoTypeOK
    BY <2>1, <2>3 DEF ZoTypeOK
  <2>5. ArgumentsOfRunning
    BY <2>1 DEF ArgumentsOfRunning, ZoIdle
  <2>6. MadeOfEarlier /\ ReferencesAreOwned
    BY <2>2 DEF MadeOfEarlier, ReferencesAreOwned
  <2> QED BY <2>4, <2>5, <2>6 DEF ZoInv
<1>2. ZoInv /\ [ZoNext]_zovars => ZoInv'
  <2> SUFFICES ASSUME ZoInv, [ZoNext]_zovars PROVE ZoInv'
    OBVIOUS
  <2>1. CASE UNCHANGED zovars
    <3>1. zoRefs' = zoRefs /\ zoKids' = zoKids /\ zoObj' = zoObj /\ zo' = zo
      BY <2>1 DEF zovars
    <3>2. zo' \in ZoRecords
      BY <3>1 DEF ZoInv, ZoTypeOK, ZoRecords
    <3>3. ArgumentsOfRunning'
      BY <3>1 DEF ZoInv, ArgumentsOfRunning, ZoIdle
    <3> QED BY <3>1, <3>2, <3>3, FunctionSteps
  <2> QED BY <2>1, MkvalSimpleKeeps, TakeItemKeeps, EndMakeKeeps, ParseStringsKeeps,
             ParseValueKeeps, CallKeeps, EndCallKeeps, EndKeeps, VobjGcKeeps, StartMakeKeeps,
             StartCallKeeps, Zenon DEF ZoNext
<1> QED BY <1>1, <1>2, PTL DEF ZoSpec

\* zoo.c makes values of values, while the collector frees objects and an error may end a
\* function at any argument: still every reference to a value is that of its live object, of
\* a value made of it that is not freed, or of the function that runs.
THEOREM ReferencesHaveOwners == ZoSpec => []ReferencesAreOwned
<1>1. ZoInv => ReferencesAreOwned
  BY DEF ZoInv
<1> QED BY <1>1, ZoInvariance, PTL

-----------------------------------------------------------------------------
(* xtitle, xkb, pulse, alsa.                                               *)

\* What comes from the server, and what goes to it.
Events ==
  {e \in [type : {"event"}, what : DtItems \cup {Cur}, item : DtItems \cup {0}, val : {0}] :
     e.what # Cur => e.item = e.what}
Answers == [type : {"answer"}, what : {"by_name", "by_index"}, item : DtItems, val : Nat]
Messages == Events \cup Answers
Requests ==
  {r \in [what : {"by_name", "by_index", "subscribe"}, item : DtItems \cup {0}] :
     r.what = "by_index" => r.item \in DtItems}

XtitlePcs == {"start", "initial", "title", "watch", "wait", "returned"}
XkbPcs    == {"start", "query", "state", "again", "call", "wait", "returned"}
PulsePcs  == {"start", "wait", "sleep"}
AlsaPcs   == {"start", "call", "wait", "sleep"}

Threads ==
  [pc : XtitlePcs \cup XkbPcs \cup PulsePcs \cup AlsaPcs, item : DtItems \cup {0},
   last : DtItems \cup {0}, names : [DtItems -> Nat], timeout : BOOLEAN,
   told : [item : DtItems \cup {0}, val : Nat]]
Servers ==
  [cur : DtItems \cup {0}, val : [DtItems -> Nat \ {0}], prop : [DtItems -> Nat],
   watched : SUBSET (DtItems \cup {Cur}), chan : Seq(Messages), req : Seq(Requests),
   pipe : {0, 1}, changes : Nat, failures : Nat, missed : BOOLEAN]
DtTypeOK == dtOpt \in DtOptions /\ dt \in Threads /\ dtSrv \in Servers

Chan == dtSrv.chan
IsEvent(k) == Chan[k].type = "event"
Pending(what) == \E k \in 1..Len(Chan) : IsEvent(k) /\ Chan[k].what = what
IsAnswer(k, what) == Chan[k].type = "answer" /\ Chan[k].what = what
Answered(what) == \E k \in 1..Len(Chan) : IsAnswer(k, what)
Asked(what) == \E k \in 1..Len(dtSrv.req) : dtSrv.req[k].what = what

\* Where the thread is, and what the server has for one that has not asked: nothing.
DtShape ==
  /\ dtOpt.plugin = "xtitle" => dt.pc \in XtitlePcs
  /\ dtOpt.plugin = "xkb" => dt.pc \in XkbPcs
  /\ dtOpt.plugin = "pulse" => dt.pc \in PulsePcs
  /\ dtOpt.plugin = "alsa" => dt.pc \in AlsaPcs
  /\ dtSrv.cur = 0 => dtOpt.plugin = "xtitle"
  /\ dtSrv.req # <<>> => dtOpt.plugin = "pulse" /\ dt.pc = "wait"
  /\ dt.pc \in {"start", "sleep"} => Chan = <<>> /\ dtSrv.watched = {}
  /\ Cur \in dtSrv.watched \/ dtSrv.watched = {}
  /\ dtOpt.plugin # "pulse" => \A k \in 1..Len(Chan) : IsEvent(k)

-----------------------------------------------------------------------------
(* xtitle: the window shown is the active one unless an event tells of     *)
(* another, and its title is the one it has unless an event tells of that. *)

Unwatched == Cur \notin dtSrv.watched

XtitleStarts ==
  /\ Unwatched => Chan = <<>>
  /\ dt.pc \in {"start", "initial"} => Unwatched /\ dt.told = NoPair
  /\ dt.pc \in {"title", "watch"} /\ Unwatched => dt.item = dtSrv.cur
  /\ dt.pc = "title" /\ Unwatched => dt.item # 0
  /\ dt.pc = "wait" => ~Unwatched

XtitleWindow ==
  /\ dt.pc \in {"title", "watch", "wait"} => dt.item = dtSrv.cur \/ Pending(Cur)
  /\ dt.pc \in {"title", "wait"} /\ ~Unwatched /\ dt.item # 0 => dt.item \in dtSrv.watched

XtitleTold ==
  dt.pc = "wait" \/ (dt.pc = "watch" /\ Unwatched) =>
    /\ dt.told.item = dt.item
    /\ dt.item = 0 => dt.told.val = 0
    /\ dt.item # 0 => dt.told.val = dtSrv.val[dt.item] \/ Pending(dt.item) \/ Pending(Cur)

XtitleInv ==
  dtOpt.plugin = "xtitle" /\ ~dtSrv.missed => XtitleStarts /\ XtitleWindow /\ XtitleTold

-----------------------------------------------------------------------------
(* xkb: the last of the events of the group tells the current one, and the *)
(* names are those of the server where no event tells of another.          *)

XkbEvents ==
  /\ dt.pc \notin {"start", "returned"} => dtSrv.watched = DtItems \cup {Cur}
  /\ \A k \in 1..Len(Chan) : Chan[k].what = Cur =>
       /\ Chan[k].item \in DtItems
       /\ Chan[k].item = dtSrv.cur \/ \E j \in k + 1..Len(Chan) : Chan[j].what = Cur

XkbGroup ==
  dt.pc \in {"again", "call", "wait"} => dt.item \in DtItems /\ (dt.item = dtSrv.cur \/ Pending(Cur))

XkbNames ==
  dtOpt.somehow /\ dt.pc \in {"state", "again", "call", "wait"} =>
    \A i \in DtItems : dt.names[i] = 0 \/ dt.names[i] = dtSrv.val[i] \/ Pending(i)

XkbTold == dt.pc = "wait" => dt.told = [item |-> dt.item, val |-> dt.names[dt.item]]

XkbInv == dtOpt.plugin = "xkb" => XkbEvents /\ XkbGroup /\ XkbNames /\ XkbTold

-----------------------------------------------------------------------------
(* pulse: a change of the sink, or of its volume, that is not shown is on  *)
(* its way as an event, a request or an answer; and an answer that is out  *)
(* of date has the event after it.                                         *)

PulseSink ==
  \/ Pending(Cur)
  \/ Asked("by_name")
  \/ /\ \A k \in 1..Len(Chan) : IsAnswer(k, "by_name") =>
          \/ Chan[k].item = dtSrv.cur
          \/ \E j \in k + 1..Len(Chan) : IsAnswer(j, "by_name")
     /\ dt.pc = "wait" => dt.item = dtSrv.cur \/ Answered("by_name")

PulseAnswers ==
  \A k \in 1..Len(Chan) : ~IsEvent(k) =>
    \/ Chan[k].val = dtSrv.val[Chan[k].item]
    \/ \E j \in k + 1..Len(Chan) : IsEvent(j) /\ Chan[j].what = Chan[k].item

Wanted(i) == \E k \in 1..Len(dtSrv.req) : dtSrv.req[k] = [what |-> "by_index", item |-> i]
Volume(i) == \E k \in 1..Len(Chan) : IsAnswer(k, "by_index") /\ Chan[k].item = i
OnItsWay(i) == Pending(i) \/ Volume(i) \/ Wanted(i)

PulseTold ==
  dt.pc = "wait" /\ dt.item # 0 =>
    dt.told.item = dt.item /\ (dt.told.val = dtSrv.val[dt.item] \/ OnItsWay(dt.item))

PulseWatched == dtSrv.watched = {} \/ dtSrv.watched = DtItems \cup {Cur}

PulseInv ==
  dtOpt.plugin = "pulse" /\ ~dtSrv.missed => PulseWatched /\ PulseSink /\ PulseAnswers /\ PulseTold

-----------------------------------------------------------------------------
(* alsa: the volume is that of the mixer unless an event tells of another. *)

AlsaInv ==
  dtOpt.plugin = "alsa" =>
    /\ dt.pc \in {"call", "wait"} =>
         /\ dtSrv.watched = DtItems \cup {Cur}
         /\ dt.item = dtSrv.cur
         /\ Chan = <<>> => dt.names = dtSrv.val
    /\ dt.pc = "wait" \/ (dt.pc = "call" /\ dt.timeout) =>
         dt.told = [item |-> dt.item, val |-> dt.names[dt.item]]

DtInv == DtTypeOK /\ DtShape /\ XtitleInv /\ XkbInv /\ PulseInv /\ AlsaInv

-----------------------------------------------------------------------------
LEMMA DtInvInit == DtInit => DtInv
<1> SUFFICES ASSUME DtInit PROVE DtInv
  OBVIOUS
<1> DEFINE i == CHOOSE i \in DtItems : TRUE
<1>1. i \in DtItems
  BY DtAssumption
<1>2. Chan = <<>> /\ dtSrv.req = <<>> /\ dtSrv.watched = {} /\ dtSrv.cur = i
  BY DEF DtInit, DtStart, Chan
<1>3. DtTypeOK
  <2>1. dtOpt \in DtOptions
    BY DEF DtInit
  <2>2. dt \in Threads
    BY DEF DtInit, DtStart, Threads, XtitlePcs, Unset, NoPair
  <2>3. dtSrv \in Servers
    BY <1>1, EmptySeq DEF DtInit, DtStart, Servers
  <2> QED BY <2>1, <2>2, <2>3 DEF DtTypeOK
<1>4. dt.pc = "start" /\ dt.told = NoPair /\ i # 0
  BY <1>1, DtAssumption DEF DtInit, DtStart
<1>5. DtShape
  BY <1>2, <1>4, EmptySeq DEF DtShape, XtitlePcs, XkbPcs, PulsePcs, AlsaPcs
<1>6. XtitleInv
  BY <1>2, <1>4 DEF XtitleInv, XtitleStarts, XtitleWindow, XtitleTold, Unwatched
<1>7. XkbInv
  BY <1>2, <1>4, EmptySeq DEF XkbInv, XkbEvents, XkbGroup, XkbNames, XkbTold
<1>8. PulseInv
  BY <1>2, <1>4, EmptySeq DEF PulseInv, PulseWatched, PulseSink, PulseAnswers, PulseTold
<1>9. AlsaInv
  BY <1>4 DEF AlsaInv
<1> QED BY <1>3, <1>5, <1>6, <1>7, <1>8, <1>9 DEF DtInv

-----------------------------------------------------------------------------
(* Types.                                                                  *)

LEMMA Appended ==
  ASSUME NEW S, NEW s \in Seq(S), NEW e \in S
  PROVE  /\ Append(s, e) \in Seq(S)
         /\ Append(s, e) # <<>>
         /\ Len(Append(s, e)) = Len(s) + 1
         /\ \A k \in 1..Len(s) : Append(s, e)[k] = s[k]
         /\ Append(s, e)[Len(s) + 1] = e
BY AppendProperties

LEMMA Received ==
  ASSUME NEW S, NEW s \in Seq(S), s # <<>>
  PROVE  /\ Head(s) = s[1] /\ Head(s) \in S
         /\ Len(s) \in Nat \ {0}
         /\ Tail(s) \in Seq(S)
         /\ Len(Tail(s)) = Len(s) - 1
         /\ \A k \in 1..Len(s) - 1 : Tail(s)[k] = s[k + 1]
BY HeadTailProperties, EmptySeq

LEMMA ChangedTyped ==
  ASSUME NEW s \in Servers, NEW what \in DtItems \cup {Cur}, NEW i \in DtItems \cup {0},
         what # Cur => i = what, dtSrv \in Servers
  PROVE  /\ Changed(s, what, i) \in Servers
         /\ Changed(s, what, i).cur = s.cur
         /\ Changed(s, what, i).val = s.val
<1> DEFINE e == [type |-> "event", what |-> what, item |-> i, val |-> 0]
<1>1. e \in Messages
  BY DEF Messages, Events
<1>2. s.chan \in Seq(Messages) /\ s.changes \in Nat /\ s.missed \in BOOLEAN
  BY DEF Servers
<1>3. Append(s.chan, e) \in Seq(Messages)
  BY <1>1, <1>2, Appended
<1> HIDE DEF e
<1>4. Changed(s, what, i) = [s EXCEPT !.changes = @ + 1,
         !.missed = @ \/ (Connected /\ Cur \notin dtSrv.watched),
         !.chan = IF what \in dtSrv.watched THEN Append(@, e) ELSE @]
  BY DEF Changed, e
<1>5. (s.missed \/ (Connected /\ Cur \notin dtSrv.watched)) \in BOOLEAN
  BY <1>2
<1> DEFINE missed == s.missed \/ (Connected /\ Cur \notin dtSrv.watched)
           chan == IF what \in dtSrv.watched THEN Append(s.chan, e) ELSE s.chan
<1>6. missed \in BOOLEAN /\ chan \in Seq(Messages) /\ s.changes + 1 \in Nat
  BY <1>2, <1>3
<1>7. Changed(s, what, i) = [s EXCEPT !.changes = s.changes + 1, !.missed = missed, !.chan = chan]
  BY <1>4
<1> HIDE DEF missed, chan
<1> QED BY <1>6, <1>7 DEF Servers

LEMMA RequestTyped ==
  ASSUME NEW s \in Servers, NEW what, NEW i, [what |-> what, item |-> i] \in Requests
  PROVE  /\ Request(s, what, i) \in Servers
         /\ Request(s, what, i).chan = s.chan
<1>1. s.req \in Seq(Requests)
  BY DEF Servers
<1>2. Append(s.req, [what |-> what, item |-> i]) \in Seq(Requests)
  BY <1>1, Appended
<1> QED BY <1>2 DEF Request, Servers

LEMMA DtTypeStep == DtInv /\ [DtNext]_dtvars => DtTypeOK'
<1> SUFFICES ASSUME DtInv, [DtNext]_dtvars PROVE DtTypeOK'
  OBVIOUS
<1>t. dtOpt \in DtOptions /\ dt \in Threads /\ dtSrv \in Servers
  BY DEF DtInv, DtTypeOK
<1>0. /\ dtSrv.chan \in Seq(Messages) /\ dtSrv.req \in Seq(Requests)
      /\ dtSrv.cur \in DtItems \cup {0} /\ dtSrv.val \in [DtItems -> Nat \ {0}]
      /\ dtSrv.val \in [DtItems -> Nat] /\ dtSrv.prop \in [DtItems -> Nat]
      /\ dt.item \in DtItems \cup {0} /\ dt.names \in [DtItems -> Nat]
      /\ Unset \in [DtItems -> Nat] /\ <<>> \in Seq(Messages) /\ <<>> \in Seq(Requests)
      /\ DtItems \subseteq Nat \ {0}
  BY <1>t, DtAssumption, EmptySeq DEF Threads, Servers, Unset
<1>1. ASSUME NEW i \in DtItems \cup {0}, Select(i) PROVE DtTypeOK'
  <2>1. [dtSrv EXCEPT !.cur = i] \in Servers
    BY <1>t DEF Servers
  <2> QED BY <1>1, <1>t, <2>1, ChangedTyped DEF Select, DtTypeOK
<1>2. ASSUME NEW i \in DtItems, ChangeValue(i) PROVE DtTypeOK'
  <2>0. dtSrv.val[i] + 1 \in Nat \ {0}
    BY <1>0, SMTT(20)
  <2>1. [dtSrv.val EXCEPT ![i] = @ + 1] \in [DtItems -> Nat \ {0}]
    BY <1>0, <2>0
  <2>2. [dtSrv EXCEPT !.val[i] = @ + 1] \in Servers
    BY <1>t, <2>1 DEF Servers
  <2> QED BY <1>2, <1>t, <2>2, ChangedTyped DEF ChangeValue, DtTypeOK
<1>3. CASE SetNames
  BY <1>3, <1>t, <1>0 DEF SetNames, DtTypeOK, Servers
<1>4. CASE PulseServer
  <2> DEFINE r == Head(dtSrv.req)
             i == IF r.what = "by_name" THEN dtSrv.cur ELSE r.item
             a == [type |-> "answer", what |-> r.what, item |-> i, val |-> dtSrv.val[i]]
  <2>1. r \in Requests /\ Tail(dtSrv.req) \in Seq(Requests)
    BY <1>4, <1>0, Received DEF PulseServer
  <2>2. dtSrv.cur \in DtItems
    BY <1>4, <1>t, <1>0 DEF PulseServer, DtInv, DtShape
  <2>3. r.what # "subscribe" => a \in Messages
    BY <2>1, <2>2, <1>0 DEF Requests, Messages, Answers
  <2>4. r.what # "subscribe" => Append(dtSrv.chan, a) \in Seq(Messages)
    BY <2>3, <1>0, Appended
  <2>5. dtSrv' = [dtSrv EXCEPT
          !.req = Tail(@),
          !.watched = IF r.what = "subscribe" THEN DtItems \cup {Cur} ELSE @,
          !.chan = IF r.what = "subscribe" THEN @ ELSE Append(@, a)]
    BY <1>4 DEF PulseServer
  <2> HIDE DEF a, r
  <2>6. dtSrv' \in Servers
    BY <2>1, <2>4, <2>5, <1>t DEF Servers
  <2> QED BY <1>4, <1>t, <2>6 DEF PulseServer, DtTypeOK
<1>5. CASE DtWakeUp
  BY <1>5, <1>t DEF DtWakeUp, DtTypeOK, Servers
<1>f. ASSUME NEW pc \in XtitlePcs \cup XkbPcs \cup PulsePcs \cup AlsaPcs PROVE Fresh(pc) \in Threads
  BY <1>t, <1>0 DEF Fresh, Threads
<1>w. [dtSrv EXCEPT !.watched = DtItems \cup {Cur}] \in Servers
  BY <1>t DEF Servers
<1>p. ASSUME NEW pc \in XtitlePcs \cup XkbPcs \cup PulsePcs \cup AlsaPcs
      PROVE [dt EXCEPT !.pc = pc] \in Threads
  BY <1>t DEF Threads
<1>6. CASE ConnectXtitle
  BY <1>6, <1>f, <1>t DEF ConnectXtitle, XtitlePcs, DtTypeOK
<1>7. CASE ConnectXkb
  BY <1>7, <1>f, <1>t, <1>w DEF ConnectXkb, XkbPcs, DtTypeOK
<1>8. CASE ConnectPulse
  <2>1. Request(dtSrv, "by_name", 0) \in Servers
    BY <1>t, RequestTyped DEF Requests
  <2>2. Request(Request(dtSrv, "by_name", 0), "subscribe", 0) \in Servers
    BY <2>1, RequestTyped DEF Requests
  <2> QED BY <1>8, <1>f, <1>t, <2>2 DEF ConnectPulse, PulsePcs, DtTypeOK
<1>9. CASE ConnectAlsa
  <2>1. Fresh("call") \in Threads
    BY <1>f DEF AlsaPcs
  <2>2. [Fresh("call") EXCEPT !.item = dtSrv.cur, !.names = dtSrv.val] \in Threads
    BY <2>1, <1>0 DEF Threads
  <2> QED BY <1>9, <1>t, <1>w, <2>2 DEF ConnectAlsa, DtTypeOK
<1>d. ASSUME Disconnected PROVE dtSrv' \in Servers
  <2>1. dtSrv.failures + 1 \in Nat
    BY <1>t DEF Servers
  <2>2. dtSrv' = [dtSrv EXCEPT !.failures = dtSrv.failures + 1, !.watched = {}, !.chan = <<>>,
                              !.req = <<>>, !.missed = FALSE]
    BY <1>d DEF Disconnected
  <2> QED BY <2>1, <2>2, <1>t, <1>0 DEF Servers
<1>10. CASE XFails
  BY <1>10, <1>d, <1>p, <1>t DEF XFails, Disconnected, XtitlePcs, DtTypeOK
<1>11. CASE IterationEnds
  <2>1. (IF dt.pc = "start" THEN "sleep" ELSE "start") \in PulsePcs
    BY DEF PulsePcs
  <2>2. [dt EXCEPT !.pc = IF dt.pc = "start" THEN "sleep" ELSE "start"] \in Threads
    BY <2>1, <1>p
  <2> QED BY <1>11, <1>d, <1>t, <2>2 DEF IterationEnds, Disconnected, DtTypeOK
<1>12. CASE Sleep
  BY <1>12, <1>p, <1>t DEF Sleep, DtGoto, PulsePcs, DtTypeOK
<1>13. CASE InitialWindow
  BY <1>13, <1>t, <1>0 DEF InitialWindow, XtitlePcs, DtTypeOK, Threads
<1>14. CASE Watch
  <2>1. (dtSrv.watched \cup {Cur, dt.item}) \ {0} \in SUBSET (DtItems \cup {Cur})
    BY <1>t, <1>0 DEF Servers
  <2>2. dtSrv' \in Servers
    BY <1>14, <2>1, <1>t DEF Watch, Servers
  <2> QED BY <1>14, <2>2, <1>p, <1>t DEF Watch, XtitlePcs, DtTypeOK
<1>15. CASE TitleCall
  <2> DEFINE pc == IF Cur \in dtSrv.watched THEN "wait" ELSE "watch"
             told == IF dt.item = 0 THEN NoPair
                     ELSE [item |-> dt.item, val |-> dtSrv.val[dt.item]]
  <2>1. pc \in XtitlePcs
    BY DEF XtitlePcs
  <2>2. told \in [item : DtItems \cup {0}, val : Nat]
    BY <1>0 DEF NoPair
  <2>3. dt' = [dt EXCEPT !.pc = pc, !.told = told]
    BY <1>15 DEF TitleCall
  <2> HIDE DEF pc, told
  <2> QED BY <1>15, <2>1, <2>2, <2>3, <1>t DEF TitleCall, DtTypeOK, Threads
<1>16. CASE TitleChanged
  <2> DEFINE e == Head(dtSrv.chan)
  <2>1. Tail(dtSrv.chan) \in Seq(Messages)
    BY <1>16, <1>0, Received DEF TitleChanged
  <2>2. dtSrv' \in Servers
    BY <1>16, <2>1, <1>t DEF TitleChanged, Servers
  <2>3. [dt EXCEPT !.item = dtSrv.cur, !.last = dtSrv.cur, !.pc = "watch"] \in Threads
    BY <1>t, <1>0 DEF Threads, XtitlePcs
  <2>4. [dt EXCEPT !.pc = "title"] \in Threads
    BY <1>p DEF XtitlePcs
  <2>5. dt' = CASE e.what = Cur -> [dt EXCEPT !.item = dtSrv.cur, !.last = dtSrv.cur,
                                                  !.pc = "watch"]
                  [] e.what = dt.item -> [dt EXCEPT !.pc = "title"]
                  [] OTHER -> dt
    BY <1>16 DEF TitleChanged
  <2> HIDE DEF e
  <2>6. dt' \in Threads
    BY <2>3, <2>4, <2>5, <1>t
  <2> QED BY <1>16, <2>2, <2>6, <1>t DEF TitleChanged, DtTypeOK
<1>17. CASE PulseReceive
  <2> DEFINE m == Head(dtSrv.chan)
             rest == [dtSrv EXCEPT !.chan = Tail(@)]
             what == IF m.what = Cur THEN "by_name" ELSE "by_index"
  <2>1. Tail(dtSrv.chan) \in Seq(Messages) /\ m \in Messages
    BY <1>17, <1>0, Received DEF PulseReceive
  <2>2. rest \in Servers
    BY <2>1, <1>t DEF Servers
  <2>3. m.type # "answer" => [what |-> what, item |-> m.item] \in Requests
    BY <2>1 DEF Messages, Events, Answers, Requests
  <2>4. m.type # "answer" => Request(rest, what, m.item) \in Servers
    <3> HIDE DEF rest, m
    <3> QED BY <2>2, <2>3, RequestTyped
  <2>5. dtSrv' = IF m.type = "answer" THEN rest ELSE Request(rest, what, m.item)
    BY <1>17 DEF PulseReceive
  <2>6. m.type = "answer" => m.item \in DtItems /\ m.val \in Nat
    BY <2>1 DEF Messages, Events, Answers
  <2>7. m.type = "answer" => [dt EXCEPT !.item = m.item,
                                  !.told = [item |-> m.item, val |-> m.val]] \in Threads
    BY <2>6, <1>t DEF Threads
  <2>8. \/ /\ m.type = "answer"
           /\ dt' = [dt EXCEPT !.item = m.item, !.told = [item |-> m.item, val |-> m.val]]
        \/ dt' = dt
    BY <1>17 DEF PulseReceive
  <2> HIDE DEF rest, m, what
  <2> QED BY <1>17, <2>2, <2>4, <2>5, <2>7, <2>8, <1>t DEF PulseReceive, DtTypeOK
<1>18. CASE PulseWoken
  BY <1>18, <1>t DEF PulseWoken, DtTypeOK, Servers
<1>19. CASE AlsaCall
  <2>1. dtSrv.cur # 0 /\ dt.item = dtSrv.cur
    BY <1>19 DEF DtInv, DtShape, AlsaInv, AlsaCall, DtIs
  <2>2. [item |-> dt.item, val |-> dt.names[dt.item]] \in [item : DtItems \cup {0}, val : Nat]
    BY <2>1, <1>0
  <2> QED BY <1>19, <2>2, <1>t DEF AlsaCall, DtTypeOK, Threads, AlsaPcs
<1>20. CASE AlsaWoken
  <2>1. dtSrv' \in Servers
    BY <1>20, <1>t, <1>0 DEF AlsaWoken, Servers
  <2>2. dt' \in Threads
    BY <1>20, <1>t, <1>0 DEF AlsaWoken, Threads, AlsaPcs
  <2> QED BY <1>20, <2>1, <2>2, <1>t DEF AlsaWoken, DtTypeOK
<1>21. CASE AlsaTimesOut
  BY <1>21, <1>t DEF AlsaTimesOut, AlsaPcs, Threads, DtTypeOK
<1>22. CASE QueryNames
  <2>1. PICK names \in {Unset, IF dtOpt.somehow THEN dtSrv.val ELSE dtSrv.prop} :
          dt' = [dt EXCEPT !.names = names, !.pc = IF dt.pc = "query" THEN "state" ELSE "call"]
    BY <1>22 DEF QueryNames
  <2>2. names \in [DtItems -> Nat]
    BY <1>0
  <2>3. (IF dt.pc = "query" THEN "state" ELSE "call") \in XkbPcs
    BY DEF XkbPcs
  <2>4. dt' \in Threads
    BY <2>1, <2>2, <2>3, <1>t DEF Threads
  <2> QED BY <1>22, <2>4, <1>t DEF QueryNames, DtTypeOK
<1>23. CASE QueryGroup
  BY <1>23, <1>t, <1>0 DEF QueryGroup, XkbPcs, Threads, DtTypeOK
<1>24. CASE KeyboardCall
  <2>1. dt.item \in DtItems
    BY <1>24 DEF DtInv, XkbInv, XkbGroup, KeyboardCall, DtIs
  <2>2. [item |-> dt.item, val |-> dt.names[dt.item]] \in [item : DtItems \cup {0}, val : Nat]
    BY <2>1, <1>0
  <2> QED BY <1>24, <2>2, <1>t DEF KeyboardCall, XkbPcs, Threads, DtTypeOK
<1>25. CASE KeyboardEvent
  <2> DEFINE e == Head(dtSrv.chan)
  <2>1. Tail(dtSrv.chan) \in Seq(Messages) /\ e \in Messages
    BY <1>25, <1>0, Received DEF KeyboardEvent
  <2>2. dtSrv' \in Servers
    BY <1>25, <2>1, <1>t DEF KeyboardEvent, Servers
  <2>3. [dt EXCEPT !.item = e.item, !.pc = "call"] \in Threads
    BY <2>1, <1>t DEF Threads, XkbPcs, Messages, Events, Answers
  <2>4. [dt EXCEPT !.pc = "query"] \in Threads
    BY <1>p DEF XkbPcs
  <2> QED BY <1>25, <2>2, <2>3, <2>4, <1>t DEF KeyboardEvent, DtTypeOK
<1>26. CASE UNCHANGED dtvars
  BY <1>26, <1>t DEF dtvars, DtTypeOK
<1> QED
  BY <1>1, <1>2, <1>3, <1>4, <1>5, <1>6, <1>7, <1>8, <1>9, <1>10, <1>11, <1>12, <1>13, <1>14, <1>15,
     <1>16, <1>17, <1>18, <1>19, <1>20, <1>21, <1>22, <1>23, <1>24, <1>25, <1>26 DEF DtNext
-----------------------------------------------------------------------------
(* What a step does to the channel, and which steps a plugin has.          *)

ChangeEvent(what, i) == [type |-> "event", what |-> what, item |-> i, val |-> 0]

\* A change leaves the rest of the server alone and appends the event it is subscribed to.
LEMMA ChangedFields ==
  ASSUME NEW s \in Servers, dtSrv \in Servers, NEW what \in DtItems \cup {Cur},
         NEW i \in DtItems \cup {0}, what # Cur => i = what,
         s.chan = dtSrv.chan, s.watched = dtSrv.watched, s.missed = dtSrv.missed,
         s.req = dtSrv.req, dtSrv' = Changed(s, what, i)
  PROVE  /\ dtSrv'.cur = s.cur /\ dtSrv'.val = s.val /\ dtSrv'.prop = s.prop
         /\ dtSrv'.watched = dtSrv.watched /\ dtSrv'.req = dtSrv.req
         /\ ~dtSrv'.missed => ~dtSrv.missed /\ (Connected => Cur \in dtSrv.watched)
         /\ what \in dtSrv.watched => Chan' = Append(Chan, ChangeEvent(what, i))
         /\ what \notin dtSrv.watched => Chan' = Chan
         /\ ChangeEvent(what, i) \in Messages
<1>1. ChangeEvent(what, i) \in Messages
  BY DEF Messages, Events, ChangeEvent
<1>2. Changed(s, what, i) = [s EXCEPT !.changes = @ + 1,
         !.missed = @ \/ (Connected /\ Cur \notin dtSrv.watched),
         !.chan = IF what \in dtSrv.watched THEN Append(@, ChangeEvent(what, i)) ELSE @]
  BY DEF Changed, ChangeEvent
<1> QED BY <1>1, <1>2 DEF Servers, Chan

LEMMA SelectFields ==
  ASSUME DtInv, NEW i \in DtItems \cup {0}, Select(i)
  PROVE  /\ UNCHANGED <<dtOpt, dt>> /\ dt.pc # "returned"
         /\ dtOpt.plugin # "alsa" /\ (i = 0 => dtOpt.plugin = "xtitle")
         /\ dtSrv'.cur = i /\ dtSrv'.val = dtSrv.val /\ dtSrv'.prop = dtSrv.prop
         /\ dtSrv'.watched = dtSrv.watched /\ dtSrv'.req = dtSrv.req
         /\ ~dtSrv'.missed => ~dtSrv.missed /\ (Connected => Cur \in dtSrv.watched)
         /\ Cur \in dtSrv.watched => Chan' = Append(Chan, ChangeEvent(Cur, i))
         /\ Cur \notin dtSrv.watched => Chan' = Chan
         /\ ChangeEvent(Cur, i) \in Messages
<1> DEFINE s == [dtSrv EXCEPT !.cur = i]
<1>t. dtSrv \in Servers
  BY DEF DtInv, DtTypeOK
<1>1. s \in Servers
  BY <1>t DEF Servers
<1>2. /\ s.cur = i /\ s.chan = dtSrv.chan /\ s.req = dtSrv.req /\ s.watched = dtSrv.watched
      /\ s.missed = dtSrv.missed /\ s.val = dtSrv.val /\ s.prop = dtSrv.prop
  BY <1>t DEF Servers
<1>3. dtSrv' = Changed(s, Cur, i)
  BY DEF Select
<1>4. /\ UNCHANGED <<dtOpt, dt>> /\ dt.pc # "returned"
      /\ dtOpt.plugin # "alsa" /\ (i = 0 => dtOpt.plugin = "xtitle")
  BY DEF Select
<1> HIDE DEF s
<1> QED BY <1>t, <1>1, <1>2, <1>3, <1>4, ChangedFields

LEMMA ChangeValueFields ==
  ASSUME DtInv, NEW i \in DtItems, ChangeValue(i)
  PROVE  /\ UNCHANGED <<dtOpt, dt>> /\ dt.pc # "returned"
         /\ dtSrv'.cur = dtSrv.cur /\ \A j \in DtItems \ {i} : dtSrv'.val[j] = dtSrv.val[j]
         /\ dtSrv'.prop = dtSrv.prop
         /\ dtSrv'.watched = dtSrv.watched /\ dtSrv'.req = dtSrv.req
         /\ ~dtSrv'.missed => ~dtSrv.missed /\ (Connected => Cur \in dtSrv.watched)
         /\ i \in dtSrv.watched => Chan' = Append(Chan, ChangeEvent(i, i))
         /\ i \notin dtSrv.watched => Chan' = Chan
         /\ ChangeEvent(i, i) \in Messages
<1> DEFINE s == [dtSrv EXCEPT !.val[i] = @ + 1]
<1>t. dtSrv \in Servers
  BY DEF DtInv, DtTypeOK
<1>1. s \in Servers
  <2>1. dtSrv.val[i] + 1 \in Nat \ {0} /\ dtSrv.val \in [DtItems -> Nat \ {0}]
    BY <1>t DEF Servers
  <2>2. [dtSrv.val EXCEPT ![i] = @ + 1] \in [DtItems -> Nat \ {0}]
    BY <2>1
  <2> QED BY <2>2, <1>t DEF Servers
<1>2. /\ s.cur = dtSrv.cur /\ s.chan = dtSrv.chan /\ s.req = dtSrv.req
      /\ s.watched = dtSrv.watched /\ s.missed = dtSrv.missed /\ s.prop = dtSrv.prop
      /\ \A j \in DtItems \ {i} : s.val[j] = dtSrv.val[j]
  BY <1>t DEF Servers
<1>3. dtSrv' = Changed(s, i, i)
  BY DEF ChangeValue
<1>4. UNCHANGED <<dtOpt, dt>> /\ dt.pc # "returned"
  BY DEF ChangeValue
<1> HIDE DEF s
<1> QED BY <1>t, <1>1, <1>2, <1>3, <1>4, ChangedFields

\* A message that comes last leaves those before it where they are.
LEMMA Grows ==
  ASSUME Chan \in Seq(Messages), NEW m \in Messages, Chan' = Append(Chan, m)
  PROVE  /\ Len(Chan) \in Nat /\ Len(Chan') = Len(Chan) + 1 /\ Chan' # <<>>
         /\ \A k \in 1..Len(Chan) : Chan'[k] = Chan[k]
         /\ Chan'[Len(Chan) + 1] = m
         /\ \A w : Pending(w) => Pending(w)'
         /\ \A w : Answered(w) => Answered(w)'
         /\ m.type = "event" => Pending(m.what)'
         /\ m.type = "answer" => Answered(m.what)'
<1>1. /\ Len(Chan) \in Nat /\ Len(Chan') = Len(Chan) + 1 /\ Chan' # <<>>
      /\ \A k \in 1..Len(Chan) : Chan'[k] = Chan[k]
      /\ Chan'[Len(Chan) + 1] = m
  BY Appended
<1>2. \A k \in 1..Len(Chan) : k \in 1..Len(Chan') /\ Chan'[k] = Chan[k]
  BY <1>1
<1>3. \A w : Pending(w) => Pending(w)'
  BY <1>2 DEF Pending, IsEvent
<1>4. \A w : Answered(w) => Answered(w)'
  BY <1>2 DEF Answered, IsAnswer
<1>5. Len(Chan) + 1 \in 1..Len(Chan')
  BY <1>1
<1>6. m.type = "event" => Pending(m.what)'
  BY <1>1, <1>5 DEF Pending, IsEvent
<1>7. m.type = "answer" => Answered(m.what)'
  BY <1>1, <1>5 DEF Answered, IsAnswer
<1> QED BY <1>1, <1>3, <1>4, <1>6, <1>7

\* The first message goes, and the others move up.
LEMMA Shrinks ==
  ASSUME Chan \in Seq(Messages), Chan # <<>>, Chan' = Tail(Chan)
  PROVE  /\ Head(Chan) = Chan[1] /\ Head(Chan) \in Messages
         /\ Len(Chan) \in Nat \ {0} /\ Len(Chan') = Len(Chan) - 1
         /\ \A k \in 1..Len(Chan') : Chan'[k] = Chan[k + 1] /\ k + 1 \in 1..Len(Chan)
         /\ \A k \in 1..Len(Chan) : k # 1 => k - 1 \in 1..Len(Chan') /\ Chan'[k - 1] = Chan[k]
         /\ \A w : Pending(w) /\ ~(Head(Chan).type = "event" /\ Head(Chan).what = w) => Pending(w)'
         /\ \A w : Answered(w) /\ ~(Head(Chan).type = "answer" /\ Head(Chan).what = w) => Answered(w)'
<1>1. /\ Head(Chan) = Chan[1] /\ Head(Chan) \in Messages
      /\ Len(Chan) \in Nat \ {0} /\ Len(Chan') = Len(Chan) - 1
      /\ \A k \in 1..Len(Chan) - 1 : Chan'[k] = Chan[k + 1]
  BY Received
<1>2. \A k \in 1..Len(Chan') : Chan'[k] = Chan[k + 1] /\ k + 1 \in 1..Len(Chan)
  BY <1>1
<1>3. \A k \in 1..Len(Chan) : k # 1 => k - 1 \in 1..Len(Chan') /\ Chan'[k - 1] = Chan[k]
  <2> SUFFICES ASSUME NEW k \in 1..Len(Chan), k # 1
               PROVE  k - 1 \in 1..Len(Chan') /\ Chan'[k - 1] = Chan[k]
    OBVIOUS
  <2>1. k - 1 \in 1..Len(Chan') /\ (k - 1) + 1 = k
    BY <1>1
  <2> QED BY <1>2, <2>1
<1>4. ASSUME NEW w, Pending(w), ~(Head(Chan).type = "event" /\ Head(Chan).what = w) PROVE Pending(w)'
  <2>1. PICK k \in 1..Len(Chan) : IsEvent(k) /\ Chan[k].what = w
    BY <1>4 DEF Pending
  <2>2. k # 1
    BY <1>1, <1>4, <2>1 DEF IsEvent
  <2> QED BY <1>3, <2>1, <2>2 DEF Pending, IsEvent
<1>5. ASSUME NEW w, Answered(w), ~(Head(Chan).type = "answer" /\ Head(Chan).what = w) PROVE Answered(w)'
  <2>1. PICK k \in 1..Len(Chan) : IsAnswer(k, w)
    BY <1>5 DEF Answered
  <2>2. k # 1
    BY <1>1, <1>5, <2>1 DEF IsAnswer
  <2> QED BY <1>3, <2>1, <2>2 DEF Answered, IsAnswer
<1> QED BY <1>1, <1>2, <1>3, <1>4, <1>5

LEMMA Steady ==
  ASSUME Chan' = Chan
  PROVE  \A w : (Pending(w) <=> Pending(w)') /\ (Answered(w) <=> Answered(w)')
BY DEF Pending, Answered, IsEvent, IsAnswer

LEMMA XtitleSteps ==
  ASSUME DtInv, DtNext, dtOpt.plugin = "xtitle"
  PROVE  \/ \E i \in DtItems \cup {0} : Select(i)
         \/ \E i \in DtItems : ChangeValue(i)
         \/ ConnectXtitle \/ XFails \/ InitialWindow \/ Watch \/ TitleCall \/ TitleChanged
         \/ DtWakeUp
BY DEF DtInv, DtShape, DtNext, DtIs, XtitlePcs, SetNames, PulseServer, ConnectXkb, ConnectPulse,
       ConnectAlsa, IterationEnds, Sleep, PulseReceive, PulseWoken, AlsaCall, AlsaWoken,
       AlsaTimesOut, QueryNames, QueryGroup, KeyboardCall, KeyboardEvent

LEMMA XkbSteps ==
  ASSUME DtInv, DtNext, dtOpt.plugin = "xkb"
  PROVE  \/ \E i \in DtItems \cup {0} : Select(i)
         \/ \E i \in DtItems : ChangeValue(i)
         \/ SetNames \/ ConnectXkb \/ XFails \/ QueryNames \/ QueryGroup
         \/ KeyboardCall \/ KeyboardEvent \/ DtWakeUp
BY DEF DtInv, DtShape, DtNext, DtIs, XkbPcs, PulseServer, ConnectXtitle, ConnectPulse,
       ConnectAlsa, IterationEnds, Sleep, PulseReceive, PulseWoken, AlsaCall, AlsaWoken,
       AlsaTimesOut, InitialWindow, Watch, TitleCall, TitleChanged

LEMMA PulseSteps ==
  ASSUME DtInv, DtNext, dtOpt.plugin = "pulse"
  PROVE  \/ \E i \in DtItems : Select(i)
         \/ \E i \in DtItems : ChangeValue(i)
         \/ PulseServer \/ ConnectPulse \/ IterationEnds \/ Sleep
         \/ PulseReceive \/ PulseWoken \/ DtWakeUp
BY DEF DtNext, DtIs, SetNames, ConnectXtitle, ConnectXkb, ConnectAlsa, XFails, Select,
       InitialWindow, Watch, TitleCall, TitleChanged, AlsaCall, AlsaWoken,
       AlsaTimesOut, QueryNames, QueryGroup, KeyboardCall, KeyboardEvent

LEMMA AlsaSteps ==
  ASSUME DtInv, DtNext, dtOpt.plugin = "alsa"
  PROVE  \/ \E i \in DtItems : ChangeValue(i)
         \/ ConnectAlsa \/ IterationEnds \/ Sleep
         \/ AlsaCall \/ AlsaWoken \/ AlsaTimesOut \/ DtWakeUp
BY DEF DtInv, DtShape, DtNext, DtIs, SetNames, PulseServer, ConnectXtitle, ConnectXkb,
       ConnectPulse, XFails, Select, InitialWindow, Watch, TitleCall, TitleChanged, PulseReceive,
       PulseWoken, QueryNames, QueryGroup, KeyboardCall, KeyboardEvent
-----------------------------------------------------------------------------
(* Where the thread is.                                                    *)

LEMMA DtShapeStep == DtInv /\ [DtNext]_dtvars => DtShape'
<1> SUFFICES ASSUME DtInv, [DtNext]_dtvars PROVE DtShape'
  OBVIOUS
<1>t. /\ dtOpt \in DtOptions /\ dt \in Threads /\ dtSrv \in Servers /\ DtShape
      /\ Chan \in Seq(Messages) /\ DtItems \subseteq Nat \ {0} /\ Cur = -1
      /\ dt.last \in DtItems \cup {0}
  BY DtAssumption DEF DtInv, DtTypeOK, Servers, Threads, Chan, Cur
<1>e. ASSUME NEW m \in Messages, dtOpt.plugin # "pulse" => m.type = "event",
             Chan' = Append(Chan, m), dtOpt' = dtOpt
      PROVE  dtOpt'.plugin # "pulse" => (\A k \in 1..Len(Chan) : IsEvent(k))'
  <2>1. /\ Len(Chan) \in Nat /\ Len(Chan') = Len(Chan) + 1
        /\ \A k \in 1..Len(Chan) : Chan'[k] = Chan[k]
        /\ Chan'[Len(Chan) + 1] = m
    BY <1>e, <1>t, Grows
  <2> QED BY <1>e, <2>1, <1>t DEF DtShape, IsEvent
<1>r. ASSUME Chan # <<>>, Chan' = Tail(Chan), dtOpt' = dtOpt
      PROVE  dtOpt'.plugin # "pulse" => (\A k \in 1..Len(Chan) : IsEvent(k))'
  <2>1. \A k \in 1..Len(Chan') : Chan'[k] = Chan[k + 1] /\ k + 1 \in 1..Len(Chan)
    BY <1>r, <1>t, Shrinks
  <2> QED BY <1>r, <2>1, <1>t DEF DtShape, IsEvent
<1>u. ASSUME Chan' = Chan, dtOpt' = dtOpt
      PROVE  dtOpt'.plugin # "pulse" => (\A k \in 1..Len(Chan) : IsEvent(k))'
  BY <1>u, <1>t DEF DtShape, IsEvent
<1>z. ASSUME Chan' = <<>> PROVE (\A k \in 1..Len(Chan) : IsEvent(k))'
  BY <1>z, EmptySeq
<1>1. ASSUME NEW i \in DtItems \cup {0}, Select(i) PROVE DtShape'
  <2> DEFINE e == ChangeEvent(Cur, i)
  <2>1. e.type = "event"
    BY DEF ChangeEvent
  <2> HIDE DEF e
  <2>2. /\ UNCHANGED <<dtOpt, dt>> /\ dtSrv'.cur = i /\ (i = 0 => dtOpt.plugin = "xtitle")
        /\ dtSrv'.watched = dtSrv.watched /\ dtSrv'.req = dtSrv.req /\ e \in Messages
        /\ Cur \in dtSrv.watched => Chan' = Append(Chan, e)
        /\ Cur \notin dtSrv.watched => Chan' = Chan
    BY <1>1, SelectFields DEF e
  <2>3. dtOpt'.plugin # "pulse" => (\A k \in 1..Len(Chan) : IsEvent(k))'
    BY <2>1, <2>2, <1>e, <1>u
  <2> QED BY <2>2, <2>3, <1>t DEF DtShape
<1>2. ASSUME NEW i \in DtItems, ChangeValue(i) PROVE DtShape'
  <2> DEFINE e == ChangeEvent(i, i)
  <2>1. e.type = "event"
    BY DEF ChangeEvent
  <2> HIDE DEF e
  <2>2. /\ UNCHANGED <<dtOpt, dt>> /\ dtSrv'.cur = dtSrv.cur
        /\ dtSrv'.watched = dtSrv.watched /\ dtSrv'.req = dtSrv.req /\ e \in Messages
        /\ i \in dtSrv.watched => Chan' = Append(Chan, e)
        /\ i \notin dtSrv.watched => Chan' = Chan
    BY <1>2, ChangeValueFields DEF e
  <2>3. dtOpt'.plugin # "pulse" => (\A k \in 1..Len(Chan) : IsEvent(k))'
    BY <2>1, <2>2, <1>e, <1>u
  <2> QED BY <2>2, <2>3, <1>t DEF DtShape
<1>3. CASE SetNames
  BY <1>3, <1>t, <1>u DEF SetNames, DtShape, Chan, Servers
<1>4. CASE PulseServer
  BY <1>4, <1>t DEF PulseServer, DtShape, PulsePcs, Servers
<1>5. CASE DtWakeUp
  BY <1>5, <1>t, <1>u DEF DtWakeUp, DtShape, Chan, Servers
<1>6. CASE ConnectXtitle
  BY <1>6, <1>t, <1>u DEF ConnectXtitle, DtShape, Chan, Fresh, DtIs, XtitlePcs, Threads
<1>7. CASE ConnectXkb
  BY <1>7, <1>t, <1>u DEF ConnectXkb, DtShape, Chan, Fresh, DtIs, XkbPcs, Threads, Servers
<1>8. CASE ConnectPulse
  BY <1>8, <1>t, <1>u DEF ConnectPulse, DtShape, Chan, Fresh, DtIs, PulsePcs, Threads, Servers, Request
<1>9. CASE ConnectAlsa
  BY <1>9, <1>t, <1>u DEF ConnectAlsa, DtShape, Chan, Fresh, DtIs, AlsaPcs, Threads, Servers
<1>10. CASE XFails
  BY <1>10, <1>t, <1>z DEF XFails, Disconnected, DtShape, Chan, XtitlePcs, XkbPcs, Threads, Servers
<1>11. CASE IterationEnds
  BY <1>11, <1>t, <1>z DEF IterationEnds, Disconnected, DtShape, Chan, PulsePcs, AlsaPcs, Threads, Servers
<1>12. CASE Sleep
  BY <1>12, <1>t, <1>u DEF Sleep, DtGoto, DtShape, Chan, PulsePcs, AlsaPcs, XtitlePcs, XkbPcs, Threads
<1>13. CASE InitialWindow
  BY <1>13, <1>t, <1>u DEF InitialWindow, DtShape, Chan, DtIs, XtitlePcs, Threads
<1>14. CASE Watch
  BY <1>14, <1>t, <1>u, SMTT(20) DEF Watch, DtShape, Chan, DtIs, XtitlePcs, Threads, Servers
<1>15. CASE TitleCall
  BY <1>15, <1>t, <1>u DEF TitleCall, DtShape, Chan, DtIs, XtitlePcs, Threads
<1>16. CASE TitleChanged
  <2>1. Chan # <<>> /\ Chan' = Tail(Chan) /\ dtOpt' = dtOpt /\ dtOpt.plugin = "xtitle" /\ dt.pc = "wait"
    BY <1>16, <1>t DEF TitleChanged, Chan, DtIs, Servers
  <2>2. dt'.pc \in {"watch", "title", "wait"}
    BY <1>16, <2>1, <1>t DEF TitleChanged, Threads
  <2>3. /\ dtSrv'.cur = dtSrv.cur /\ dtSrv'.req = dtSrv.req
        /\ dtSrv'.watched \in {dtSrv.watched, dtSrv.watched \ {dt.last}}
    BY <1>16, <1>t DEF TitleChanged, Servers
  <2> QED BY <2>1, <2>2, <2>3, <1>t, <1>r DEF DtShape, XtitlePcs
<1>17. CASE PulseReceive
  <2>1. dt'.pc = "wait" /\ dtOpt' = dtOpt /\ dtOpt.plugin = "pulse"
    BY <1>17, <1>t DEF PulseReceive, DtIs, Threads
  <2>2. dtSrv'.cur = dtSrv.cur /\ dtSrv'.watched = dtSrv.watched
    BY <1>17, <1>t DEF PulseReceive, Request, Servers
  <2> QED BY <2>1, <2>2, <1>t DEF DtShape, PulsePcs
<1>18. CASE PulseWoken
  BY <1>18, <1>t DEF PulseWoken, DtShape, DtIs, Servers
<1>19. CASE AlsaCall
  BY <1>19, <1>t, <1>u DEF AlsaCall, DtShape, Chan, DtIs, AlsaPcs, Threads
<1>20. CASE AlsaWoken
  BY <1>20, <1>t, <1>z DEF AlsaWoken, DtShape, Chan, DtIs, AlsaPcs, Threads, Servers
<1>21. CASE AlsaTimesOut
  BY <1>21, <1>t, <1>u DEF AlsaTimesOut, DtShape, Chan, DtIs, AlsaPcs, Threads
<1>22. CASE QueryNames
  <2>1. dt'.pc \in {"state", "call"} /\ UNCHANGED <<dtOpt, dtSrv>> /\ dtOpt.plugin = "xkb"
    BY <1>22, <1>t DEF QueryNames, Threads
  <2> QED BY <2>1, <1>t, <1>u DEF DtShape, Chan, XkbPcs
<1>23. CASE QueryGroup
  BY <1>23, <1>t, <1>u DEF QueryGroup, DtShape, Chan, DtIs, XkbPcs, Threads
<1>24. CASE KeyboardCall
  BY <1>24, <1>t, <1>u DEF KeyboardCall, DtShape, Chan, DtIs, XkbPcs, Threads
<1>25. CASE KeyboardEvent
  <2>1. Chan # <<>> /\ Chan' = Tail(Chan) /\ dtOpt' = dtOpt /\ dtOpt.plugin = "xkb" /\ dt.pc = "wait"
    BY <1>25, <1>t DEF KeyboardEvent, Chan, DtIs, Servers
  <2>2. dt'.pc \in {"call", "query"}
    BY <1>25, <1>t DEF KeyboardEvent, Threads
  <2>3. dtSrv'.cur = dtSrv.cur /\ dtSrv'.req = dtSrv.req /\ dtSrv'.watched = dtSrv.watched
    BY <1>25, <1>t DEF KeyboardEvent, Servers
  <2> QED BY <2>1, <2>2, <2>3, <1>t, <1>r DEF DtShape, XkbPcs
<1>26. CASE UNCHANGED dtvars
  BY <1>26, <1>t, <1>u DEF dtvars, DtShape, Chan
<1> QED
  BY <1>1, <1>2, <1>3, <1>4, <1>5, <1>6, <1>7, <1>8, <1>9, <1>10, <1>11, <1>12, <1>13, <1>14, <1>15,
     <1>16, <1>17, <1>18, <1>19, <1>20, <1>21, <1>22, <1>23, <1>24, <1>25, <1>26 DEF DtNext
LEMMA DtOptStays ==
  ASSUME DtInv, [DtNext]_dtvars
  PROVE  dtOpt' = dtOpt
BY SelectFields, ChangeValueFields DEF dtvars, DtNext, SetNames, PulseServer, DtWakeUp,
   ConnectXtitle, ConnectXkb, ConnectPulse, ConnectAlsa, XFails, IterationEnds, Disconnected,
   Sleep, DtGoto, InitialWindow, Watch, TitleCall, TitleChanged, PulseReceive, PulseWoken,
   AlsaCall, AlsaWoken, AlsaTimesOut, QueryNames, QueryGroup, KeyboardCall, KeyboardEvent

-----------------------------------------------------------------------------
(* xtitle                                                                  *)

LEMMA XtitleStep == DtInv /\ [DtNext]_dtvars => XtitleInv'
<1> SUFFICES ASSUME DtInv, [DtNext]_dtvars, dtOpt'.plugin = "xtitle", ~dtSrv'.missed
             PROVE  (XtitleStarts /\ XtitleWindow /\ XtitleTold)'
  BY DEF XtitleInv
<1>t. /\ dt \in Threads /\ dtSrv \in Servers /\ DtShape
      /\ Chan \in Seq(Messages) /\ DtItems \subseteq Nat \ {0} /\ Cur = -1 /\ Cur \notin DtItems
      /\ dt.last \in DtItems \cup {0} /\ dt.item \in DtItems \cup {0}
      /\ dtSrv.cur \in DtItems \cup {0}
  BY DtAssumption DEF DtInv, DtTypeOK, Servers, Threads, Chan, Cur
<1>i. dtOpt.plugin = "xtitle" /\ ~dtSrv.missed => XtitleStarts /\ XtitleWindow /\ XtitleTold
  BY DEF DtInv, XtitleInv
<1> USE DEF XtitleStarts, XtitleWindow, XtitleTold, Unwatched
<1>1. ASSUME NEW i \in DtItems \cup {0}, Select(i) PROVE (XtitleStarts /\ XtitleWindow /\ XtitleTold)'
  <2> DEFINE e == ChangeEvent(Cur, i)
  <2>1. e.type = "event" /\ e.what = Cur
    BY DEF ChangeEvent
  <2> HIDE DEF e
  <2>2. /\ UNCHANGED <<dtOpt, dt>> /\ dt.pc # "returned"
        /\ dtSrv'.watched = dtSrv.watched /\ e \in Messages
        /\ ~dtSrv.missed /\ (Connected => Cur \in dtSrv.watched)
        /\ Cur \in dtSrv.watched => Chan' = Append(Chan, e)
        /\ Cur \notin dtSrv.watched => Chan' = Chan
    BY <1>1, SelectFields DEF e
  <2>3. CASE Cur \in dtSrv.watched
    <3>1. Pending(Cur)' /\ Chan' # <<>>
      BY <2>1, <2>2, <2>3, <1>t, Grows
    <3> QED BY <3>1, <2>2, <2>3, <1>i
  <2>4. CASE Cur \notin dtSrv.watched
    <3>1. dt.pc = "start"
      BY <2>2, <2>4, <1>t DEF Connected, DtShape, XtitlePcs
    <3> QED BY <3>1, <2>2, <2>4, <1>i
  <2> QED BY <2>3, <2>4
<1>2. ASSUME NEW i \in DtItems, ChangeValue(i) PROVE (XtitleStarts /\ XtitleWindow /\ XtitleTold)'
  <2> DEFINE e == ChangeEvent(i, i)
  <2>1. e.type = "event" /\ e.what = i
    BY DEF ChangeEvent
  <2> HIDE DEF e
  <2>2. /\ UNCHANGED <<dtOpt, dt>> /\ dt.pc # "returned" /\ dtSrv'.cur = dtSrv.cur
        /\ \A j \in DtItems \ {i} : dtSrv'.val[j] = dtSrv.val[j]
        /\ dtSrv'.watched = dtSrv.watched /\ e \in Messages
        /\ ~dtSrv.missed /\ (Connected => Cur \in dtSrv.watched)
        /\ i \in dtSrv.watched => Chan' = Append(Chan, e)
        /\ i \notin dtSrv.watched => Chan' = Chan
    BY <1>2, ChangeValueFields DEF e
  <2>3. CASE i \in dtSrv.watched
    <3>1. Pending(i)' /\ Chan' # <<>> /\ \A w : Pending(w) => Pending(w)'
      BY <2>1, <2>2, <2>3, <1>t, Grows
    <3> QED BY <3>1, <2>2, <2>3, <1>i, <1>t DEF DtShape
  <2>4. CASE i \notin dtSrv.watched
    <3>1. \A w : Pending(w) <=> Pending(w)'
      BY <2>2, <2>4, Steady
    <3>2. CASE Cur \in dtSrv.watched
      BY <3>1, <3>2, <2>2, <2>4, <1>i, <1>t
    <3>3. CASE Cur \notin dtSrv.watched
      <4>1. dt.pc = "start"
        BY <2>2, <3>3, <1>t DEF Connected, DtShape, XtitlePcs
      <4> QED BY <4>1, <3>1, <2>2, <2>4, <1>i
    <3> QED BY <3>2, <3>3
  <2> QED BY <2>3, <2>4
<1>s. ASSUME dtSrv' = dtSrv PROVE Chan' = Chan /\ \A w : Pending(w) <=> Pending(w)'
  BY <1>s, Steady DEF Chan
<1>3. CASE ConnectXtitle
  BY <1>3, <1>i, <1>t DEF ConnectXtitle, Fresh, DtIs, Threads, Chan
<1>4. CASE XFails
  BY <1>4, <1>t DEF XFails, Disconnected, Chan, Threads, Servers
<1>5. CASE InitialWindow
  <2>1. /\ dt.pc = "initial" /\ UNCHANGED <<dtOpt, dtSrv>>
        /\ dt'.item = dtSrv.cur /\ dt'.told = dt.told
        /\ dt'.pc = IF dtSrv.cur = 0 THEN "watch" ELSE "title"
    BY <1>5, <1>t DEF InitialWindow, DtIs, Threads
  <2>2. dt.told = NoPair
    BY <2>1, <1>i
  <2>3. dt'.told.item = 0 /\ dt'.told.val = 0
    BY <2>1, <2>2 DEF NoPair
  <2> QED BY <2>1, <2>3, <1>s, <1>i, <1>t
<1>6. CASE Watch
  <2>1. /\ dt.pc = "watch" /\ dtOpt' = dtOpt /\ Chan' = Chan /\ dtSrv'.missed = dtSrv.missed
        /\ dtSrv'.cur = dtSrv.cur /\ dtSrv'.val = dtSrv.val
        /\ dtSrv'.watched = (dtSrv.watched \cup {Cur, dt.item}) \ {0}
        /\ dt'.pc = IF Cur \in dtSrv.watched THEN "title" ELSE "wait"
        /\ dt'.item = dt.item /\ dt'.told = dt.told
    BY <1>6, <1>t DEF Watch, DtIs, Chan, Threads, Servers
  <2>2. \A w : Pending(w) <=> Pending(w)'
    BY <2>1, Steady
  <2> QED BY <2>1, <2>2, <1>i, <1>t
<1>7. CASE TitleCall
  <2>1. /\ dt.pc = "title" /\ UNCHANGED <<dtOpt, dtSrv>>
        /\ dt'.pc = IF Cur \in dtSrv.watched THEN "wait" ELSE "watch"
        /\ dt'.item = dt.item
        /\ dt.item = 0 => dt'.told = NoPair
        /\ dt.item # 0 => dt'.told = [item |-> dt.item, val |-> dtSrv.val[dt.item]]
    BY <1>7, <1>t DEF TitleCall, DtIs, Threads
  <2>2. dt'.told.item = dt.item /\ (dt.item = 0 => dt'.told.val = 0)
        /\ (dt.item # 0 => dt'.told.val = dtSrv.val[dt.item])
    BY <2>1 DEF NoPair
  <2> QED BY <2>1, <2>2, <1>s, <1>i, <1>t
<1>8. CASE TitleChanged
  <2> DEFINE e == Head(Chan)
  <2>1. /\ dt.pc = "wait" /\ dtOpt' = dtOpt /\ Chan # <<>> /\ Chan' = Tail(Chan)
        /\ dtSrv'.cur = dtSrv.cur /\ dtSrv'.val = dtSrv.val /\ dtSrv'.missed = dtSrv.missed
        /\ dtSrv'.watched = IF e.what = Cur THEN dtSrv.watched \ {dt.last} ELSE dtSrv.watched
    BY <1>8, <1>t DEF TitleChanged, DtIs, Chan, Servers
  <2>2. \A w : Pending(w) /\ ~(e.type = "event" /\ e.what = w) => Pending(w)'
    BY <2>1, <1>t, Shrinks
  <2>3. CASE e.what = Cur
    <3>1. dt'.item = dtSrv.cur /\ dt'.pc = "watch" /\ dt'.told = dt.told
      BY <1>8, <2>3, <1>t, SMTT(20) DEF TitleChanged, Chan, Threads
    <3> QED BY <3>1, <2>1, <2>3, <1>i, <1>t
  <2>4. CASE e.what # Cur /\ e.what = dt.item
    <3>1. dt'.item = dt.item /\ dt'.pc = "title" /\ dt'.told = dt.told
      BY <1>8, <2>4, <1>t DEF TitleChanged, Chan, Threads
    <3> QED BY <3>1, <2>1, <2>2, <2>4, <1>i, <1>t
  <2>5. CASE e.what # Cur /\ e.what # dt.item
    <3>1. dt' = dt
      BY <1>8, <2>5 DEF TitleChanged, Chan
    <3> QED BY <3>1, <2>1, <2>2, <2>5, <1>i, <1>t
  <2> QED BY <2>3, <2>4, <2>5
<1>9. CASE DtWakeUp
  <2>1. UNCHANGED <<dtOpt, dt, Chan, dtSrv.cur, dtSrv.val, dtSrv.missed, dtSrv.watched>>
    BY <1>9, <1>t DEF DtWakeUp, Chan, Servers
  <2>2. \A w : Pending(w) <=> Pending(w)'
    BY <2>1, Steady
  <2> QED BY <2>1, <2>2, <1>i
<1>10. CASE UNCHANGED dtvars
  BY <1>10, <1>s, <1>i DEF dtvars
<1>11. dtOpt.plugin = "xtitle"
  BY DtOptStays
<1> QED BY <1>1, <1>2, <1>3, <1>4, <1>5, <1>6, <1>7, <1>8, <1>9, <1>10, <1>11, XtitleSteps
-----------------------------------------------------------------------------
(* alsa                                                                    *)

AlsaKnows ==
  /\ dt.pc \in {"call", "wait"} =>
       /\ dtSrv.watched = DtItems \cup {Cur}
       /\ dt.item = dtSrv.cur
       /\ Chan = <<>> => dt.names = dtSrv.val
  /\ dt.pc = "wait" \/ (dt.pc = "call" /\ dt.timeout) =>
       dt.told = [item |-> dt.item, val |-> dt.names[dt.item]]

LEMMA AlsaStep == DtInv /\ [DtNext]_dtvars => AlsaInv'
<1> SUFFICES ASSUME DtInv, [DtNext]_dtvars, dtOpt'.plugin = "alsa" PROVE AlsaKnows'
  BY DEF AlsaInv, AlsaKnows
<1>o. dtOpt.plugin = "alsa"
  BY DtOptStays
<1>i. AlsaKnows
  BY <1>o DEF DtInv, AlsaInv, AlsaKnows
<1>t. /\ dt \in Threads /\ dtSrv \in Servers /\ DtShape /\ Chan \in Seq(Messages)
  BY DEF DtInv, DtTypeOK, Servers, Chan
<1>1. ASSUME NEW i \in DtItems, ChangeValue(i) PROVE AlsaKnows'
  <2> DEFINE e == ChangeEvent(i, i)
  <2>1. /\ UNCHANGED dt /\ dtSrv'.cur = dtSrv.cur
        /\ dtSrv'.watched = dtSrv.watched /\ e \in Messages
        /\ i \in dtSrv.watched => Chan' = Append(Chan, e)
    BY <1>1, ChangeValueFields
  <2> HIDE DEF e
  <2>2. i \in dtSrv.watched => Chan' # <<>>
    BY <2>1, <1>t, Grows
  <2> QED BY <2>1, <2>2, <1>i DEF AlsaKnows
<1>2. CASE ConnectAlsa
  <2>1. /\ dt'.pc = "call" /\ dt'.item = dtSrv.cur /\ dt'.names = dtSrv.val /\ ~dt'.timeout
        /\ dtSrv'.watched = DtItems \cup {Cur} /\ dtSrv'.cur = dtSrv.cur /\ dtSrv'.val = dtSrv.val
    BY <1>2, <1>t DEF ConnectAlsa, Fresh, Threads, Servers
  <2> QED BY <2>1 DEF AlsaKnows
<1>3. CASE IterationEnds
  BY <1>3, <1>t DEF IterationEnds, Threads, AlsaKnows
<1>4. CASE Sleep
  BY <1>4, <1>t DEF Sleep, DtGoto, Threads, AlsaKnows
<1>5. CASE AlsaCall
  <2>1. /\ dt.pc = "call" /\ dt'.pc = "wait" /\ dt'.item = dt.item /\ dt'.names = dt.names
        /\ dtSrv' = dtSrv
        /\ dt'.told = IF dt.timeout THEN dt.told
                      ELSE [item |-> dt.item, val |-> dt.names[dt.item]]
    BY <1>5, <1>t DEF AlsaCall, DtIs, Threads
  <2> QED BY <2>1, <1>i DEF AlsaKnows, Chan
<1>6. CASE AlsaWoken
  <2>1. /\ dt.pc = "wait" /\ dt'.pc = "call" /\ ~dt'.timeout /\ dt'.item = dt.item
        /\ dt'.names = IF Chan # <<>> THEN dtSrv.val ELSE dt.names
        /\ dtSrv'.watched = dtSrv.watched /\ dtSrv'.cur = dtSrv.cur /\ dtSrv'.val = dtSrv.val
    BY <1>6, <1>t DEF AlsaWoken, DtIs, Threads, Servers, Chan
  <2> QED BY <2>1, <1>i DEF AlsaKnows
<1>7. CASE AlsaTimesOut
  <2>1. /\ dt.pc = "wait" /\ dt'.pc = "call" /\ dt'.item = dt.item
        /\ dt'.names = dt.names /\ dt'.told = dt.told /\ dtSrv' = dtSrv
    BY <1>7, <1>t DEF AlsaTimesOut, DtIs, Threads
  <2> QED BY <2>1, <1>i DEF AlsaKnows, Chan
<1>8. CASE DtWakeUp
  <2>1. UNCHANGED <<dt, Chan, dtSrv.cur, dtSrv.val, dtSrv.watched>>
    BY <1>8, <1>t DEF DtWakeUp, Chan, Servers
  <2> QED BY <2>1, <1>i DEF AlsaKnows
<1>9. CASE UNCHANGED dtvars
  BY <1>9, <1>i DEF dtvars, AlsaKnows, Chan
<1> QED BY <1>o, <1>1, <1>2, <1>3, <1>4, <1>5, <1>6, <1>7, <1>8, <1>9, AlsaSteps

-----------------------------------------------------------------------------
(* xkb                                                                     *)

LEMMA XkbStep == DtInv /\ [DtNext]_dtvars => XkbInv'
<1> SUFFICES ASSUME DtInv, [DtNext]_dtvars, dtOpt'.plugin = "xkb"
             PROVE  (XkbEvents /\ XkbGroup /\ XkbNames /\ XkbTold)'
  BY DEF XkbInv
<1>o. dtOpt.plugin = "xkb" /\ dtOpt' = dtOpt
  BY DtOptStays
<1>i. XkbEvents /\ XkbGroup /\ XkbNames /\ XkbTold
  BY <1>o DEF DtInv, XkbInv
<1>t. /\ dt \in Threads /\ dtSrv \in Servers /\ DtShape
      /\ Chan \in Seq(Messages) /\ DtItems \subseteq Nat \ {0} /\ Cur = -1 /\ Cur \notin DtItems
      /\ dtSrv.cur \in DtItems /\ dt.item \in DtItems \cup {0}
  BY DtAssumption, <1>o DEF DtInv, DtTypeOK, Servers, Threads, Chan, Cur, DtShape
<1> USE DEF XkbEvents, XkbGroup, XkbNames, XkbTold
<1>1. ASSUME NEW i \in DtItems \cup {0}, Select(i) PROVE (XkbEvents /\ XkbGroup /\ XkbNames /\ XkbTold)'
  <2> DEFINE e == ChangeEvent(Cur, i)
  <2>1. e.type = "event" /\ e.what = Cur /\ e.item = i
    BY DEF ChangeEvent
  <2> HIDE DEF e
  <2>2. /\ UNCHANGED <<dtOpt, dt>> /\ dt.pc # "returned" /\ dtSrv'.cur = i /\ i # 0
        /\ dtSrv'.watched = dtSrv.watched /\ e \in Messages /\ dtSrv'.val = dtSrv.val
        /\ Cur \in dtSrv.watched => Chan' = Append(Chan, e)
        /\ Cur \notin dtSrv.watched => Chan' = Chan
    BY <1>1, <1>o, SelectFields DEF e
  <2>3. CASE Cur \in dtSrv.watched
    <3>1. /\ Pending(Cur)' /\ \A w : Pending(w) => Pending(w)'
          /\ Len(Chan) \in Nat /\ Len(Chan') = Len(Chan) + 1
          /\ \A k \in 1..Len(Chan) : Chan'[k] = Chan[k]
          /\ Chan'[Len(Chan) + 1] = e
      BY <2>1, <2>2, <2>3, <1>t, Grows
    <3>2. ASSUME NEW k \in 1..Len(Chan'), Chan'[k].what = Cur
          PROVE  /\ Chan'[k].item \in DtItems
                 /\ Chan'[k].item = dtSrv'.cur \/ \E j \in k + 1..Len(Chan') : Chan'[j].what = Cur
      <4>1. CASE k = Len(Chan) + 1
        BY <4>1, <3>1, <2>1, <2>2
      <4>2. CASE k # Len(Chan) + 1
        <5>1. k \in 1..Len(Chan) /\ Len(Chan) + 1 \in k + 1..Len(Chan')
          BY <4>2, <3>1
        <5> QED BY <5>1, <3>1, <3>2, <2>1, <1>i
      <4> QED BY <4>1, <4>2
    <3> QED BY <3>1, <3>2, <2>2, <1>i
  <2>4. CASE Cur \notin dtSrv.watched
    <3>1. dt.pc = "start" /\ Chan = <<>>
      BY <2>2, <2>4, <1>i, <1>o, <1>t DEF DtShape, XkbPcs
    <3> QED BY <3>1, <2>2, <2>4, EmptySeq
  <2> QED BY <2>3, <2>4
<1>2. ASSUME NEW i \in DtItems, ChangeValue(i) PROVE (XkbEvents /\ XkbGroup /\ XkbNames /\ XkbTold)'
  <2> DEFINE e == ChangeEvent(i, i)
  <2>1. e.type = "event" /\ e.what = i
    BY DEF ChangeEvent
  <2> HIDE DEF e
  <2>2. /\ UNCHANGED <<dtOpt, dt>> /\ dt.pc # "returned" /\ dtSrv'.cur = dtSrv.cur
        /\ \A j \in DtItems \ {i} : dtSrv'.val[j] = dtSrv.val[j]
        /\ dtSrv'.watched = dtSrv.watched /\ e \in Messages
        /\ i \in dtSrv.watched => Chan' = Append(Chan, e)
        /\ i \notin dtSrv.watched => Chan' = Chan
    BY <1>2, ChangeValueFields DEF e
  <2>3. CASE i \in dtSrv.watched
    <3>1. /\ Pending(i)' /\ \A w : Pending(w) => Pending(w)'
          /\ Len(Chan) \in Nat /\ Len(Chan') = Len(Chan) + 1
          /\ \A k \in 1..Len(Chan) : Chan'[k] = Chan[k]
          /\ Chan'[Len(Chan) + 1] = e
      BY <2>1, <2>2, <2>3, <1>t, Grows
    <3>2. ASSUME NEW k \in 1..Len(Chan'), Chan'[k].what = Cur
          PROVE  /\ Chan'[k].item \in DtItems
                 /\ Chan'[k].item = dtSrv'.cur \/ \E j \in k + 1..Len(Chan') : Chan'[j].what = Cur
      <4>1. k \in 1..Len(Chan)
        BY <3>1, <3>2, <2>1, <1>t
      <4>2. Chan[k].what = Cur /\ Chan[k].item = Chan'[k].item
        BY <4>1, <3>1, <3>2
      <4>3. ASSUME NEW j \in k + 1..Len(Chan), Chan[j].what = Cur
            PROVE  j \in k + 1..Len(Chan') /\ Chan'[j].what = Cur
        BY <4>3, <4>1, <3>1
      <4> QED BY <4>1, <4>2, <4>3, <2>2, <1>i
    <3> QED BY <3>1, <3>2, <2>2, <1>i
  <2>4. CASE i \notin dtSrv.watched
    <3>1. dt.pc = "start" /\ Chan = <<>>
      BY <2>2, <2>4, <1>i, <1>o, <1>t DEF DtShape, XkbPcs
    <3> QED BY <3>1, <2>2, <2>4, EmptySeq
  <2> QED BY <2>3, <2>4
<1>s. ASSUME Chan' = Chan, dtSrv'.cur = dtSrv.cur
      PROVE  /\ \A w : Pending(w) <=> Pending(w)'
             /\ \A k \in 1..Len(Chan') : Chan'[k].what = Cur =>
                  /\ Chan'[k].item \in DtItems
                  /\ Chan'[k].item = dtSrv'.cur \/ \E j \in k + 1..Len(Chan') : Chan'[j].what = Cur
  <2>1. \A w : Pending(w) <=> Pending(w)'
    BY <1>s, Steady
  <2> QED BY <1>s, <2>1, <1>i
<1>3. CASE SetNames
  <2>1. UNCHANGED <<dt, Chan, dtSrv.cur, dtSrv.val, dtSrv.watched>>
    BY <1>3, <1>t DEF SetNames, Chan, Servers
  <2> QED BY <2>1, <1>s, <1>o, <1>i
<1>4. CASE ConnectXkb
  <2>1. dt'.pc = "query" /\ dtSrv'.watched = DtItems \cup {Cur} /\ Chan' = Chan /\ dtSrv'.cur = dtSrv.cur
    BY <1>4, <1>t DEF ConnectXkb, Fresh, Threads, Servers, Chan
  <2> QED BY <2>1, <1>s
<1>5. CASE XFails
  <2>1. dt'.pc = "returned" /\ Chan' = <<>>
    BY <1>5, <1>t DEF XFails, Disconnected, Threads, Servers, Chan
  <2> QED BY <2>1, EmptySeq
<1>6. CASE QueryNames
  <2>1. PICK names \in {Unset, IF dtOpt.somehow THEN dtSrv.val ELSE dtSrv.prop} :
          dt' = [dt EXCEPT !.names = names, !.pc = IF dt.pc = "query" THEN "state" ELSE "call"]
    BY <1>6 DEF QueryNames
  <2>2. /\ dt.pc \in {"query", "again"} /\ UNCHANGED dtSrv /\ dt'.names = names
        /\ dt'.pc = (IF dt.pc = "query" THEN "state" ELSE "call") /\ dt'.item = dt.item
    BY <1>6, <2>1, <1>t DEF QueryNames, Threads
  <2>3. dtOpt.somehow => \A i \in DtItems : names[i] = 0 \/ names[i] = dtSrv.val[i]
    BY DEF Unset
  <2>4. Chan' = Chan
    BY <2>2 DEF Chan
  <2> QED BY <2>2, <2>3, <2>4, <1>s, <1>o, <1>i
<1>7. CASE QueryGroup
  <2>1. /\ dt.pc = "state" /\ UNCHANGED dtSrv /\ dt'.names = dt.names /\ dt'.item = dtSrv.cur
        /\ dt'.pc \in {"again", "call"} /\ Chan' = Chan
    BY <1>7, <1>t DEF QueryGroup, DtIs, Threads, Chan
  <2> QED BY <2>1, <1>s, <1>o, <1>i, <1>t
<1>8. CASE KeyboardCall
  <2>1. /\ dt.pc = "call" /\ UNCHANGED dtSrv /\ dt'.names = dt.names /\ dt'.item = dt.item
        /\ dt'.pc = "wait" /\ Chan' = Chan
        /\ dt'.told = [item |-> dt.item, val |-> dt.names[dt.item]]
    BY <1>8, <1>t DEF KeyboardCall, DtIs, Threads, Chan
  <2> QED BY <2>1, <1>s, <1>o, <1>i
<1>9. CASE KeyboardEvent
  <2> DEFINE e == Head(Chan)
  <2>1. /\ dt.pc = "wait" /\ Chan # <<>> /\ Chan' = Tail(Chan) /\ dt'.names = dt.names
        /\ dtSrv'.cur = dtSrv.cur /\ dtSrv'.val = dtSrv.val /\ dtSrv'.watched = dtSrv.watched
        /\ e.what = Cur => dt'.item = e.item /\ dt'.pc = "call"
        /\ e.what # Cur => dt'.pc = "query"
    BY <1>9, <1>t DEF KeyboardEvent, DtIs, Chan, Threads, Servers
  <2>2. /\ Head(Chan) = Chan[1] /\ 1 \in 1..Len(Chan) /\ Len(Chan') \in Nat
        /\ \A k \in 1..Len(Chan') : Chan'[k] = Chan[k + 1] /\ k + 1 \in 1..Len(Chan)
        /\ \A k \in 1..Len(Chan) : k # 1 => k - 1 \in 1..Len(Chan') /\ Chan'[k - 1] = Chan[k]
        /\ \A w : Pending(w) /\ ~(e.type = "event" /\ e.what = w) => Pending(w)'
    BY <2>1, <1>t, Shrinks
  <2>3. ASSUME NEW k \in 1..Len(Chan'), Chan'[k].what = Cur
        PROVE  /\ Chan'[k].item \in DtItems
               /\ Chan'[k].item = dtSrv'.cur \/ \E j \in k + 1..Len(Chan') : Chan'[j].what = Cur
    <3>1. /\ Chan[k + 1].item \in DtItems
          /\ Chan[k + 1].item = dtSrv.cur \/ \E j \in k + 2..Len(Chan) : Chan[j].what = Cur
      BY <2>2, <2>3, <1>i
    <3>2. ASSUME NEW j \in k + 2..Len(Chan), Chan[j].what = Cur
          PROVE  j - 1 \in k + 1..Len(Chan') /\ Chan'[j - 1].what = Cur
      BY <3>2, <2>2
    <3> QED BY <3>1, <3>2, <2>1, <2>2
  <2>4. e.what = Cur => e.item \in DtItems /\ (e.item = dtSrv.cur \/ Pending(Cur)')
    <3> SUFFICES ASSUME e.what = Cur, e.item # dtSrv.cur PROVE e.item \in DtItems /\ Pending(Cur)'
      BY <2>2, <1>i
    <3>1. e.item \in DtItems
      BY <2>2, <1>i
    <3>2. PICK j \in 2..Len(Chan) : Chan[j].what = Cur
      BY <2>2, <1>i
    <3>3. j - 1 \in 1..Len(Chan') /\ Chan'[j - 1] = Chan[j] /\ j \in 1..Len(Chan)
      BY <3>2, <2>2
    <3>4. IsEvent(j)
      BY <3>3, <1>t, <1>o DEF DtShape
    <3> QED BY <3>1, <3>2, <3>3, <3>4 DEF Pending, IsEvent
  <2>5. e.what = Cur => \A i \in DtItems : Pending(i) => Pending(i)'
    BY <2>2, <1>t
  <2> QED BY <2>1, <2>3, <2>4, <2>5, <1>o, <1>i
<1>10. CASE DtWakeUp
  <2>1. UNCHANGED <<dt, Chan, dtSrv.cur, dtSrv.val, dtSrv.watched>>
    BY <1>10, <1>t DEF DtWakeUp, Chan, Servers
  <2> QED BY <2>1, <1>s, <1>o, <1>i
<1>11. CASE UNCHANGED dtvars
  <2>1. UNCHANGED <<dt, Chan, dtSrv>>
    BY <1>11 DEF dtvars, Chan
  <2> QED BY <2>1, <1>s, <1>o, <1>i
<1> QED BY <1>o, <1>1, <1>2, <1>3, <1>4, <1>5, <1>6, <1>7, <1>8, <1>9, <1>10, <1>11, XkbSteps
-----------------------------------------------------------------------------
(* pulse                                                                   *)

LEMMA RequestAdded ==
  ASSUME NEW s \in Servers, NEW what, NEW i, dtSrv \in Servers, s.req = dtSrv.req,
         [what |-> what, item |-> i] \in Requests, dtSrv' = Request(s, what, i)
  PROVE  /\ dtSrv'.cur = s.cur /\ dtSrv'.val = s.val /\ dtSrv'.watched = s.watched
         /\ Chan' = s.chan /\ dtSrv'.missed = s.missed
         /\ \A w : Asked(w) => Asked(w)'
         /\ Asked(what)'
         /\ \A j : Wanted(j) => Wanted(j)'
         /\ what = "by_index" => Wanted(i)'
<1> DEFINE r == [what |-> what, item |-> i]
<1>1. dtSrv.req \in Seq(Requests) /\ r.what = what
  BY DEF Servers
<1>2. dtSrv'.req = Append(dtSrv.req, r)
  BY DEF Request, Servers
<1>3. /\ dtSrv'.cur = s.cur /\ dtSrv'.val = s.val /\ dtSrv'.watched = s.watched
      /\ Chan' = s.chan /\ dtSrv'.missed = s.missed
  BY DEF Request, Servers, Chan
<1> HIDE DEF r
<1>4. /\ Len(dtSrv.req) \in Nat /\ Len(dtSrv'.req) = Len(dtSrv.req) + 1
      /\ \A k \in 1..Len(dtSrv.req) : dtSrv'.req[k] = dtSrv.req[k]
      /\ dtSrv'.req[Len(dtSrv.req) + 1] = r
  BY <1>1, <1>2, Appended DEF r
<1>5. \A k \in 1..Len(dtSrv.req) : k \in 1..Len(dtSrv'.req) /\ dtSrv'.req[k] = dtSrv.req[k]
  BY <1>4
<1>6. Len(dtSrv.req) + 1 \in 1..Len(dtSrv'.req)
  BY <1>4
<1>7. (\A w : Asked(w) => Asked(w)') /\ (\A j : Wanted(j) => Wanted(j)')
  BY <1>5 DEF Asked, Wanted
<1>8. Asked(what)' /\ (what = "by_index" => Wanted(i)')
  BY <1>1, <1>4, <1>6 DEF Asked, Wanted, r
<1> QED BY <1>3, <1>7, <1>8

LEMMA RequestTaken ==
  ASSUME dtSrv \in Servers, dtSrv.req # <<>>, dtSrv'.req = Tail(dtSrv.req)
  PROVE  /\ Head(dtSrv.req) \in Requests
         /\ \A w : Asked(w) /\ Head(dtSrv.req).what # w => Asked(w)'
         /\ \A j : Wanted(j) /\ Head(dtSrv.req) # [what |-> "by_index", item |-> j] => Wanted(j)'
<1> DEFINE q == dtSrv.req
<1>1. q \in Seq(Requests)
  BY DEF Servers
<1>2. /\ Head(q) = q[1] /\ Head(q) \in Requests /\ Len(q) \in Nat \ {0}
      /\ Len(Tail(q)) = Len(q) - 1
      /\ \A k \in 1..Len(q) - 1 : Tail(q)[k] = q[k + 1]
  BY <1>1, Received
<1>3. ASSUME NEW k \in 1..Len(q), k # 1
      PROVE  k - 1 \in 1..Len(dtSrv'.req) /\ dtSrv'.req[k - 1] = q[k]
  <2>1. k - 1 \in 1..Len(q) - 1 /\ (k - 1) + 1 = k
    BY <1>2, <1>3
  <2> QED BY <2>1, <1>2
<1>4. ASSUME NEW w, Asked(w), Head(q).what # w PROVE Asked(w)'
  <2>1. PICK k \in 1..Len(q) : q[k].what = w
    BY <1>4 DEF Asked
  <2> QED BY <2>1, <1>2, <1>3, <1>4 DEF Asked
<1>5. ASSUME NEW j, Wanted(j), Head(q) # [what |-> "by_index", item |-> j] PROVE Wanted(j)'
  <2>1. PICK k \in 1..Len(q) : q[k] = [what |-> "by_index", item |-> j]
    BY <1>5 DEF Wanted
  <2> QED BY <2>1, <1>2, <1>3, <1>5 DEF Wanted
<1> QED BY <1>2, <1>4, <1>5

SinkKnown ==
  /\ \A k \in 1..Len(Chan) : IsAnswer(k, "by_name") =>
       \/ Chan[k].item = dtSrv.cur
       \/ \E j \in k + 1..Len(Chan) : IsAnswer(j, "by_name")
  /\ dt.pc = "wait" => dt.item = dtSrv.cur \/ Answered("by_name")

\* What PulseInv says of the channel, when a message is appended to it.
LEMMA PulseGrows ==
  ASSUME Chan \in Seq(Messages), NEW m \in Messages, Chan' = Append(Chan, m),
         PulseAnswers,
         \A i \in DtItems : dtSrv'.val[i] = dtSrv.val[i] \/ (m.type = "event" /\ m.what = i),
         m.type = "answer" => m.val = dtSrv'.val[m.item]
  PROVE  /\ PulseAnswers'
         /\ \A i : Volume(i) => Volume(i)'
         /\ m.type = "answer" /\ m.what = "by_index" => Volume(m.item)'
<1>1. /\ Len(Chan) \in Nat /\ Len(Chan') = Len(Chan) + 1
      /\ \A k \in 1..Len(Chan) : Chan'[k] = Chan[k] /\ k \in 1..Len(Chan')
      /\ Chan'[Len(Chan) + 1] = m /\ Len(Chan) + 1 \in 1..Len(Chan')
  BY Grows
<1>2. ASSUME NEW k \in 1..Len(Chan'), ~IsEvent(k)'
      PROVE  \/ Chan'[k].val = dtSrv'.val[Chan'[k].item]
             \/ \E j \in k + 1..Len(Chan') : IsEvent(j)' /\ Chan'[j].what = Chan'[k].item
  <2>1. CASE k = Len(Chan) + 1
    <3>1. m.type = "answer"
      BY <1>1, <1>2, <2>1 DEF IsEvent, Messages, Events, Answers
    <3> QED BY <1>1, <2>1, <3>1
  <2>2. CASE k # Len(Chan) + 1
    <3>1. k \in 1..Len(Chan) /\ Chan'[k] = Chan[k] /\ ~IsEvent(k) /\ Len(Chan) + 1 \in k + 1..Len(Chan')
      BY <1>1, <1>2, <2>2 DEF IsEvent
    <3>2. Chan[k].item \in DtItems
      BY <3>1 DEF IsEvent, Messages, Events, Answers
    <3>3. CASE Chan[k].val = dtSrv.val[Chan[k].item]
      BY <1>1, <3>1, <3>2, <3>3 DEF IsEvent
    <3>4. CASE Chan[k].val # dtSrv.val[Chan[k].item]
      <4>1. PICK j \in k + 1..Len(Chan) : IsEvent(j) /\ Chan[j].what = Chan[k].item
        BY <3>1, <3>4 DEF PulseAnswers
      <4>2. j \in k + 1..Len(Chan') /\ Chan'[j] = Chan[j]
        BY <4>1, <3>1, <1>1
      <4> QED BY <4>1, <4>2, <3>1 DEF IsEvent
    <3> QED BY <3>3, <3>4
  <2> QED BY <2>1, <2>2
<1>3. \A i : Volume(i) => Volume(i)'
  BY <1>1 DEF Volume, IsAnswer
<1>4. m.type = "answer" /\ m.what = "by_index" => Volume(m.item)'
  BY <1>1 DEF Volume, IsAnswer
<1> QED BY <1>2, <1>3, <1>4 DEF PulseAnswers

\* The same when the first message is received.
LEMMA PulseShrinks ==
  ASSUME Chan \in Seq(Messages), Chan # <<>>, Chan' = Tail(Chan), PulseAnswers,
         dtSrv'.val = dtSrv.val
  PROVE  /\ PulseAnswers'
         /\ \A i : Volume(i) /\ ~(IsAnswer(1, "by_index") /\ Chan[1].item = i) => Volume(i)'
         /\ \A i : ~IsEvent(1) /\ i = Chan[1].item => Chan[1].val = dtSrv.val[i] \/ Pending(i)'
<1>1. /\ Len(Chan) \in Nat \ {0} /\ Len(Chan') = Len(Chan) - 1
      /\ \A k \in 1..Len(Chan') : Chan'[k] = Chan[k + 1] /\ k + 1 \in 1..Len(Chan)
      /\ \A k \in 1..Len(Chan) : k # 1 => k - 1 \in 1..Len(Chan') /\ Chan'[k - 1] = Chan[k]
  BY Shrinks
<1>2. ASSUME NEW k \in 1..Len(Chan'), ~IsEvent(k)'
      PROVE  \/ Chan'[k].val = dtSrv'.val[Chan'[k].item]
             \/ \E j \in k + 1..Len(Chan') : IsEvent(j)' /\ Chan'[j].what = Chan'[k].item
  <2>1. k + 1 \in 1..Len(Chan) /\ Chan'[k] = Chan[k + 1] /\ ~IsEvent(k + 1)
    BY <1>1, <1>2 DEF IsEvent
  <2>2. ASSUME NEW j \in (k + 1) + 1..Len(Chan), IsEvent(j), Chan[j].what = Chan[k + 1].item
        PROVE  \E h \in k + 1..Len(Chan') : IsEvent(h)' /\ Chan'[h].what = Chan'[k].item
    <3>1. j \in 1..Len(Chan) /\ j # 1 /\ j - 1 \in k + 1..Len(Chan')
      BY <2>1, <1>1
    <3>2. Chan'[j - 1] = Chan[j]
      BY <3>1, <1>1
    <3> QED BY <3>1, <3>2, <2>1, <2>2 DEF IsEvent
  <2> QED BY <2>1, <2>2 DEF PulseAnswers
<1>3. ASSUME NEW i, Volume(i), ~(IsAnswer(1, "by_index") /\ Chan[1].item = i) PROVE Volume(i)'
  <2>1. PICK k \in 1..Len(Chan) : IsAnswer(k, "by_index") /\ Chan[k].item = i
    BY <1>3 DEF Volume
  <2>2. k # 1
    BY <1>3, <2>1
  <2>3. k - 1 \in 1..Len(Chan') /\ Chan'[k - 1] = Chan[k]
    BY <2>2, <1>1
  <2> QED BY <2>1, <2>3 DEF Volume, IsAnswer
<1>4. \A i : ~IsEvent(1) /\ i = Chan[1].item => Chan[1].val = dtSrv.val[i] \/ Pending(i)'
  <2> SUFFICES ASSUME NEW i, ~IsEvent(1), i = Chan[1].item, Chan[1].val # dtSrv.val[i]
               PROVE  Pending(i)'
    OBVIOUS
  <2>1. 1 \in 1..Len(Chan)
    BY <1>1
  <2>2. PICK j \in 1 + 1..Len(Chan) : IsEvent(j) /\ Chan[j].what = i
    BY <2>1 DEF PulseAnswers
  <2>3. j \in 1..Len(Chan) /\ j # 1
    BY <2>2
  <2>4. j - 1 \in 1..Len(Chan') /\ Chan'[j - 1] = Chan[j]
    BY <2>3, <1>1
  <2> QED BY <2>2, <2>4 DEF Pending, IsEvent
<1> QED BY <1>2, <1>3, <1>4 DEF PulseAnswers

LEMMA PulseStep == DtInv /\ [DtNext]_dtvars => PulseInv'
<1> SUFFICES ASSUME DtInv, [DtNext]_dtvars, dtOpt'.plugin = "pulse", ~dtSrv'.missed
             PROVE  (PulseWatched /\ PulseSink /\ PulseAnswers /\ PulseTold)'
  BY DEF PulseInv
<1>o. dtOpt.plugin = "pulse" /\ dtOpt' = dtOpt
  BY DtOptStays
<1>i. ~dtSrv.missed => PulseWatched /\ PulseSink /\ PulseAnswers /\ PulseTold
  BY <1>o DEF DtInv, PulseInv
<1>t. /\ dt \in Threads /\ dtSrv \in Servers /\ DtShape /\ dt.pc \in PulsePcs
      /\ Chan \in Seq(Messages) /\ DtItems \subseteq Nat \ {0} /\ Cur = -1 /\ Cur \notin DtItems
      /\ dtSrv.cur \in DtItems /\ dt.item \in DtItems \cup {0}
  BY DtAssumption, <1>o DEF DtInv, DtTypeOK, Servers, Threads, Chan, Cur, DtShape
<1>k. /\ PulseSink <=> Pending(Cur) \/ Asked("by_name") \/ SinkKnown
      /\ PulseSink' <=> Pending(Cur)' \/ Asked("by_name")' \/ SinkKnown'
  BY DEF PulseSink, SinkKnown
<1>s. ASSUME UNCHANGED <<Chan, dt, dtSrv.req, dtSrv.cur, dtSrv.val, dtSrv.watched>>, ~dtSrv.missed
      PROVE  (PulseWatched /\ PulseSink /\ PulseAnswers /\ PulseTold)'
  BY <1>s, <1>i DEF PulseWatched, PulseSink, PulseAnswers, PulseTold, OnItsWay, Pending, Volume,
     Wanted, Asked, Answered, IsEvent, IsAnswer
<1>z. ASSUME Chan' = <<>>, dt'.pc # "wait" PROVE (PulseSink /\ PulseAnswers /\ PulseTold)'
  BY <1>z, EmptySeq DEF PulseSink, PulseAnswers, PulseTold
<1>1. ASSUME NEW i \in DtItems, Select(i) PROVE (PulseWatched /\ PulseSink /\ PulseAnswers /\ PulseTold)'
  <2> DEFINE e == ChangeEvent(Cur, i)
  <2>1. e.type = "event" /\ e.what = Cur
    BY DEF ChangeEvent
  <2> HIDE DEF e
  <2>2. /\ UNCHANGED dt /\ dtSrv'.watched = dtSrv.watched /\ e \in Messages
        /\ dtSrv'.val = dtSrv.val /\ dtSrv'.req = dtSrv.req
        /\ ~dtSrv.missed /\ (Connected => Cur \in dtSrv.watched)
        /\ Cur \in dtSrv.watched => Chan' = Append(Chan, e)
        /\ Cur \notin dtSrv.watched => Chan' = Chan
    BY <1>1, SelectFields DEF e
  <2>3. CASE Cur \in dtSrv.watched
    <3>1. Pending(Cur)' /\ \A w : Pending(w) => Pending(w)'
      BY <2>1, <2>2, <2>3, <1>t, Grows
    <3>2. PulseAnswers' /\ \A j : Volume(j) => Volume(j)'
      BY <2>1, <2>2, <2>3, <1>t, <1>i, PulseGrows
    <3>3. \A j : Wanted(j) => Wanted(j)'
      BY <2>2 DEF Wanted
    <3> QED BY <3>1, <3>2, <3>3, <2>2, <1>i, <1>k DEF PulseTold, OnItsWay, PulseWatched
  <2>4. CASE Cur \notin dtSrv.watched
    <3>1. dt.pc \in {"start", "sleep"}
      BY <2>2, <2>4, <1>t DEF Connected, PulsePcs
    <3>2. Chan = <<>>
      BY <3>1, <1>t DEF DtShape
    <3> QED BY <3>1, <3>2, <2>2, <2>4, <1>i, <1>z DEF PulseWatched
  <2> QED BY <2>3, <2>4
<1>2. ASSUME NEW i \in DtItems, ChangeValue(i)
      PROVE  (PulseWatched /\ PulseSink /\ PulseAnswers /\ PulseTold)'
  <2> DEFINE e == ChangeEvent(i, i)
  <2>1. e.type = "event" /\ e.what = i
    BY DEF ChangeEvent
  <2> HIDE DEF e
  <2>2. /\ UNCHANGED dt /\ dtSrv'.watched = dtSrv.watched /\ e \in Messages
        /\ dtSrv'.cur = dtSrv.cur /\ \A j \in DtItems \ {i} : dtSrv'.val[j] = dtSrv.val[j]
        /\ dtSrv'.req = dtSrv.req
        /\ ~dtSrv.missed /\ (Connected => Cur \in dtSrv.watched)
        /\ i \in dtSrv.watched => Chan' = Append(Chan, e)
        /\ i \notin dtSrv.watched => Chan' = Chan
    BY <1>2, ChangeValueFields DEF e
  <2>3. CASE Cur \in dtSrv.watched
    <3>0. Chan' = Append(Chan, e)
      BY <2>2, <2>3, <1>i DEF PulseWatched
    <3>1. /\ Pending(i)' /\ \A w : Pending(w) => Pending(w)'
          /\ \A w : Answered(w) => Answered(w)'
          /\ Len(Chan) \in Nat /\ Len(Chan') = Len(Chan) + 1
          /\ \A k \in 1..Len(Chan) : Chan'[k] = Chan[k]
          /\ Chan'[Len(Chan) + 1] = e
      BY <2>1, <2>2, <3>0, <1>t, Grows
    <3>2. PulseAnswers' /\ \A j : Volume(j) => Volume(j)'
      BY <2>1, <2>2, <3>0, <1>t, <1>i, PulseGrows
    <3>3. (\A j : Wanted(j) => Wanted(j)') /\ (Asked("by_name") => Asked("by_name")')
      BY <2>2 DEF Wanted, Asked
    <3>4. SinkKnown => SinkKnown'
      <4>1. ASSUME NEW k \in 1..Len(Chan'), IsAnswer(k, "by_name")'
            PROVE  k \in 1..Len(Chan) /\ IsAnswer(k, "by_name") /\ Chan[k] = Chan'[k]
        BY <4>1, <3>1, <2>1 DEF IsAnswer
      <4>2. ASSUME NEW k \in 1..Len(Chan), NEW j \in k + 1..Len(Chan), IsAnswer(j, "by_name")
            PROVE  j \in k + 1..Len(Chan') /\ IsAnswer(j, "by_name")'
        BY <4>2, <3>1 DEF IsAnswer
      <4>3. SinkKnown => \A k \in 1..Len(Chan') : IsAnswer(k, "by_name")' =>
              \/ Chan'[k].item = dtSrv'.cur
              \/ \E j \in k + 1..Len(Chan') : IsAnswer(j, "by_name")'
        BY <4>1, <4>2, <2>2 DEF SinkKnown
      <4> QED BY <4>3, <3>1, <2>2 DEF SinkKnown
    <3>5. PulseTold'
      BY <3>1, <3>2, <3>3, <2>2, <1>i, <1>t DEF PulseTold, OnItsWay
    <3> QED BY <3>1, <3>2, <3>3, <3>4, <3>5, <2>2, <1>i, <1>k DEF PulseWatched
  <2>4. CASE Cur \notin dtSrv.watched
    <3>1. dt.pc \in {"start", "sleep"}
      BY <2>2, <2>4, <1>t DEF Connected, PulsePcs
    <3>2. Chan = <<>> /\ dtSrv.watched = {}
      BY <3>1, <1>t DEF DtShape
    <3> QED BY <3>1, <3>2, <2>2, <2>4, <1>z DEF PulseWatched
  <2> QED BY <2>3, <2>4
<1>3. CASE PulseServer
  <2>r. PICK r : r = Head(dtSrv.req)
    OBVIOUS
  <2>i. PICK i : i = IF r.what = "by_name" THEN dtSrv.cur ELSE r.item
    OBVIOUS
  <2>a. PICK a : a = [type |-> "answer", what |-> r.what, item |-> i, val |-> dtSrv.val[i]]
    OBVIOUS
  <2>1. /\ UNCHANGED dt /\ dtSrv'.cur = dtSrv.cur /\ dtSrv'.val = dtSrv.val
        /\ dtSrv'.watched = (IF r.what = "subscribe" THEN DtItems \cup {Cur} ELSE dtSrv.watched)
        /\ Chan' = IF r.what = "subscribe" THEN Chan ELSE Append(Chan, a)
        /\ dtSrv.req # <<>> /\ dtSrv'.req = Tail(dtSrv.req) /\ ~dtSrv.missed
    BY <1>3, <1>t, <2>r, <2>i, <2>a DEF PulseServer, Servers, Chan
  <2>2. /\ r \in Requests
        /\ \A w : Asked(w) /\ r.what # w => Asked(w)'
        /\ \A j : Wanted(j) /\ r # [what |-> "by_index", item |-> j] => Wanted(j)'
    BY <2>1, <1>t, <2>r, RequestTaken
  <2>3. r.what \in {"by_name", "by_index"} => a \in Messages
    BY <2>2, <2>i, <2>a, <1>t DEF Requests, Messages, Answers, Servers
  <2>4. a.type = "answer" /\ a.what = r.what /\ a.item = i /\ a.val = dtSrv.val[i]
    BY <2>a
  <2>5. r.what # "by_name" => i = r.item
    BY <2>i
  <2>6. r.what = "by_name" => i = dtSrv.cur
    BY <2>i
  <2>7. PulseWatched'
    BY <2>1, <1>i DEF PulseWatched
  <2>8. CASE r.what = "subscribe"
    <3>1. /\ \A w : Pending(w) <=> Pending(w)'
          /\ \A w : Answered(w) <=> Answered(w)'
      BY <2>1, <2>8, Steady
    <3>2. \A j : (Volume(j) => Volume(j)') /\ (Wanted(j) => Wanted(j)')
      BY <2>1, <2>2, <2>8 DEF Volume, IsAnswer
    <3>3. PulseAnswers' /\ (SinkKnown => SinkKnown')
      BY <2>1, <2>8, <1>i DEF PulseAnswers, SinkKnown, IsEvent, IsAnswer, Answered
    <3> QED BY <2>1, <2>2, <2>7, <2>8, <3>1, <3>2, <3>3, <1>i, <1>k DEF PulseTold, OnItsWay
  <2>9. CASE r.what # "subscribe"
    <3>0. a \in Messages /\ Chan' = Append(Chan, a) /\ r.what \in {"by_name", "by_index"}
      BY <2>1, <2>2, <2>3, <2>9 DEF Requests
    <3>1. /\ \A w : Pending(w) => Pending(w)'
          /\ \A w : Answered(w) => Answered(w)' /\ Answered(r.what)'
          /\ Len(Chan) \in Nat /\ Len(Chan') = Len(Chan) + 1
          /\ \A k \in 1..Len(Chan) : Chan'[k] = Chan[k]
          /\ Chan'[Len(Chan) + 1] = a
      BY <2>4, <3>0, <1>t, Grows
    <3>2. /\ PulseAnswers' /\ \A j : Volume(j) => Volume(j)'
          /\ r.what = "by_index" => Volume(r.item)'
      BY <2>1, <2>4, <2>5, <3>0, <1>t, <1>i, PulseGrows
    <3>3. \A j : OnItsWay(j) => OnItsWay(j)'
      BY <3>1, <3>2, <2>2 DEF OnItsWay
    <3>4. PulseTold'
      BY <3>3, <2>1, <1>i DEF PulseTold
    <3>5. CASE r.what = "by_index"
      <4>1. ASSUME NEW k \in 1..Len(Chan'), IsAnswer(k, "by_name")'
            PROVE  k \in 1..Len(Chan) /\ IsAnswer(k, "by_name") /\ Chan[k] = Chan'[k]
        BY <4>1, <3>1, <3>5, <2>4 DEF IsAnswer
      <4>2. ASSUME NEW k \in 1..Len(Chan), NEW j \in k + 1..Len(Chan), IsAnswer(j, "by_name")
            PROVE  j \in k + 1..Len(Chan') /\ IsAnswer(j, "by_name")'
        BY <4>2, <3>1 DEF IsAnswer
      <4>3. SinkKnown => \A k \in 1..Len(Chan') : IsAnswer(k, "by_name")' =>
              \/ Chan'[k].item = dtSrv'.cur
              \/ \E j \in k + 1..Len(Chan') : IsAnswer(j, "by_name")'
        BY <4>1, <4>2, <2>1 DEF SinkKnown
      <4>4. SinkKnown => SinkKnown'
        BY <4>3, <3>1, <2>1 DEF SinkKnown
      <4> QED BY <2>1, <2>2, <2>7, <3>1, <3>2, <3>4, <3>5, <4>4, <1>i, <1>k
    <3>6. CASE r.what = "by_name"
      <4>0. PICK n : n = Len(Chan) + 1
        OBVIOUS
      <4>1. n \in 1..Len(Chan') /\ IsAnswer(n, "by_name")' /\ Chan'[n].item = dtSrv'.cur
        BY <4>0, <3>1, <3>6, <2>1, <2>4, <2>6 DEF IsAnswer
      <4>2. ASSUME NEW k \in 1..Len(Chan')
            PROVE  \/ Chan'[k].item = dtSrv'.cur
                   \/ \E j \in k + 1..Len(Chan') : IsAnswer(j, "by_name")'
        <5>1. CASE k = n
          BY <5>1, <4>1
        <5>2. CASE k # n
          <6>1. n \in k + 1..Len(Chan')
            BY <5>2, <4>0, <3>1
          <6> QED BY <6>1, <4>1
        <5> QED BY <5>1, <5>2
      <4>3. SinkKnown'
        <5>1. Answered("by_name")'
          BY <4>1 DEF Answered
        <5>2. \A k \in 1..Len(Chan') : IsAnswer(k, "by_name")' =>
                \/ Chan'[k].item = dtSrv'.cur
                \/ \E j \in k + 1..Len(Chan') : IsAnswer(j, "by_name")'
          BY <4>2
        <5> QED BY <5>1, <5>2 DEF SinkKnown
      <4> QED BY <2>7, <3>2, <3>4, <4>3, <1>k
    <3> QED BY <3>0, <3>5, <3>6
  <2> QED BY <2>8, <2>9
<1>4. CASE ConnectPulse
  <2> DEFINE s == Request(dtSrv, "by_name", 0)
  <2>0. dt.pc = "start" /\ dt'.pc = "wait" /\ dt'.item = 0 /\ dtSrv' = Request(s, "subscribe", 0)
    BY <1>4, <1>t DEF ConnectPulse, DtIs, Fresh, Threads
  <2>1. Chan = <<>> /\ dtSrv.watched = {}
    BY <2>0, <1>t DEF DtShape
  <2>2. /\ Chan' = Chan /\ dtSrv'.watched = dtSrv.watched
        /\ dtSrv'.req = Append(Append(dtSrv.req, [what |-> "by_name", item |-> 0]),
                                [what |-> "subscribe", item |-> 0])
    BY <2>0, <1>t DEF Request, Chan, Servers
  <2>3. Asked("by_name")'
    <3> DEFINE r1 == [what |-> "by_name", item |-> 0]
               r2 == [what |-> "subscribe", item |-> 0]
               q == Append(dtSrv.req, r1)
    <3>1. r1 \in Requests /\ r2 \in Requests /\ r1.what = "by_name"
      BY DEF Requests
    <3>2. dtSrv.req \in Seq(Requests)
      BY <1>t DEF Servers
    <3> HIDE DEF r1, r2
    <3>3. q \in Seq(Requests) /\ Len(q) = Len(dtSrv.req) + 1 /\ q[Len(dtSrv.req) + 1] = r1
          /\ Len(dtSrv.req) \in Nat
      BY <3>1, <3>2, Appended
    <3> HIDE DEF q
    <3>4. /\ Len(Append(q, r2)) = Len(q) + 1
          /\ \A k \in 1..Len(q) : Append(q, r2)[k] = q[k]
      BY <3>1, <3>3, Appended
    <3>5. dtSrv'.req = Append(q, r2)
      BY <2>2 DEF q, r1, r2
    <3>6. Len(q) \in 1..Len(dtSrv'.req) /\ dtSrv'.req[Len(q)] = r1
      BY <3>3, <3>4, <3>5
    <3> QED BY <3>1, <3>6 DEF Asked
  <2> QED BY <2>0, <2>1, <2>2, <2>3, <1>k, EmptySeq DEF PulseWatched, PulseAnswers, PulseTold
<1>5. CASE IterationEnds
  <2>1. Chan' = <<>> /\ dtSrv'.watched = {} /\ dt'.pc # "wait"
    BY <1>5, <1>t DEF IterationEnds, Disconnected, Threads, Servers, Chan
  <2> QED BY <2>1, <1>z DEF PulseWatched
<1>6. CASE Sleep
  <2>1. dt.pc = "sleep" /\ dt'.pc = "start" /\ UNCHANGED dtSrv /\ Chan' = Chan
    BY <1>6, <1>t DEF Sleep, DtGoto, Threads, Chan
  <2>2. Chan = <<>> /\ dtSrv.watched = {}
    BY <2>1, <1>t DEF DtShape
  <2> QED BY <2>1, <2>2, <1>z DEF PulseWatched
<1>7. CASE PulseReceive
  <2>m. PICK m : m = Head(Chan)
    OBVIOUS
  <2> DEFINE rest == [dtSrv EXCEPT !.chan = Tail(@)]
             what == IF m.what = Cur THEN "by_name" ELSE "by_index"
             tells == m.type = "answer" /\ (m.what = "by_name" <=> m.item # dt.item)
  <2>1. /\ dt.pc = "wait" /\ Chan # <<>>
        /\ dtSrv' = IF m.type = "answer" THEN rest ELSE Request(rest, what, m.item)
        /\ dt' = IF tells THEN [dt EXCEPT !.item = m.item, !.told = [item |-> m.item, val |-> m.val]]
                 ELSE dt
    BY <1>7, <2>m DEF PulseReceive, DtIs, Chan
  <2>2. m \in Messages /\ Tail(Chan) \in Seq(Messages)
    BY <2>1, <1>t, <2>m, Received
  <2>3. /\ rest \in Servers /\ rest.chan = Tail(Chan) /\ rest.req = dtSrv.req
        /\ rest.cur = dtSrv.cur /\ rest.val = dtSrv.val /\ rest.watched = dtSrv.watched
        /\ rest.missed = dtSrv.missed
    BY <2>2, <1>t DEF Servers, Chan
  <2>4. \/ m.type = "event" /\ m.what = Cur
        \/ m.type = "event" /\ m.what \in DtItems /\ m.item = m.what
        \/ m.type = "answer" /\ m.what \in {"by_name", "by_index"} /\ m.item \in DtItems
    BY <2>2 DEF Messages, Events, Answers
  <2>e. m.type = "event" => [what |-> what, item |-> m.item] \in Requests
    BY <2>2 DEF Messages, Events, Answers, Requests
  <2> HIDE DEF rest
  <2>5. m.type = "event" =>
        /\ dtSrv'.cur = dtSrv.cur /\ dtSrv'.val = dtSrv.val /\ dtSrv'.watched = dtSrv.watched
        /\ Chan' = Tail(Chan) /\ dtSrv'.missed = dtSrv.missed
        /\ \A w : Asked(w) => Asked(w)'
        /\ Asked(what)'
        /\ \A j : Wanted(j) => Wanted(j)'
        /\ what = "by_index" => Wanted(m.item)'
    BY <2>1, <2>3, <2>e, <1>t, RequestAdded
  <2>6. m.type = "answer" =>
        /\ dtSrv'.cur = dtSrv.cur /\ dtSrv'.val = dtSrv.val /\ dtSrv'.watched = dtSrv.watched
        /\ Chan' = Tail(Chan) /\ dtSrv'.missed = dtSrv.missed
        /\ \A w : Asked(w) => Asked(w)'
        /\ \A j : Wanted(j) => Wanted(j)'
    BY <2>1, <2>3 DEF Chan, Asked, Wanted
  <2>7. /\ dtSrv'.cur = dtSrv.cur /\ dtSrv'.val = dtSrv.val /\ dtSrv'.watched = dtSrv.watched
        /\ Chan' = Tail(Chan) /\ ~dtSrv.missed
        /\ \A w : Asked(w) => Asked(w)'
        /\ \A j : Wanted(j) => Wanted(j)'
    BY <2>4, <2>5, <2>6
  <2>8. /\ m = Chan[1]
        /\ Len(Chan) \in Nat \ {0} /\ Len(Chan') = Len(Chan) - 1
        /\ \A k \in 1..Len(Chan') : Chan'[k] = Chan[k + 1] /\ k + 1 \in 1..Len(Chan)
        /\ \A k \in 1..Len(Chan) : k # 1 => k - 1 \in 1..Len(Chan') /\ Chan'[k - 1] = Chan[k]
        /\ \A w : Pending(w) /\ ~(m.type = "event" /\ m.what = w) => Pending(w)'
        /\ \A w : Answered(w) /\ ~(m.type = "answer" /\ m.what = w) => Answered(w)'
    BY <2>1, <2>7, <2>m, <1>t, Shrinks
  <2>9. /\ PulseAnswers'
        /\ \A i : Volume(i) /\ ~(m.type = "answer" /\ m.what = "by_index" /\ m.item = i) => Volume(i)'
        /\ m.type = "answer" => m.val = dtSrv.val[m.item] \/ Pending(m.item)'
    BY <2>1, <2>7, <2>8, <1>i, <1>t, PulseShrinks DEF IsEvent, IsAnswer
  <2>10. PulseWatched'
    BY <2>7, <1>i DEF PulseWatched
  <2>11. tells => dt'.item = m.item /\ dt'.told.item = m.item /\ dt'.told.val = m.val /\ dt'.pc = "wait"
    BY <2>1, <1>t DEF Threads
  <2>12. \A w : Pending(w) /\ m.type = "answer" => Pending(w)'
    BY <2>8
  <2>13. PulseTold'
    <3>1. CASE tells
      BY <3>1, <2>7, <2>9, <2>11 DEF PulseTold, OnItsWay
    <3>2. CASE ~tells
      <4>1. dt' = dt /\ PulseTold
        BY <3>2, <2>1, <2>7, <1>i
      <4>2. ASSUME NEW x \in DtItems, x = dt.item, OnItsWay(x) PROVE OnItsWay(x)'
        <5>1. CASE m.type = "event"
          BY <5>1, <4>2, <2>4, <2>5, <2>8, <2>9, <1>t DEF OnItsWay
        <5>2. CASE m.type = "answer"
          BY <5>2, <4>2, <3>2, <2>4, <2>6, <2>8, <2>9 DEF OnItsWay
        <5> QED BY <5>1, <5>2, <2>4
      <4>3. dt.item # 0 => dt.item \in DtItems
        BY <1>t
      <4> QED BY <4>1, <4>2, <4>3, <2>7 DEF PulseTold
    <3> QED BY <3>1, <3>2
  <2>14. SinkKnown => \A k \in 1..Len(Chan') : IsAnswer(k, "by_name")' =>
              \/ Chan'[k].item = dtSrv'.cur
              \/ \E j \in k + 1..Len(Chan') : IsAnswer(j, "by_name")'
    <3> SUFFICES ASSUME SinkKnown, NEW k \in 1..Len(Chan'), IsAnswer(k, "by_name")',
                        Chan'[k].item # dtSrv'.cur
                 PROVE  \E j \in k + 1..Len(Chan') : IsAnswer(j, "by_name")'
      OBVIOUS
    <3>1. k + 1 \in 1..Len(Chan) /\ IsAnswer(k + 1, "by_name") /\ Chan[k + 1].item # dtSrv.cur
      BY <2>7, <2>8 DEF IsAnswer
    <3>2. PICK j \in (k + 1) + 1..Len(Chan) : IsAnswer(j, "by_name")
      BY <3>1 DEF SinkKnown
    <3>3. j \in 1..Len(Chan) /\ j # 1 /\ j - 1 \in k + 1..Len(Chan')
      BY <3>1, <3>2, <2>8
    <3>4. Chan'[j - 1] = Chan[j]
      BY <3>3, <2>8
    <3> QED BY <3>2, <3>3, <3>4 DEF IsAnswer
  <2>15. PulseSink'
    <3>1. CASE m.type = "event" /\ m.what = Cur
      BY <3>1, <2>5, <1>k
    <3>2. CASE m.type = "event" /\ m.what # Cur
      <4>1. dt' = dt
        BY <3>2, <2>1
      <4>2. SinkKnown => SinkKnown'
        BY <3>2, <4>1, <2>7, <2>8, <2>14 DEF SinkKnown
      <4> QED BY <3>2, <4>2, <2>7, <2>8, <1>i, <1>k
    <3>3. CASE m.type = "answer" /\ m.what = "by_index"
      <4>1. dt'.item = dt.item /\ dt'.pc = dt.pc
        BY <3>3, <2>1, <2>11
      <4>2. SinkKnown => SinkKnown'
        BY <3>3, <4>1, <2>7, <2>8, <2>14 DEF SinkKnown
      <4> QED BY <3>3, <4>2, <2>7, <2>8, <1>i, <1>k
    <3>4. CASE m.type = "answer" /\ m.what = "by_name"
      <4>1. dt'.item = m.item
        BY <3>4, <2>1, <2>11
      <4>2. SinkKnown => m.item = dtSrv.cur \/ Answered("by_name")'
        <5> SUFFICES ASSUME SinkKnown, m.item # dtSrv.cur PROVE Answered("by_name")'
          OBVIOUS
        <5>1. 1 \in 1..Len(Chan) /\ IsAnswer(1, "by_name")
          BY <3>4, <2>8 DEF IsAnswer
        <5>2. PICK j \in 1 + 1..Len(Chan) : IsAnswer(j, "by_name")
          BY <5>1, <2>8 DEF SinkKnown
        <5>3. j - 1 \in 1..Len(Chan') /\ Chan'[j - 1] = Chan[j]
          BY <5>2, <2>8
        <5> QED BY <5>2, <5>3 DEF Answered, IsAnswer
      <4>3. SinkKnown => SinkKnown'
        BY <4>1, <4>2, <2>7, <2>14 DEF SinkKnown
      <4> QED BY <3>4, <4>3, <2>7, <2>8, <1>i, <1>k
    <3> QED BY <3>1, <3>2, <3>3, <3>4, <2>4
  <2> QED BY <2>9, <2>10, <2>13, <2>15
<1>8. CASE PulseWoken
  <2>1. UNCHANGED <<Chan, dt, dtSrv.req, dtSrv.cur, dtSrv.val, dtSrv.watched, dtSrv.missed>>
    BY <1>8, <1>t DEF PulseWoken, Chan, Servers
  <2> QED BY <2>1, <1>s
<1>9. CASE DtWakeUp
  <2>1. UNCHANGED <<Chan, dt, dtSrv.req, dtSrv.cur, dtSrv.val, dtSrv.watched, dtSrv.missed>>
    BY <1>9, <1>t DEF DtWakeUp, Chan, Servers
  <2> QED BY <2>1, <1>s
<1>10. CASE UNCHANGED dtvars
  BY <1>10, <1>s DEF dtvars, Chan
<1> QED BY <1>o, <1>1, <1>2, <1>3, <1>4, <1>5, <1>6, <1>7, <1>8, <1>9, <1>10, PulseSteps

-----------------------------------------------------------------------------
\* The inductive invariant of the four plugins: types, threads, and what each knows.
THEOREM DtInvariance == DtSpec => []DtInv
<1>1. DtInit => DtInv
  BY DtInvInit
<1>2. DtInv /\ [DtNext]_dtvars => DtInv'
  BY DtTypeStep, DtShapeStep, XtitleStep, XkbStep, PulseStep, AlsaStep DEF DtInv
<1> QED BY <1>1, <1>2, PTL DEF DtSpec

\* Whatever the server changes while xtitle, xkb, pulse or alsa reads its state in pieces,
\* once all is handled cb was last told the current item and its value.
THEOREM ShownFollows == DtSpec => []ShownFollowsServer
<1>1. DtInv => ShownFollowsServer
  <2> SUFFICES ASSUME DtInv, AtRest, ~dtSrv.missed PROVE ShownIsCurrent
    BY DEF ShownFollowsServer
  <2>t. /\ dtSrv \in Servers /\ dtOpt \in DtOptions /\ DtShape /\ DtItems \subseteq Nat \ {0}
        /\ dt.pc = "wait" /\ Chan = <<>> /\ dtSrv.req = <<>> /\ dtSrv.cur \in DtItems \cup {0}
    BY DtAssumption DEF DtInv, DtTypeOK, AtRest, Chan, Servers
  <2>n. /\ \A w : ~Pending(w) /\ ~Answered(w) /\ ~Asked(w) /\ ~Wanted(w) /\ ~Volume(w)
    BY <2>t, EmptySeq DEF Pending, Answered, Asked, Wanted, Volume
  <2>1. CASE dtOpt.plugin = "xtitle"
    <3>1. XtitleStarts /\ XtitleWindow /\ XtitleTold
      BY <2>1 DEF DtInv, XtitleInv
    <3> QED BY <3>1, <2>t, <2>n DEF XtitleWindow, XtitleTold, ShownIsCurrent
  <2>2. CASE dtOpt.plugin = "xkb"
    <3>1. XkbGroup /\ XkbNames /\ XkbTold
      BY <2>2 DEF DtInv, XkbInv
    <3>2. dt.item = dtSrv.cur /\ dt.told.item = dt.item /\ dt.told.val = dt.names[dt.item]
      BY <3>1, <2>t, <2>n DEF XkbGroup, XkbTold
    <3>3. dtSrv.cur \in DtItems
      BY <2>2, <2>t DEF DtShape
    <3>4. dtOpt.somehow => dt.names[dt.item] = 0 \/ dt.names[dt.item] = dtSrv.val[dt.item]
      BY <3>1, <3>2, <3>3, <2>t, <2>n DEF XkbNames
    <3> QED BY <3>2, <3>3, <3>4, <2>2, <2>t DEF ShownIsCurrent
  <2>3. CASE dtOpt.plugin = "pulse"
    <3>1. PulseSink /\ PulseTold
      BY <2>3 DEF DtInv, PulseInv
    <3>2. dt.item = dtSrv.cur /\ dtSrv.cur \in DtItems
      BY <3>1, <2>t, <2>n, <2>3 DEF PulseSink, DtShape
    <3> QED BY <3>1, <3>2, <2>t, <2>n DEF PulseTold, OnItsWay, ShownIsCurrent
  <2>4. CASE dtOpt.plugin = "alsa"
    <3>1. dt.item = dtSrv.cur /\ dt.names = dtSrv.val
          /\ dt.told = [item |-> dt.item, val |-> dt.names[dt.item]]
      BY <2>4, <2>t DEF DtInv, AlsaInv
    <3>2. dtSrv.cur \in DtItems
      BY <2>4, <2>t DEF DtShape
    <3> QED BY <3>1, <3>2, <2>t DEF ShownIsCurrent
  <2>5. dtOpt.plugin \in {"xtitle", "xkb", "pulse", "alsa"}
    BY <2>t DEF DtOptions, XtitleOptions, XkbOptions, PulseOptions, AlsaOptions, DtOption
  <2> QED BY <2>1, <2>2, <2>3, <2>4, <2>5
<1> QED BY <1>1, DtInvariance, PTL

-----------------------------------------------------------------------------
(* network-linux.                                                          *)

Rows == [name : Ifaces, wireless : BOOLEAN]
NwThreads ==
  [pc : {"open", "getifaddrs", "describe", "poll", "resync", "returned"},
   todo : Seq(Ifaces), refresh : BOOLEAN, wlan : Seq(Ifaces), table : SUBSET Rows,
   what : {"none", "update", "self_pipe", "timeout"}]
Kinds == [Ifaces -> {"absent", "ether", "wlan"}]
Kernels == [kind : Kinds, msgs : Nat, full : BOOLEAN, bound : BOOLEAN, pipe : Nat]
NwCalls == [what : {"none", "update", "self_pipe", "timeout", "error"}, table : SUBSET Rows]
NwCounts == [changes : Nat, wakeUps : Nat, sound : BOOLEAN]
NwTypeOK ==
  /\ nwOpt \in NwOptions /\ nw \in NwThreads /\ nwKern \in Kernels
  /\ nwTold \in NwCalls /\ nwPast \in NwCounts

Present == {i \in Ifaces : nwKern.kind[i] # "absent"}
Wlans   == {i \in Ifaces : nwKern.kind[i] = "wlan" /\ nwOpt.wireless}
AsItIs(i) == Entry(i, nwKern.kind[i] = "wlan")

Ordered(list) == \A i, j \in 1..Len(list) : i < j => list[i] <= list[j]

\* No change is still to be heard of, and the last refresh was carried out.
Heard == nwKern.msgs = 0 /\ ~nwKern.full /\ nwPast.sound

\* A thread that asks listens; what it found out it forgets after the call.
Listening ==
  /\ nw.pc \in {"getifaddrs", "describe", "poll"} => nwKern.bound
  /\ nw.pc = "describe" /\ nw.refresh => nwPast.sound
  /\ nw.pc # "describe" => nw.table = {}

\* What a call that is no refresh goes by.
ListIsCurrent ==
  Heard /\ (nw.pc = "poll" \/ (nw.pc \in {"getifaddrs", "describe"} /\ ~nw.refresh)) =>
    Ordered(nw.wlan) /\ ToSet(nw.wlan) = Wlans

\* The loop: what was asked about is in the table, as it is, the rest is to do.
LoopIsCurrent ==
  nw.pc = "describe" /\ Heard =>
    /\ \A i, j \in 1..Len(nw.todo) : i # j => nw.todo[i] # nw.todo[j]
    /\ ToSet(nw.todo) \subseteq Present
    /\ nw.table = {AsItIs(i) : i \in Present \ ToSet(nw.todo)}
    /\ nw.refresh => ToSet(nw.wlan) = Wlans \ ToSet(nw.todo)

NwInv == NwTypeOK /\ Listening /\ ListIsCurrent /\ LoopIsCurrent /\ ToldIsCurrent

-----------------------------------------------------------------------------
(* strset_mergesort().                                                     *)

\* One round of its loops.
Round(left, right, k, s) ==
  IF k - 1 - s[1] = Len(right) \/ (s[1] < Len(left) /\ left[s[1] + 1] <= right[(k - 1 - s[1]) + 1])
  THEN <<s[1] + 1, Append(s[2], left[s[1] + 1])>>
  ELSE <<s[1], Append(s[2], right[(k - 1 - s[1]) + 1])>>

Rounds(f, left, right, n) ==
  f[0] = <<0, <<>>>> /\ \A k \in 1..n : f[k] = Round(left, right, k, f[k - 1])

\* Merged() is such a recursion.
LEMMA MergedIsRecursive ==
  ASSUME NEW left \in Seq(Int), NEW right \in Seq(Int)
  PROVE  \E f : Rounds(f, left, right, Len(left) + Len(right))
                /\ Merged(left, right) = f[Len(left) + Len(right)][2]
<1> DEFINE n == Len(left) + Len(right)
           U == Int \cup {left[x] : x \in Int} \cup {right[x] : x \in Int}
           V == Nat \X Seq(U)
           base == <<0, <<>>>>
           step == [k \in 1..n |-> [s \in V |-> Round(left, right, k, s)]]
           After(f, k) == IF k = 0 THEN <<0, <<>>>>
                          ELSE LET i == f[k - 1][1]  j == k - 1 - i  data == f[k - 1][2]
                               IN IF j = Len(right) \/ (i < Len(left) /\ left[i + 1] <= right[j + 1])
                                  THEN <<i + 1, Append(data, left[i + 1])>>
                                  ELSE <<i, Append(data, right[j + 1])>>
           IsMerged(f) == f = [k \in 0..n |-> After(f, k)]
           round == CHOOSE f : IsMerged(f)
<1>1. n \in Nat /\ base \in V
  <2>1. <<>> \in Seq(U)
    BY EmptySeq
  <2>2. n \in Nat
    OBVIOUS
  <2> HIDE DEF U, n
  <2> QED BY <2>1, <2>2
<1>2. step \in Steps(n, V)
  <2>1. ASSUME NEW k \in 1..n, NEW s \in V PROVE Round(left, right, k, s) \in V
    <3>1. s[1] \in Nat /\ s[2] \in Seq(U) /\ k \in Int
      BY <1>1
    <3>2. left[s[1] + 1] \in U /\ right[(k - 1 - s[1]) + 1] \in U
      BY <3>1
    <3> HIDE DEF U
    <3>3. Append(s[2], left[s[1] + 1]) \in Seq(U) /\ Append(s[2], right[(k - 1 - s[1]) + 1]) \in Seq(U)
      BY <3>1, <3>2, AppendProperties
    <3>4. /\ <<s[1] + 1, Append(s[2], left[s[1] + 1])>> \in V
          /\ <<s[1], Append(s[2], right[(k - 1 - s[1]) + 1])>> \in V
      <4> DEFINE p == Append(s[2], left[s[1] + 1])
                 q == Append(s[2], right[(k - 1 - s[1]) + 1])
      <4>1. s[1] \in Nat /\ s[1] + 1 \in Nat /\ p \in Seq(U) /\ q \in Seq(U)
        BY <3>1, <3>3
      <4> HIDE DEF p, q
      <4>2. <<s[1] + 1, p>> \in V /\ <<s[1], q>> \in V
        BY <4>1
      <4> QED BY <4>2 DEF p, q
    <3> HIDE DEF V
    <3> QED BY <3>4 DEF Round
  <2> HIDE DEF n, V
  <2> QED BY <2>1 DEF Steps
<1>3. PICK f \in [0..n -> V] : Recursion(f, n, base, step)
  <2> HIDE DEF n, step, V, base, After, IsMerged, round
  <2> QED BY <1>1, <1>2, RecursionExists
<1>4. ASSUME NEW k \in 1..n PROVE f[k] = Round(left, right, k, f[k - 1])
  <2>1. k - 1 \in 0..n
    BY <1>1
  <2>2. f[k - 1] \in V
    <3> HIDE DEF n, V
    <3> QED BY <1>3, <2>1
  <2>3. f[k] = step[k][f[k - 1]]
    <3> HIDE DEF n, V, step, base
    <3> QED BY <1>3 DEF Recursion
  <2> HIDE DEF n, V
  <2> QED BY <2>2, <2>3 DEF step
<1>5. ASSUME NEW g, NEW k \in 1..n PROVE After(g, k) = Round(left, right, k, g[k - 1])
  <2>1. k # 0
    BY <1>1
  <2> HIDE DEF n
  <2> QED BY <2>1 DEF Round
<1>6. \A g : After(g, 0) = base
  OBVIOUS
<1>7. \E h : IsMerged(h)
  <2>1. ASSUME NEW k \in 0..n PROVE f[k] = After(f, k)
    <3>1. CASE k = 0
      <4>1. f[0] = base
        BY <1>3 DEF Recursion
      <4> HIDE DEF After, base
      <4> QED BY <3>1, <4>1, <1>6
    <3>2. CASE k # 0
      <4>1. k \in 1..n
        BY <3>2, <1>1
      <4> HIDE DEF After, n
      <4> QED BY <1>4, <1>5, <4>1
    <3> QED BY <3>1, <3>2
  <2>2. f = [k \in 0..n |-> After(f, k)]
    <3> HIDE DEF n, After, V
    <3> QED BY <1>3, <2>1
  <2> HIDE DEF After, n
  <2> QED BY <2>2
<1>8. round = [k \in 0..n |-> After(round, k)]
  <2> HIDE DEF After, n
  <2> QED BY <1>7
<1>9. \A k \in 0..n : round[k] = After(round, k)
  <2> HIDE DEF round, After, n
  <2> QED BY <1>8
<1>10. Merged(left, right) = round[n][2]
  BY DEF Merged
<1>11. Rounds(round, left, right, n)
  <2>1. round[0] = base
    <3>1. 0 \in 0..n
      BY <1>1
    <3> HIDE DEF round, After, n, base
    <3> QED BY <3>1, <1>6, <1>9
  <2>2. ASSUME NEW k \in 1..n PROVE round[k] = Round(left, right, k, round[k - 1])
    <3>1. k \in 0..n
      BY <1>1
    <3> HIDE DEF round, After, n
    <3> QED BY <3>1, <1>5, <1>9
  <2> HIDE DEF round, n
  <2> QED BY <2>1, <2>2 DEF Rounds
<1> HIDE DEF round
<1> QED BY <1>10, <1>11

\* What the rounds have taken from the beginnings of two lists.
Taken(d, a, i, b, j) ==
  /\ i \in 0..Len(a) /\ j \in 0..Len(b)
  /\ ToSet(d) = {a[x] : x \in 1..i} \cup {b[x] : x \in 1..j}
\* It is in order if they are.
InOrder(d, a, i, b, j) ==
  /\ Ordered(d)
  /\ i < Len(a) => \A m \in 1..Len(d) : d[m] <= a[i + 1]
  /\ j < Len(b) => \A m \in 1..Len(d) : d[m] <= b[j + 1]

\* One more element is taken.
LEMMA OneMoreTaken ==
  ASSUME NEW a \in Seq(Int), NEW b \in Seq(Int), NEW d \in Seq(Int), NEW i, NEW j,
         Taken(d, a, i, b, j), i < Len(a)
  PROVE  /\ Append(d, a[i + 1]) \in Seq(Int) /\ Taken(Append(d, a[i + 1]), a, i + 1, b, j)
         /\ InOrder(d, a, i, b, j) /\ Ordered(a) /\ (j < Len(b) => a[i + 1] <= b[j + 1]) =>
              InOrder(Append(d, a[i + 1]), a, i + 1, b, j)
<1> DEFINE x == a[i + 1]
           e == Append(d, x)
           l == Len(d)
<1>1. /\ i \in Nat /\ i + 1 \in 1..Len(a) /\ i + 1 \in 0..Len(a) /\ l \in Nat
      /\ Len(a) \in Nat /\ Len(b) \in Nat /\ j \in Nat
  BY DEF Taken
<1>2. x \in Int
  BY <1>1
<1> HIDE DEF x
<1>3. e \in Seq(Int) /\ Len(e) = l + 1 /\ (\A m \in 1..l : e[m] = d[m]) /\ e[l + 1] = x
  BY <1>2, AppendProperties
<1>4. ToSet(d) = {d[m] : m \in 1..l} /\ ToSet(e) = {e[m] : m \in 1..l + 1}
  <2>1. DOMAIN d = 1..l
    BY LenProperties
  <2> HIDE DEF e
  <2>2. DOMAIN e = 1..l + 1
    BY <1>3, LenProperties
  <2> QED BY <2>1, <2>2 DEF ToSet
<1> HIDE DEF e
<1>5. \A m \in 1..l + 1 : m \in 1..l \/ m = l + 1
  BY <1>1
<1>6. ToSet(e) = ToSet(d) \cup {x}
  <2>1. \A m \in 1..l : m \in 1..l + 1
    BY <1>1
  <2>2. l + 1 \in 1..l + 1
    BY <1>1
  <2> HIDE DEF l
  <2> QED BY <2>1, <2>2, <1>3, <1>4, <1>5
<1>7. {a[m] : m \in 1..i + 1} = {a[m] : m \in 1..i} \cup {x}
  <2>1. \A m \in 1..i + 1 : m \in 1..i \/ m = i + 1
    BY <1>1
  <2>2. \A m \in 1..i : m \in 1..i + 1
    BY <1>1
  <2>3. i + 1 \in 1..i + 1
    BY <1>1
  <2> QED BY <2>1, <2>2, <2>3 DEF x
<1>8. Taken(e, a, i + 1, b, j)
  BY <1>1, <1>6, <1>7 DEF Taken
<1>9. ASSUME InOrder(d, a, i, b, j), Ordered(a), j < Len(b) => x <= b[j + 1]
      PROVE  InOrder(e, a, i + 1, b, j)
  <2>1. \A m \in 1..l : d[m] \in Int /\ d[m] <= x
    <3>1. \A m \in 1..l : d[m] \in Int
      OBVIOUS
    <3> QED BY <3>1, <1>9 DEF InOrder, x
  <2> HIDE DEF l
  <2>2. Ordered(e)
    <3> SUFFICES ASSUME NEW p \in 1..l + 1, NEW q \in 1..l + 1, p < q PROVE e[p] <= e[q]
      BY <1>3 DEF Ordered
    <3>1. p \in 1..l
      BY <1>1
    <3>2. CASE q \in 1..l
      BY <3>1, <3>2, <1>3, <1>9 DEF InOrder, Ordered, l
    <3>3. CASE q = l + 1
      BY <3>1, <3>3, <1>3, <2>1
    <3> QED BY <3>2, <3>3, <1>5
  <2>3. ASSUME i + 1 < Len(a), NEW m \in 1..l + 1 PROVE e[m] <= a[(i + 1) + 1]
    <3>1. i + 1 \in 1..Len(a) /\ (i + 1) + 1 \in 1..Len(a) /\ i + 1 < (i + 1) + 1
      BY <1>1, <2>3
    <3>2. x <= a[(i + 1) + 1] /\ a[(i + 1) + 1] \in Int
      BY <3>1, <1>9 DEF Ordered, x
    <3>3. CASE m \in 1..l
      <4>1. e[m] \in Int /\ e[m] <= x
        BY <3>3, <1>3, <2>1
      <4> QED BY <4>1, <3>2, <1>2
    <3>4. CASE m = l + 1
      BY <3>4, <3>2, <1>3
    <3> QED BY <3>3, <3>4, <1>5
  <2>4. ASSUME j < Len(b), NEW m \in 1..l + 1 PROVE e[m] <= b[j + 1]
    <3>1. CASE m \in 1..l
      BY <3>1, <2>4, <1>3, <1>9 DEF InOrder, l
    <3>2. CASE m = l + 1
      BY <3>2, <2>4, <1>3, <1>9
    <3> QED BY <3>1, <3>2, <1>5
  <2> QED BY <2>2, <2>3, <2>4, <1>3 DEF InOrder
<1> QED BY <1>3, <1>8, <1>9 DEF e, x

\* What is written after k rounds is made of the first elements of both, k in all.
Written(f, left, right, k) ==
  /\ f[k] = <<f[k][1], f[k][2]>> /\ f[k][2] \in Seq(Int)
  /\ Taken(f[k][2], left, f[k][1], right, k - f[k][1])
  /\ Ordered(left) /\ Ordered(right) => InOrder(f[k][2], left, f[k][1], right, k - f[k][1])

LEMMA RoundTakes ==
  ASSUME NEW left \in Seq(Int), NEW right \in Seq(Int), NEW f,
         NEW k \in 0..Len(left) + Len(right) - 1, Written(f, left, right, k),
         f[k + 1] = Round(left, right, k + 1, f[k])
  PROVE  Written(f, left, right, k + 1)
<1> DEFINE i == f[k][1]
           j == k - i
           d == f[k][2]
           x == left[i + 1]
           y == right[j + 1]
<1>1. /\ i \in Nat /\ j \in Nat /\ k \in Nat /\ (k + 1) - 1 - i = j
      /\ i <= Len(left) /\ j <= Len(right) /\ k + 1 <= Len(left) + Len(right)
      /\ Len(left) \in Nat /\ Len(right) \in Nat
      /\ d \in Seq(Int) /\ Taken(d, left, i, right, j)
      /\ Ordered(left) /\ Ordered(right) => InOrder(d, left, i, right, j)
  BY DEF Written, Taken
<1>2. f[k + 1] = IF j = Len(right) \/ (i < Len(left) /\ x <= y)
                 THEN <<i + 1, Append(d, x)>> ELSE <<i, Append(d, y)>>
  BY <1>1 DEF Round
<1> HIDE DEF i, d
<1>p. ASSUME NEW u, NEW v, f[k + 1] = <<u, v>> PROVE f[k + 1][1] = u /\ f[k + 1][2] = v
  BY <1>p
<1>3. CASE i < Len(left) /\ (j < Len(right) => x <= y)
  <2>1. j = Len(right) \/ (i < Len(left) /\ x <= y)
    <3>1. CASE j < Len(right)
      <4> HIDE DEF j, x, y
      <4> QED BY <3>1, <1>3
    <3>2. CASE ~(j < Len(right))
      <4> HIDE DEF j, x, y
      <4>1. j = Len(right)
        <5>1. j \in Nat /\ j <= Len(right) /\ Len(right) \in Nat
          BY <1>1
        <5> QED BY <3>2, <5>1
      <4> QED BY <4>1
    <3> QED BY <3>1, <3>2
  <2>2. f[k + 1] = <<i + 1, Append(d, x)>> /\ f[k + 1][1] = i + 1 /\ f[k + 1][2] = Append(d, x)
    <3>1. f[k + 1] = <<i + 1, Append(d, x)>>
      BY <1>2, <2>1
    <3> QED BY <3>1, <1>p
  <2>3. (k + 1) - (i + 1) = j
    BY <1>1
  <2> HIDE DEF j
  <2>4. /\ Append(d, x) \in Seq(Int) /\ Taken(Append(d, x), left, i + 1, right, j)
        /\ Ordered(left) /\ Ordered(right) => InOrder(Append(d, x), left, i + 1, right, j)
    BY <1>1, <1>3, OneMoreTaken
  <2> HIDE DEF x
  <2> QED BY <2>2, <2>3, <2>4 DEF Written
<1>4. CASE ~(i < Len(left) /\ (j < Len(right) => x <= y))
  <2>1. j < Len(right) /\ ~(i < Len(left) /\ x <= y)
    BY <1>1, <1>4
  <2>2. f[k + 1] = <<i, Append(d, y)>> /\ f[k + 1][1] = i /\ f[k + 1][2] = Append(d, y)
    <3>1. ~(j = Len(right))
      BY <1>1, <2>1
    <3>2. f[k + 1] = <<i, Append(d, y)>>
      <4> HIDE DEF j, x, y
      <4> QED BY <1>2, <2>1, <3>1
    <3> QED BY <3>2, <1>p
  <2>3. (k + 1) - i = j + 1
    BY <1>1
  <2>4. i < Len(left) => y <= x
    <3>1. i < Len(left) => x \in Int
      BY <1>1
    <3>2. y \in Int
      BY <1>1, <2>1
    <3> QED BY <2>1, <3>1, <3>2
  <2> HIDE DEF j
  <2>5. Taken(d, right, j, left, i) /\ (InOrder(d, left, i, right, j) => InOrder(d, right, j, left, i))
    BY <1>1 DEF Taken, InOrder
  <2>6. /\ Append(d, y) \in Seq(Int) /\ Taken(Append(d, y), right, j + 1, left, i)
        /\ Ordered(left) /\ Ordered(right) => InOrder(Append(d, y), right, j + 1, left, i)
    BY <1>1, <2>1, <2>4, <2>5, OneMoreTaken
  <2> HIDE DEF y
  <2>7. /\ Taken(Append(d, y), left, i, right, j + 1)
        /\ Ordered(left) /\ Ordered(right) => InOrder(Append(d, y), left, i, right, j + 1)
    BY <2>6 DEF Taken, InOrder
  <2> QED BY <2>2, <2>3, <2>6, <2>7 DEF Written
<1> QED BY <1>3, <1>4

\* Two lists are merged to one with the elements of both, which is in order if they are.
LEMMA MergedIsOrdered ==
  ASSUME NEW left \in Seq(Int), NEW right \in Seq(Int)
  PROVE  /\ Merged(left, right) \in Seq(Int)
         /\ ToSet(Merged(left, right)) = ToSet(left) \cup ToSet(right)
         /\ Ordered(left) /\ Ordered(right) => Ordered(Merged(left, right))
<1> DEFINE n == Len(left) + Len(right)
<1>1. PICK f : Rounds(f, left, right, n) /\ Merged(left, right) = f[n][2]
  BY MergedIsRecursive
<1>n. n \in Nat /\ Len(left) \in Nat /\ Len(right) \in Nat
  OBVIOUS
<1> DEFINE T == {k \in 0..n : Written(f, left, right, k)}
<1>2. 0 \in T
  <2>1. f[0] = <<0, <<>>>> /\ f[0][1] = 0 /\ f[0][2] = <<>>
    BY <1>1 DEF Rounds
  <2>2. <<>> \in Seq(Int) /\ Len(<<>>) = 0 /\ ToSet(<<>>) = {}
    BY EmptySeq DEF ToSet
  <2>3. Taken(<<>>, left, 0, right, 0 - 0) /\ InOrder(<<>>, left, 0, right, 0 - 0)
    BY <2>2, <1>n DEF Taken, InOrder, Ordered
  <2>4. Written(f, left, right, 0)
    BY <2>1, <2>2, <2>3 DEF Written
  <2>5. 0 \in 0..n
    BY <1>n
  <2> QED BY <2>4, <2>5
<1>3. ASSUME NEW k \in 0..n - 1, k \in T PROVE k + 1 \in T
  <2>1. k + 1 \in 1..n /\ (k + 1) - 1 = k /\ k + 1 \in 0..n
    BY <1>n
  <2>2. f[k + 1] = Round(left, right, k + 1, f[(k + 1) - 1])
    <3> HIDE DEF n
    <3> QED BY <2>1, <1>1 DEF Rounds
  <2>3. Written(f, left, right, k + 1)
    BY <1>3, <2>1, <2>2, RoundTakes
  <2> QED BY <2>1, <2>3
<1>4. Written(f, left, right, n)
  <2> HIDE DEF T
  <2>1. n \in 0..n
    BY <1>n
  <2>2. 0..n \subseteq T
    <3> HIDE DEF n
    <3> QED BY <1>n, <1>2, <1>3, IntervalInduction
  <2> QED BY <2>1, <2>2 DEF T
<1>5. f[n][1] = Len(left) /\ n - f[n][1] = Len(right)
  BY <1>4, <1>n DEF Written, Taken
<1>6. ToSet(left) = {left[x] : x \in 1..Len(left)} /\ ToSet(right) = {right[x] : x \in 1..Len(right)}
  <2>1. DOMAIN left = 1..Len(left) /\ DOMAIN right = 1..Len(right)
    BY LenProperties
  <2> QED BY <2>1 DEF ToSet
<1> HIDE DEF n
<1>7. ToSet(f[n][2]) = ToSet(left) \cup ToSet(right)
  BY <1>4, <1>5, <1>6 DEF Written, Taken
<1> QED BY <1>1, <1>4, <1>7 DEF Written, InOrder

\* The parts of a list that strset_mergesort() sorts.
LeftPart(data) == SubSeq(data, 1, Len(data) \div 2)
RightPart(data) == SubSeq(data, Len(data) \div 2 + 1, Len(data))

LEMMA PartsAre ==
  ASSUME NEW E, NEW data \in Seq(E), Len(data) >= 2
  PROVE  /\ LeftPart(data) \in Seq(E) /\ RightPart(data) \in Seq(E)
         /\ Len(LeftPart(data)) < Len(data) /\ Len(RightPart(data)) < Len(data)
         /\ ToSet(data) = ToSet(LeftPart(data)) \cup ToSet(RightPart(data))
<1> DEFINE n == Len(data)
           h == n \div 2
           left == LeftPart(data)
           right == RightPart(data)
<1>1. n \in Nat /\ h \in Nat /\ 1 <= h /\ h < n /\ h + 1 \in 1..n
  <2>1. n \in Nat /\ n >= 2
    OBVIOUS
  <2> HIDE DEF n
  <2> QED BY <2>1
<1>n. DOMAIN data = 1..n
  BY LenProperties
<1>2. /\ left \in Seq(E) /\ Len(left) = h /\ \A k \in 1..h : left[k] = data[k]
  <2> HIDE DEF h
  <2>1. \A k \in 1..h : data[k] \in E
    BY <1>1, <1>n, ElementOfSeq
  <2>2. left = [k \in 1..h |-> data[k]]
    <3>1. left = SubSeq(data, 1, h)
      BY DEF LeftPart, h
    <3> HIDE DEF left
    <3> QED BY <1>1, <3>1
  <2> HIDE DEF left
  <2>3. left \in [1..h -> E]
    BY <2>1, <2>2
  <2> QED BY <1>1, <2>2, <2>3
<1>3. /\ right \in Seq(E) /\ Len(right) = n - h /\ \A k \in 1..n - h : right[k] = data[h + k]
  <2>0. right = SubSeq(data, h + 1, n)
    BY DEF RightPart
  <2> HIDE DEF h, right
  <2>1. \A k \in 1..n - h : h + k \in 1..n
    BY <1>1
  <2>2. \A k \in 1..n - h : data[h + k] \in E
    BY <1>1, <1>n, <2>1, ElementOfSeq
  <2>3. right = [k \in 1..n - h |-> data[h + k]]
    BY <1>1, <2>0
  <2>4. right \in [1..n - h -> E] /\ n - h \in Nat
    BY <1>1, <2>2, <2>3
  <2> QED BY <2>3, <2>4
<1> HIDE DEF h, left, right
<1>4. ToSet(left) = {data[k] : k \in 1..h}
  <2>1. DOMAIN left = 1..h
    BY <1>2, LenProperties
  <2> QED BY <2>1, <1>2 DEF ToSet
<1>5. ToSet(right) = {data[k] : k \in h + 1..n}
  <2>1. DOMAIN right = 1..n - h
    BY <1>3, LenProperties
  <2>2. ToSet(right) = {data[h + k] : k \in 1..n - h}
    BY <2>1, <1>3 DEF ToSet
  <2>3. \A k \in 1..n - h : h + k \in h + 1..n
    BY <1>1
  <2>4. \A k \in h + 1..n : k - h \in 1..n - h /\ h + (k - h) = k
    BY <1>1
  <2> QED BY <2>2, <2>3, <2>4
<1>6. \A k \in 1..n : k \in 1..h \/ k \in h + 1..n
  BY <1>1
<1>7. \A k \in 1..h : k \in 1..n
  BY <1>1
<1>8. \A k \in h + 1..n : k \in 1..n
  BY <1>1
<1>9. ToSet(data) = {data[k] : k \in 1..n}
  BY <1>n DEF ToSet
<1>10. ToSet(data) = ToSet(left) \cup ToSet(right)
  <2> HIDE DEF n
  <2> QED BY <1>4, <1>5, <1>6, <1>7, <1>8, <1>9
<1> QED BY <1>1, <1>2, <1>3, <1>10 DEF left, right

LEMMA SeqOfInts ==
  ASSUME NEW S, S \subseteq Int, NEW list \in Seq(S)
  PROVE  list \in Seq(Int)
<1>n. PICK n \in Nat : n = Len(list) /\ DOMAIN list = 1..n
  OBVIOUS
<1>1. \A i \in 1..n : list[i] \in S
  BY <1>n
<1>2. \A i \in 1..n : list[i] \in Int
  BY <1>1
<1>3. list = [i \in 1..n |-> list[i]]
  BY <1>n
<1>4. list \in [1..n -> Int]
  BY <1>2, <1>3
<1> QED BY <1>4

\* What is sorted by a function of the lists that sorts their parts.
SortedParts(s, data) ==
  IF Len(data) < 2 THEN data ELSE Merged(s[LeftPart(data)], s[RightPart(data)])

\* MergeSort() is such a recursion.
LEMMA MergeSortIsRecursive ==
  ASSUME NEW list \in Seq(Int)
  PROVE  LET D == BoundedSeq(ToSet(list), Len(list))
         IN \E s : /\ \A data \in D : s[data] = SortedParts(s, data)
                   /\ MergeSort(list) = s[list]
<1> DEFINE E == ToSet(list)
           n == Len(list)
           D == BoundedSeq(E, n)
           Sorts(s) == s = [data \in D |-> SortedParts(s, data)]
           sort == CHOOSE s : Sorts(s)
           V == [D -> Seq(Int)]
           base == [data \in D |-> data]
           step == [k \in 1..n |-> [s \in V |-> [data \in D |-> SortedParts(s, data)]]]
<1>1. n \in Nat /\ E \subseteq Int
  BY DEF ToSet
<1>2. ASSUME NEW data \in D
      PROVE  /\ data \in Seq(Int) /\ data \in Seq(E) /\ Len(data) \in Nat /\ Len(data) <= n
             /\ Len(data) >= 2 => LeftPart(data) \in D /\ RightPart(data) \in D
                                  /\ Len(LeftPart(data)) < Len(data) /\ Len(RightPart(data)) < Len(data)
  <2> HIDE DEF E, n
  <2>1. PICK m \in 0..n : data \in [1..m -> E]
    BY DEF BoundedSeq, SeqOf
  <2>2. data \in Seq(E) /\ Len(data) = m /\ m \in Nat /\ m <= n
    BY <2>1, <1>1
  <2>3. data \in Seq(Int)
    <3>1. data \in [1..m -> Int]
      BY <2>1, <1>1
    <3> QED BY <3>1, <2>2
  <2>4. ASSUME NEW p \in Seq(E), Len(p) <= n PROVE p \in D
    <3>1. Len(p) \in 0..n /\ p \in [1..Len(p) -> E]
      BY <2>4, <1>1, LenProperties
    <3> QED BY <3>1 DEF BoundedSeq, SeqOf
  <2>5. ASSUME Len(data) >= 2
        PROVE  /\ LeftPart(data) \in D /\ RightPart(data) \in D
               /\ Len(LeftPart(data)) < Len(data) /\ Len(RightPart(data)) < Len(data)
    <3>1. /\ LeftPart(data) \in Seq(E) /\ RightPart(data) \in Seq(E)
          /\ Len(LeftPart(data)) < Len(data) /\ Len(RightPart(data)) < Len(data)
      BY <2>2, <2>5, PartsAre
    <3>2. Len(LeftPart(data)) \in Nat /\ Len(RightPart(data)) \in Nat
      BY <3>1, LenProperties
    <3>3. Len(LeftPart(data)) <= n /\ Len(RightPart(data)) <= n
      BY <3>1, <3>2, <2>2, <1>1
    <3> HIDE DEF D
    <3> QED BY <3>1, <3>3, <2>4
  <2> HIDE DEF D
  <2> QED BY <2>2, <2>3, <2>5
<1> HIDE DEF D, E
<1>3. base \in V
  <2>1. \A data \in D : data \in Seq(Int)
    BY <1>2
  <2> QED BY <2>1
<1>4. step \in Steps(n, V)
  <2>1. ASSUME NEW s \in V, NEW data \in D PROVE SortedParts(s, data) \in Seq(Int)
    <3>1. CASE Len(data) < 2
      BY <3>1, <1>2 DEF SortedParts
    <3>2. CASE ~(Len(data) < 2)
      <4>1. s[LeftPart(data)] \in Seq(Int) /\ s[RightPart(data)] \in Seq(Int)
        BY <3>2, <1>2
      <4>2. Merged(s[LeftPart(data)], s[RightPart(data)]) \in Seq(Int)
        BY <4>1, MergedIsOrdered
      <4> QED BY <3>2, <4>2 DEF SortedParts
    <3> QED BY <3>1, <3>2
  <2>2. ASSUME NEW s \in V PROVE [data \in D |-> SortedParts(s, data)] \in V
    BY <2>1
  <2> HIDE DEF n, V
  <2> QED BY <2>2 DEF Steps
<1>5. PICK f \in [0..n -> V] : Recursion(f, n, base, step)
  <2> HIDE DEF n, step, V, base
  <2> QED BY <1>1, <1>3, <1>4, RecursionExists
<1>6. ASSUME NEW k \in 1..n, NEW data \in D PROVE f[k][data] = SortedParts(f[k - 1], data)
  <2>1. k - 1 \in 0..n
    BY <1>1
  <2>2. f[k - 1] \in V
    <3> HIDE DEF n, V
    <3> QED BY <1>5, <2>1
  <2>3. f[k] = step[k][f[k - 1]]
    <3> HIDE DEF n, V, step, base
    <3> QED BY <1>5 DEF Recursion
  <2>4. f[k] = [d \in D |-> SortedParts(f[k - 1], d)]
    <3> HIDE DEF n, V
    <3> QED BY <2>2, <2>3 DEF step
  <2> QED BY <2>4
\* A list that is not longer than k is sorted after k rounds.
<1> DEFINE T == {k \in 0..n : k >= 1 => \A data \in D : Len(data) <= k => f[k][data] = f[k - 1][data]}
<1>7. 0 \in T
  BY <1>1
<1>8. ASSUME NEW k \in 0..n - 1, k \in T PROVE k + 1 \in T
  <2>1. k \in 0..n /\ k + 1 \in 0..n /\ k + 1 \in 1..n /\ (k + 1) - 1 = k /\ k \in Nat
    BY <1>1
  <2>2. ASSUME NEW data \in D, Len(data) <= k + 1 PROVE f[k + 1][data] = f[k][data]
    <3>1. f[k + 1][data] = SortedParts(f[k], data)
      <4> HIDE DEF n
      <4> QED BY <2>1, <1>6
    <3>2. CASE k = 0
      <4>1. Len(data) < 2
        BY <2>2, <3>2, <1>2
      <4>2. f[0][data] = data
        BY <1>5 DEF Recursion
      <4> QED BY <3>1, <3>2, <4>1, <4>2 DEF SortedParts
    <3>3. CASE k # 0
      <4>0. k \in 1..n
        BY <2>1, <3>3
      <4>1. f[k][data] = SortedParts(f[k - 1], data)
        <5> HIDE DEF n
        <5> QED BY <4>0, <1>6
      <4>2. CASE Len(data) < 2
        BY <3>1, <4>1, <4>2 DEF SortedParts
      <4>3. CASE ~(Len(data) < 2)
        <5>1. /\ LeftPart(data) \in D /\ RightPart(data) \in D
              /\ Len(LeftPart(data)) < Len(data) /\ Len(RightPart(data)) < Len(data)
          BY <4>3, <1>2
        <5>2. Len(LeftPart(data)) \in Nat /\ Len(RightPart(data)) \in Nat /\ Len(data) \in Nat
          BY <5>1, <1>2
        <5>3. Len(LeftPart(data)) <= k /\ Len(RightPart(data)) <= k
          BY <5>1, <5>2, <2>1, <2>2
        <5>4. f[k][LeftPart(data)] = f[k - 1][LeftPart(data)] /\ f[k][RightPart(data)] = f[k - 1][RightPart(data)]
          BY <1>8, <4>0, <5>1, <5>3
        <5> QED BY <3>1, <4>1, <5>4 DEF SortedParts
      <4> QED BY <4>2, <4>3
    <3> QED BY <3>2, <3>3
  <2> QED BY <2>1, <2>2
<1>9. n \in T
  <2> HIDE DEF T
  <2>1. n \in 0..n
    BY <1>1
  <2> HIDE DEF n
  <2> QED BY <1>1, <1>7, <1>8, <2>1, IntervalInduction
<1>10. f[n] \in V
  <2>1. n \in 0..n
    BY <1>1
  <2> HIDE DEF n, V
  <2> QED BY <2>1, <1>5
<1>11. ASSUME NEW data \in D PROVE f[n][data] = SortedParts(f[n], data)
  <2>1. CASE n = 0
    <3>1. Len(data) < 2
      BY <2>1, <1>2
    <3>2. f[0][data] = data
      BY <1>5 DEF Recursion
    <3> QED BY <2>1, <3>1, <3>2 DEF SortedParts
  <2>2. CASE n # 0
    <3>1. n \in 1..n
      BY <2>2, <1>1
    <3>2. f[n][data] = SortedParts(f[n - 1], data)
      <4> HIDE DEF n
      <4> QED BY <3>1, <1>6
    <3>3. CASE Len(data) < 2
      BY <3>2, <3>3 DEF SortedParts
    <3>4. CASE ~(Len(data) < 2)
      <4>1. /\ LeftPart(data) \in D /\ RightPart(data) \in D
            /\ Len(LeftPart(data)) <= n /\ Len(RightPart(data)) <= n
        BY <3>4, <1>2
      <4>2. f[n][LeftPart(data)] = f[n - 1][LeftPart(data)] /\ f[n][RightPart(data)] = f[n - 1][RightPart(data)]
        BY <1>9, <3>1, <4>1
      <4> QED BY <3>2, <4>2 DEF SortedParts
    <3> QED BY <3>3, <3>4
  <2> QED BY <2>1, <2>2
<1>12. Sorts(f[n])
  <2>1. f[n] = [data \in D |-> f[n][data]]
    BY <1>10
  <2>2. f[n] = [data \in D |-> SortedParts(f[n], data)]
    BY <2>1, <1>11
  <2> QED BY <2>2
<1>13. Sorts(sort)
  <2> HIDE DEF Sorts
  <2> QED BY <1>12
<1>14. \A data \in D : sort[data] = SortedParts(sort, data)
  <2> HIDE DEF sort
  <2>1. sort = [data \in D |-> SortedParts(sort, data)]
    BY <1>13
  <2> QED BY <2>1
<1>15. MergeSort(list) = sort[list]
  BY DEF MergeSort, SortedParts, LeftPart, RightPart, D, E
<1> HIDE DEF sort
<1> QED BY <1>14, <1>15 DEF D, E

\* A sorted list is in order and holds what the list held.
LEMMA SortedIsOrdered ==
  ASSUME NEW S, S \subseteq Int, NEW list \in Seq(S)
  PROVE  MergeSort(list) \in Seq(S) /\ Ordered(MergeSort(list)) /\ ToSet(MergeSort(list)) = ToSet(list)
<1> DEFINE n == Len(list)
           E == ToSet(list)
           D == BoundedSeq(E, n)
           IsSortedAs(data, r) == r \in Seq(Int) /\ Ordered(r) /\ ToSet(r) = ToSet(data)
<1>0. list \in Seq(Int)
  BY SeqOfInts
<1>n. n \in Nat /\ list \in [1..n -> E] /\ E \subseteq S /\ E \subseteq Int
  <2>1. DOMAIN list = 1..n /\ n \in Nat
    BY LenProperties
  <2> QED BY <2>1, <1>0 DEF ToSet
<1>1. PICK s : (\A data \in D : s[data] = SortedParts(s, data)) /\ MergeSort(list) = s[list]
  BY <1>0, MergeSortIsRecursive
<1>2. ASSUME NEW data \in D PROVE data \in Seq(E) /\ data \in Seq(Int) /\ Len(data) \in Nat /\ Len(data) <= n
  <2> HIDE DEF E, n
  <2>1. PICK m \in 0..n : data \in [1..m -> E]
    BY DEF BoundedSeq, SeqOf
  <2>2. data \in Seq(E) /\ Len(data) = m /\ m \in Nat /\ m <= n
    BY <2>1, <1>n
  <2>3. data \in [1..m -> Int]
    BY <2>1, <1>n
  <2> QED BY <2>2, <2>3
<1>3. ASSUME NEW p \in Seq(E), Len(p) <= n PROVE p \in D
  <2> HIDE DEF E, n
  <2>1. Len(p) \in 0..n /\ p \in [1..Len(p) -> E]
    BY <1>3, <1>n, LenProperties
  <2> QED BY <2>1 DEF BoundedSeq, SeqOf
<1> HIDE DEF D, E
<1> DEFINE T == {k \in 0..n : \A data \in D : Len(data) <= k => IsSortedAs(data, s[data])}
<1>4. ASSUME NEW data \in D, Len(data) < 2 PROVE IsSortedAs(data, s[data])
  <2>1. s[data] = data
    BY <1>1, <1>4 DEF SortedParts
  <2>2. Ordered(data)
    BY <1>2, <1>4 DEF Ordered
  <2> QED BY <2>1, <2>2, <1>2
<1>5. 0 \in T
  <2>1. \A data \in D : Len(data) <= 0 => Len(data) < 2
    BY <1>2
  <2>2. 0 \in 0..n
    BY <1>n
  <2> HIDE DEF IsSortedAs
  <2> QED BY <2>1, <2>2, <1>4
<1>6. ASSUME NEW k \in 0..n - 1, k \in T PROVE k + 1 \in T
  <2>1. k + 1 \in 0..n /\ k \in Nat
    BY <1>n
  <2>2. ASSUME NEW data \in D, Len(data) <= k + 1, Len(data) >= 2 PROVE IsSortedAs(data, s[data])
    <3>1. /\ LeftPart(data) \in Seq(E) /\ RightPart(data) \in Seq(E)
          /\ Len(LeftPart(data)) < Len(data) /\ Len(RightPart(data)) < Len(data)
          /\ ToSet(data) = ToSet(LeftPart(data)) \cup ToSet(RightPart(data))
      BY <1>2, <2>2, PartsAre
    <3>2. /\ Len(LeftPart(data)) \in Nat /\ Len(RightPart(data)) \in Nat /\ Len(data) \in Nat
          /\ Len(data) <= n
      BY <3>1, <1>2, LenProperties
    <3>3. /\ Len(LeftPart(data)) <= k /\ Len(RightPart(data)) <= k
          /\ Len(LeftPart(data)) <= n /\ Len(RightPart(data)) <= n
      BY <3>1, <3>2, <2>1, <2>2, <1>n
    <3>4. LeftPart(data) \in D /\ RightPart(data) \in D
      BY <3>1, <3>3, <1>3
    <3>5. IsSortedAs(LeftPart(data), s[LeftPart(data)]) /\ IsSortedAs(RightPart(data), s[RightPart(data)])
      <4> HIDE DEF IsSortedAs
      <4> QED BY <1>6, <3>3, <3>4
    <3>6. s[data] = Merged(s[LeftPart(data)], s[RightPart(data)])
      <4>1. ~(Len(data) < 2)
        BY <2>2, <3>2
      <4> QED BY <4>1, <1>1 DEF SortedParts
    <3>7. IsSortedAs(data, Merged(s[LeftPart(data)], s[RightPart(data)]))
      BY <3>1, <3>5, MergedIsOrdered
    <3> HIDE DEF IsSortedAs
    <3> QED BY <3>6, <3>7
  <2>3. ASSUME NEW data \in D, Len(data) <= k + 1 PROVE IsSortedAs(data, s[data])
    <3>1. Len(data) < 2 \/ Len(data) >= 2
      BY <1>2
    <3> HIDE DEF IsSortedAs
    <3> QED BY <3>1, <2>2, <2>3, <1>4
  <2> HIDE DEF IsSortedAs
  <2> QED BY <2>1, <2>3
<1>7. n \in T
  <2> HIDE DEF T
  <2>1. n \in 0..n
    BY <1>n
  <2> HIDE DEF n
  <2> QED BY <1>n, <1>5, <1>6, <2>1, IntervalInduction
<1>8. IsSortedAs(list, s[list])
  <2>1. list \in D /\ Len(list) <= n
    BY <1>n, <1>3
  <2> HIDE DEF IsSortedAs
  <2> QED BY <2>1, <1>7
<1> DEFINE r == s[list]
<1>9. r \in Seq(Int) /\ Ordered(r) /\ ToSet(r) = E
  BY <1>8 DEF E
<1> HIDE DEF r
<1>10. r \in Seq(S)
  <2>1. DOMAIN r = 1..Len(r) /\ Len(r) \in Nat
    BY <1>9, LenProperties
  <2>2. \A k \in 1..Len(r) : r[k] \in E
    BY <2>1, <1>9 DEF ToSet
  <2>3. r \in [1..Len(r) -> S]
    BY <2>1, <2>2, <1>9, <1>n
  <2> QED BY <2>1, <2>3
<1> QED BY <1>1, <1>9, <1>10 DEF r, E
-----------------------------------------------------------------------------
(* strset_binsearch().                                                     *)

\* The interval after another round.
Half(list, x, s) ==
  IF s[2] - s[1] <= 1 THEN <<s[1], s[2]>>
  ELSE IF list[s[1] + (s[2] - s[1]) \div 2 + 1] <= x
       THEN <<s[1] + (s[2] - s[1]) \div 2, s[2]>>
       ELSE <<s[1], s[1] + (s[2] - s[1]) \div 2>>

\* f[k] is the interval after k rounds.
Narrows(f, list, x) ==
  /\ f[0] = <<0, Len(list)>>
  /\ \A k \in 1..Len(list) : f[k] = Half(list, x, f[k - 1])

\* What may be the interval of a list of n elements.
Intervals(n) == {s \in (0..n) \X (0..n) : s[1] <= s[2]}

LEMMA IntervalEnds ==
  ASSUME NEW n \in Nat, NEW s \in Intervals(n)
  PROVE  \E l, r \in 0..n : s = <<l, r>> /\ l <= r
BY DEF Intervals

\* A round keeps an interval of more than one element an interval.
LEMMA HalfIsInterval ==
  ASSUME NEW list \in Seq(Int), NEW x \in Int, NEW s \in Intervals(Len(list))
  PROVE  /\ Half(list, x, s) \in Intervals(Len(list))
         /\ s[2] - s[1] <= 1 => Half(list, x, s) = s
<1>n. PICK n \in Nat : n = Len(list)
  OBVIOUS
<1>1. PICK l \in 0..n, r \in 0..n : s = <<l, r>> /\ l <= r
  BY <1>n DEF Intervals
<1>2. CASE r - l <= 1
  <2>1. Half(list, x, s) = s
    BY <1>1, <1>2 DEF Half
  <2> QED BY <2>1
<1>3. CASE ~ (r - l <= 1)
  <2>1. PICK m : m = l + (r - l) \div 2
    OBVIOUS
  <2>2. m \in Int /\ l < m /\ m < r
    BY <1>3, <2>1
  <2>3. Half(list, x, s) \in {<<m, r>>, <<l, m>>}
    BY <1>1, <1>3, <2>1 DEF Half
  <2>4. <<m, r>> \in Intervals(n) /\ <<l, m>> \in Intervals(n)
    BY <2>2 DEF Intervals
  <2> QED BY <1>n, <1>1, <1>3, <2>3, <2>4
<1> QED BY <1>2, <1>3

\* BinSearch() is such a recursion.
LEMMA BinSearchNarrows ==
  ASSUME NEW list \in Seq(Int), NEW x \in Int
  PROVE  \E f \in [0..Len(list) -> Intervals(Len(list))] :
           /\ Narrows(f, list, x)
           /\ BinSearch(list, x) <=>
                f[Len(list)][1] # f[Len(list)][2] /\ list[f[Len(list)][1] + 1] = x
<1> DEFINE n == Len(list)
           V == Intervals(n)
           base == <<0, n>>
           step == [k \in 1..n |-> [s \in V |-> Half(list, x, s)]]
           After(f, k) == IF k = 0 THEN <<0, n>>
                          ELSE LET before == f[k - 1]  l == before[1]  r == before[2]
                                   m == l + (r - l) \div 2
                               IN IF r - l <= 1 THEN <<l, r>>
                                  ELSE IF list[m + 1] <= x THEN <<m, r>> ELSE <<l, m>>
           IsNarrowed(f) == f = [k \in 0..n |-> After(f, k)]
           narrow == CHOOSE f : IsNarrowed(f)
<1>1. n \in Nat /\ base \in V
  BY DEF Intervals
<1>2. step \in Steps(n, V)
  <2>1. \A s \in V : Half(list, x, s) \in V
    BY HalfIsInterval
  <2> HIDE DEF n, V
  <2> QED BY <2>1 DEF Steps
<1>3. PICK f \in [0..n -> V] : Recursion(f, n, base, step)
  <2> HIDE DEF n, step, V, base, After, IsNarrowed, narrow
  <2> QED BY <1>1, <1>2, RecursionExists
<1>4. ASSUME NEW k \in 1..n PROVE f[k] = Half(list, x, f[k - 1])
  <2>1. k - 1 \in 0..n
    BY <1>1
  <2>2. f[k - 1] \in V
    <3> HIDE DEF n, V
    <3> QED BY <1>3, <2>1
  <2>3. f[k] = step[k][f[k - 1]]
    <3> HIDE DEF n, V, step, base
    <3> QED BY <1>3 DEF Recursion
  <2> HIDE DEF n, V
  <2> QED BY <2>2, <2>3 DEF step
<1>5. ASSUME NEW g, NEW k \in 1..n PROVE After(g, k) = Half(list, x, g[k - 1])
  BY <1>1 DEF Half
<1>6. \A g : After(g, 0) = base
  OBVIOUS
<1>7. \E h : IsNarrowed(h)
  <2>1. ASSUME NEW k \in 0..n PROVE f[k] = After(f, k)
    <3>1. CASE k = 0
      <4>1. f[0] = base
        BY <1>3 DEF Recursion
      <4> HIDE DEF After, base
      <4> QED BY <3>1, <4>1, <1>6
    <3>2. CASE k # 0
      <4>1. k \in 1..n
        BY <3>2, <1>1
      <4> HIDE DEF After, n
      <4> QED BY <1>4, <1>5, <4>1
    <3> QED BY <3>1, <3>2
  <2>2. f = [k \in 0..n |-> After(f, k)]
    <3> HIDE DEF n, After, V
    <3> QED BY <1>3, <2>1
  <2> HIDE DEF After, n
  <2> QED BY <2>2
<1>8. narrow = [k \in 0..n |-> After(narrow, k)]
  <2> HIDE DEF After, n
  <2> QED BY <1>7
<1>9. \A k \in 0..n : narrow[k] = After(narrow, k)
  <2> HIDE DEF narrow, After, n
  <2> QED BY <1>8
<1>10. BinSearch(list, x) <=> narrow[n][1] # narrow[n][2] /\ list[narrow[n][1] + 1] = x
  BY DEF BinSearch
<1>11. narrow[n] = f[n]
  <2> HIDE DEF narrow, After
  <2> DEFINE T == {k \in 0..n : narrow[k] = f[k]}
  <2>1. 0 \in T
    <3>1. 0 \in 0..n /\ f[0] = base /\ narrow[0] = After(narrow, 0)
      BY <1>1, <1>3, <1>9 DEF Recursion
    <3> HIDE DEF base
    <3> QED BY <3>1, <1>6
  <2>2. ASSUME NEW k \in 0..n - 1, k \in T PROVE k + 1 \in T
    <3>1. k + 1 \in 1..n /\ (k + 1) - 1 = k /\ k + 1 \in 0..n
      BY <1>1
    <3>2. narrow[k + 1] = Half(list, x, narrow[(k + 1) - 1])
      <4> HIDE DEF n
      <4> QED BY <3>1, <1>5, <1>9
    <3>3. f[k + 1] = Half(list, x, f[(k + 1) - 1])
      <4> HIDE DEF n
      <4> QED BY <3>1, <1>4
    <3> HIDE DEF n
    <3> QED BY <2>2, <3>1, <3>2, <3>3
  <2>3. n \in T
    <3> HIDE DEF T
    <3>1. n \in 0..n
      BY <1>1
    <3> HIDE DEF n
    <3> QED BY <1>1, <2>1, <2>2, <3>1, IntervalInduction
  <2> QED BY <2>3
<1>12. Narrows(f, list, x)
  <2>1. f[0] = base
    BY <1>3 DEF Recursion
  <2> QED BY <2>1, <1>4 DEF Narrows
<1> HIDE DEF narrow, V, n
<1> QED BY <1>3, <1>10, <1>11, <1>12 DEF n, V

LEMMA BinSearchType == ASSUME NEW list, NEW x PROVE BinSearch(list, x) \in BOOLEAN
BY Zenon DEF BinSearch

\* In a list in order exactly what it holds is found.
LEMMA BinSearchFinds ==
  ASSUME NEW list \in Seq(Int), NEW x \in Int, Ordered(list)
  PROVE  BinSearch(list, x) <=> x \in ToSet(list)
<1>n. PICK n \in Nat : n = Len(list)
  OBVIOUS
<1>1. PICK f \in [0..n -> Intervals(n)] :
        /\ Narrows(f, list, x)
        /\ BinSearch(list, x) <=> f[n][1] # f[n][2] /\ list[f[n][1] + 1] = x
  BY <1>n, BinSearchNarrows
<1>2. /\ \A i \in 1..n : list[i] \in Int /\ \A j \in 1..n : i <= j => list[i] <= list[j]
      /\ x \in ToSet(list) <=> \E p \in 1..n : list[p] = x
  <2>1. \A i \in 1..n : list[i] \in Int
    BY <1>n
  <2>2. \A i, j \in 1..n : i < j => list[i] <= list[j]
    BY <1>n DEF Ordered
  <2>3. x \in ToSet(list) <=> \E p \in 1..n : list[p] = x
    BY <1>n DEF ToSet
  <2>4. \A i, j \in 1..n : i <= j => i < j \/ i = j
    OBVIOUS
  <2> QED BY <2>1, <2>2, <2>3, <2>4
<1> DEFINE Within(s) == \E p \in s[1] + 1..s[2] : list[p] = x
           T == {k \in 0..n : /\ n > 0 => f[k][1] < f[k][2]
                              /\ f[k][2] - f[k][1] <= 1 \/ f[k][2] - f[k][1] <= n - k
                              /\ x \in ToSet(list) => Within(f[k])}
<1>3. 0 \in T
  <2>1. f[0] = <<0, n>>
    BY <1>n, <1>1 DEF Narrows
  <2>2. f[0][1] = 0 /\ f[0][2] = n
    BY <2>1
  <2> QED BY <1>2, <2>2, SMTT(20)
<1>4. ASSUME NEW k \in 0..n - 1, k \in T PROVE k + 1 \in T
  <2>1. k + 1 \in 1..n /\ (k + 1) - 1 = k /\ k + 1 \in 0..n /\ k \in 0..n /\ n > 0
    OBVIOUS
  <2>2. f[k + 1] = Half(list, x, f[k]) /\ f[k] \in Intervals(n)
    BY <1>n, <1>1, <2>1 DEF Narrows
  <2>3. PICK l \in 0..n, r \in 0..n : f[k] = <<l, r>> /\ l <= r
    BY <2>2, IntervalEnds
  <2>4. /\ l < r /\ (r - l <= 1 \/ r - l <= n - k)
        /\ x \in ToSet(list) => \E p \in l + 1..r : list[p] = x
    BY <1>4, <2>1, <2>3
  <2>5. CASE r - l <= 1
    <3>1. f[k + 1] = <<l, r>>
      BY <2>2, <2>3, <2>5 DEF Half
    <3> QED BY <2>1, <2>4, <2>5, <3>1, SMTT(20)
  <2>6. CASE ~ (r - l <= 1)
    <3>1. PICK m : m = l + (r - l) \div 2
      OBVIOUS
    <3>2. m \in 1..n - 1 /\ l < m /\ m < r /\ m + 1 \in 1..n /\ l \in Int /\ r \in Int
      BY <2>6, <3>1
    <3>3. f[k + 1] = IF list[m + 1] <= x THEN <<m, r>> ELSE <<l, m>>
      BY <2>2, <2>3, <2>6, <3>1 DEF Half
    <3>4. CASE list[m + 1] <= x
      <4>1. f[k + 1] = <<m, r>>
        BY <3>3, <3>4
      <4>2. ASSUME x \in ToSet(list) PROVE \E p \in m + 1..r : list[p] = x
        <5>1. PICK p \in l + 1..r : list[p] = x
          BY <2>4, <4>2
        <5>2. CASE p \in m + 1..r
          BY <5>1, <5>2
        <5>3. CASE ~ (p \in m + 1..r)
          <6>1. p \in 1..n /\ p <= m + 1 /\ m + 1 \in m + 1..r
            BY <3>2, <5>3
          <6>2. list[p] <= list[m + 1] /\ list[m + 1] \in Int
            BY <1>2, <3>2, <6>1
          <6>3. list[m + 1] = x
            BY <3>4, <5>1, <6>2
          <6> QED BY <6>1, <6>3
        <5> QED BY <5>2, <5>3
      <4>3. m < r /\ (r - m <= n - (k + 1))
        BY <2>4, <2>6, <3>2, <2>1
      <4> QED BY <2>1, <4>1, <4>2, <4>3
    <3>5. CASE ~ (list[m + 1] <= x)
      <4>1. f[k + 1] = <<l, m>>
        BY <3>3, <3>5
      <4>2. ASSUME x \in ToSet(list) PROVE \E p \in l + 1..m : list[p] = x
        <5>1. PICK p \in l + 1..r : list[p] = x
          BY <2>4, <4>2
        <5>2. CASE p \in l + 1..m
          BY <5>1, <5>2
        <5>3. CASE ~ (p \in l + 1..m)
          <6>1. p \in 1..n /\ m + 1 <= p
            BY <3>2, <5>3
          <6>2. list[m + 1] <= list[p]
            BY <1>2, <3>2, <6>1
          <6> QED BY <3>5, <5>1, <6>2
        <5> QED BY <5>2, <5>3
      <4>3. l < m /\ (m - l <= n - (k + 1))
        BY <2>4, <2>6, <3>2, <2>1
      <4> QED BY <2>1, <4>1, <4>2, <4>3
    <3> QED BY <3>4, <3>5
  <2> QED BY <2>5, <2>6
<1>5. n \in T
  <2> HIDE DEF T
  <2>1. n \in 0..n
    OBVIOUS
  <2> QED BY <1>3, <1>4, <2>1, IntervalInduction
<1>6. PICK l \in 0..n, r \in 0..n : f[n] = <<l, r>> /\ l <= r
  <2>1. f[n] \in Intervals(n)
    BY <1>1
  <2> QED BY <2>1, IntervalEnds
<1>7. /\ r - l <= 1
      /\ x \in ToSet(list) => \E p \in l + 1..r : list[p] = x
  BY <1>5, <1>6
<1>8. BinSearch(list, x) <=> l # r /\ list[l + 1] = x
  BY <1>1, <1>6
<1>9. ASSUME BinSearch(list, x) PROVE x \in ToSet(list)
  <2>1. l + 1 \in 1..n /\ list[l + 1] = x
    BY <1>6, <1>8, <1>9
  <2> QED BY <1>2, <2>1
<1>10. ASSUME x \in ToSet(list) PROVE BinSearch(list, x)
  <2>1. PICK p \in l + 1..r : list[p] = x
    BY <1>7, <1>10
  <2>2. l # r /\ p = l + 1
    BY <1>6, <1>7
  <2> QED BY <1>8, <2>1, <2>2
<1> QED BY <1>9, <1>10

-----------------------------------------------------------------------------
(* The thread and the kernel.                                              *)

\* A call may begin where nothing is known yet.
LEMMA NwInvInit == NwInit => NwInv
<1> SUFFICES ASSUME NwInit PROVE NwInv
  OBVIOUS
<1>1. NwTypeOK
  BY NwAssumption DEF NwInit, NwStart, NwTypeOK, NwThreads, Kinds, Kernels, NwCalls, NwCounts
<1>2. Listening /\ ListIsCurrent /\ LoopIsCurrent /\ ToldIsCurrent
  BY DEF NwInit, NwStart, Listening, ListIsCurrent, LoopIsCurrent, ToldIsCurrent, Heard
<1> QED BY <1>1, <1>2 DEF NwInv

\* What is told of an interface.
LEMMA EntryIsRow ==
  ASSUME NwTypeOK, NEW i \in Ifaces, NEW wlan \in BOOLEAN
  PROVE  Entry(i, wlan) \in Rows
BY DEF NwTypeOK, NwOptions, Entry, Rows

\* The first that is to do, and the rest.
LEMMA HeadAndTail ==
  ASSUME NEW S, NEW list \in Seq(S), list # <<>>,
         \A i, j \in 1..Len(list) : i # j => list[i] # list[j]
  PROVE  /\ Head(list) \in ToSet(list) /\ ToSet(Tail(list)) = ToSet(list) \ {Head(list)}
         /\ \A i, j \in 1..Len(Tail(list)) : i # j => Tail(list)[i] # Tail(list)[j]
<1>1. PICK n \in Nat : n = Len(list)
  OBVIOUS
<1>2. /\ n >= 1 /\ Head(list) = list[1] /\ Tail(list) \in Seq(S) /\ Len(Tail(list)) = n - 1
      /\ \A k \in 1..n - 1 : Tail(list)[k] = list[k + 1]
  BY <1>1
<1>3. ToSet(list) = {list[k] : k \in 1..n} /\ ToSet(Tail(list)) = {Tail(list)[k] : k \in 1..n - 1}
  <2>1. DOMAIN list = 1..n /\ DOMAIN Tail(list) = 1..n - 1
    BY <1>1, <1>2
  <2> QED BY <2>1 DEF ToSet
<1>4. ASSUME NEW k \in 1..n - 1
      PROVE  Tail(list)[k] \in ToSet(list) /\ Tail(list)[k] # Head(list)
  <2>1. k + 1 \in 1..n /\ 1 \in 1..n /\ k + 1 # 1
    BY <1>2
  <2>2. list[k + 1] # list[1]
    BY <1>1, <2>1
  <2> QED BY <1>2, <1>3, <2>1, <2>2
<1>5. ASSUME NEW k \in 1..n, list[k] # Head(list) PROVE list[k] \in ToSet(Tail(list))
  <2>1. k # 1
    BY <1>2, <1>5
  <2>2. k - 1 \in 1..n - 1 /\ (k - 1) + 1 = k
    BY <1>2, <2>1
  <2>3. Tail(list)[k - 1] = list[k]
    BY <1>2, <2>2
  <2> QED BY <1>3, <2>2, <2>3
<1>6. ToSet(Tail(list)) = ToSet(list) \ {Head(list)}
  BY <1>3, <1>4, <1>5
<1>7. ASSUME NEW i \in 1..n - 1, NEW j \in 1..n - 1, i # j PROVE Tail(list)[i] # Tail(list)[j]
  <2>1. i + 1 \in 1..n /\ j + 1 \in 1..n /\ i + 1 # j + 1
    BY <1>7
  <2> QED BY <1>1, <1>2, <2>1
<1>8. 1 \in 1..n
  BY <1>2
<1> QED BY <1>2, <1>3, <1>6, <1>7, <1>8

\* One more at the end of a list.
LEMMA AppendToSet ==
  ASSUME NEW S, NEW list \in Seq(S), NEW x \in S
  PROVE  ToSet(Append(list, x)) = ToSet(list) \cup {x}
<1>1. PICK n \in Nat : n = Len(list)
  OBVIOUS
<1>2. /\ Append(list, x) \in Seq(S) /\ Len(Append(list, x)) = n + 1
      /\ \A k \in 1..n : Append(list, x)[k] = list[k]
      /\ Append(list, x)[n + 1] = x
  BY <1>1, AppendProperties
<1>3. ToSet(list) = {list[k] : k \in 1..n}
      /\ ToSet(Append(list, x)) = {Append(list, x)[k] : k \in 1..n + 1}
  BY <1>1, <1>2 DEF ToSet
<1>4. \A k \in 1..n + 1 : k \in 1..n \/ k = n + 1
  OBVIOUS
<1>5. \A k \in 1..n : k \in 1..n + 1
  OBVIOUS
<1>6. n + 1 \in 1..n + 1
  OBVIOUS
<1> HIDE DEF ToSet
<1> QED BY <1>2, <1>3, <1>4, <1>5, <1>6

\* What getifaddrs() returns: each interface that is there, once.
LEMMA ListOfPresent ==
  ASSUME NEW list \in SetToSeqs(Present)
  PROVE  /\ list \in Seq(Ifaces) /\ ToSet(list) = Present
         /\ \A i, j \in 1..Len(list) : i # j => list[i] # list[j]
<1>1. IsFiniteSet(Present)
  <2>1. IsFiniteSet(Ifaces)
    BY NwAssumption, FS_Interval DEF Ifaces
  <2> QED BY <2>1, FS_Subset DEF Present
<1>2. /\ list \in [1..Len(list) -> Present] /\ Len(list) \in Nat
      /\ \A i, j \in 1..Len(list) : i # j => list[i] # list[j]
      /\ \A w \in Present : \E k \in 1..Len(list) : list[k] = w
  BY <1>1, OrderIsAll
<1>3. list \in Seq(Present) /\ Present \subseteq Ifaces
  BY <1>2 DEF Present
<1>4. list \in Seq(Ifaces)
  BY <1>3
<1>5. ToSet(list) = {list[k] : k \in 1..Len(list)}
  BY <1>2 DEF ToSet
<1> HIDE DEF Present
<1> QED BY <1>2, <1>4, <1>5

\* The types are kept.
LEMMA NwTypeStep == NwTypeOK /\ [NwNext]_nwvars => NwTypeOK'
<1> SUFFICES ASSUME NwTypeOK, [NwNext]_nwvars PROVE NwTypeOK'
  OBVIOUS
<1> USE DEF NwTypeOK, NwThreads, Kernels, NwCalls, NwCounts
<1>1. ASSUME NEW i \in Ifaces, NEW k \in {"absent", "ether", "wlan"}, Change(i, k) PROVE NwTypeOK'
  <2> DEFINE fits == nwKern.msgs < NwQueue
  <2>1. /\ nwKern' = [nwKern EXCEPT !.kind[i] = k,
                        !.msgs = IF nwKern.bound /\ fits THEN @ + 1 ELSE @,
                        !.full = @ \/ (nwKern.bound /\ ~fits)]
        /\ UNCHANGED <<nwOpt, nw, nwTold>>
    BY <1>1 DEF Change
  <2>2. [nwKern.kind EXCEPT ![i] = k] \in Kinds
    BY DEF Kinds
  <2>3. (IF nwKern.bound /\ fits THEN nwKern.msgs + 1 ELSE nwKern.msgs) \in Nat
    OBVIOUS
  <2>4. (nwKern.full \/ (nwKern.bound /\ ~fits)) \in BOOLEAN
    OBVIOUS
  <2> HIDE DEF fits
  <2>5. nwKern' \in Kernels
    BY <2>1, <2>2, <2>3, <2>4
  <2>6. nwPast' \in NwCounts
    BY <1>1, SMTT(20) DEF Change
  <2> QED BY <2>1, <2>5, <2>6
<1>2. CASE NwWakeUp
  <2>1. nwKern' \in Kernels
    BY <1>2 DEF NwWakeUp
  <2>2. nwPast' \in NwCounts
    BY <1>2 DEF NwWakeUp
  <2> QED BY <1>2, <2>1, <2>2 DEF NwWakeUp
<1>g. \A l \in {"open", "poll", "resync", "returned"} : NwGoto(l) \in NwThreads
  BY DEF NwGoto, NwIdle
<1>m. \A refresh \in BOOLEAN, what \in {"update", "self_pipe", "timeout"} :
        MakeCall(refresh, what) \in NwThreads
  BY DEF MakeCall
<1>3. CASE OpenSocket
  <2>1. nw' \in NwThreads
    <3> HIDE DEF NwThreads
    <3> QED BY <1>3, <1>g, <1>m DEF OpenSocket
  <2>2. nwKern' \in Kernels
    BY <1>3 DEF OpenSocket
  <2> QED BY <1>3, <2>1, <2>2 DEF OpenSocket
<1>4. CASE GetIfaddrs
  <2>1. CASE /\ ReportError("poll")
             /\ nwPast' = (IF nw.refresh THEN [nwPast EXCEPT !.sound = FALSE] ELSE nwPast)
    BY <1>4, <2>1 DEF GetIfaddrs, ReportError, NwGoto, NwIdle
  <2>2. CASE /\ nwPast' = (IF nw.refresh THEN [nwPast EXCEPT !.sound = TRUE] ELSE nwPast)
             /\ UNCHANGED nwTold
             /\ \E list \in SetToSeqs({i \in Ifaces : nwKern.kind[i] # "absent"}) :
                  nw' = [nw EXCEPT !.pc = "describe", !.todo = list,
                                   !.wlan = IF nw.refresh THEN <<>> ELSE @]
    <3>1. PICK list \in SetToSeqs(Present) :
            nw' = [nw EXCEPT !.pc = "describe", !.todo = list,
                             !.wlan = IF nw.refresh THEN <<>> ELSE @]
      <4> HIDE DEF NwTypeOK
      <4> QED BY <2>2, Zenon DEF Present
    <3>2. list \in Seq(Ifaces)
      BY ListOfPresent
    <3>3. UNCHANGED <<nwOpt, nwKern>>
      <4> HIDE DEF NwTypeOK
      <4> QED BY <1>4, Zenon DEF GetIfaddrs
    <3>4. nw' \in NwThreads
      <4>1. <<>> \in Seq(Ifaces)
        OBVIOUS
      <4> QED BY <3>1, <3>2, <4>1
    <3>5. nwPast' \in NwCounts
      BY <2>2
    <3> QED BY <2>2, <3>3, <3>4, <3>5
  <2> HIDE DEF NwTypeOK
  <2> QED BY <1>4, <2>1, <2>2, Zenon DEF GetIfaddrs
<1>5. CASE Describe
  <2>1. PICK i : i = Head(nw.todo)
    OBVIOUS
  <2>2. PICK wlan : wlan = (IF nw.refresh THEN nwKern.kind[i] = "wlan" ELSE BinSearch(nw.wlan, i))
    OBVIOUS
  <2>3. i \in Ifaces /\ Tail(nw.todo) \in Seq(Ifaces) /\ Append(nw.wlan, i) \in Seq(Ifaces)
    BY <1>5, <2>1 DEF Describe
  <2>4. wlan \in BOOLEAN
    BY <2>2, BinSearchType
  <2>5. Entry(i, wlan) \in Rows
    BY <2>3, <2>4, EntryIsRow
  <2>6. nw' = [nw EXCEPT !.todo = Tail(@), !.table = @ \cup {Entry(i, wlan)},
                         !.wlan = IF nwOpt.wireless /\ nw.refresh /\ wlan
                                  THEN Append(@, i) ELSE @]
        /\ UNCHANGED <<nwOpt, nwKern, nwTold, nwPast>>
    BY <1>5, <2>1, <2>2 DEF Describe
  <2> QED BY <2>3, <2>5, <2>6
<1>6. CASE CallEnds
  <2>1. nw.wlan \in Seq(Ifaces) /\ Ifaces \subseteq Int
    BY DEF Ifaces
  <2>2. MergeSort(nw.wlan) \in Seq(Ifaces)
    BY <2>1, SortedIsOrdered
  <2> QED BY <1>6, <2>2 DEF CallEnds, NwIdle
<1>7. CASE SelfPipe
  <2>1. nw' \in NwThreads
    <3> HIDE DEF NwThreads
    <3> QED BY <1>7, <1>m DEF SelfPipe
  <2>2. nwKern' \in Kernels
    <3>1. nwKern.pipe - 1 \in Nat
      BY <1>7 DEF SelfPipe
    <3>2. nwKern' = [nwKern EXCEPT !.pipe = @ - 1]
      BY <1>7 DEF SelfPipe
    <3> QED BY <3>1, <3>2
  <2> QED BY <1>7, <2>1, <2>2 DEF SelfPipe
<1>8. CASE Timeout
  BY <1>8, <1>m DEF Timeout
<1>9. CASE Recv
  <2>1. nw' \in NwThreads
    <3> HIDE DEF NwThreads
    <3> QED BY <1>9, <1>g, <1>m DEF Recv
  <2>2. CASE nwKern.full
    <3>1. nwKern' = [nwKern EXCEPT !.full = FALSE]
      BY <1>9, <2>2 DEF Recv
    <3>2. nwKern' \in Kernels
      BY <3>1
    <3> QED BY <1>9, <2>1, <3>2 DEF Recv
  <2>3. CASE ~ nwKern.full
    <3>1. nwKern' = [nwKern EXCEPT !.msgs = @ - 1] /\ nwKern.msgs > 0
      BY <1>9, <2>3 DEF Recv
    <3>2. nwKern.msgs - 1 \in Nat
      BY <3>1
    <3>3. nwKern' \in Kernels
      BY <3>1, <3>2
    <3> QED BY <1>9, <2>1, <3>3 DEF Recv
  <2> QED BY <2>2, <2>3
<1>10. CASE Resync
  <2>1. nw' \in NwThreads /\ nwTold' \in NwCalls
    BY <1>10, <1>g DEF Resync, ReportError
  <2>2. nwKern' \in Kernels
    BY <1>10 DEF Resync
  <2> QED BY <1>10, <2>1, <2>2 DEF Resync
<1>11. CASE NwInterrupted
  BY <1>11, <1>m DEF NwInterrupted
<1>12. CASE RecvFails
  BY <1>12, <1>g DEF RecvFails
<1>13. CASE UNCHANGED nwvars
  BY <1>13 DEF nwvars
<1> QED BY <1>1, <1>2, <1>3, <1>4, <1>5, <1>6, <1>7, <1>8, <1>9, <1>10, <1>11, <1>12, <1>13
           DEF NwNext, NwThread

NwKnows == Listening /\ ListIsCurrent /\ LoopIsCurrent /\ ToldIsCurrent

\* Where the interfaces stay as they are, so does what is to be told of them.
LEMMA NwFrame ==
  ASSUME UNCHANGED <<nwOpt, nwKern.kind>>
  PROVE  /\ Present' = Present /\ Wlans' = Wlans /\ KernelTable' = KernelTable
         /\ \A i : AsItIs(i)' = AsItIs(i)
BY DEF Present, Wlans, KernelTable, AsItIs, Entry

\* A change is heard of by a thread that listens.
LEMMA ChangeKnows ==
  ASSUME NwInv, NEW i \in Ifaces, NEW k \in {"absent", "ether", "wlan"}, Change(i, k)
  PROVE  NwKnows'
<1>1. nw' = nw /\ nwTold' = nwTold /\ nwPast'.sound = nwPast.sound
      /\ nwKern'.bound = nwKern.bound
  BY DEF NwInv, NwTypeOK, NwThreads, Kernels, NwCounts, Change
<1>2. nwKern.bound => nwKern'.msgs # 0 \/ nwKern'.full
  BY NwAssumption DEF NwInv, NwTypeOK, NwThreads, Kernels, NwCounts, Change
<1>3. nw.pc \in {"getifaddrs", "describe", "poll"} => ~ Heard'
  BY <1>1, <1>2 DEF NwInv, Listening, Heard
<1>4. Listening'
  BY <1>1 DEF NwInv, Listening
<1>5. ListIsCurrent' /\ LoopIsCurrent'
  BY <1>1, <1>3 DEF ListIsCurrent, LoopIsCurrent
<1>6. ToldIsCurrent'
  BY <1>1, <1>3 DEF ToldIsCurrent, Heard
<1> QED BY <1>4, <1>5, <1>6 DEF NwKnows

\* getifaddrs() returns all there is, or fails, and then a refresh is not carried out.
LEMMA GetIfaddrsKnows == ASSUME NwInv, GetIfaddrs PROVE NwKnows'
<1>t. NwTypeOK /\ NwKnows /\ nw.pc = "getifaddrs" /\ UNCHANGED <<nwOpt, nwKern>>
  <2>1. NwTypeOK /\ NwKnows
    BY DEF NwInv, NwKnows
  <2>2. nw.pc = "getifaddrs" /\ UNCHANGED <<nwOpt, nwKern>>
    BY Zenon DEF GetIfaddrs
  <2> QED BY <2>1, <2>2
<1>f. /\ Present' = Present /\ Wlans' = Wlans /\ KernelTable' = KernelTable
      /\ \A i : AsItIs(i)' = AsItIs(i)
  BY <1>t, NwFrame
<1>1. CASE /\ ReportError("poll")
           /\ nwPast' = (IF nw.refresh THEN [nwPast EXCEPT !.sound = FALSE] ELSE nwPast)
  <2>1. /\ nw'.pc = "poll" /\ nw'.table = {} /\ ~ nw'.refresh /\ nw'.wlan = nw.wlan
        /\ nwTold'.what = "error"
    BY <1>1, <1>t DEF ReportError, NwGoto, NwIdle, NwTypeOK, NwThreads, Kernels, NwCounts
  <2>2. Heard' => Heard /\ ~ nw.refresh
    BY <1>1, <1>t DEF Heard, NwTypeOK, NwThreads, Kernels, NwCounts
  <2>3. Listening'
    BY <1>t, <2>1 DEF NwKnows, Listening
  <2>4. ListIsCurrent'
    BY <1>t, <1>f, <2>1, <2>2 DEF NwKnows, ListIsCurrent, Ordered
  <2>5. LoopIsCurrent' /\ ToldIsCurrent'
    BY <2>1 DEF LoopIsCurrent, ToldIsCurrent
  <2> QED BY <2>3, <2>4, <2>5 DEF NwKnows
<1>2. CASE /\ nwPast' = (IF nw.refresh THEN [nwPast EXCEPT !.sound = TRUE] ELSE nwPast)
           /\ \E list \in SetToSeqs({i \in Ifaces : nwKern.kind[i] # "absent"}) :
                nw' = [nw EXCEPT !.pc = "describe", !.todo = list,
                                 !.wlan = IF nw.refresh THEN <<>> ELSE @]
  <2>1. PICK list \in SetToSeqs(Present) :
          nw' = [nw EXCEPT !.pc = "describe", !.todo = list,
                           !.wlan = IF nw.refresh THEN <<>> ELSE @]
    BY <1>2, Zenon DEF Present
  <2>2. /\ list \in Seq(Ifaces) /\ ToSet(list) = Present
        /\ \A i, j \in 1..Len(list) : i # j => list[i] # list[j]
    BY ListOfPresent
  <2>3. /\ nw'.pc = "describe" /\ nw'.todo = list /\ nw'.refresh = nw.refresh /\ nw'.table = {}
        /\ nw'.wlan = (IF nw.refresh THEN <<>> ELSE nw.wlan)
    BY <1>t, <2>1 DEF NwTypeOK, NwThreads, Kernels, NwCounts, NwKnows, Listening
  <2>4. Heard' /\ ~ nw.refresh => Heard
    BY <1>2, <1>t DEF Heard
  <2>5. Listening'
    BY <1>2, <1>t, <2>3 DEF NwKnows, Listening, NwTypeOK, NwThreads, Kernels, NwCounts
  <2>6. ListIsCurrent'
    BY <1>t, <1>f, <2>3, <2>4 DEF NwKnows, ListIsCurrent, Ordered
  <2>7. ToldIsCurrent'
    BY <2>3 DEF ToldIsCurrent
  <2>8. ToSet(<<>>) = {}
    BY DEF ToSet
  <2>9. Wlans \subseteq Present /\ {AsItIs(i) : i \in Present \ Present} = {}
    BY DEF Wlans, Present
  <2>10. LoopIsCurrent'
    <3> SUFFICES ASSUME Heard'
                 PROVE  /\ \A i, j \in 1..Len(list) : i # j => list[i] # list[j]
                        /\ ToSet(list) \subseteq Present
                        /\ {} = {AsItIs(i)' : i \in Present \ ToSet(list)}
                        /\ nw.refresh => ToSet(nw'.wlan) = Wlans \ ToSet(list)
      BY <1>f, <2>3 DEF LoopIsCurrent
    <3> QED BY <2>2, <2>3, <2>8, <2>9
  <2> QED BY <2>5, <2>6, <2>7, <2>10 DEF NwKnows
<1> QED BY <1>1, <1>2, Zenon DEF GetIfaddrs

\* An interface is told as it is, whether the kernel is asked or the list.
LEMMA DescribeKnows == ASSUME NwInv, Describe PROVE NwKnows'
<1>t. /\ NwTypeOK /\ NwKnows /\ nw.pc = "describe" /\ nw.todo # <<>>
      /\ UNCHANGED <<nwOpt, nwKern, nwTold, nwPast>>
  BY DEF NwInv, NwKnows, Describe
<1>f. /\ Present' = Present /\ Wlans' = Wlans /\ KernelTable' = KernelTable
      /\ \A i : AsItIs(i)' = AsItIs(i)
  BY <1>t, NwFrame
<1>1. PICK x : x = Head(nw.todo)
  OBVIOUS
<1>2. PICK wlan : wlan = (IF nw.refresh THEN nwKern.kind[x] = "wlan" ELSE BinSearch(nw.wlan, x))
  OBVIOUS
<1>3. x \in Ifaces /\ nw.todo \in Seq(Ifaces) /\ nw.wlan \in Seq(Ifaces) /\ nw.refresh \in BOOLEAN
  BY <1>t, <1>1 DEF NwTypeOK, NwThreads, Kernels, NwCounts
<1>4. nw' = [nw EXCEPT !.todo = Tail(@), !.table = @ \cup {Entry(x, wlan)},
                       !.wlan = IF nwOpt.wireless /\ nw.refresh /\ wlan THEN Append(@, x) ELSE @]
  BY <1>1, <1>2 DEF Describe
<1>5. /\ nw'.pc = "describe" /\ nw'.refresh = nw.refresh /\ nw'.todo = Tail(nw.todo)
      /\ nw'.table = nw.table \cup {Entry(x, wlan)}
      /\ nw'.wlan = IF nwOpt.wireless /\ nw.refresh /\ wlan THEN Append(nw.wlan, x) ELSE nw.wlan
  BY <1>t, <1>4 DEF NwTypeOK, NwThreads, Kernels, NwCounts
<1>6. Heard' <=> Heard
  BY <1>t DEF Heard
<1>7. Listening'
  BY <1>t, <1>5 DEF NwKnows, Listening
<1>8. ListIsCurrent'
  <2> SUFFICES ASSUME Heard, ~ nw.refresh PROVE Ordered(nw.wlan) /\ ToSet(nw.wlan) = Wlans
    BY <1>f, <1>5, <1>6 DEF ListIsCurrent, Ordered
  <2> QED BY <1>t DEF NwKnows, ListIsCurrent
<1>9. ToldIsCurrent'
  BY <1>5 DEF ToldIsCurrent
<1>10. LoopIsCurrent'
  <2> SUFFICES ASSUME Heard
               PROVE  /\ \A i, j \in 1..Len(Tail(nw.todo)) :
                           i # j => Tail(nw.todo)[i] # Tail(nw.todo)[j]
                      /\ ToSet(Tail(nw.todo)) \subseteq Present
                      /\ nw'.table = {AsItIs(i)' : i \in Present \ ToSet(Tail(nw.todo))}
                      /\ nw.refresh => ToSet(nw'.wlan) = Wlans \ ToSet(Tail(nw.todo))
    BY <1>f, <1>5, <1>6 DEF LoopIsCurrent
  <2>1. /\ \A i, j \in 1..Len(nw.todo) : i # j => nw.todo[i] # nw.todo[j]
        /\ ToSet(nw.todo) \subseteq Present
        /\ nw.table = {AsItIs(i) : i \in Present \ ToSet(nw.todo)}
        /\ nw.refresh => ToSet(nw.wlan) = Wlans \ ToSet(nw.todo)
    BY <1>t DEF NwKnows, LoopIsCurrent
  <2>2. /\ x \in ToSet(nw.todo) /\ ToSet(Tail(nw.todo)) = ToSet(nw.todo) \ {x}
        /\ \A i, j \in 1..Len(Tail(nw.todo)) : i # j => Tail(nw.todo)[i] # Tail(nw.todo)[j]
    BY <1>t, <1>1, <1>3, <2>1, HeadAndTail
  <2>3. Entry(x, wlan) = AsItIs(x)
    <3>1. CASE nw.refresh
      BY <1>2, <3>1 DEF AsItIs
    <3>2. CASE ~ nw.refresh
      <4>1. Ordered(nw.wlan) /\ ToSet(nw.wlan) = Wlans
        BY <1>t, <3>2 DEF NwKnows, ListIsCurrent
      <4>2. nw.wlan \in Seq(Int) /\ x \in Int
        <5>1. Ifaces \subseteq Int
          BY DEF Ifaces
        <5> QED BY <1>3, <5>1, SeqOfInts
      <4>3. wlan <=> x \in Wlans
        BY <1>2, <3>2, <4>1, <4>2, BinSearchFinds
      <4>4. wlan \in BOOLEAN
        BY <1>2, <3>2, BinSearchType
      <4>5. (wlan /\ nwOpt.wireless) = (nwKern.kind[x] = "wlan" /\ nwOpt.wireless)
        BY <1>3, <4>3, <4>4 DEF Wlans
      <4> QED BY <4>5 DEF AsItIs, Entry
    <3> QED BY <3>1, <3>2, <1>3
  <2>4. nw'.table = {AsItIs(i) : i \in Present \ ToSet(Tail(nw.todo))}
    <3>1. Present \ ToSet(Tail(nw.todo)) = (Present \ ToSet(nw.todo)) \cup {x}
      BY <2>1, <2>2
    <3> HIDE DEF Present
    <3> QED BY <1>5, <2>1, <2>3, <3>1
  <2>5. ASSUME nw.refresh PROVE ToSet(nw'.wlan) = Wlans \ ToSet(Tail(nw.todo))
    <3>1. CASE x \in Wlans
      <4>1. nw'.wlan = Append(nw.wlan, x)
        BY <1>2, <1>5, <2>5, <3>1 DEF Wlans
      <4>2. ToSet(nw'.wlan) = ToSet(nw.wlan) \cup {x}
        BY <1>3, <4>1, AppendToSet
      <4> QED BY <2>1, <2>2, <2>5, <3>1, <4>2
    <3>2. CASE x \notin Wlans
      <4>1. nw'.wlan = nw.wlan
        BY <1>2, <1>3, <1>5, <2>5, <3>2 DEF Wlans
      <4> QED BY <2>1, <2>2, <2>5, <3>2, <4>1
    <3> QED BY <3>1, <3>2
  <2>6. \A i : AsItIs(i)' = AsItIs(i)
    BY <1>f
  <2>7. {AsItIs(i)' : i \in Present \ ToSet(Tail(nw.todo))} =
          {AsItIs(i) : i \in Present \ ToSet(Tail(nw.todo))}
    BY <2>6
  <2> QED BY <2>1, <2>2, <2>4, <2>5, <2>7
<1> QED BY <1>7, <1>8, <1>9, <1>10 DEF NwKnows

\* At the end all is told, and the list is in order.
LEMMA CallEndsKnows == ASSUME NwInv, CallEnds PROVE NwKnows'
<1>t. /\ NwTypeOK /\ NwKnows /\ nw.pc = "describe" /\ nw.todo = <<>>
      /\ UNCHANGED <<nwOpt, nwKern, nwPast>>
  BY DEF NwInv, NwKnows, CallEnds
<1>f. /\ Present' = Present /\ Wlans' = Wlans /\ KernelTable' = KernelTable
      /\ \A i : AsItIs(i)' = AsItIs(i)
  BY <1>t, NwFrame
<1>1. /\ nw'.pc = "poll" /\ ~ nw'.refresh /\ nw'.table = {}
      /\ nw'.wlan = (IF nw.refresh THEN MergeSort(nw.wlan) ELSE nw.wlan)
      /\ nwTold'.table = nw.table
  BY <1>t DEF CallEnds, NwIdle, NwTypeOK, NwThreads, Kernels, NwCounts
<1>2. Heard' <=> Heard
  BY <1>t DEF Heard
<1>3. ToSet(nw.todo) = {}
  BY <1>t DEF ToSet
<1>4. Listening'
  BY <1>t, <1>1 DEF NwKnows, Listening
<1>5. LoopIsCurrent'
  BY <1>1 DEF LoopIsCurrent
<1>6. ListIsCurrent'
  <2> SUFFICES ASSUME Heard PROVE Ordered(nw'.wlan) /\ ToSet(nw'.wlan) = Wlans
    BY <1>f, <1>1, <1>2 DEF ListIsCurrent, Ordered
  <2>1. CASE nw.refresh
    <3>1. ToSet(nw.wlan) = Wlans
      BY <1>t, <1>3, <2>1 DEF NwKnows, LoopIsCurrent
    <3>2. nw.wlan \in Seq(Ifaces) /\ Ifaces \subseteq Int
      BY <1>t DEF NwTypeOK, NwThreads, Kernels, NwCounts, Ifaces
    <3> QED BY <1>1, <2>1, <3>1, <3>2, SortedIsOrdered
  <2>2. CASE ~ nw.refresh
    BY <1>t, <1>1, <2>2 DEF NwKnows, ListIsCurrent
  <2> QED BY <2>1, <2>2
<1>7. ToldIsCurrent'
  <2> SUFFICES ASSUME Heard PROVE nw.table = KernelTable
    BY <1>f, <1>1, <1>2 DEF ToldIsCurrent, Heard
  <2>1. nw.table = {AsItIs(i) : i \in Present \ ToSet(nw.todo)}
    BY <1>t DEF NwKnows, LoopIsCurrent
  <2>2. KernelTable = {AsItIs(i) : i \in Present}
    BY DEF KernelTable, AsItIs, Present
  <2>3. Present \ ToSet(nw.todo) = Present
    BY <1>3
  <2> QED BY <2>1, <2>2, <2>3
<1> QED BY <1>4, <1>5, <1>6, <1>7 DEF NwKnows

\* What else happens asks again, or leaves all as it is.
LEMMA NwKnowsStep == ASSUME NwInv, [NwNext]_nwvars PROVE NwKnows'
<1>t. NwTypeOK /\ NwKnows
  BY DEF NwInv, NwKnows
<1>f. ASSUME UNCHANGED <<nwOpt, nwKern.kind>>
      PROVE  /\ Present' = Present /\ Wlans' = Wlans /\ KernelTable' = KernelTable
             /\ \A i : AsItIs(i)' = AsItIs(i)
  BY <1>f, NwFrame
\* The same thread, kernel and call, but for the self-pipe and the counters.
<1>s. ASSUME UNCHANGED <<nwOpt, nw, nwTold, nwKern.kind, nwKern.msgs, nwKern.full, nwKern.bound,
                         nwPast.sound>>
      PROVE  NwKnows'
  <2>1. /\ Present' = Present /\ Wlans' = Wlans /\ KernelTable' = KernelTable
        /\ \A i : AsItIs(i)' = AsItIs(i)
    BY <1>s, <1>f
  <2>2. Heard' <=> Heard
    BY <1>s DEF Heard
  <2>3. Listening'
    BY <1>t, <1>s DEF NwKnows, Listening
  <2>4. ListIsCurrent'
    BY <1>t, <1>s, <2>1, <2>2 DEF NwKnows, ListIsCurrent, Ordered
  <2>5. LoopIsCurrent'
    BY <1>t, <1>s, <2>1, <2>2 DEF NwKnows, LoopIsCurrent
  <2>6. ToldIsCurrent'
    BY <1>t, <1>s, <2>1 DEF NwKnows, ToldIsCurrent
  <2> QED BY <2>3, <2>4, <2>5, <2>6 DEF NwKnows
\* A call that is a refresh, or no call: nothing has to be known.
<1>n. ASSUME nw'.pc \in {"open", "resync", "returned"} \/ (nw'.pc = "getifaddrs" /\ nw'.refresh),
             nw'.pc = "getifaddrs" => nwKern'.bound, nw'.table = {}
      PROVE  NwKnows'
  <2>1. nw'.pc \notin {"poll", "describe"}
    BY <1>n
  <2>2. Listening'
    BY <1>n, <2>1 DEF Listening
  <2>3. ListIsCurrent'
    BY <1>n, <2>1 DEF ListIsCurrent
  <2>4. LoopIsCurrent' /\ ToldIsCurrent'
    BY <2>1 DEF LoopIsCurrent, ToldIsCurrent
  <2> QED BY <2>2, <2>3, <2>4 DEF NwKnows
\* A call that is none.
<1>c. ASSUME nw.pc = "poll", NEW what, nw' = MakeCall(FALSE, what),
             UNCHANGED <<nwOpt, nwKern.kind, nwKern.msgs, nwKern.full, nwKern.bound, nwPast>>
      PROVE  NwKnows'
  <2>1. /\ Present' = Present /\ Wlans' = Wlans /\ KernelTable' = KernelTable
        /\ \A i : AsItIs(i)' = AsItIs(i)
    BY <1>c, <1>f
  <2>2. Heard' <=> Heard
    BY <1>c DEF Heard
  <2>3. nw'.pc = "getifaddrs" /\ ~ nw'.refresh /\ nw'.wlan = nw.wlan /\ nw'.table = {}
    BY <1>t, <1>c DEF MakeCall, NwTypeOK, NwThreads, Kernels, NwCounts, NwKnows, Listening
  <2>4. Listening'
    BY <1>t, <1>c, <2>3 DEF NwKnows, Listening
  <2>5. ListIsCurrent'
    BY <1>t, <1>c, <2>1, <2>2, <2>3 DEF NwKnows, ListIsCurrent, Ordered
  <2>6. LoopIsCurrent' /\ ToldIsCurrent'
    BY <2>3 DEF LoopIsCurrent, ToldIsCurrent
  <2> QED BY <2>4, <2>5, <2>6 DEF NwKnows
<1>g. ASSUME NEW l \in {"open", "resync", "returned"}, nw' = NwGoto(l) PROVE NwKnows'
  <2>1. nw'.pc = l /\ nw'.table = {}
    BY <1>t, <1>g DEF NwGoto, NwIdle, NwTypeOK, NwThreads, Kernels, NwCounts
  <2> QED BY <2>1, <1>n
<1>m. ASSUME NEW what, nw' = MakeCall(TRUE, what), nw.pc # "describe", nwKern'.bound PROVE NwKnows'
  <2>1. nw'.pc = "getifaddrs" /\ nw'.refresh /\ nw'.table = {}
    BY <1>t, <1>m DEF MakeCall, NwTypeOK, NwThreads, Kernels, NwCounts, NwKnows, Listening
  <2> QED BY <2>1, <1>m, <1>n
<1>b. nw.pc = "poll" => nwKern.bound
  BY <1>t DEF NwKnows, Listening
<1>1. ASSUME NEW i \in Ifaces, NEW k \in {"absent", "ether", "wlan"}, Change(i, k) PROVE NwKnows'
  BY <1>1, ChangeKnows
<1>2. CASE NwWakeUp
  BY <1>2, <1>t, <1>s DEF NwWakeUp, NwTypeOK, NwThreads, Kernels, NwCounts
<1>3. CASE OpenSocket
  <2>1. CASE nw' = MakeCall(TRUE, "update") /\ nwKern' = [nwKern EXCEPT !.bound = TRUE]
    BY <1>3, <1>t, <1>m, <2>1 DEF OpenSocket, NwTypeOK, NwThreads, Kernels, NwCounts
  <2>2. CASE nw' = NwGoto("returned")
    BY <1>g, <2>2
  <2> QED BY <1>3, <2>1, <2>2 DEF OpenSocket
<1>4. CASE GetIfaddrs
  BY <1>4, GetIfaddrsKnows
<1>5. CASE Describe
  BY <1>5, DescribeKnows
<1>6. CASE CallEnds
  BY <1>6, CallEndsKnows
<1>7. CASE SelfPipe
  BY <1>7, <1>c, <1>t DEF SelfPipe, NwTypeOK, NwThreads, Kernels, NwCounts
<1>8. CASE Timeout
  BY <1>8, <1>c DEF Timeout
<1>9. CASE Recv
  <2>1. CASE nw' = NwGoto("resync")
    BY <1>g, <2>1
  <2>2. CASE nw' = MakeCall(TRUE, "update") /\ nwKern' = [nwKern EXCEPT !.msgs = @ - 1]
    BY <1>9, <1>b, <1>m, <1>t, <2>2 DEF Recv, NwTypeOK, NwThreads, Kernels, NwCounts
  <2> QED BY <1>9, <2>1, <2>2 DEF Recv
<1>10. CASE Resync
  BY <1>10, <1>g DEF Resync, ReportError
<1>11. CASE NwInterrupted
  BY <1>11, <1>b, <1>m DEF NwInterrupted
<1>12. CASE RecvFails
  BY <1>12, <1>g DEF RecvFails
<1>13. CASE UNCHANGED nwvars
  BY <1>13, <1>s DEF nwvars
<1> QED BY <1>1, <1>2, <1>3, <1>4, <1>5, <1>6, <1>7, <1>8, <1>9, <1>10, <1>11, <1>12, <1>13
           DEF NwNext, NwThread

-----------------------------------------------------------------------------
\* The inductive invariant: a thread that asks has a bound socket, and unless a message waits
\* or a refresh failed the list and the rows of the table so far are as the interfaces are.
THEOREM NwInvariance == NwSpec => []NwInv
<1>1. NwInit => NwInv
  BY NwInvInit
<1>2. NwInv /\ [NwNext]_nwvars => NwInv'
  BY NwTypeStep, NwKnowsStep DEF NwInv, NwKnows
<1> QED BY <1>1, <1>2, PTL DEF NwSpec

\* network-linux asks about the interfaces one by one while they change, and after a timeout
\* takes what is wireless from a list it sorted earlier: still, once no message is to be
\* read, what it told last is how the interfaces are.
THEOREM NetworkIsCurrent == NwSpec => []ToldIsCurrent
<1>1. NwInv => ToldIsCurrent
  BY DEF NwInv
<1> QED BY <1>1, NwInvariance, PTL
=============================================================================
