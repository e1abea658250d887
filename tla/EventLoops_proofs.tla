-------------------------- MODULE EventLoops_proofs ---------------------------
(*****************************************************************************)
(* Safety of the loops of timer, fs, inotify and udev for any paths,         *)
(* bounds and options: no event is lost, told twice or out of order, and     *)
(* the table of fs is that of one moment.  And of unixsock, for any          *)
(* connections and limits: cb is called with the first line of a connection, *)
(* in however many pieces it came.                                           *)
(*****************************************************************************)
EXTENDS EventLoops, UnixSock, Induction, SequenceTheorems, FiniteSetTheorems, TLAPS

-----------------------------------------------------------------------------
(* timer, fs, inotify, udev.                                               *)

-----------------------------------------------------------------------------
(* Sequences.                                                              *)

\* The events up to the n-th.
Events(n) == [k \in 1..n |-> k]

\* A sequence in which nothing is twice.
Injective(s) == \A i, j \in 1..Len(s) : s[i] = s[j] => i = j

\* An element appended to the second of two sequences is appended to both.
LEMMA AppendConcat ==
  ASSUME NEW s \in Seq(Nat), NEW t \in Seq(Nat), NEW e \in Nat
  PROVE  s \o Append(t, e) = Append(s \o t, e)
BY SMTT(30)

\* Concatenation is associative.
LEMMA ConcatConcat ==
  ASSUME NEW s \in Seq(Nat), NEW t \in Seq(Nat), NEW u \in Seq(Nat)
  PROVE  (s \o t) \o u = s \o (t \o u)
BY SMTT(30)

\* What is told, read and queued are numbers.
LEMMA ConcatType ==
  ASSUME NEW s \in Seq(Nat), NEW t \in Seq(Nat)
  PROVE  s \o t \in Seq(Nat)
BY SMTT(30)

\* An empty buffer.
LEMMA EmptyBuffer ==
  ASSUME NEW s \in Seq(Nat)
  PROVE  s \o <<>> = s
BY SMTT(30)

\* One more event at the end of the queue.
LEMMA AppendLast ==
  ASSUME NEW s \in Seq(Nat), NEW t \in Seq(Nat), NEW n \in Nat, s \o t = Events(n)
  PROVE  s \o Append(t, n + 1) = Events(n + 1)
<1>1. s \o Append(t, n + 1) = Append(s \o t, n + 1)
  BY AppendConcat, SMTT(40)
<1>2. Append(Events(n), n + 1) = Events(n + 1)
  <2>1. Events(n) \in Seq(Nat) /\ Len(Events(n)) = n
    BY DEF Events
  <2>. QED BY <2>1 DEF Events
<1>. QED BY <1>1, <1>2

\* A queue is cut in two.
LEMMA CutQueue ==
  ASSUME NEW q \in Seq(Nat), NEW n \in 1..Len(q)
  PROVE  /\ SubSeq(q, 1, n) \in Seq(Nat) /\ SubSeq(q, n + 1, Len(q)) \in Seq(Nat)
         /\ SubSeq(q, 1, n) \o SubSeq(q, n + 1, Len(q)) = q
<1>1. SubSeq(q, 1, n) \in Seq(Nat) /\ SubSeq(q, n + 1, Len(q)) \in Seq(Nat)
  BY SMTT(30)
<1>2. SubSeq(q, 1, n) \o SubSeq(q, n + 1, Len(q)) = q
  BY SMTT(30)
<1>. QED BY <1>1, <1>2

\* What is taken from the front of one sequence is put at the end of the other.
LEMMA MoveOne ==
  ASSUME NEW s \in Seq(Nat), NEW q \in Seq(Nat), q # <<>>
  PROVE  /\ Append(s, Head(q)) \in Seq(Nat) /\ Head(q) \in Nat /\ Tail(q) \in Seq(Nat)
         /\ Append(s, Head(q)) \o Tail(q) = s \o q
<1>1. Head(q) \in Nat /\ Tail(q) \in Seq(Nat)
  BY SMTT(30)
<1>2. Append(s, Head(q)) \in Seq(Nat)
  BY <1>1
<1>3. Append(s, Head(q)) \o Tail(q) = s \o q
  BY SMTT(30)
<1>. QED BY <1>1, <1>2, <1>3

\* StrlistPush() adds a path that is new.
LEMMA PushProps ==
  ASSUME NEW S, NEW list \in Seq(S), NEW name \in S, Injective(list)
  PROVE  /\ StrlistPush(list, name) \in Seq(S)
         /\ Injective(StrlistPush(list, name))
         /\ ToSet(StrlistPush(list, name)) = ToSet(list) \cup {name}
         /\ Len(StrlistPush(list, name)) =
              IF name \in ToSet(list) THEN Len(list) ELSE Len(list) + 1
<1>1. CASE name \in ToSet(list)
  BY <1>1 DEF StrlistPush
<1>2. CASE name \notin ToSet(list)
  <2> DEFINE new == Append(list, name)
  <2>1. /\ new \in Seq(S) /\ Len(new) = Len(list) + 1
        /\ \A k \in 1..Len(list) : new[k] = list[k]
        /\ new[Len(list) + 1] = name
    BY AppendProperties
  <2>2. \A k \in 1..Len(list) : list[k] # name
    BY <1>2 DEF ToSet
  <2>3. DOMAIN new = 1..Len(list) + 1 /\ DOMAIN list = 1..Len(list) /\ Len(list) \in Nat
    BY <2>1, LenProperties
  <2>4. ToSet(new) = ToSet(list) \cup {name}
    BY <2>1, <2>3 DEF ToSet
  <2>5. Injective(new)
    BY <2>1, <2>2, <2>3 DEF Injective
  <2>. QED BY <1>2, <2>1, <2>4, <2>5 DEF StrlistPush
<1>. QED BY <1>1, <1>2

\* StrlistRemove() removes exactly this path, although it moves another to its place.
LEMMA RemoveProps ==
  ASSUME NEW S, NEW list \in Seq(S), NEW name \in S, Injective(list)
  PROVE  /\ StrlistRemove(list, name) \in Seq(S)
         /\ Injective(StrlistRemove(list, name))
         /\ ToSet(StrlistRemove(list, name)) = ToSet(list) \ {name}
         /\ Len(StrlistRemove(list, name)) =
              IF name \in ToSet(list) THEN Len(list) - 1 ELSE Len(list)
<1> DEFINE n == Len(list)
<1>0. n \in Nat
  BY LenProperties
<1>1. n \in Nat /\ DOMAIN list = 1..n /\ ToSet(list) = {list[k] : k \in 1..n}
  BY LenProperties DEF ToSet
<1>2. CASE name \notin ToSet(list)
  BY <1>2 DEF StrlistRemove
<1>3. CASE name \in ToSet(list)
  <2> DEFINE i     == CHOOSE k \in 1..Len(list) : list[k] = name
             moved == [list EXCEPT ![i] = Last(list)]
             new   == Front(moved)
  <2>1. i \in 1..n /\ list[i] = name
    <3>1. \E k \in 1..Len(list) : list[k] = name
      BY <1>1, <1>3
    <3>. QED BY <3>1
  <2>2. Last(list) = list[n] /\ list[n] \in S
    BY <1>1, <2>1, ElementOfSeq DEF Last
  <2> HIDE DEF i
  <2>3. /\ moved \in Seq(S) /\ Len(moved) = n
        /\ \A k \in 1..n : moved[k] = IF k = i THEN list[n] ELSE list[k]
    BY <2>1, <2>2, ExceptSeq
  <2> HIDE DEF moved
  <2>4. /\ new \in Seq(S) /\ Len(new) = n - 1
        /\ \A k \in 1..n - 1 : new[k] = moved[k]
    <3>1. new = SubSeq(moved, 1, n - 1)
      BY <2>3 DEF Front
    <3>2. \A k \in 1..n - 1 : moved[k] \in S
      BY <2>3, ElementOfSeq
    <3>. QED BY <1>1, <2>1, <3>1, <3>2, SubSeqProperties
  <2> HIDE DEF new
  <2>5. \A k \in 1..n - 1 : new[k] = IF k = i THEN list[n] ELSE list[k]
    BY <1>1, <2>3, <2>4
  <2>6. Injective(new)
    BY <1>1, <2>1, <2>4, <2>5 DEF Injective
  <2>7. ToSet(new) = {new[k] : k \in 1..n - 1}
    BY <2>4, LenProperties DEF ToSet
  <2>8. ToSet(new) = ToSet(list) \ {name}
    <3>1. ASSUME NEW k \in 1..n - 1 PROVE new[k] \in ToSet(list) \ {name}
      BY <1>1, <2>1, <2>5 DEF Injective
    <3>2. ASSUME NEW j \in 1..n, list[j] # name PROVE \E k \in 1..n - 1 : new[k] = list[j]
      <4>1. CASE j = n
        <5>1. i \in 1..n - 1
          BY <1>1, <2>1, <3>2, <4>1
        <5>2. new[i] = list[j]
          BY <2>5, <4>1, <5>1
        <5>. QED BY <5>1, <5>2
      <4>2. CASE j # n
        <5>1. j \in 1..n - 1
          BY <1>0, <4>2
        <5>2. j # i
          BY <2>1, <3>2
        <5>3. new[j] = list[j]
          BY <2>5, <5>1, <5>2
        <5>. QED BY <5>1, <5>3
      <4>. QED BY <4>1, <4>2
    <3>. QED BY <1>1, <2>7, <3>1, <3>2
  <2>9. StrlistRemove(list, name) = new
    BY <1>3 DEF StrlistRemove, new, moved, i
  <2>. QED BY <1>3, <2>4, <2>6, <2>8, <2>9
<1>. QED BY <1>2, <1>3

-----------------------------------------------------------------------------
(* The invariant.                                                          *)

PCs == {"start", "open", "fetch", "poll", "dispatch", "cb", "snapshot", "scan", "returned"}
Whats == {"none", "hello", "timeout", "fifo", "self_pipe", "event", "table"}

ThreadType ==
  [pc : PCs, what : Whats, fd : BOOLEAN, td : {"finite", "forever", "short"},
   buf : Seq(Nat), idx : Nat, seen : SUBSET EvPaths]
InType ==
  [hup : BOOLEAN, pipe : Nat, pushed : {"none", "short", "forever"},
   queue : Seq(Nat), watch : BOOLEAN, mtx : BOOLEAN, dyn : Seq(EvPaths)]
PastType ==
  [sent : Nat, told : Seq(Nat), owed : BOOLEAN, wanted : SUBSET EvPaths, due : SUBSET EvPaths]

EvTypeOK == ev \in ThreadType /\ evIn \in InType /\ evPast \in PastType

\* Who has a FIFO, a self-pipe and a queue; events are in the buffer only while inotify
\* tells them.
BufInv ==
  /\ evOpt.plugin = "udev" => ~ev.fd
  /\ evOpt.plugin # "timer" => evIn.pipe = 0
  /\ evOpt.plugin \in {"timer", "fs"} => evIn.queue = <<>>
  /\ ev.pc = "dispatch" => evOpt.plugin = "inotify"
  /\ ev.buf # <<>> => /\ evOpt.plugin = "inotify"
                      /\ ev.pc = "dispatch" \/ (ev.pc = "cb" /\ ev.what = "event")

\* fs's list has each path that is wanted once.
DynInv ==
  /\ IsFiniteSet(evPast.wanted) /\ Injective(evIn.dyn)
  /\ ToSet(evIn.dyn) = evPast.wanted /\ Len(evIn.dyn) = Cardinality(evPast.wanted)

\* The list does not change while it is read, and is read from its start.
ScanInv ==
  /\ ev.pc = "scan" =>
       /\ evIn.mtx /\ evPast.due = evPast.wanted
       /\ ev.idx \in 1..Len(evIn.dyn) + 1
       /\ ev.seen = {evIn.dyn[k] : k \in 1..ev.idx - 1}
  /\ ev.pc = "cb" /\ ev.what = "table" => ev.seen = evPast.due

EvInv == evOpt \in EvOptions /\ EvTypeOK /\ BufInv /\ EventsInOrder /\ DynInv /\ ScanInv

\* What the options may be.
LEMMA OptionTypes ==
  ASSUME evOpt \in EvOptions
  PROVE  /\ evOpt.plugin \in {"timer", "fs", "inotify", "udev"}
         /\ evOpt.period \in {"finite", "forever"}
         /\ evOpt.plugin = "udev" => ~evOpt.fifo
BY DEF EvOptions, TimerOptions, FsOptions, InotifyOptions, UdevOptions, Options

\* The loops start in the invariant.
LEMMA EvInvInit ==
  ASSUME EvInit
  PROVE  EvInv
<1> USE DEF EvInit, EvStart
<1>1. EvTypeOK /\ evOpt \in EvOptions
  BY DEF EvTypeOK, ThreadType, InType, PastType, PCs, Whats
<1>2. EventsInOrder
  BY DEF EventsInOrder
<1>3. BufInv /\ ScanInv
  BY DEF BufInv, ScanInv
<1>4. DynInv
  BY FS_EmptySet DEF DynInv, Injective, ToSet
<1>. QED BY <1>1, <1>2, <1>3, <1>4 DEF EvInv

\* A step that leaves the events and fs's list alone.
SameEvents ==
  /\ ev'.buf = ev.buf /\ evIn'.queue = evIn.queue /\ evIn'.dyn = evIn.dyn
  /\ evPast'.sent = evPast.sent /\ evPast'.told = evPast.told
  /\ evPast'.wanted = evPast.wanted

\* Such a step has to be shown only the rest of the invariant.
LEMMA QuietStep ==
  ASSUME EvInv, EvTypeOK', evOpt' = evOpt, BufInv', ScanInv',
         SameEvents
  PROVE  EvInv'
BY DEF EvInv, EventsInOrder, DynInv, SameEvents

\* A step that adds an event to the queue.
LEMMA EventStep ==
  ASSUME EvInv, EvTypeOK', evOpt' = evOpt, ev' = ev, evOpt.plugin \in {"inotify", "udev"},
         evIn'.queue = Append(evIn.queue, evPast.sent + 1),
         evPast'.sent = evPast.sent + 1, evPast'.told = evPast.told,
         evPast'.wanted = evPast.wanted, evPast'.due = evPast.due,
         evIn'.dyn = evIn.dyn, evIn'.mtx = evIn.mtx, evIn'.pipe = evIn.pipe
  PROVE  EvInv'
<1>1. BufInv' /\ ScanInv' /\ DynInv'
  BY DEF EvInv, BufInv, ScanInv, DynInv
<1>2. (evPast.told \o ev.buf) \o Append(evIn.queue, evPast.sent + 1) = Events(evPast.sent + 1)
  <2>1. evPast.told \in Seq(Nat) /\ ev.buf \in Seq(Nat) /\ evIn.queue \in Seq(Nat)
        /\ evPast.sent \in Nat
    BY DEF EvInv, EvTypeOK, ThreadType, InType, PastType
  <2>2. (evPast.told \o ev.buf) \o evIn.queue = Events(evPast.sent)
    BY DEF EvInv, EventsInOrder, Events
  <2>3. evPast.told \o ev.buf \in Seq(Nat)
    BY <2>1, ConcatType
  <2>. QED BY <2>1, <2>2, <2>3, AppendLast
<1>3. EventsInOrder'
  BY <1>2 DEF EventsInOrder, Events
<1>. QED BY <1>1, <1>3 DEF EvInv

\* Every step of the plugin, the widget, the touching process and the kernel keeps it.
LEMMA EvInvStep ==
  ASSUME EvInv, [EvNext]_evvars
  PROVE  EvInv'
<1> USE DEF EvTypeOK, ThreadType, InType, PastType, PCs, Whats, EvIs, EvRuns, EvGoto, Calls,
            Answered, Pushable, SameEvents
<1>0. /\ EvTypeOK /\ evOpt \in EvOptions /\ evOpt.period \in {"finite", "forever"}
      /\ evOpt.plugin = "udev" => ~evOpt.fifo
  BY OptionTypes DEF EvInv
<1>1. ASSUME Touch PROVE EvInv'
  <2>1. EvTypeOK' /\ evOpt' = evOpt
    BY <1>0, <1>1 DEF Touch
  <2>2. /\ ev' = ev /\ evIn'.queue = evIn.queue /\ evIn'.dyn = evIn.dyn /\ evIn'.mtx = evIn.mtx
        /\ evPast'.sent = evPast.sent /\ evPast'.told = evPast.told
        /\ evPast'.wanted = evPast.wanted /\ evPast'.due = evPast.due
        /\ evOpt.plugin # "timer" => evIn'.pipe = evIn.pipe
    BY <1>0, <1>1 DEF Touch
  <2>3. BufInv' /\ ScanInv'
    BY <2>1, <2>2, SMTT(40) DEF EvInv, BufInv, ScanInv
  <2>. QED BY <2>1, <2>2, <2>3, QuietStep
<1>2. ASSUME WakeUp PROVE EvInv'
  <2>1. EvTypeOK' /\ evOpt' = evOpt
    <3>1. PICK n \in Nat : evIn' = [evIn EXCEPT !.pipe = n]
      <4>1. evIn.pipe \in Nat /\ evIn.pipe + 1 \in Nat
        BY <1>0
      <4>. QED BY <1>2, <4>1 DEF WakeUp
    <3>2. evIn' \in InType
      BY <1>0, <3>1
    <3>3. evPast' \in PastType /\ ev' = ev /\ evOpt' = evOpt
      BY <1>0, <1>2 DEF WakeUp
    <3>. QED BY <1>0, <3>2, <3>3
  <2>2. /\ ev' = ev /\ evIn'.queue = evIn.queue /\ evIn'.dyn = evIn.dyn /\ evIn'.mtx = evIn.mtx
        /\ evPast'.sent = evPast.sent /\ evPast'.told = evPast.told
        /\ evPast'.wanted = evPast.wanted /\ evPast'.due = evPast.due
        /\ evOpt.plugin # "timer" => evIn'.pipe = evIn.pipe
    BY <1>0, <1>2 DEF WakeUp
  <2>3. BufInv' /\ ScanInv'
    BY <2>1, <2>2, SMTT(40) DEF EvInv, BufInv, ScanInv
  <2>. QED BY <2>1, <2>2, <2>3, QuietStep
<1>3. ASSUME NEW t \in Pushable, PushTimeout(t) PROVE EvInv'
  <2>1. EvTypeOK' /\ evOpt' = evOpt
    <3>1. evIn' = [evIn EXCEPT !.pushed = t] /\ UNCHANGED <<evOpt, ev, evPast>>
      BY <1>3 DEF PushTimeout
    <3>2. evIn' \in InType
      BY <1>0, <3>1
    <3>. QED BY <1>0, <3>1, <3>2
  <2>2. /\ ev' = ev /\ evIn'.queue = evIn.queue /\ evIn'.dyn = evIn.dyn /\ evIn'.mtx = evIn.mtx
        /\ evPast'.sent = evPast.sent /\ evPast'.told = evPast.told
        /\ evPast'.wanted = evPast.wanted /\ evPast'.due = evPast.due
        /\ evOpt.plugin # "timer" => evIn'.pipe = evIn.pipe
    BY <1>0, <1>3 DEF PushTimeout
  <2>3. BufInv' /\ ScanInv'
    BY <2>1, <2>2, SMTT(40) DEF EvInv, BufInv, ScanInv
  <2>. QED BY <2>1, <2>2, <2>3, QuietStep
<1>4. ASSUME AddWatch PROVE EvInv'
  <2>1. EvTypeOK' /\ evOpt' = evOpt
    BY <1>0, <1>4, ZenonT(60) DEF AddWatch
  <2>2. /\ ev' = ev /\ evIn'.queue = evIn.queue /\ evIn'.dyn = evIn.dyn /\ evIn'.mtx = evIn.mtx
        /\ evPast'.sent = evPast.sent /\ evPast'.told = evPast.told
        /\ evPast'.wanted = evPast.wanted /\ evPast'.due = evPast.due
        /\ evOpt.plugin # "timer" => evIn'.pipe = evIn.pipe
    BY <1>0, <1>4 DEF AddWatch
  <2>3. BufInv' /\ ScanInv'
    BY <2>1, <2>2, SMTT(40) DEF EvInv, BufInv, ScanInv
  <2>. QED BY <2>1, <2>2, <2>3, QuietStep
<1>5. ASSUME KernelEvent PROVE EvInv'
  <2>1. /\ ev' = ev /\ evOpt' = evOpt /\ evIn'.queue = Append(evIn.queue, evPast.sent + 1)
        /\ evPast'.sent = evPast.sent + 1 /\ evPast'.told = evPast.told
        /\ evPast'.wanted = evPast.wanted /\ evPast'.due = evPast.due
        /\ evIn'.dyn = evIn.dyn /\ evIn'.mtx = evIn.mtx /\ evIn'.pipe = evIn.pipe
        /\ evOpt.plugin \in {"inotify", "udev"}
    BY <1>0, <1>5 DEF KernelEvent
  <2>2. EvTypeOK'
    <3>1. evPast.sent + 1 \in Nat /\ Append(evIn.queue, evPast.sent + 1) \in Seq(Nat)
      BY <1>0, AppendProperties
    <3>. QED BY <1>0, <1>5, <3>1 DEF KernelEvent
  <2>. QED BY <1>0, <2>1, <2>2, EventStep
<1>6. ASSUME RemoveWatch PROVE EvInv'
  <2>1. /\ ev' = ev /\ evOpt' = evOpt /\ evIn'.queue = Append(evIn.queue, evPast.sent + 1)
        /\ evPast'.sent = evPast.sent + 1 /\ evPast'.told = evPast.told
        /\ evPast'.wanted = evPast.wanted /\ evPast'.due = evPast.due
        /\ evIn'.dyn = evIn.dyn /\ evIn'.mtx = evIn.mtx /\ evIn'.pipe = evIn.pipe
        /\ evOpt.plugin \in {"inotify", "udev"}
    BY <1>0, <1>6 DEF RemoveWatch
  <2>2. EvTypeOK'
    <3>1. evPast.sent + 1 \in Nat /\ Append(evIn.queue, evPast.sent + 1) \in Seq(Nat)
      BY <1>0, AppendProperties
    <3>2. evIn' \in InType
      BY <1>0, <1>6, <3>1 DEF RemoveWatch
    <3>3. evPast' \in PastType /\ ev' = ev
      BY <1>0, <1>6, <3>1 DEF RemoveWatch
    <3>. QED BY <1>0, <3>2, <3>3
  <2>. QED BY <1>0, <2>1, <2>2, EventStep
<1>7. ASSUME NEW name \in EvPaths, AddDynPath(name) PROVE EvInv'
  <2>1. /\ evIn'.dyn = StrlistPush(evIn.dyn, name) /\ evIn'.queue = evIn.queue
        /\ evPast'.wanted = evPast.wanted \cup {name}
        /\ ev' = ev /\ evOpt' = evOpt /\ ~evIn.mtx /\ evPast'.due = evPast.due
        /\ evIn'.mtx = evIn.mtx /\ evIn'.pipe = evIn.pipe
        /\ evPast'.sent = evPast.sent /\ evPast'.told = evPast.told
    BY <1>0, <1>7 DEF AddDynPath
  <2>2. /\ evIn.dyn \in Seq(EvPaths) /\ Injective(evIn.dyn) /\ Len(evIn.dyn) \in Nat
        /\ ToSet(evIn.dyn) = evPast.wanted /\ Len(evIn.dyn) = Cardinality(evPast.wanted)
        /\ IsFiniteSet(evPast.wanted)
    BY <1>0, LenProperties DEF EvInv, DynInv
  <2>3. /\ evIn'.dyn \in Seq(EvPaths) /\ Injective(evIn'.dyn)
        /\ ToSet(evIn'.dyn) = evPast'.wanted
        /\ Len(evIn'.dyn) = IF name \in evPast.wanted THEN Len(evIn.dyn) ELSE Len(evIn.dyn) + 1
    <3>1. /\ StrlistPush(evIn.dyn, name) \in Seq(EvPaths)
          /\ Injective(StrlistPush(evIn.dyn, name))
          /\ ToSet(StrlistPush(evIn.dyn, name)) = ToSet(evIn.dyn) \cup {name}
          /\ Len(StrlistPush(evIn.dyn, name)) =
               IF name \in ToSet(evIn.dyn) THEN Len(evIn.dyn) ELSE Len(evIn.dyn) + 1
      BY <2>2, PushProps
    <3>. QED BY <2>1, <2>2, <3>1
  <2>4. /\ IsFiniteSet(evPast.wanted \cup {name})
        /\ Cardinality(evPast.wanted \cup {name}) =
             IF name \in evPast.wanted THEN Cardinality(evPast.wanted)
             ELSE Cardinality(evPast.wanted) + 1
    BY <2>2, FS_AddElement
  <2>5. DynInv'
    BY <2>1, <2>2, <2>3, <2>4 DEF DynInv
  <2>6. EvTypeOK'
    BY <1>0, <1>7, <2>3 DEF AddDynPath
  <2>7. BufInv' /\ EventsInOrder'
    BY <2>1 DEF EvInv, BufInv, EventsInOrder
  <2>8. ScanInv'
    BY <2>1 DEF EvInv, ScanInv
  <2>. QED BY <1>0, <2>1, <2>5, <2>6, <2>7, <2>8 DEF EvInv
<1>8. ASSUME NEW name \in EvPaths, RemoveDynPath(name) PROVE EvInv'
  <2>1. /\ evIn'.dyn = StrlistRemove(evIn.dyn, name) /\ evIn'.queue = evIn.queue
        /\ evPast'.wanted = evPast.wanted \ {name}
        /\ ev' = ev /\ evOpt' = evOpt /\ ~evIn.mtx /\ evPast'.due = evPast.due
        /\ evIn'.mtx = evIn.mtx /\ evIn'.pipe = evIn.pipe
        /\ evPast'.sent = evPast.sent /\ evPast'.told = evPast.told
    BY <1>0, <1>8 DEF RemoveDynPath
  <2>2. /\ evIn.dyn \in Seq(EvPaths) /\ Injective(evIn.dyn) /\ Len(evIn.dyn) \in Nat
        /\ ToSet(evIn.dyn) = evPast.wanted /\ Len(evIn.dyn) = Cardinality(evPast.wanted)
        /\ IsFiniteSet(evPast.wanted)
    BY <1>0, LenProperties DEF EvInv, DynInv
  <2>3. /\ evIn'.dyn \in Seq(EvPaths) /\ Injective(evIn'.dyn)
        /\ ToSet(evIn'.dyn) = evPast'.wanted
        /\ Len(evIn'.dyn) = IF name \in evPast.wanted THEN Len(evIn.dyn) - 1 ELSE Len(evIn.dyn)
    <3>1. /\ StrlistRemove(evIn.dyn, name) \in Seq(EvPaths)
          /\ Injective(StrlistRemove(evIn.dyn, name))
          /\ ToSet(StrlistRemove(evIn.dyn, name)) = ToSet(evIn.dyn) \ {name}
          /\ Len(StrlistRemove(evIn.dyn, name)) =
               IF name \in ToSet(evIn.dyn) THEN Len(evIn.dyn) - 1 ELSE Len(evIn.dyn)
      BY <2>2, RemoveProps
    <3>. QED BY <2>1, <2>2, <3>1
  <2>4. /\ IsFiniteSet(evPast.wanted \ {name})
        /\ Cardinality(evPast.wanted \ {name}) =
             IF name \in evPast.wanted THEN Cardinality(evPast.wanted) - 1
             ELSE Cardinality(evPast.wanted)
    BY <2>2, FS_RemoveElement
  <2>5. DynInv'
    BY <2>1, <2>2, <2>3, <2>4 DEF DynInv
  <2>6. EvTypeOK'
    BY <1>0, <1>8, <2>3 DEF RemoveDynPath
  <2>7. BufInv' /\ EventsInOrder'
    BY <2>1 DEF EvInv, BufInv, EventsInOrder
  <2>8. ScanInv'
    BY <2>1 DEF EvInv, ScanInv
  <2>. QED BY <1>0, <2>1, <2>5, <2>6, <2>7, <2>8 DEF EvInv
<1>9. ASSUME Start PROVE EvInv'
  <2>1. EvTypeOK' /\ evOpt' = evOpt
    BY <1>0, <1>9, ZenonT(60) DEF Start
  <2>2. BufInv'
    BY <1>0, <1>9 DEF Start, EvInv, BufInv
  <2>3. ScanInv'
    BY <1>0, <1>9 DEF Start, EvInv, ScanInv, DynInv
  <2>4. SameEvents
    BY <1>0, <1>9 DEF Start
  <2>. QED BY <2>1, <2>2, <2>3, <2>4, QuietStep
<1>10. ASSUME OpenFifo PROVE EvInv'
  <2>1. EvTypeOK' /\ evOpt' = evOpt
    BY <1>0, <1>10 DEF OpenFifo
  <2>2. BufInv'
    BY <1>0, <1>10 DEF OpenFifo, EvInv, BufInv
  <2>3. ScanInv'
    BY <1>0, <1>10 DEF OpenFifo, EvInv, ScanInv, DynInv
  <2>4. SameEvents
    BY <1>0, <1>10 DEF OpenFifo
  <2>. QED BY <2>1, <2>2, <2>3, <2>4, QuietStep
<1>11. ASSUME FetchTimeout PROVE EvInv'
  <2>1. EvTypeOK' /\ evOpt' = evOpt
    BY <1>0, <1>11 DEF FetchTimeout
  <2>2. BufInv'
    BY <1>0, <1>11 DEF FetchTimeout, EvInv, BufInv
  <2>3. ScanInv'
    BY <1>0, <1>11 DEF FetchTimeout, EvInv, ScanInv, DynInv
  <2>4. SameEvents
    BY <1>0, <1>11 DEF FetchTimeout
  <2>. QED BY <2>1, <2>2, <2>3, <2>4, QuietStep
<1>12. ASSUME TimesOut PROVE EvInv'
  <2>1. EvTypeOK' /\ evOpt' = evOpt
    <3>1. CASE evOpt.plugin = "fs"
      <4>1. ev' = [ev EXCEPT !.pc = "snapshot"] /\ UNCHANGED <<evOpt, evIn, evPast>>
        BY <1>12, <3>1 DEF TimesOut
      <4>2. ev' \in ThreadType
        BY <1>0, <4>1
      <4>3. evPast' \in PastType
        BY <1>0, <4>1
      <4>. QED BY <1>0, <4>1, <4>2, <4>3
    <3>2. CASE evOpt.plugin # "fs"
      <4>1. /\ ev' = [ev EXCEPT !.pc = "cb", !.what = "timeout"]
            /\ evPast' = [evPast EXCEPT !.owed = FALSE] /\ UNCHANGED <<evOpt, evIn>>
        BY <1>12, <3>2 DEF TimesOut
      <4>2. ev' \in ThreadType
        BY <1>0, <4>1
      <4>3. evPast' \in PastType
        BY <1>0, <4>1
      <4>. QED BY <1>0, <4>1, <4>2, <4>3
    <3>. QED BY <3>1, <3>2
  <2>2. BufInv'
    BY <1>0, <1>12 DEF TimesOut, EvInv, BufInv
  <2>3. ScanInv'
    BY <1>0, <1>12 DEF TimesOut, EvInv, ScanInv, DynInv
  <2>4. SameEvents
    BY <1>0, <1>12 DEF TimesOut
  <2>. QED BY <2>1, <2>2, <2>3, <2>4, QuietStep
<1>13. ASSUME TimerWoken PROVE EvInv'
  <2>1. EvTypeOK' /\ evOpt' = evOpt
    <3>1. CASE FifoReady
      <4>1. /\ ev' = [ev EXCEPT !.pc = "cb", !.what = "fifo"]
            /\ evPast' = [evPast EXCEPT !.owed = FALSE] /\ UNCHANGED <<evOpt, evIn>>
        BY <1>13, <3>1 DEF TimerWoken
      <4>2. ev' \in ThreadType
        BY <1>0, <4>1
      <4>3. evPast' \in PastType
        BY <1>0, <4>1
      <4>. QED BY <1>0, <4>1, <4>2, <4>3
    <3>2. CASE ~FifoReady
      <4>1. /\ ev' = [ev EXCEPT !.pc = "cb", !.what = "self_pipe"] /\ evOpt' = evOpt
            /\ evIn' = [evIn EXCEPT !.pipe = @ - 1] /\ evPast' = [evPast EXCEPT !.owed = FALSE]
        BY <1>13, <3>2 DEF TimerWoken
      <4>2. evIn.pipe > 0
        BY <1>13, <3>2 DEF TimerWoken, Ready, EvInv, BufInv
      <4>3. evIn.pipe - 1 \in Nat
        BY <1>0, <4>2
      <4>4. evIn' \in InType
        BY <1>0, <4>1, <4>3
      <4>. QED BY <1>0, <4>1, <4>4
    <3>. QED BY <3>1, <3>2
  <2>2. BufInv'
    BY <1>0, <1>13 DEF TimerWoken, Ready, FifoReady, EvInv, BufInv
  <2>3. ScanInv'
    BY <1>0, <1>13 DEF TimerWoken, Ready, FifoReady, EvInv, ScanInv, DynInv
  <2>4. SameEvents
    BY <1>0, <1>13 DEF TimerWoken, Ready, FifoReady
  <2>. QED BY <2>1, <2>2, <2>3, <2>4, QuietStep
<1>14. ASSUME FsWoken PROVE EvInv'
  <2>1. EvTypeOK' /\ evOpt' = evOpt
    BY <1>0, <1>14 DEF FsWoken, Ready, FifoReady
  <2>2. BufInv'
    BY <1>0, <1>14 DEF FsWoken, Ready, FifoReady, EvInv, BufInv
  <2>3. ScanInv'
    BY <1>0, <1>14 DEF FsWoken, Ready, FifoReady, EvInv, ScanInv, DynInv
  <2>4. SameEvents
    BY <1>0, <1>14 DEF FsWoken, Ready, FifoReady
  <2>. QED BY <2>1, <2>2, <2>3, <2>4, QuietStep
<1>15. ASSUME EvCallEnd PROVE EvInv'
  <2>1. EvTypeOK' /\ evOpt' = evOpt
    BY <1>0, <1>15 DEF EvCallEnd
  <2>2. BufInv'
    BY <1>0, <1>15 DEF EvCallEnd, EvInv, BufInv
  <2>3. ScanInv'
    BY <1>0, <1>15 DEF EvCallEnd, EvInv, ScanInv, DynInv
  <2>4. SameEvents
    BY <1>0, <1>15 DEF EvCallEnd
  <2>. QED BY <2>1, <2>2, <2>3, <2>4, QuietStep
<1>16. ASSUME LockDyn PROVE EvInv'
  <2>1. EvTypeOK' /\ evOpt' = evOpt
    BY <1>0, <1>16 DEF LockDyn
  <2>2. BufInv'
    BY <1>0, <1>16 DEF LockDyn, EvInv, BufInv
  <2>3. ScanInv'
    BY <1>0, <1>16 DEF LockDyn, EvInv, ScanInv, DynInv
  <2>4. SameEvents
    BY <1>0, <1>16 DEF LockDyn
  <2>. QED BY <2>1, <2>2, <2>3, <2>4, QuietStep
<1>17. ASSUME ScanOne PROVE EvInv'
  <2>1. EvTypeOK' /\ evOpt' = evOpt
    <3>1. /\ ev' = [ev EXCEPT !.seen = @ \cup {evIn.dyn[ev.idx]}, !.idx = @ + 1]
          /\ UNCHANGED <<evOpt, evIn, evPast>> /\ ev.pc = "scan" /\ ev.idx <= Len(evIn.dyn)
      BY <1>17 DEF ScanOne
    <3>2. ev.idx \in 1..Len(evIn.dyn) /\ ev.idx + 1 \in Nat
      BY <1>0, <3>1, LenProperties DEF EvInv, ScanInv
    <3>3. evIn.dyn[ev.idx] \in EvPaths
      BY <1>0, <3>2, ElementOfSeq
    <3>4. ev' \in ThreadType
      BY <1>0, <3>1, <3>2, <3>3
    <3>. QED BY <1>0, <3>1, <3>4
  <2>2. BufInv'
    BY <1>0, <1>17 DEF ScanOne, EvInv, BufInv
  <2>3. ScanInv'
    <3>1. /\ ev.pc = "scan" /\ ev.idx <= Len(evIn.dyn) /\ Len(evIn.dyn) \in Nat
          /\ UNCHANGED <<evIn, evPast>>
      BY <1>0, <1>17, LenProperties DEF ScanOne
    <3>2. /\ evIn.mtx /\ evPast.due = evPast.wanted /\ ev.idx \in 1..Len(evIn.dyn) + 1
          /\ ev.seen = {evIn.dyn[k] : k \in 1..ev.idx - 1}
      BY <3>1 DEF EvInv, ScanInv
    <3>3. /\ ev'.pc = "scan" /\ ev'.idx = ev.idx + 1
          /\ ev'.seen = ev.seen \cup {evIn.dyn[ev.idx]}
      BY <1>0, <1>17 DEF ScanOne
    <3>4. 1..(ev.idx + 1) - 1 = (1..ev.idx - 1) \cup {ev.idx}
      BY <3>1, <3>2
    <3>5. ev'.seen = {evIn.dyn[k] : k \in 1..(ev.idx + 1) - 1}
      BY <3>2, <3>3, <3>4
    <3>6. ev.idx + 1 \in 1..Len(evIn.dyn) + 1
      BY <3>1, <3>2
    <3>. QED BY <3>1, <3>2, <3>3, <3>5, <3>6 DEF ScanInv
  <2>4. SameEvents
    BY <1>0, <1>17 DEF ScanOne
  <2>. QED BY <2>1, <2>2, <2>3, <2>4, QuietStep
<1>18. ASSUME ScanEnds PROVE EvInv'
  <2>1. EvTypeOK' /\ evOpt' = evOpt
    BY <1>0, <1>18 DEF ScanEnds
  <2>2. BufInv'
    BY <1>0, <1>18 DEF ScanEnds, EvInv, BufInv
  <2>3. ScanInv'
    <3>1. ev.pc = "scan" /\ ev.idx > Len(evIn.dyn) /\ Len(evIn.dyn) \in Nat
      BY <1>0, <1>18, LenProperties DEF ScanEnds
    <3>2. ev.idx - 1 = Len(evIn.dyn) /\ evPast.due = ToSet(evIn.dyn)
      BY <1>0, <3>1, SMTT(40) DEF EvInv, ScanInv, DynInv
    <3>3. ev.seen = {evIn.dyn[k] : k \in 1..Len(evIn.dyn)}
      BY <3>1, <3>2 DEF EvInv, ScanInv
    <3>4. ToSet(evIn.dyn) = {evIn.dyn[k] : k \in 1..Len(evIn.dyn)}
      BY <1>0, LenProperties DEF ToSet
    <3>5. ev'.pc = "cb" /\ ev'.seen = ev.seen /\ evPast'.due = evPast.due
      BY <1>0, <1>18 DEF ScanEnds
    <3>. QED BY <3>2, <3>3, <3>4, <3>5 DEF ScanInv
  <2>4. SameEvents
    BY <1>0, <1>18 DEF ScanEnds
  <2>. QED BY <2>1, <2>2, <2>3, <2>4, QuietStep
<1>19. ASSUME Interrupted \/ PollFails PROVE EvInv'
  <2>1. EvTypeOK' /\ evOpt' = evOpt
    BY <1>0, <1>19 DEF Interrupted, PollFails
  <2>2. BufInv'
    BY <1>0, <1>19 DEF Interrupted, PollFails, EvInv, BufInv
  <2>3. ScanInv'
    BY <1>0, <1>19 DEF Interrupted, PollFails, EvInv, ScanInv, DynInv
  <2>4. SameEvents
    BY <1>0, <1>19 DEF Interrupted, PollFails
  <2>. QED BY <2>1, <2>2, <2>3, <2>4, QuietStep
<1>20. ASSUME InotifyRead PROVE EvInv'
  <2>1. /\ evOpt.plugin = "inotify" /\ ev.pc = "poll" /\ evOpt' = evOpt /\ evPast' = evPast
        /\ \E n \in 1..Len(evIn.queue) :
             /\ ev' = [ev EXCEPT !.pc = "dispatch", !.buf = SubSeq(evIn.queue, 1, n)]
             /\ evIn' = [evIn EXCEPT !.queue = SubSeq(evIn.queue, n + 1, Len(evIn.queue))]
    BY <1>20, Zenon DEF InotifyRead
  <2>2. PICK n \in 1..Len(evIn.queue) :
          /\ ev' = [ev EXCEPT !.pc = "dispatch", !.buf = SubSeq(evIn.queue, 1, n)]
          /\ evIn' = [evIn EXCEPT !.queue = SubSeq(evIn.queue, n + 1, Len(evIn.queue))]
    BY <2>1, Zenon
  <2> DEFINE a == SubSeq(evIn.queue, 1, n)
             b == SubSeq(evIn.queue, n + 1, Len(evIn.queue))
  <2>3. a \in Seq(Nat) /\ b \in Seq(Nat) /\ a \o b = evIn.queue
    BY <1>0, CutQueue
  <2> HIDE DEF a, b
  <2>4. ev' = [ev EXCEPT !.pc = "dispatch", !.buf = a] /\ evIn' = [evIn EXCEPT !.queue = b]
    BY <2>2 DEF a, b
  <2>5. EvTypeOK' /\ ev'.buf = a /\ evIn'.queue = b /\ ev'.pc = "dispatch" /\ ev'.fd = ev.fd
        /\ evIn'.dyn = evIn.dyn /\ evIn'.pipe = evIn.pipe
    BY <1>0, <2>1, <2>3, <2>4
  <2>6. BufInv' /\ ScanInv' /\ DynInv'
    BY <2>1, <2>5, ZenonT(60) DEF EvInv, BufInv, ScanInv, DynInv
  <2>7. EventsInOrder'
    <3>1. ev.buf = <<>> /\ evPast.told \in Seq(Nat)
      BY <1>0, <2>1 DEF EvInv, BufInv
    <3>2. evPast.told \o <<>> = evPast.told
      BY <3>1, EmptyBuffer
    <3>3. (evPast.told \o a) \o b = evPast.told \o evIn.queue
      <4>1. (evPast.told \o a) \o b = evPast.told \o (a \o b)
        BY <2>3, <3>1, ConcatConcat
      <4>. QED BY <2>3, <4>1, Zenon
    <3>4. evPast.told \o evIn.queue = Events(evPast.sent)
      BY <3>1, <3>2 DEF EvInv, EventsInOrder, Events
    <3>. QED BY <2>1, <2>5, <3>3, <3>4 DEF EventsInOrder, Events
  <2>. QED BY <1>0, <2>1, <2>5, <2>6, <2>7 DEF EvInv
<1>21. ASSUME Dispatch PROVE EvInv'
  <2>1. CASE ev.buf = <<>>
    <3>1. ev.pc = "dispatch" /\ ev' = [ev EXCEPT !.pc = "open"] /\ UNCHANGED <<evOpt, evIn, evPast>>
      BY <1>21, <2>1 DEF Dispatch
    <3>2. EvTypeOK' /\ ev'.buf = <<>> /\ ev'.fd = ev.fd /\ ev'.pc = "open"
      BY <1>0, <2>1, <3>1
    <3>3. BufInv' /\ ScanInv'
      BY <3>1, <3>2 DEF EvInv, BufInv, ScanInv
    <3>. QED BY <2>1, <3>1, <3>2, <3>3, QuietStep
  <2>2. CASE ev.buf # <<>>
    <3> DEFINE e == Head(ev.buf)
               rest == Tail(ev.buf)
    <3>1. /\ ev.pc = "dispatch" /\ ev' = [ev EXCEPT !.pc = "cb", !.what = "event", !.buf = rest]
          /\ evPast' = [evPast EXCEPT !.owed = FALSE, !.told = Append(evPast.told, e)]
          /\ evIn' = evIn /\ evOpt' = evOpt
      BY <1>21, <2>2 DEF Dispatch
    <3>2. /\ rest \in Seq(Nat) /\ Append(evPast.told, e) \in Seq(Nat)
          /\ Append(evPast.told, e) \o rest = evPast.told \o ev.buf
      BY <1>0, <2>2, MoveOne
    <3> HIDE DEF e, rest
    <3>3. ev' \in ThreadType /\ evPast' \in PastType
      BY <1>0, <3>1, <3>2
    <3>4. /\ ev'.buf = rest /\ ev'.pc = "cb" /\ ev'.what = "event" /\ ev'.fd = ev.fd
          /\ evPast'.told = Append(evPast.told, e) /\ evPast'.sent = evPast.sent
          /\ evPast'.wanted = evPast.wanted
      BY <1>0, <3>1
    <3>5. BufInv' /\ ScanInv' /\ DynInv'
      BY <3>1, <3>4 DEF EvInv, BufInv, ScanInv, DynInv
    <3>6. EventsInOrder'
      <4>1. (evPast.told \o ev.buf) \o evIn.queue = Events(evPast.sent)
        BY DEF EvInv, EventsInOrder, Events
      <4>2. (Append(evPast.told, e) \o rest) \o evIn.queue = Events(evPast.sent)
        BY <3>2, <4>1, Zenon
      <4>. QED BY <3>1, <3>4, <4>2, Zenon DEF EventsInOrder, Events
    <3>. QED BY <1>0, <3>1, <3>3, <3>5, <3>6 DEF EvInv
  <2>. QED BY <2>1, <2>2
<1>22. ASSUME UdevReceive PROVE EvInv'
  <2> DEFINE e == Head(evIn.queue)
             rest == Tail(evIn.queue)
  <2>1. /\ ev.pc = "poll" /\ ev' = [ev EXCEPT !.pc = "cb", !.what = "event"]
        /\ evPast' = [evPast EXCEPT !.owed = FALSE, !.told = Append(evPast.told, e)]
        /\ evIn' = [evIn EXCEPT !.queue = rest] /\ evOpt' = evOpt /\ evOpt.plugin = "udev"
    BY <1>22 DEF UdevReceive
  <2>2. ev.buf = <<>> /\ evIn.queue # <<>>
    BY <1>0, <1>22 DEF UdevReceive, Ready, FifoReady, EvInv, BufInv
  <2>3. /\ rest \in Seq(Nat) /\ Append(evPast.told, e) \in Seq(Nat)
        /\ Append(evPast.told, e) \o rest = evPast.told \o evIn.queue
    BY <1>0, <2>2, MoveOne
  <2> HIDE DEF e, rest
  <2>4. ev' \in ThreadType /\ evIn' \in InType /\ evPast' \in PastType
    BY <1>0, <2>1, <2>3
  <2>5. /\ ev'.buf = <<>> /\ ev'.pc = "cb" /\ ev'.what = "event" /\ ev'.fd = ev.fd
        /\ evIn'.queue = rest /\ evIn'.dyn = evIn.dyn /\ evIn'.pipe = evIn.pipe
        /\ evPast'.told = Append(evPast.told, e) /\ evPast'.sent = evPast.sent
        /\ evPast'.wanted = evPast.wanted
    BY <1>0, <2>1, <2>2
  <2>6. BufInv' /\ ScanInv' /\ DynInv'
    BY <2>1, <2>5 DEF EvInv, BufInv, ScanInv, DynInv
  <2>7. EventsInOrder'
    <3>1. evPast.told \o <<>> = evPast.told
      BY <1>0, EmptyBuffer
    <3>2. Append(evPast.told, e) \o <<>> = Append(evPast.told, e)
      BY <2>3, EmptyBuffer
    <3>3. evPast.told \o evIn.queue = Events(evPast.sent)
      BY <2>2, <3>1 DEF EvInv, EventsInOrder, Events
    <3>. QED BY <2>3, <2>5, <3>2, <3>3, Zenon DEF EventsInOrder, Events
  <2>. QED BY <1>0, <2>1, <2>4, <2>6, <2>7 DEF EvInv
<1>23. ASSUME UNCHANGED evvars PROVE EvInv'
  BY <1>0, <1>23, QuietStep, SMTT(20) DEF evvars, EvInv, BufInv, ScanInv
<1>. QED
  BY <1>1, <1>2, <1>3, <1>4, <1>5, <1>6, <1>7, <1>8, <1>9, <1>10, <1>11, <1>12, <1>13,
     <1>14, <1>15, <1>16, <1>17, <1>18, <1>19, <1>20, <1>21, <1>22, <1>23
     DEF EvNext, EvThread

\* The invariant of the loops.
THEOREM EvInvariance == EvSpec => []EvInv
<1>1. EvInit => EvInv
  BY EvInvInit
<1>2. EvInv /\ [EvNext]_evvars => EvInv'
  BY EvInvStep
<1>. QED BY <1>1, <1>2, PTL DEF EvSpec

\* Every event of inotify and udev is told once and in the kernel's order.
THEOREM EventsAreToldInOrder == EvSpec => []EventsInOrder
BY EvInvariance, PTL DEF EvInv

\* The table of fs has exactly the paths that were wanted when its list was locked, each
\* once (add_dyn_path(), remove_dyn_path(), start_call()).
THEOREM SnapshotsAreCurrent == EvSpec => []SnapshotIsCurrent
<1>1. EvInv => SnapshotIsCurrent
  BY DEF EvInv, DynInv, ScanInv, SnapshotIsCurrent
<1>. QED BY EvInvariance, <1>1, PTL

-----------------------------------------------------------------------------
(* unixsock.                                                               *)

-----------------------------------------------------------------------------
(* Lines.                                                                  *)

HasLine(s) == \E k \in 1..Len(s) : s[k] = "newline"

\* k is the place of the first newline of s.
EndsAt(s, k) == k \in 1..Len(s) /\ s[k] = "newline" /\ \A j \in 1..k - 1 : s[j] # "newline"

\* What server_read_from_client() looks for.
LEMMA LookForNewline ==
  ASSUME NEW s \in Seq(Bytes)
  PROVE  "newline" \in ToSet(s) <=> HasLine(s)
<1>1. DOMAIN s = 1..Len(s)
  OBVIOUS
<1> QED BY <1>1 DEF ToSet, HasLine

\* Of the newlines of a text there is a first.
LEMMA FirstNewline ==
  ASSUME NEW s \in Seq(Bytes), HasLine(s)
  PROVE  \E k : EndsAt(s, k)
<1> DEFINE S == {k \in 1..Len(s) : s[k] = "newline"}
<1>1. S \subseteq Nat /\ S # {} /\ Len(s) \in Nat
  BY DEF HasLine
<1>2. PICK m \in S : \A n \in S : m <= n
  <2> HIDE DEF S
  <2> QED BY <1>1, LeastNat
<1>3. ASSUME NEW j \in 1..m - 1 PROVE s[j] # "newline"
  <2>1. m \in 1..Len(s) /\ j \in 1..Len(s) /\ ~ (m <= j)
    BY <1>1, <1>2
  <2> QED BY <1>2, <2>1
<1>4. EndsAt(s, m)
  BY <1>2, <1>3 DEF EndsAt
<1> QED BY <1>4

\* And only one.
LEMMA OneFirstNewline ==
  ASSUME NEW s \in Seq(Bytes), NEW k, NEW m, EndsAt(s, k), EndsAt(s, m)
  PROVE  k = m
<1>1. k \in Nat /\ m \in Nat /\ k >= 1 /\ m >= 1
  BY DEF EndsAt
<1>2. ~ (k < m)
  <2>1. k < m => k \in 1..m - 1
    BY <1>1
  <2> QED BY <2>1 DEF EndsAt
<1>3. ~ (m < k)
  <2>1. m < k => m \in 1..k - 1
    BY <1>1
  <2> QED BY <2>1 DEF EndsAt
<1> QED BY <1>1, <1>2, <1>3

\* server_get_full_line() gives what is before it.
LEMMA FullLineIs ==
  ASSUME NEW s \in Seq(Bytes), NEW k, EndsAt(s, k)
  PROVE  FullLine(s) = SubSeq(s, 1, k - 1)
<1> DEFINE P(m) == s[m] = "newline" /\ \A j \in 1..m - 1 : s[j] # "newline"
           first == CHOOSE m \in DOMAIN s : P(m)
<1>1. DOMAIN s = 1..Len(s)
  OBVIOUS
<1>2. k \in DOMAIN s /\ P(k)
  BY <1>1 DEF EndsAt
<1>3. first \in DOMAIN s /\ P(first)
  <2> HIDE DEF P
  <2> QED BY <1>2
<1>4. EndsAt(s, first)
  BY <1>1, <1>3 DEF EndsAt
<1>5. first = k
  <2> HIDE DEF first
  <2> QED BY <1>4, OneFirstNewline
<1>6. FullLine(s) = SubSeq(s, 1, first - 1)
  BY DEF FullLine
<1> HIDE DEF first
<1> QED BY <1>5, <1>6

\* More bytes after a full line do not change it.
LEMMA FullLineOfMore ==
  ASSUME NEW s \in Seq(Bytes), NEW t \in Seq(Bytes), HasLine(s)
  PROVE  HasLine(s \o t) /\ FullLine(s \o t) = FullLine(s)
<1>1. PICK k : EndsAt(s, k)
  BY FirstNewline
<1>2. s \o t \in Seq(Bytes) /\ Len(s \o t) = Len(s) + Len(t) /\ Len(s) \in Nat /\ Len(t) \in Nat
      /\ \A j \in 1..Len(s) : (s \o t)[j] = s[j]
  OBVIOUS
<1>3. k \in 1..Len(s)
  BY <1>1 DEF EndsAt
<1>4. EndsAt(s \o t, k)
  <2>1. k \in 1..Len(s \o t) /\ \A j \in 1..k - 1 : j \in 1..Len(s)
    BY <1>2, <1>3
  <2> QED BY <1>1, <1>2, <1>3, <2>1 DEF EndsAt
<1>5. SubSeq(s \o t, 1, k - 1) = SubSeq(s, 1, k - 1)
  BY <1>2, <1>3, SMTT(30)
<1>6. HasLine(s \o t)
  BY <1>4 DEF EndsAt, HasLine
<1> QED BY <1>1, <1>2, <1>4, <1>5, <1>6, FullLineIs

-----------------------------------------------------------------------------
(* server_compact().                                                       *)

\* What a recursion of Kept() is.
LEMMA KeptIsRecursive ==
  ASSUME NEW C, NEW cs \in Seq(C)
  PROVE  \E keep : /\ Kept(cs) = keep[Len(cs)] /\ keep[0] = <<>>
                   /\ \A k \in 1..Len(cs) : keep[k] = IF cs[k].dropped THEN keep[k - 1]
                                                      ELSE Append(keep[k - 1], cs[k])
<1> DEFINE n == Len(cs)
           V == Seq(C)
           base == <<>>
           step == [k \in 1..n |-> [s \in V |-> IF cs[k].dropped THEN s ELSE Append(s, cs[k])]]
           After(f, k) == IF k = 0 THEN <<>>
                         ELSE IF cs[k].dropped THEN f[k - 1] ELSE Append(f[k - 1], cs[k])
           IsKeep(f) == f = [k \in 0..n |-> After(f, k)]
           keep == CHOOSE f : IsKeep(f)
<1>1. n \in Nat /\ base \in V /\ step \in Steps(n, V)
  BY DEF Steps
<1>2. PICK f \in [0..n -> V] : Recursion(f, n, base, step)
  <2> HIDE DEF n, step, V, base, After, IsKeep, keep
  <2> QED BY <1>1, RecursionExists
<1>3. \E h : IsKeep(h)
  <2>1. ASSUME NEW k \in 0..n PROVE f[k] = After(f, k)
    <3>1. CASE k = 0
      BY <3>1, <1>2 DEF Recursion
    <3>2. CASE k # 0
      <4>1. k \in 1..n /\ k - 1 \in 0..n
        BY <3>2, <1>1
      <4>2. f[k - 1] \in V
        <5> HIDE DEF n, V
        <5> QED BY <1>2, <4>1
      <4>3. f[k] = step[k][f[k - 1]]
        <5> HIDE DEF n, V, step
        <5> QED BY <1>2, <4>1 DEF Recursion
      <4> QED BY <3>2, <4>1, <4>2, <4>3
    <3> QED BY <3>1, <3>2
  <2>2. f = [k \in 0..n |-> After(f, k)]
    <3> HIDE DEF n, After, V
    <3> QED BY <1>2, <2>1
  <2> QED BY <2>2
<1>4. keep = [k \in 0..n |-> After(keep, k)]
  <2> HIDE DEF After, n
  <2> QED BY <1>3
<1>5. \A k \in 0..n : keep[k] = After(keep, k)
  <2> HIDE DEF keep, After, n
  <2> QED BY <1>4
<1>6. Kept(cs) = keep[n]
  BY DEF Kept
<1>7. 0 \in 0..n /\ \A k \in 1..n : k \in 0..n /\ k # 0
  BY <1>1
<1> HIDE DEF keep, n
<1> QED BY <1>5, <1>6, <1>7 DEF n

Clients == [conn : Conns, dropped : BOOLEAN, buf : Seq(Bytes)]

\* No connection has two places.
Distinct(cs) == \A k, m \in 1..Len(cs) : cs[k].conn = cs[m].conn => k = m

\* After k clients of cs, s has those of them that are not dropped.
KeptOf(s, cs, k) ==
  /\ s \in Seq(Clients)
  /\ \A j \in 1..Len(s) : \E m \in 1..k : s[j] = cs[m] /\ ~cs[m].dropped
  /\ \A m \in 1..k : ~cs[m].dropped => \E j \in 1..Len(s) : s[j] = cs[m]
  /\ Distinct(s)

\* One round of the loop.
LEMMA KeptStep ==
  ASSUME NEW cs \in Seq(Clients), Distinct(cs), NEW k \in 1..Len(cs), NEW s,
         KeptOf(s, cs, k - 1)
  PROVE  KeptOf(IF cs[k].dropped THEN s ELSE Append(s, cs[k]), cs, k)
<1>1. k \in Nat /\ (\A m \in 1..k - 1 : m \in 1..k /\ m \in 1..Len(cs) /\ m # k)
      /\ (\A m \in 1..k : m = k \/ m \in 1..k - 1) /\ k \in 1..k
  OBVIOUS
<1>2. CASE cs[k].dropped
  BY <1>1, <1>2 DEF KeptOf
<1>3. CASE ~cs[k].dropped
  <2> DEFINE t == Append(s, cs[k])
  <2>1. s \in Seq(Clients) /\ cs[k] \in Clients
    BY DEF KeptOf
  <2>2. t \in Seq(Clients) /\ Len(t) = Len(s) + 1 /\ Len(s) \in Nat /\ t[Len(s) + 1] = cs[k]
        /\ \A j \in 1..Len(s) : t[j] = s[j]
    BY <2>1
  <2>3. \A j \in 1..Len(t) : j \in 1..Len(s) \/ j = Len(s) + 1
    BY <2>2
  <2>4. \A j \in 1..Len(s) : j \in 1..Len(t)
    BY <2>2
  <2>5. Len(s) + 1 \in 1..Len(t)
    BY <2>2
  <2> HIDE DEF t
  <2>6. ASSUME NEW j \in 1..Len(t) PROVE \E m \in 1..k : t[j] = cs[m] /\ ~cs[m].dropped
    <3>1. CASE j \in 1..Len(s)
      BY <1>1, <2>2, <3>1, SMTT(20) DEF KeptOf
    <3>2. CASE j = Len(s) + 1
      BY <1>1, <1>3, <2>2, <3>2
    <3> QED BY <2>3, <3>1, <3>2
  <2>7. ASSUME NEW m \in 1..k, ~cs[m].dropped PROVE \E j \in 1..Len(t) : t[j] = cs[m]
    <3>1. CASE m = k
      BY <2>2, <2>5, <3>1
    <3>2. CASE m \in 1..k - 1
      <4>1. PICK j \in 1..Len(s) : s[j] = cs[m]
        BY <2>7, <3>2 DEF KeptOf
      <4> QED BY <2>2, <2>4, <4>1
    <3> QED BY <1>1, <3>1, <3>2
  <2>8. ASSUME NEW j \in 1..Len(s) PROVE t[j].conn # cs[k].conn
    <3>1. PICK m \in 1..k - 1 : s[j] = cs[m]
      BY DEF KeptOf
    <3>2. m \in 1..Len(cs) /\ m # k
      BY <1>1
    <3> QED BY <2>2, <3>1, <3>2 DEF Distinct
  <2>9. Distinct(t)
    <3> SUFFICES ASSUME NEW j \in 1..Len(t), NEW m \in 1..Len(t), t[j].conn = t[m].conn
                 PROVE  j = m
      BY DEF Distinct
    <3>1. CASE j \in 1..Len(s) /\ m \in 1..Len(s)
      BY <2>2, <3>1 DEF KeptOf, Distinct
    <3>2. CASE j = Len(s) + 1 \/ m = Len(s) + 1
      BY <2>2, <2>3, <2>8, <3>2
    <3> QED BY <2>3, <3>1, <3>2
  <2>10. KeptOf(t, cs, k)
    BY <2>2, <2>6, <2>7, <2>9 DEF KeptOf
  <2> QED BY <1>3, <2>10 DEF t
<1> QED BY <1>2, <1>3

\* server_compact() keeps the clients that are not dropped, each in one place.
LEMMA KeptProps ==
  ASSUME NEW cs \in Seq(Clients), Distinct(cs)
  PROVE  KeptOf(Kept(cs), cs, Len(cs))
<1>1. PICK keep : /\ Kept(cs) = keep[Len(cs)] /\ keep[0] = <<>>
                  /\ \A k \in 1..Len(cs) : keep[k] = IF cs[k].dropped THEN keep[k - 1]
                                                     ELSE Append(keep[k - 1], cs[k])
  BY KeptIsRecursive
<1> DEFINE T == {k \in 0..Len(cs) : KeptOf(keep[k], cs, k)}
<1>2. Len(cs) \in Nat
  OBVIOUS
<1>3. 0 \in T
  <2>1. <<>> \in Seq(Clients) /\ Len(<<>>) = 0
    OBVIOUS
  <2>2. KeptOf(<<>>, cs, 0)
    BY <2>1 DEF KeptOf, Distinct
  <2> QED BY <1>1, <1>2, <2>2
<1>4. ASSUME NEW k \in 0..Len(cs) - 1, k \in T PROVE k + 1 \in T
  <2>1. k + 1 \in 1..Len(cs) /\ (k + 1) - 1 = k /\ k + 1 \in 0..Len(cs)
    BY <1>2
  <2>2. KeptOf(keep[(k + 1) - 1], cs, (k + 1) - 1)
    BY <1>4, <2>1
  <2>3. KeptOf(keep[k + 1], cs, k + 1)
    BY <1>1, <2>1, <2>2, KeptStep
  <2> QED BY <2>1, <2>3
<1>5. Len(cs) \in T
  <2> HIDE DEF T
  <2>1. 0..Len(cs) \subseteq T
    BY <1>2, <1>3, <1>4, IntervalInduction
  <2> QED BY <1>2, <2>1
<1> QED BY <1>1, <1>5

-----------------------------------------------------------------------------
(* The invariant.                                                          *)

Polls   == [conn : Conns, revents : BOOLEAN]
Points  == {"start", "greet", "poll", "scan", "report", "compact", "ended", "aborted"}

UsTypeOK ==
  /\ sent \in [Conns -> Seq(Bytes)] /\ unread \in [Conns -> Seq(Bytes)]
  /\ peer \in [Conns -> {"none", "open", "hung_up"}]
  /\ backlog \in Seq(Conns)
  /\ upc \in Points
  /\ clients \in Seq(Clients) /\ pfds \in Seq(Polls)
  /\ fds \subseteq Conns
  /\ reported \in [Conns -> Seq(Bytes) \cup {None}]

\* A connection waits in one place of the queue, or has one in the array, and not before it
\* was made.
OnePlace ==
  /\ Distinct(clients)
  /\ \A k, m \in 1..Len(backlog) : backlog[k] = backlog[m] => k = m
  /\ \A k \in 1..Len(clients), m \in 1..Len(backlog) : clients[k].conn # backlog[m]
  /\ \A k \in 1..Len(clients) : peer[clients[k].conn] # "none"
  /\ \A m \in 1..Len(backlog) : peer[backlog[m]] # "none"

\* Nothing was read of a connection that waits.
Unread == \A c \in Conns : peer[c] = "none" \/ c \in ToSet(backlog) => sent[c] = unread[c]

\* The descriptors open are those of the clients.
Descriptors ==
  \A c \in Conns : c \in fds <=> \E k \in 1..Len(clients) : ~clients[k].dropped /\ clients[k].conn = c

\* A client's buffer is what was read of its connection, and has a newline only when the
\* line is about to be reported.
Buffers ==
  /\ \A k \in 1..Len(clients) : ~clients[k].dropped =>
       /\ sent[clients[k].conn] = clients[k].buf \o unread[clients[k].conn]
       /\ HasLine(clients[k].buf) => upc = "report" /\ k = Current
  /\ upc = "report" => ~Scanned /\ HasLine(clients[Current].buf)

\* The pollfds are those of the clients, and a client is dropped with its revents seen.  A
\* connection that poll() saw waits till the end of the round.
Polled ==
  /\ upc \in {"scan", "report"} /\ can_accept => backlog # <<>>
  /\ upc # "aborted" => Len(pfds) = Len(clients)
                        /\ \A k \in 1..Len(pfds) : pfds[k].conn = clients[k].conn
  /\ upc \notin {"scan", "report", "aborted"} => \A k \in 1..Len(pfds) : ~pfds[k].revents
  /\ upc \in {"scan", "report"} => \A k \in 1..Len(pfds) : pfds[k].revents => ~clients[k].dropped
  /\ upc \in {"start", "greet", "poll"} => \A k \in 1..Len(clients) : ~clients[k].dropped

\* A connection whose line was reported is closed, and the line is its first.
Told ==
  \A c \in Conns : reported[c] # None =>
    /\ c \notin fds /\ c \notin ToSet(backlog) /\ peer[c] # "none"
    /\ HasLine(sent[c]) /\ reported[c] = FullLine(sent[c])

UsInv == UsTypeOK /\ OnePlace /\ Unread /\ Descriptors /\ Buffers /\ Polled /\ Told

-----------------------------------------------------------------------------
(* The loop over pfds.                                                     *)

LEMMA CurrentIs ==
  ASSUME pfds \in Seq(Polls), ~Scanned
  PROVE  Current \in 1..Len(pfds) /\ pfds[Current].revents
<1> DEFINE S == {k \in 1..Len(pfds) : pfds[k].revents}
           P(k) == pfds[k].revents /\ \A j \in 1..k - 1 : ~pfds[j].revents
<1>1. Len(pfds) \in Nat /\ DOMAIN pfds = 1..Len(pfds)
  OBVIOUS
<1>2. S \subseteq Nat /\ S # {}
  BY <1>1 DEF Scanned
<1>3. PICK m \in S : \A n \in S : m <= n
  <2> HIDE DEF S
  <2> QED BY <1>2, LeastNat
<1>4. ASSUME NEW j \in 1..m - 1 PROVE ~pfds[j].revents
  <2>1. j \in 1..Len(pfds) /\ ~ (m <= j)
    BY <1>1, <1>3
  <2> QED BY <1>3, <2>1
<1>5. m \in DOMAIN pfds /\ P(m)
  BY <1>1, <1>3, <1>4
<1>6. Current = CHOOSE k \in DOMAIN pfds : P(k)
  BY DEF Current
<1>7. Current \in DOMAIN pfds /\ P(Current)
  <2> HIDE DEF P
  <2> QED BY <1>5, <1>6
<1> QED BY <1>1, <1>7

\* The loop goes on to the next.
LEMMA AdvanceProps ==
  ASSUME pfds \in Seq(Polls), ~Scanned, Advance
  PROVE  /\ pfds' \in Seq(Polls) /\ Len(pfds') = Len(pfds)
         /\ \A k \in 1..Len(pfds) : pfds'[k].conn = pfds[k].conn
         /\ \A k \in 1..Len(pfds) : pfds'[k].revents => k # Current /\ pfds[k].revents
<1>1. Current \in 1..Len(pfds)
  BY CurrentIs
<1> DEFINE cur == Current
           one == [pfds[cur] EXCEPT !.revents = FALSE]
<1>2. pfds' = [pfds EXCEPT ![cur] = one]
  BY DEF Advance
<1>3. pfds[cur] \in Polls
  BY <1>1
<1>4. one \in Polls /\ one.conn = pfds[cur].conn /\ one.revents = FALSE
  BY <1>3 DEF Polls
<1> HIDE DEF one, cur
<1>5. cur \in 1..Len(pfds) /\ cur = Current
  BY <1>1 DEF cur
<1>6. pfds' \in Seq(Polls) /\ Len(pfds') = Len(pfds)
  BY <1>2, <1>4, <1>5
<1>7. \A k \in 1..Len(pfds) : pfds'[k] = IF k = cur THEN one ELSE pfds[k]
  BY <1>2, <1>5
<1> QED BY <1>4, <1>5, <1>6, <1>7

\* add_client() and server_compact() end with these.
LEMMA UpdatePfdsProps ==
  ASSUME NEW cs \in Seq(Clients)
  PROVE  /\ UpdatePfds(cs) \in Seq(Polls) /\ Len(UpdatePfds(cs)) = Len(cs)
         /\ \A k \in 1..Len(cs) : UpdatePfds(cs)[k].conn = cs[k].conn /\ ~UpdatePfds(cs)[k].revents
<1>1. DOMAIN cs = 1..Len(cs) /\ Len(cs) \in Nat
  OBVIOUS
<1>2. ASSUME NEW k \in 1..Len(cs) PROVE [conn |-> cs[k].conn, revents |-> FALSE] \in Polls
  <2>1. cs[k] \in Clients
    OBVIOUS
  <2> QED BY <2>1 DEF Clients, Polls
<1> DEFINE p == [k \in 1..Len(cs) |-> [conn |-> cs[k].conn, revents |-> FALSE]]
<1>3. UpdatePfds(cs) = p
  BY <1>1 DEF UpdatePfds
<1>4. \A k \in 1..Len(cs) : p[k].conn = cs[k].conn /\ ~p[k].revents /\ p[k] \in Polls
  BY <1>2
<1>5. p \in Seq(Polls) /\ Len(p) = Len(cs)
  BY <1>1, <1>2
<1> QED BY <1>3, <1>4, <1>5

\* drop_client().
LEMMA DropProps ==
  ASSUME NEW cs \in Seq(Clients), NEW n \in 1..Len(cs)
  PROVE  /\ Drop(cs, n) \in Seq(Clients) /\ Len(Drop(cs, n)) = Len(cs)
         /\ \A k \in 1..Len(cs) : Drop(cs, n)[k].conn = cs[k].conn
         /\ \A k \in 1..Len(cs) : k # n => Drop(cs, n)[k] = cs[k]
         /\ Drop(cs, n)[n].dropped
<1> DEFINE one == [[cs[n] EXCEPT !.dropped = TRUE] EXCEPT !.buf = <<>>]
<1>1. cs[n] \in Clients /\ <<>> \in Seq(Bytes)
  OBVIOUS
<1>2. one \in Clients /\ one.conn = cs[n].conn /\ one.dropped = TRUE
  BY <1>1 DEF Clients
<1>3. Drop(cs, n) = [cs EXCEPT ![n] = one]
  BY DEF Drop
<1> HIDE DEF one
<1>4. [cs EXCEPT ![n] = one] \in Seq(Clients) /\ Len([cs EXCEPT ![n] = one]) = Len(cs)
  BY <1>2
<1>5. \A k \in 1..Len(cs) : [cs EXCEPT ![n] = one][k] = IF k = n THEN one ELSE cs[k]
  OBVIOUS
<1> QED BY <1>2, <1>3, <1>4, <1>5

-----------------------------------------------------------------------------
(* The steps keep the invariant.                                           *)

LEMMA ClientTypes ==
  ASSUME NEW cs \in Seq(Clients), NEW k \in 1..Len(cs)
  PROVE  /\ cs[k] \in Clients /\ cs[k].conn \in Conns
         /\ cs[k].dropped \in BOOLEAN /\ cs[k].buf \in Seq(Bytes)
<1>1. cs[k] \in Clients
  OBVIOUS
<1> QED BY <1>1 DEF Clients

LEMMA UsInitInv == UsInit => UsInv
<1> SUFFICES ASSUME UsInit PROVE UsInv
  OBVIOUS
<1> USE DEF UsInit, UsStart
<1>1. UsTypeOK
  BY DEF UsTypeOK, Points
<1>2. Len(clients) = 0 /\ Len(backlog) = 0 /\ Len(pfds) = 0 /\ ToSet(backlog) = {}
  BY DEF ToSet
<1>3. OnePlace /\ Unread /\ Descriptors /\ Polled
  BY <1>2 DEF OnePlace, Distinct, Unread, Descriptors, Polled
<1>4. Buffers /\ Told
  BY <1>2 DEF Buffers, Told
<1> QED BY <1>1, <1>3, <1>4 DEF UsInv

LEMMA UsStutter == UsInv /\ UNCHANGED usvars => UsInv'
<1> SUFFICES ASSUME UsInv, UNCHANGED usvars PROVE UsInv'
  OBVIOUS
<1> USE DEF UsInv, usvars, sockvars, clientvars, loopvars
<1>1. UsTypeOK' /\ OnePlace' /\ Unread' /\ Descriptors'
  BY DEF UsTypeOK, OnePlace, Distinct, Unread, Descriptors
<1>2. Current' = Current /\ Scanned' = Scanned
  BY DEF Current, Scanned
<1>3. Buffers' /\ Polled' /\ Told'
  BY <1>2 DEF Buffers, Polled, Told
<1> QED BY <1>1, <1>3

\* An element of a queue, and the queue with one more.
LEMMA InQueue ==
  ASSUME NEW q \in Seq(Conns)
  PROVE  /\ \A c \in Conns : c \in ToSet(q) <=> \E k \in 1..Len(q) : q[k] = c
         /\ \A c \in Conns : ToSet(Append(q, c)) = ToSet(q) \cup {c}
<1>1. \A c : c \in ToSet(q) <=> \E k \in 1..Len(q) : q[k] = c
  BY DEF ToSet
<1>2. ASSUME NEW c \in Conns PROVE ToSet(Append(q, c)) = ToSet(q) \cup {c}
  <2>1. Append(q, c) \in Seq(Conns) /\ Len(Append(q, c)) = Len(q) + 1 /\ Len(q) \in Nat
        /\ (\A k \in 1..Len(q) : Append(q, c)[k] = q[k]) /\ Append(q, c)[Len(q) + 1] = c
    OBVIOUS
  <2>2. \A d : d \in ToSet(Append(q, c)) <=> \E k \in 1..Len(q) + 1 : Append(q, c)[k] = d
    BY <2>1 DEF ToSet
  <2>3. \A k : k \in 1..Len(q) + 1 <=> k \in 1..Len(q) \/ k = Len(q) + 1
    BY <2>1
  <2>4. \A d : d \in ToSet(Append(q, c)) <=> d \in ToSet(q) \/ d = c
    BY <1>1, <2>1, <2>2, <2>3
  <2> QED BY <2>4
<1> QED BY <1>1, <1>2

LEMMA ConnectsInv ==
  ASSUME UsInv, NEW c \in Conns, ClientConnects(c)
  PROVE  UsInv'
<1> USE DEF UsInv
<1>t. UsTypeOK
  OBVIOUS
<1>u. /\ UNCHANGED <<sent, unread, upc, clients, pfds, can_accept, fds, reported>>
      /\ peer' = [peer EXCEPT ![c] = "open"] /\ backlog' = Append(backlog, c) /\ peer[c] = "none"
  BY DEF ClientConnects, loopvars
<1>p. \A d \in Conns : peer'[d] = IF d = c THEN "open" ELSE peer[d]
  BY <1>t, <1>u DEF UsTypeOK
<1>b. /\ Len(backlog') = Len(backlog) + 1 /\ Len(backlog) \in Nat
      /\ \A k \in 1..Len(backlog) : backlog'[k] = backlog[k]
      /\ backlog'[Len(backlog) + 1] = c
      /\ \A k : k \in 1..Len(backlog) + 1 <=> k \in 1..Len(backlog) \/ k = Len(backlog) + 1
  BY <1>t, <1>u DEF UsTypeOK
<1>q. ToSet(backlog') = ToSet(backlog) \cup {c}
  BY <1>t, <1>u, InQueue DEF UsTypeOK
<1>1. UsTypeOK'
  BY <1>t, <1>u DEF UsTypeOK
<1>2. OnePlace'
  <2>1. \A k \in 1..Len(clients) : clients[k].conn \in Conns
    BY <1>t, ClientTypes DEF UsTypeOK
  <2>2. \A k \in 1..Len(backlog) : backlog[k] \in Conns
    BY <1>t DEF UsTypeOK
  <2>3. Distinct(clients')
    BY <1>u DEF OnePlace, Distinct
  <2>4. \A k, m \in 1..Len(backlog') : backlog'[k] = backlog'[m] => k = m
    BY <1>u, <1>b, <2>2 DEF OnePlace
  <2>5. \A k \in 1..Len(clients), m \in 1..Len(backlog') : clients[k].conn # backlog'[m]
    BY <1>u, <1>b, <2>1 DEF OnePlace
  <2>6. \A k \in 1..Len(clients) : peer'[clients[k].conn] # "none"
    BY <1>p, <2>1 DEF OnePlace
  <2>7. \A m \in 1..Len(backlog') : peer'[backlog'[m]] # "none"
    BY <1>p, <1>b, <2>2 DEF OnePlace
  <2> QED BY <1>u, <2>3, <2>4, <2>5, <2>6, <2>7 DEF OnePlace
<1>3. Unread'
  BY <1>u, <1>p, <1>q DEF Unread
<1>4. Descriptors'
  BY <1>u DEF Descriptors
<1>5. Current' = Current /\ Scanned' = Scanned
  BY <1>u DEF Current, Scanned
<1>6. Buffers' /\ Polled'
  <2>1. backlog' # <<>>
    BY <1>b
  <2> QED BY <1>u, <1>5, <2>1 DEF Buffers, Polled
<1>7. Told'
  BY <1>u, <1>p, <1>q DEF Told
<1> QED BY <1>1, <1>2, <1>3, <1>4, <1>6, <1>7

LEMMA HangsUpInv ==
  ASSUME UsInv, NEW c \in Conns, ClientHangsUp(c)
  PROVE  UsInv'
<1> USE DEF UsInv
<1>t. UsTypeOK
  OBVIOUS
<1>u. /\ UNCHANGED <<sent, unread, backlog, upc, clients, pfds, can_accept, fds, reported>>
      /\ peer' = [peer EXCEPT ![c] = "hung_up"] /\ peer[c] = "open"
  BY DEF ClientHangsUp, loopvars
<1>p. \A d \in Conns : peer'[d] = "none" <=> peer[d] = "none"
  BY <1>t, <1>u DEF UsTypeOK
<1>1. UsTypeOK'
  BY <1>t, <1>u DEF UsTypeOK
<1>2. OnePlace'
  <2>1. \A k \in 1..Len(clients) : clients[k].conn \in Conns
    BY <1>t, ClientTypes DEF UsTypeOK
  <2>2. \A k \in 1..Len(backlog) : backlog[k] \in Conns
    BY <1>t DEF UsTypeOK
  <2> QED BY <1>u, <1>p, <2>1, <2>2 DEF OnePlace, Distinct
<1>3. Unread' /\ Descriptors'
  BY <1>u, <1>p DEF Unread, Descriptors
<1>4. Current' = Current /\ Scanned' = Scanned
  BY <1>u DEF Current, Scanned
<1>5. Buffers' /\ Polled' /\ Told'
  BY <1>u, <1>p, <1>4 DEF Buffers, Polled, Told
<1> QED BY <1>1, <1>2, <1>3, <1>5

\* A byte at the end of the socket is at the end of what was sent.
LEMMA OneMoreByte ==
  ASSUME NEW s \in Seq(Bytes), NEW t \in Seq(Bytes), NEW b \in Bytes
  PROVE  Append(s \o t, b) = s \o Append(t, b)
BY SMTT(30)

LEMMA SendsInv ==
  ASSUME UsInv, NEW c \in Conns, NEW b \in Bytes, ClientSends(c, b)
  PROVE  UsInv'
<1> USE DEF UsInv
<1>t. UsTypeOK
  OBVIOUS
<1>u. /\ UNCHANGED <<peer, backlog, upc, clients, pfds, can_accept, fds, reported>>
      /\ sent' = [sent EXCEPT ![c] = Append(@, b)] /\ unread' = [unread EXCEPT ![c] = Append(@, b)]
      /\ c \in fds \/ c \in ToSet(backlog)
  BY DEF ClientSends, IsOpen, loopvars
<1>s. /\ \A d \in Conns : sent'[d] = IF d = c THEN Append(sent[d], b) ELSE sent[d]
      /\ \A d \in Conns : unread'[d] = IF d = c THEN Append(unread[d], b) ELSE unread[d]
      /\ \A d \in Conns : sent[d] \in Seq(Bytes) /\ unread[d] \in Seq(Bytes)
  BY <1>t, <1>u DEF UsTypeOK
<1>1. UsTypeOK'
  <2>1. Append(sent[c], b) \in Seq(Bytes) /\ Append(unread[c], b) \in Seq(Bytes)
    BY <1>s
  <2> QED BY <1>t, <1>u, <2>1 DEF UsTypeOK
<1>2. OnePlace' /\ Descriptors'
  BY <1>u DEF OnePlace, Distinct, Descriptors
<1>3. Unread'
  BY <1>u, <1>s DEF Unread
<1>4. Current' = Current /\ Scanned' = Scanned
  BY <1>u DEF Current, Scanned
<1>5. Buffers'
  <2>1. ASSUME NEW k \in 1..Len(clients), ~clients[k].dropped
        PROVE  sent'[clients[k].conn] = clients[k].buf \o unread'[clients[k].conn]
    <3>1. clients[k].conn \in Conns /\ clients[k].buf \in Seq(Bytes)
      BY <1>t, ClientTypes DEF UsTypeOK
    <3>2. sent[clients[k].conn] = clients[k].buf \o unread[clients[k].conn]
      BY <2>1 DEF Buffers
    <3>3. CASE clients[k].conn = c
      <4>1. Append(clients[k].buf \o unread[c], b) = clients[k].buf \o Append(unread[c], b)
        BY <1>s, <3>1, OneMoreByte
      <4> QED BY <1>s, <3>2, <3>3, <4>1
    <3>4. CASE clients[k].conn # c
      BY <1>s, <3>1, <3>2, <3>4
    <3> QED BY <3>3, <3>4
  <2> QED BY <1>u, <1>4, <2>1 DEF Buffers
<1>6. Polled'
  BY <1>u DEF Polled
<1>7. Told'
  BY <1>u, <1>s DEF Told
<1> QED BY <1>1, <1>2, <1>3, <1>5, <1>6, <1>7

\* What the steps that leave the clients and their bytes alone, and the pollfds but for revents,
\* have to see to.
LEMMA QuietInv ==
  ASSUME UsInv, UNCHANGED <<sent, unread, peer, backlog, clients, fds, reported>>,
         upc' \in Points, pfds' \in Seq(Polls), Polled', upc # "report", upc' # "report"
  PROVE  UsInv'
<1> USE DEF UsInv
<1>1. UsTypeOK' /\ OnePlace' /\ Unread' /\ Descriptors' /\ Told'
  BY DEF UsTypeOK, OnePlace, Distinct, Unread, Descriptors, Told
<1>2. Buffers'
  BY DEF Buffers
<1> QED BY <1>1, <1>2

LEMMA QuietStepsInv ==
  ASSUME UsInv, MakeServer \/ Greet \/ PollTimeout \/ (NoAccept /\ UNCHANGED backlog)
  PROVE  UsInv'
<1>1. /\ UNCHANGED <<sent, unread, peer, backlog, clients, pfds, fds, reported>>
      /\ upc \in {"start", "greet", "poll", "scan"}
      /\ upc' \in {"greet", "poll", "ended", "scan", "compact"}
      /\ upc' \in {"greet", "poll"} => upc \in {"start", "greet"}
      /\ upc' = "compact" => Scanned
      /\ upc = "scan" <=> upc' = "compact"
      /\ upc' = "scan" => can_accept' = FALSE
  BY DEF MakeServer, Greet, PollTimeout, NoAccept, EndOfScan, clientvars, sockvars
<1>2. \A k \in 1..Len(pfds) : Scanned => ~pfds[k].revents
  <2>1. DOMAIN pfds = 1..Len(pfds)
    BY DEF UsInv, UsTypeOK
  <2> QED BY <2>1 DEF Scanned
<1>3. Polled'
  BY <1>1, <1>2 DEF UsInv, Polled
<1>4. upc' \in Points /\ pfds' \in Seq(Polls)
  BY <1>1 DEF UsInv, UsTypeOK, Points
<1> QED BY <1>1, <1>3, <1>4, QuietInv

LEMMA PollInv == UsInv /\ Poll => UsInv'
<1> SUFFICES ASSUME UsInv, Poll PROVE UsInv'
  OBVIOUS
<1>1. /\ UNCHANGED <<sent, unread, peer, backlog, clients, fds, reported>>
      /\ upc = "poll" /\ upc' = "scan" /\ (can_accept' => backlog # <<>>)
      /\ pfds' = [k \in DOMAIN pfds |-> [pfds[k] EXCEPT !.revents = Readable(pfds[k].conn)]]
  BY DEF Poll, Listens, clientvars
<1>2. pfds \in Seq(Polls) /\ DOMAIN pfds = 1..Len(pfds) /\ Len(pfds) \in Nat
  BY DEF UsInv, UsTypeOK
<1>3. ASSUME NEW k \in 1..Len(pfds)
      PROVE  /\ [pfds[k] EXCEPT !.revents = Readable(pfds[k].conn)] \in Polls
             /\ [pfds[k] EXCEPT !.revents = Readable(pfds[k].conn)].conn = pfds[k].conn
  <2>1. pfds[k] \in Polls
    BY <1>2
  <2>2. Readable(pfds[k].conn) \in BOOLEAN
    BY DEF Readable
  <2> HIDE DEF Readable
  <2> QED BY <2>1, <2>2 DEF Polls
<1>4. /\ \A k \in 1..Len(pfds) : pfds'[k] \in Polls /\ pfds'[k].conn = pfds[k].conn
      /\ pfds' = [k \in 1..Len(pfds) |-> pfds'[k]]
  BY <1>1, <1>2, <1>3
<1>5. pfds' \in Seq(Polls) /\ Len(pfds') = Len(pfds)
  BY <1>2, <1>4
<1>6. Polled'
  BY <1>1, <1>4, <1>5 DEF UsInv, Polled
<1> QED BY <1>1, <1>5, <1>6, QuietInv DEF Points

\* The first of a queue is taken.
LEMMA TakeFirst ==
  ASSUME NEW q \in Seq(Conns), q # <<>>, \A k, m \in 1..Len(q) : q[k] = q[m] => k = m
  PROVE  /\ Head(q) \in Conns /\ Head(q) \in ToSet(q) /\ Head(q) = q[1] /\ 1 \in 1..Len(q)
         /\ Tail(q) \in Seq(Conns)
         /\ \A k \in 1..Len(Tail(q)) : k + 1 \in 1..Len(q) /\ Tail(q)[k] = q[k + 1]
         /\ ToSet(Tail(q)) \subseteq ToSet(q) \ {Head(q)}
<1>1. /\ Head(q) \in Conns /\ Head(q) = q[1] /\ 1 \in 1..Len(q)
      /\ Tail(q) \in Seq(Conns)
      /\ \A k \in 1..Len(Tail(q)) : k + 1 \in 1..Len(q) /\ Tail(q)[k] = q[k + 1]
  BY HeadTailProperties
<1>2. Head(q) \in ToSet(q)
  BY <1>1, InQueue
<1>3. ASSUME NEW c \in Conns, c \in ToSet(Tail(q)) PROVE c \in ToSet(q) \ {Head(q)}
  <2>1. PICK k \in 1..Len(Tail(q)) : Tail(q)[k] = c
    BY <1>1, <1>3, InQueue
  <2>2. k + 1 \in 1..Len(q) /\ q[k + 1] = c /\ k + 1 # 1
    BY <1>1, <2>1
  <2> QED BY <1>1, <2>2, InQueue
<1>4. ToSet(Tail(q)) \subseteq Conns
  BY <1>1, InQueue DEF ToSet
<1> QED BY <1>1, <1>2, <1>3, <1>4

\* accept() fails and takes the connection out of the queue.
LEMMA AbortedInv ==
  ASSUME UsInv, NoAccept, backlog' # backlog
  PROVE  UsInv'
<1> USE DEF UsInv
<1>t. UsTypeOK
  OBVIOUS
<1>u. /\ UNCHANGED <<sent, unread, peer, clients, pfds, fds, reported>>
      /\ upc = "scan" /\ Scanned /\ upc' = "compact" /\ can_accept /\ backlog' = Tail(backlog)
  BY DEF NoAccept, EndOfScan, clientvars
<1>q. /\ backlog \in Seq(Conns) /\ backlog # <<>>
      /\ \A k, m \in 1..Len(backlog) : backlog[k] = backlog[m] => k = m
  BY <1>t, <1>u DEF UsTypeOK, Polled, OnePlace
<1>b. /\ backlog' \in Seq(Conns)
      /\ \A k \in 1..Len(backlog') : k + 1 \in 1..Len(backlog) /\ backlog'[k] = backlog[k + 1]
      /\ ToSet(backlog') \subseteq ToSet(backlog)
  BY <1>u, <1>q, TakeFirst
<1>1. UsTypeOK'
  BY <1>t, <1>u, <1>b DEF UsTypeOK, Points
<1>2. OnePlace'
  <2>1. \A k, m \in 1..Len(backlog') : backlog'[k] = backlog'[m] => k = m
    BY <1>b, <1>q
  <2>2. \A k \in 1..Len(clients), m \in 1..Len(backlog') : clients[k].conn # backlog'[m]
    BY <1>b DEF OnePlace
  <2>3. \A m \in 1..Len(backlog') : peer[backlog'[m]] # "none"
    BY <1>b DEF OnePlace
  <2> QED BY <1>u, <2>1, <2>2, <2>3 DEF OnePlace, Distinct
<1>3. Unread' /\ Descriptors' /\ Told'
  BY <1>u, <1>b DEF Unread, Descriptors, Told
<1>4. Buffers'
  BY <1>u DEF Buffers
<1>5. Polled'
  <2>1. DOMAIN pfds = 1..Len(pfds)
    BY <1>t DEF UsTypeOK
  <2> QED BY <1>u, <2>1 DEF Polled, Scanned
<1> QED BY <1>1, <1>2, <1>3, <1>4, <1>5

LEMMA RunFailsInv ==
  ASSUME UsInv, RunFails
  PROVE  UsInv'
<1> USE DEF UsInv
<1>t. UsTypeOK
  OBVIOUS
<1>u. /\ UNCHANGED <<sent, unread, peer, reported>>
      /\ fds' = fds \ {clients[k].conn : k \in {k \in DOMAIN clients : ~clients[k].dropped}}
      /\ clients' = <<>> /\ pfds' = <<>> /\ backlog' = <<>> /\ upc' = "ended"
  BY DEF RunFails, clientvars
<1>1. fds' = {}
  <2>1. DOMAIN clients = 1..Len(clients)
    BY <1>t DEF UsTypeOK
  <2>2. ASSUME NEW c \in Conns, c \in fds PROVE c \notin fds'
    <3>1. PICK k \in DOMAIN clients : ~clients[k].dropped /\ clients[k].conn = c
      BY <2>1, <2>2 DEF Descriptors
    <3> QED BY <1>u, <3>1
  <2> QED BY <1>t, <1>u, <2>2 DEF UsTypeOK
<1>2. Len(clients') = 0 /\ Len(backlog') = 0 /\ Len(pfds') = 0 /\ ToSet(backlog') = {}
  BY <1>u DEF ToSet
<1>3. UsTypeOK'
  BY <1>t, <1>u, <1>1 DEF UsTypeOK, Points
<1>4. OnePlace' /\ Unread' /\ Descriptors'
  BY <1>u, <1>1, <1>2 DEF OnePlace, Distinct, Unread, Descriptors
<1>5. Buffers' /\ Polled' /\ Told'
  BY <1>u, <1>1, <1>2 DEF Buffers, Polled, Told
<1> QED BY <1>3, <1>4, <1>5

-----------------------------------------------------------------------------
(* Reading, reporting and dropping.                                        *)

\* The client that the loop is at.
LEMMA CurrentClient ==
  ASSUME UsInv, InScan \/ upc = "report"
  PROVE  /\ Current \in 1..Len(pfds) /\ Current \in 1..Len(clients)
         /\ clients[Current].conn \in Conns /\ ~clients[Current].dropped
         /\ clients[Current].buf \in Seq(Bytes)
         /\ ~Scanned
<1>1. ~Scanned /\ upc \in {"scan", "report"}
  BY DEF UsInv, Buffers, InScan
<1>2. Current \in 1..Len(pfds) /\ pfds[Current].revents
  BY <1>1, CurrentIs DEF UsInv, UsTypeOK
<1>3. Current \in 1..Len(clients) /\ ~clients[Current].dropped
  BY <1>1, <1>2 DEF UsInv, Polled
<1> QED BY <1>1, <1>2, <1>3, ClientTypes DEF UsInv, UsTypeOK

\* What is left in the buffer and in the socket, when n more bytes are read, is the same.
LEMMA MoveBytes ==
  ASSUME NEW b \in Seq(Bytes), NEW u \in Seq(Bytes), NEW n \in 1..Len(u)
  PROVE  /\ SubSeq(u, 1, n) \in Seq(Bytes) /\ SubSeq(u, n + 1, Len(u)) \in Seq(Bytes)
         /\ SubSeq(b, 1, Len(b)) = b
         /\ (b \o SubSeq(u, 1, n)) \o SubSeq(u, n + 1, Len(u)) = b \o u
         /\ HasLine(b \o SubSeq(u, 1, n)) => HasLine(b) \/ HasLine(SubSeq(u, 1, n))
<1> DEFINE x == SubSeq(u, 1, n)
           y == SubSeq(u, n + 1, Len(u))
<1>1. x \in Seq(Bytes) /\ y \in Seq(Bytes)
  BY SMTT(30)
<1>2. x \o y = u
  BY SMTT(30)
<1>3. SubSeq(b, 1, Len(b)) = b
  BY SMTT(30)
<1> HIDE DEF x, y
<1>4. (b \o x) \o y = b \o (x \o y)
  BY <1>1, SMTT(30)
<1>5. HasLine(b \o x) => HasLine(b) \/ HasLine(x)
  <2> SUFFICES ASSUME NEW k \in 1..Len(b \o x), (b \o x)[k] = "newline"
               PROVE  HasLine(b) \/ HasLine(x)
    BY DEF HasLine
  <2>1. Len(b \o x) = Len(b) + Len(x) /\ Len(b) \in Nat /\ Len(x) \in Nat
    BY <1>1
  <2>2. CASE k <= Len(b)
    <3>1. k \in 1..Len(b) /\ b[k] = "newline"
      BY <1>1, <2>1, <2>2
    <3> QED BY <3>1 DEF HasLine
  <2>3. CASE k > Len(b)
    <3>1. k - Len(b) \in 1..Len(x) /\ x[k - Len(b)] = "newline"
      BY <1>1, <2>1, <2>3
    <3> QED BY <3>1 DEF HasLine
  <2> QED BY <2>1, <2>2, <2>3
<1> QED BY <1>1, <1>2, <1>3, <1>4, <1>5 DEF x, y

\* A client's buffer is replaced.
Refilled(cs, n, b) == [cs EXCEPT ![n].buf = b]

LEMMA BufferProps ==
  ASSUME NEW cs \in Seq(Clients), NEW n \in 1..Len(cs), NEW b \in Seq(Bytes)
  PROVE  /\ Refilled(cs, n, b) \in Seq(Clients) /\ Len(Refilled(cs, n, b)) = Len(cs)
         /\ \A k \in 1..Len(cs) : Refilled(cs, n, b)[k].conn = cs[k].conn
                                  /\ Refilled(cs, n, b)[k].dropped = cs[k].dropped
         /\ \A k \in 1..Len(cs) : k # n => Refilled(cs, n, b)[k] = cs[k]
         /\ Refilled(cs, n, b)[n].buf = b
<1> DEFINE one == [cs[n] EXCEPT !.buf = b]
<1>1. cs[n] \in Clients
  OBVIOUS
<1>2. one \in Clients /\ one.conn = cs[n].conn /\ one.dropped = cs[n].dropped /\ one.buf = b
  BY <1>1 DEF Clients
<1>3. Refilled(cs, n, b) = [cs EXCEPT ![n] = one]
  BY DEF Refilled
<1> HIDE DEF one
<1>4. [cs EXCEPT ![n] = one] \in Seq(Clients) /\ Len([cs EXCEPT ![n] = one]) = Len(cs)
  BY <1>2
<1>5. \A k \in 1..Len(cs) : [cs EXCEPT ![n] = one][k] = IF k = n THEN one ELSE cs[k]
  OBVIOUS
<1> QED BY <1>2, <1>3, <1>4, <1>5

LEMMA ReadInv ==
  ASSUME UsInv, NEW n \in 1..MaxBytes, Read(n)
  PROVE  UsInv'
<1> USE DEF UsInv
<1>t. UsTypeOK
  OBVIOUS
<1>c. PICK cur : cur = Current
  OBVIOUS
<1>d. PICK c : c = clients[cur].conn
  OBVIOUS
<1>e. PICK buf : buf = clients[cur].buf
  OBVIOUS
<1>f. InScan
  BY DEF Read, ReadAfter
<1>g. /\ cur \in 1..Len(pfds) /\ cur \in 1..Len(clients) /\ c \in Conns /\ buf \in Seq(Bytes)
      /\ ~Scanned /\ ~clients[cur].dropped
  BY <1>c, <1>d, <1>e, <1>f, CurrentClient
<1>h. PICK chunk : chunk = SubSeq(unread[c], 1, n)
  OBVIOUS
<1>u. /\ UNCHANGED <<sent, peer, backlog, can_accept, fds, reported>>
      /\ n \in 1..Len(unread[c]) /\ upc = "scan"
      /\ unread' = [unread EXCEPT ![c] = SubSeq(unread[c], n + 1, Len(unread[c]))]
      /\ clients' = [clients EXCEPT ![cur].buf = SubSeq(buf, 1, Len(buf)) \o chunk]
      /\ \/ "newline" \in ToSet(chunk) /\ upc' = "report" /\ UNCHANGED pfds
         \/ "newline" \notin ToSet(chunk) /\ upc' = "scan" /\ Advance
  BY <1>c, <1>d, <1>e, <1>h, <1>g DEF Read, ReadAfter, InScan
<1>b. /\ chunk \in Seq(Bytes) /\ SubSeq(unread[c], n + 1, Len(unread[c])) \in Seq(Bytes)
      /\ SubSeq(buf, 1, Len(buf)) = buf
      /\ (buf \o chunk) \o SubSeq(unread[c], n + 1, Len(unread[c])) = buf \o unread[c]
      /\ HasLine(buf \o chunk) => HasLine(buf) \/ HasLine(chunk)
      /\ unread[c] \in Seq(Bytes)
  <2>1. unread[c] \in Seq(Bytes)
    BY <1>t, <1>g DEF UsTypeOK
  <2> QED BY <1>g, <1>h, <1>u, <2>1, MoveBytes
<1>x. buf \o chunk \in Seq(Bytes)
  BY <1>g, <1>b
<1>k. /\ clients' \in Seq(Clients) /\ Len(clients') = Len(clients)
      /\ \A k \in 1..Len(clients) : clients'[k].conn = clients[k].conn
                                    /\ clients'[k].dropped = clients[k].dropped
      /\ \A k \in 1..Len(clients) : k # cur => clients'[k] = clients[k]
      /\ clients'[cur].buf = buf \o chunk
  <2>1. clients' = [clients EXCEPT ![cur].buf = buf \o chunk] /\ clients \in Seq(Clients)
    BY <1>t, <1>u, <1>b DEF UsTypeOK
  <2>2. clients' = Refilled(clients, cur, buf \o chunk)
    BY <2>1 DEF Refilled
  <2>3. PICK b : b = buf \o chunk
    OBVIOUS
  <2>4. b \in Seq(Bytes) /\ clients \in Seq(Clients) /\ cur \in 1..Len(clients)
    BY <1>g, <1>x, <2>1, <2>3
  <2>5. /\ Refilled(clients, cur, b) \in Seq(Clients)
        /\ Len(Refilled(clients, cur, b)) = Len(clients)
        /\ \A k \in 1..Len(clients) : Refilled(clients, cur, b)[k].conn = clients[k].conn
                                  /\ Refilled(clients, cur, b)[k].dropped = clients[k].dropped
        /\ \A k \in 1..Len(clients) : k # cur => Refilled(clients, cur, b)[k] = clients[k]
        /\ Refilled(clients, cur, b)[cur].buf = b
    BY <2>4, BufferProps
  <2> QED BY <2>2, <2>3, <2>5
<1>l. "newline" \in ToSet(chunk) <=> HasLine(chunk)
  BY <1>b, LookForNewline
<1>p. /\ pfds' \in Seq(Polls) /\ Len(pfds') = Len(pfds)
      /\ \A k \in 1..Len(pfds) : pfds'[k].conn = pfds[k].conn
      /\ \A k \in 1..Len(pfds) : pfds'[k].revents => pfds[k].revents
  BY <1>t, <1>u, <1>g, AdvanceProps DEF UsTypeOK
<1>v. /\ \A d \in Conns :
           unread'[d] = IF d = c THEN SubSeq(unread[c], n + 1, Len(unread[c])) ELSE unread[d]
      /\ unread' \in [Conns -> Seq(Bytes)]
  BY <1>t, <1>u, <1>b DEF UsTypeOK
<1>1. UsTypeOK'
  BY <1>t, <1>u, <1>k, <1>p, <1>v DEF UsTypeOK, Points
<1>2. OnePlace'
  BY <1>u, <1>k DEF OnePlace, Distinct
<1>3. Unread'
  <2>1. c \notin ToSet(backlog)
    <3>1. \A m \in 1..Len(backlog) : backlog[m] # c
      BY <1>d, <1>g DEF OnePlace
    <3> QED BY <1>t, <1>g, <3>1, InQueue DEF UsTypeOK
  <2>2. peer[c] # "none"
    BY <1>d, <1>g DEF OnePlace
  <2> QED BY <1>u, <1>v, <2>1, <2>2 DEF Unread
<1>4. Descriptors'
  BY <1>u, <1>k DEF Descriptors
<1>5. Buffers'
  <2>1. ASSUME NEW k \in 1..Len(clients), ~clients'[k].dropped
        PROVE  sent[clients'[k].conn] = clients'[k].buf \o unread'[clients'[k].conn]
    <3>1. CASE k = cur
      <4>1. sent[c] = buf \o unread[c]
        BY <1>d, <1>e, <1>g DEF Buffers
      <4>2. clients'[k].conn = c /\ clients'[k].buf = buf \o chunk
        BY <1>d, <1>k, <1>g, <3>1
      <4> QED BY <1>b, <1>v, <1>g, <4>1, <4>2
    <3>2. CASE k # cur
      <4>1. clients'[k] = clients[k] /\ ~clients[k].dropped
        BY <1>k, <2>1, <3>2
      <4>2. clients[k].conn \in Conns /\ clients[k].conn # c
        BY <1>t, <1>d, <1>g, <3>2, ClientTypes DEF UsTypeOK, OnePlace, Distinct
      <4> QED BY <1>v, <4>1, <4>2 DEF Buffers
    <3> QED BY <3>1, <3>2
  <2>2. ASSUME NEW k \in 1..Len(clients), ~clients'[k].dropped, HasLine(clients'[k].buf)
        PROVE  k = cur /\ HasLine(chunk)
    <3>1. ~HasLine(clients[k].buf)
      BY <1>u, <1>k, <2>2 DEF Buffers
    <3>2. k = cur
      BY <1>k, <2>2, <3>1
    <3> QED BY <1>b, <1>e, <1>k, <2>2, <3>1, <3>2
  <2>3. ASSUME HasLine(chunk)
        PROVE  upc' = "report" /\ Current' = cur /\ ~Scanned' /\ HasLine(clients'[cur].buf)
    <3>1. upc' = "report" /\ UNCHANGED pfds
      BY <1>u, <1>l, <2>3
    <3>2. Current' = Current /\ Scanned' = Scanned
      BY <3>1 DEF Current, Scanned
    <3>3. HasLine(buf \o chunk)
      <4>1. PICK j \in 1..Len(chunk) : chunk[j] = "newline"
        BY <2>3 DEF HasLine
      <4>2. Len(buf) + j \in 1..Len(buf \o chunk) /\ (buf \o chunk)[Len(buf) + j] = chunk[j]
        BY <1>g, <1>b
      <4> QED BY <4>1, <4>2 DEF HasLine
    <3> QED BY <1>c, <1>g, <1>k, <3>1, <3>2, <3>3
  <2>4. upc' = "report" => HasLine(chunk)
    BY <1>u, <1>l
  <2> QED BY <1>u, <1>k, <2>1, <2>2, <2>3, <2>4 DEF Buffers
<1>6. Polled'
  BY <1>u, <1>k, <1>p DEF Polled
<1>7. Told'
  BY <1>u DEF Told
<1> QED BY <1>1, <1>2, <1>3, <1>4, <1>5, <1>6, <1>7

\* A client is dropped in the loop, whatever is reported.
LEMMA DropsInv ==
  ASSUME UsInv, InScan \/ upc = "report",
         UNCHANGED <<sent, unread, peer, backlog, can_accept>>, upc' = "scan",
         clients' = Drop(clients, Current), fds' = fds \ {clients[Current].conn}, Advance,
         reported' \in [Conns -> Seq(Bytes) \cup {None}], Told'
  PROVE  UsInv'
<1> USE DEF UsInv
<1>t. UsTypeOK
  OBVIOUS
<1>c. PICK cur : cur = Current
  OBVIOUS
<1>d. PICK c : c = clients[cur].conn
  OBVIOUS
<1>g. /\ cur \in 1..Len(pfds) /\ cur \in 1..Len(clients) /\ c \in Conns
      /\ ~Scanned /\ ~clients[cur].dropped
  BY <1>c, <1>d, CurrentClient
<1>k. /\ clients' \in Seq(Clients) /\ Len(clients') = Len(clients)
      /\ \A k \in 1..Len(clients) : clients'[k].conn = clients[k].conn
      /\ \A k \in 1..Len(clients) : k # cur => clients'[k] = clients[k]
      /\ clients'[cur].dropped
  <2>1. /\ Drop(clients, cur) \in Seq(Clients) /\ Len(Drop(clients, cur)) = Len(clients)
        /\ \A k \in 1..Len(clients) : Drop(clients, cur)[k].conn = clients[k].conn
        /\ \A k \in 1..Len(clients) : k # cur => Drop(clients, cur)[k] = clients[k]
        /\ Drop(clients, cur)[cur].dropped
    BY <1>t, <1>g, DropProps DEF UsTypeOK
  <2> QED BY <1>c, <2>1
<1>p. /\ pfds' \in Seq(Polls) /\ Len(pfds') = Len(pfds)
      /\ \A k \in 1..Len(pfds) : pfds'[k].conn = pfds[k].conn
      /\ \A k \in 1..Len(pfds) : pfds'[k].revents => k # cur /\ pfds[k].revents
  BY <1>t, <1>c, <1>g, AdvanceProps DEF UsTypeOK
<1>1. UsTypeOK'
  BY <1>t, <1>k, <1>p DEF UsTypeOK, Points
<1>2. OnePlace'
  BY <1>k DEF OnePlace, Distinct
<1>3. Unread'
  BY DEF Unread
<1>4. Descriptors'
  <2>0. fds' = fds \ {c}
    BY <1>c, <1>d
  <2>1. ASSUME NEW d \in Conns, d \in fds'
        PROVE  \E k \in 1..Len(clients) : ~clients'[k].dropped /\ clients'[k].conn = d
    <3>1. d \in fds /\ d # c
      BY <2>0, <2>1
    <3>2. PICK k \in 1..Len(clients) : ~clients[k].dropped /\ clients[k].conn = d
      BY <3>1 DEF Descriptors
    <3>3. k # cur
      BY <1>d, <3>1, <3>2
    <3> QED BY <1>k, <3>2, <3>3
  <2>2. ASSUME NEW d \in Conns, NEW k \in 1..Len(clients), ~clients'[k].dropped, clients'[k].conn = d
        PROVE  d \in fds'
    <3>1. k # cur /\ ~clients[k].dropped /\ clients[k].conn = d
      BY <1>k, <2>2
    <3>2. d # c
      BY <1>d, <1>g, <3>1 DEF OnePlace, Distinct
    <3> QED BY <2>0, <3>1, <3>2 DEF Descriptors
  <2> QED BY <1>k, <2>1, <2>2 DEF Descriptors
<1>5. Buffers'
  <2>1. ASSUME NEW k \in 1..Len(clients), ~clients'[k].dropped
        PROVE  k # cur /\ clients'[k] = clients[k] /\ ~HasLine(clients[k].buf)
    <3>1. k # cur /\ clients'[k] = clients[k]
      BY <1>k, <2>1
    <3>2. ~HasLine(clients[k].buf)
      BY <1>c, <2>1, <3>1 DEF Buffers
    <3> QED BY <3>1, <3>2
  <2>2. ASSUME NEW k \in 1..Len(clients), ~clients'[k].dropped
        PROVE  sent[clients'[k].conn] = clients'[k].buf \o unread[clients'[k].conn]
    <3>1. clients'[k] = clients[k] /\ ~clients[k].dropped
      BY <2>1, <2>2
    <3> QED BY <3>1 DEF Buffers
  <2> QED BY <1>k, <2>1, <2>2 DEF Buffers
<1>6. Polled'
  <2>1. upc \in {"scan", "report"}
    BY DEF InScan
  <2>2. \A k \in 1..Len(pfds) : pfds'[k].revents => ~clients'[k].dropped
    BY <1>k, <1>p, <2>1 DEF Polled
  <2> QED BY <1>k, <1>p, <2>1, <2>2 DEF Polled
<1> QED BY <1>1, <1>2, <1>3, <1>4, <1>5, <1>6

LEMMA ReadEndsInv ==
  ASSUME UsInv, ReadEnds
  PROVE  UsInv'
<1>1. /\ UNCHANGED <<sent, unread, peer, backlog, can_accept, reported>> /\ upc' = "scan"
      /\ InScan /\ clients' = Drop(clients, Current) /\ fds' = fds \ {clients[Current].conn}
      /\ Advance
  BY DEF ReadEnds, InScan, clientvars
<1>2. Told'
  BY <1>1 DEF UsInv, Told
<1>3. reported' \in [Conns -> Seq(Bytes) \cup {None}]
  BY <1>1 DEF UsInv, UsTypeOK
<1> QED BY <1>1, <1>2, <1>3, DropsInv

\* The line that is reported is the first that was sent.
LEMMA ReportLineInv ==
  ASSUME UsInv, ReportLine
  PROVE  UsInv'
<1> USE DEF UsInv
<1>1. /\ UNCHANGED <<sent, unread, peer, backlog, can_accept>> /\ upc = "report" /\ upc' = "scan"
      /\ clients' = Drop(clients, Current) /\ fds' = fds \ {clients[Current].conn}
      /\ Advance
      /\ reported' = [reported EXCEPT ![clients[Current].conn] = FullLine(clients[Current].buf)]
  BY DEF ReportLine, clientvars
<1>2. PICK cur, c, buf : cur = Current /\ c = clients[cur].conn /\ buf = clients[cur].buf
  OBVIOUS
<1>3. cur \in 1..Len(clients) /\ c \in Conns /\ buf \in Seq(Bytes) /\ ~clients[cur].dropped
  BY <1>1, <1>2, CurrentClient
<1>4. HasLine(buf) /\ sent[c] = buf \o unread[c] /\ unread[c] \in Seq(Bytes)
  BY <1>1, <1>2, <1>3 DEF Buffers, UsTypeOK
<1>5. HasLine(sent[c]) /\ FullLine(sent[c]) = FullLine(buf)
  BY <1>3, <1>4, FullLineOfMore
<1>6. FullLine(buf) \in Seq(Bytes)
  <2>1. PICK k : EndsAt(buf, k)
    BY <1>3, <1>4, FirstNewline
  <2>2. k \in 1..Len(buf) /\ FullLine(buf) = SubSeq(buf, 1, k - 1)
    BY <1>3, <2>1, FullLineIs DEF EndsAt
  <2>3. SubSeq(buf, 1, k - 1) \in Seq(Bytes)
    BY <1>3, <2>2
  <2> QED BY <2>2, <2>3
<1>7. /\ reported' \in [Conns -> Seq(Bytes) \cup {None}]
      /\ \A d \in Conns : reported'[d] = IF d = c THEN FullLine(buf) ELSE reported[d]
  BY <1>1, <1>2, <1>3, <1>6 DEF UsTypeOK
<1>8. Told'
  <2>1. c \notin ToSet(backlog)
    <3>1. \A m \in 1..Len(backlog) : backlog[m] # c
      BY <1>2, <1>3 DEF OnePlace
    <3> QED BY <1>3, <3>1, InQueue DEF UsTypeOK
  <2>2. peer[c] # "none"
    BY <1>2, <1>3 DEF OnePlace
  <2>3. fds' = fds \ {c}
    BY <1>1, <1>2
  <2> QED BY <1>1, <1>5, <1>7, <2>1, <2>2, <2>3 DEF Told
<1> QED BY <1>1, <1>7, <1>8, DropsInv

-----------------------------------------------------------------------------
(* Accepting and compacting.                                               *)

NewClient(c) == [conn |-> c, dropped |-> FALSE, buf |-> <<>>]

\* add_client().
LEMMA AddClientProps ==
  ASSUME NEW cs \in Seq(Clients), NEW c \in Conns
  PROVE  /\ Append(cs, NewClient(c)) \in Seq(Clients)
         /\ Len(Append(cs, NewClient(c))) = Len(cs) + 1 /\ Len(cs) \in Nat
         /\ \A k \in 1..Len(cs) : Append(cs, NewClient(c))[k] = cs[k]
         /\ Append(cs, NewClient(c))[Len(cs) + 1] = NewClient(c)
         /\ \A k : k \in 1..Len(cs) + 1 <=> k \in 1..Len(cs) \/ k = Len(cs) + 1
<1>1. NewClient(c) \in Clients
  <2>1. <<>> \in Seq(Bytes)
    OBVIOUS
  <2> QED BY <2>1 DEF NewClient, Clients
<1> QED BY <1>1

LEMMA AcceptInv ==
  ASSUME UsInv, Accept
  PROVE  UsInv'
<1> USE DEF UsInv
<1>t. UsTypeOK
  OBVIOUS
<1>u. /\ UNCHANGED <<sent, unread, peer, can_accept, reported>>
      /\ upc = "scan" /\ Scanned /\ backlog # <<>>
      /\ backlog' = Tail(backlog) /\ fds' = fds \cup {Head(backlog)}
      /\ clients' = Append(clients, NewClient(Head(backlog)))
      /\ \/ pfds' = UpdatePfds(clients') /\ upc' = "compact"
         \/ UNCHANGED pfds /\ upc' = "aborted"
  BY DEF Accept, EndOfScan, clientvars, NewClient
<1>q. /\ backlog \in Seq(Conns) /\ backlog # <<>>
      /\ \A k, m \in 1..Len(backlog) : backlog[k] = backlog[m] => k = m
  BY <1>t, <1>u DEF UsTypeOK, OnePlace
<1>c. PICK c : c = Head(backlog)
  OBVIOUS
<1>b. /\ c \in Conns /\ c \in ToSet(backlog) /\ c = backlog[1] /\ 1 \in 1..Len(backlog)
      /\ backlog' \in Seq(Conns)
      /\ \A k \in 1..Len(backlog') : k + 1 \in 1..Len(backlog) /\ backlog'[k] = backlog[k + 1]
      /\ ToSet(backlog') \subseteq ToSet(backlog) \ {c}
  BY <1>u, <1>q, <1>c, TakeFirst
<1>k. /\ clients' \in Seq(Clients) /\ Len(clients') = Len(clients) + 1 /\ Len(clients) \in Nat
      /\ \A k \in 1..Len(clients) : clients'[k] = clients[k]
      /\ clients'[Len(clients) + 1] = NewClient(c)
      /\ \A k : k \in 1..Len(clients) + 1 <=> k \in 1..Len(clients) \/ k = Len(clients) + 1
  <2>1. clients \in Seq(Clients) /\ clients' = Append(clients, NewClient(c))
    BY <1>t, <1>u, <1>c DEF UsTypeOK
  <2> QED BY <1>b, <2>1, AddClientProps
<1>n. NewClient(c).conn = c /\ ~NewClient(c).dropped /\ NewClient(c).buf = <<>>
  BY DEF NewClient
<1>p. /\ pfds' \in Seq(Polls)
      /\ \/ UNCHANGED pfds /\ upc' = "aborted"
         \/ /\ upc' = "compact" /\ Len(pfds') = Len(clients')
            /\ \A k \in 1..Len(clients') : pfds'[k].conn = clients'[k].conn /\ ~pfds'[k].revents
  <2>1. CASE UNCHANGED pfds /\ upc' = "aborted"
    BY <1>t, <2>1 DEF UsTypeOK
  <2>2. CASE pfds' = UpdatePfds(clients') /\ upc' = "compact"
    BY <1>k, <2>2, UpdatePfdsProps
  <2> QED BY <1>u, <2>1, <2>2
<1>o. \A k \in 1..Len(clients) : clients[k].conn \in Conns /\ clients[k].conn # c
  BY <1>t, <1>b, ClientTypes DEF UsTypeOK, OnePlace
<1>1. UsTypeOK'
  BY <1>t, <1>u, <1>b, <1>k, <1>p, <1>c DEF UsTypeOK, Points
<1>2. OnePlace'
  <2>1. Distinct(clients')
    <3> SUFFICES ASSUME NEW j \in 1..Len(clients'), NEW m \in 1..Len(clients'),
                        clients'[j].conn = clients'[m].conn
                 PROVE  j = m
      BY DEF Distinct
    <3>1. CASE j \in 1..Len(clients) /\ m \in 1..Len(clients)
      BY <1>k, <3>1 DEF OnePlace, Distinct
    <3>2. CASE j = Len(clients) + 1 \/ m = Len(clients) + 1
      BY <1>k, <1>n, <1>o, <3>2
    <3> QED BY <1>k, <3>1, <3>2
  <2>2. \A k, m \in 1..Len(backlog') : backlog'[k] = backlog'[m] => k = m
    BY <1>b, <1>q
  <2>3. \A k \in 1..Len(backlog') : backlog'[k] # c /\ peer[backlog'[k]] # "none"
    <3> TAKE k \in 1..Len(backlog')
    <3>1. k + 1 # 1
      BY <1>b
    <3> QED BY <1>b, <1>q, <3>1 DEF OnePlace
  <2>4. ASSUME NEW k \in 1..Len(clients'), NEW m \in 1..Len(backlog')
        PROVE  clients'[k].conn # backlog'[m]
    <3>1. CASE k \in 1..Len(clients)
      BY <1>k, <1>b, <3>1 DEF OnePlace
    <3>2. CASE k = Len(clients) + 1
      BY <1>k, <1>n, <2>3, <3>2
    <3> QED BY <1>k, <3>1, <3>2
  <2>5. peer[c] # "none"
    BY <1>b DEF OnePlace
  <2>6. ASSUME NEW k \in 1..Len(clients') PROVE peer[clients'[k].conn] # "none"
    <3>1. CASE k \in 1..Len(clients)
      BY <1>k, <3>1 DEF OnePlace
    <3>2. CASE k = Len(clients) + 1
      BY <1>k, <1>n, <2>5, <3>2
    <3> QED BY <1>k, <3>1, <3>2
  <2> QED BY <1>u, <2>1, <2>2, <2>3, <2>4, <2>6 DEF OnePlace
<1>3. Unread'
  BY <1>u, <1>b DEF Unread
<1>4. Descriptors'
  <2>1. ASSUME NEW d \in Conns, d \in fds'
        PROVE  \E k \in 1..Len(clients') : ~clients'[k].dropped /\ clients'[k].conn = d
    <3>1. CASE d = c
      BY <1>k, <1>n, <3>1
    <3>2. CASE d # c
      <4>1. PICK k \in 1..Len(clients) : ~clients[k].dropped /\ clients[k].conn = d
        BY <1>u, <1>c, <2>1, <3>2 DEF Descriptors
      <4> QED BY <1>k, <4>1
    <3> QED BY <3>1, <3>2
  <2>2. ASSUME NEW d \in Conns, NEW k \in 1..Len(clients'), ~clients'[k].dropped, clients'[k].conn = d
        PROVE  d \in fds'
    <3>1. CASE k \in 1..Len(clients)
      BY <1>u, <1>k, <2>2, <3>1 DEF Descriptors
    <3>2. CASE k = Len(clients) + 1
      BY <1>u, <1>k, <1>n, <1>c, <2>2, <3>2
    <3> QED BY <1>k, <3>1, <3>2
  <2> QED BY <2>1, <2>2 DEF Descriptors
<1>5. Buffers'
  <2>1. sent[c] = <<>> \o unread[c]
    <3>1. sent[c] = unread[c] /\ unread[c] \in Seq(Bytes)
      BY <1>t, <1>b DEF Unread, UsTypeOK
    <3>2. <<>> \o unread[c] = unread[c]
      BY <3>1
    <3> QED BY <3>1, <3>2
  <2>2. ~HasLine(<<>>)
    BY DEF HasLine
  <2>3. ASSUME NEW k \in 1..Len(clients'), ~clients'[k].dropped
        PROVE  /\ sent[clients'[k].conn] = clients'[k].buf \o unread[clients'[k].conn]
               /\ ~HasLine(clients'[k].buf)
    <3>1. CASE k \in 1..Len(clients)
      <4>1. clients'[k] = clients[k] /\ ~clients[k].dropped
        BY <1>k, <2>3, <3>1
      <4> QED BY <1>u, <3>1, <4>1 DEF Buffers
    <3>2. CASE k = Len(clients) + 1
      BY <1>k, <1>n, <2>1, <2>2, <3>2
    <3> QED BY <1>k, <3>1, <3>2
  <2>4. upc' # "report"
    BY <1>u
  <2> QED BY <1>u, <2>3, <2>4 DEF Buffers
<1>6. Polled'
  <2>1. CASE upc' = "aborted"
    BY <2>1 DEF Polled
  <2>2. CASE upc' = "compact"
    BY <1>p, <2>2 DEF Polled
  <2> QED BY <1>u, <2>1, <2>2
<1>7. Told'
  <2>1. reported[c] = None
    BY <1>b DEF Told
  <2>2. fds' = fds \cup {c}
    BY <1>u, <1>c
  <2> QED BY <1>u, <1>b, <2>1, <2>2 DEF Told
<1> QED BY <1>1, <1>2, <1>3, <1>4, <1>5, <1>6, <1>7

LEMMA CompactInv ==
  ASSUME UsInv, Compact
  PROVE  UsInv'
<1> USE DEF UsInv
<1>t. UsTypeOK
  OBVIOUS
<1>u. /\ UNCHANGED <<sent, unread, peer, backlog, fds, reported>>
      /\ upc = "compact" /\ upc' = "poll" /\ can_accept' = FALSE
      /\ clients' = Kept(clients) /\ pfds' = UpdatePfds(clients')
  BY DEF Compact, clientvars
<1>k. KeptOf(clients', clients, Len(clients))
  BY <1>t, <1>u, KeptProps DEF UsTypeOK, OnePlace
<1>p. /\ pfds' \in Seq(Polls) /\ Len(pfds') = Len(clients')
      /\ \A k \in 1..Len(clients') : pfds'[k].conn = clients'[k].conn /\ ~pfds'[k].revents
  BY <1>u, <1>k, UpdatePfdsProps DEF KeptOf
<1>1. UsTypeOK'
  BY <1>t, <1>u, <1>k, <1>p DEF UsTypeOK, KeptOf, Points
<1>2. OnePlace'
  <2>1. ASSUME NEW j \in 1..Len(clients')
        PROVE  /\ peer[clients'[j].conn] # "none"
               /\ \A m \in 1..Len(backlog) : clients'[j].conn # backlog[m]
    <3>1. PICK m \in 1..Len(clients) : clients'[j] = clients[m]
      BY <1>k DEF KeptOf
    <3> QED BY <3>1 DEF OnePlace
  <2>2. Distinct(clients')
    BY <1>k DEF KeptOf
  <2> QED BY <1>u, <2>1, <2>2 DEF OnePlace, Distinct
<1>3. Unread' /\ Told'
  BY <1>u DEF Unread, Told
<1>4. Descriptors'
  <2> SUFFICES ASSUME NEW c \in Conns
               PROVE  c \in fds <=> \E j \in 1..Len(clients') :
                                      ~clients'[j].dropped /\ clients'[j].conn = c
    BY <1>u DEF Descriptors
  <2>1. ASSUME c \in fds
        PROVE  \E j \in 1..Len(clients') : ~clients'[j].dropped /\ clients'[j].conn = c
    <3>1. PICK m \in 1..Len(clients) : ~clients[m].dropped /\ clients[m].conn = c
      BY <2>1 DEF Descriptors
    <3>2. PICK j \in 1..Len(clients') : clients'[j] = clients[m]
      BY <1>k, <3>1 DEF KeptOf
    <3> QED BY <3>1, <3>2
  <2>2. ASSUME NEW j \in 1..Len(clients'), clients'[j].conn = c
        PROVE  c \in fds
    <3>1. PICK m \in 1..Len(clients) : clients'[j] = clients[m] /\ ~clients[m].dropped
      BY <1>k DEF KeptOf
    <3> QED BY <2>2, <3>1 DEF Descriptors
  <2> QED BY <2>1, <2>2
<1>5. Buffers'
  <2>1. ASSUME NEW j \in 1..Len(clients')
        PROVE  /\ sent[clients'[j].conn] = clients'[j].buf \o unread[clients'[j].conn]
               /\ ~HasLine(clients'[j].buf)
    <3>1. PICK m \in 1..Len(clients) : clients'[j] = clients[m] /\ ~clients[m].dropped
      BY <1>k DEF KeptOf
    <3> QED BY <1>u, <3>1 DEF Buffers
  <2> QED BY <1>u, <2>1 DEF Buffers
<1>6. Polled'
  <2>1. \A k \in 1..Len(clients') : ~clients'[k].dropped
    BY <1>k DEF KeptOf
  <2> QED BY <1>u, <1>p, <2>1 DEF Polled
<1> QED BY <1>1, <1>2, <1>3, <1>4, <1>5, <1>6
-----------------------------------------------------------------------------
LEMMA UsNextInv == UsInv /\ [UsNext]_usvars => UsInv'
<1> SUFFICES ASSUME UsInv, [UsNext]_usvars PROVE UsInv'
  OBVIOUS
<1>1. CASE UNCHANGED usvars
  BY <1>1, UsStutter
<1>2. CASE Serve
  <2>1. CASE NoAccept
    BY <2>1, QuietStepsInv, AbortedInv
  <2>2. CASE MakeServer \/ Greet \/ Poll \/ ReadEnds \/ ReportLine \/ Accept \/ Compact
    BY <2>2, QuietStepsInv, PollInv, ReadEndsInv, ReportLineInv, AcceptInv, CompactInv
  <2> QED BY <1>2, <2>1, <2>2, ReadInv DEF Serve
<1>3. CASE PollTimeout \/ RunFails
  BY <1>3, QuietStepsInv, RunFailsInv
<1>4. ASSUME NEW c \in Conns,
             ClientConnects(c) \/ ClientHangsUp(c) \/ \E b \in Bytes : ClientSends(c, b)
      PROVE  UsInv'
  BY <1>4, ConnectsInv, HangsUpInv, SendsInv
<1> QED BY <1>1, <1>2, <1>3, <1>4 DEF UsNext

\* Descriptors, buffers, pollfds and the queue of connections agree in every state.
THEOREM UsInvariance == UsSpec => []UsInv
BY UsInitInv, UsNextInv, PTL DEF UsSpec

\* The line that cb is called with is the first line its client sent: no byte of a connection
\* is lost, repeated or taken for another's while clients are dropped and accepted around it.
THEOREM FirstLineIsReported == UsSpec => []ReportsFirstLine
<1>1. UsInv => ReportsFirstLine
  <2> SUFFICES ASSUME UsInv, NEW c \in Conns, reported[c] # None
               PROVE  "newline" \in ToSet(sent[c]) /\ reported[c] = FullLine(sent[c])
    BY DEF ReportsFirstLine
  <2>1. sent[c] \in Seq(Bytes) /\ HasLine(sent[c]) /\ reported[c] = FullLine(sent[c])
    BY DEF UsInv, UsTypeOK, Told
  <2> QED BY <2>1, LookForNewline
<1> QED BY <1>1, UsInvariance, PTL
=============================================================================
