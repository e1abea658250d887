-------------------------------- MODULE Conq --------------------------------
(***************************************************************************)
(* The "concurrent queue" of the multiplex plugin (conq.c) between its     *)
(* producers, the threads of the nested widgets (recv_callback(),          *)
(* runner_run()), and its consumer, the thread of the multiplexing widget  *)
(* (the loop at the end of run()).  The steps under the mutex are separate *)
(* and the condition variable may wake its waiter for no reason.           *)
(***************************************************************************)
EXTENDS Integers, FiniteSets

CONSTANTS NSlots,   \* the number of data sources
          Bufs,     \* the strings nested widgets produce
          EmptyBuf, \* the empty string
          Others    \* what their cb's end with besides strings: see OtherResults

CONQ_MAX_SLOTS == 64
OtherResults   == {"nil", "lua_err", "bad_type"}
ASSUME ConqAssumption ==
  NSlots \in 1..CONQ_MAX_SLOTS /\ EmptyBuf \in Bufs /\ Others \subseteq OtherResults

Slots == 1..NSlots

\* A slot's state and string; only has_value has one.
States   == OtherResults \cup {"empty", "has_value", "plugin_done"}
Content(s, b) == [state |-> s, buf |-> b]
Initial  == Content("empty", EmptyBuf)
\* What recv_callback() reports while the nested widget's plugin runs, and at its end.
Reports  == {Content("has_value", b) : b \in Bufs}
              \cup {Content(s, EmptyBuf) : s \in Others}
Done     == Content("plugin_done", EmptyBuf)
Contents == Reports \cup {Initial, Done}

VARIABLES slots,       \* q->slots: [Slots -> Bufs]
          slot_states, \* q->slot_states
          new_data_mask, \* q->new_data_mask, as the set of its bits
          qmtx,         \* the holder of q->qmtx: a slot's producer, 0 for the consumer, or -1
          ppc,          \* [Slots -> control point of the nested widget's thread]
          report,      \* [Slots -> what it reports, when it does]
          cpc,         \* control point of run()'s loop
          mask,        \* conq_fetch_updates(): mask
          bufs, states,\* run(): what was fetched last, per slot
          told         \* [Slots -> what the widget's cb was last told of the slot]

prodvars == <<ppc, report>>
readvars == <<mask, bufs, states, told>>
qvars == <<slots, slot_states, new_data_mask, qmtx, ppc, report, cpc, readvars>>

Free     == -1
Consumer == 0

Untouched ==
  /\ slots = [i \in Slots |-> EmptyBuf]
  /\ slot_states = [i \in Slots |-> "empty"]
  /\ new_data_mask = {}
  /\ qmtx = Free
  /\ ppc = [i \in Slots |-> "run"]
  /\ report = [i \in Slots |-> Initial]
  /\ mask = {}
  /\ bufs = [i \in Slots |-> EmptyBuf]
  /\ states = [i \in Slots |-> "empty"]
  /\ told = [i \in Slots |-> Initial]

QInit == cpc = "lock" /\ Untouched

QGoto(i, l) == ppc' = [ppc EXCEPT ![i] = l]
-----------------------------------------------------------------------------
\* The nested widget's plugin makes a call and its cb returns or fails (recv_callback()),
\* or its run() returns (runner_run()).
Report(i, c) ==
  /\ ppc[i] = "run"
  /\ report' = [report EXCEPT ![i] = c]
  /\ QGoto(i, "lock")
  /\ UNCHANGED <<slots, slot_states, new_data_mask, qmtx, cpc, readvars>>

\* conq_update_slot() up to its comparison: an equal content changes nothing.
SameContent(i) == slots[i] = report[i].buf /\ slot_states[i] = report[i].state

QLock(i) ==
  /\ ppc[i] = "lock" /\ qmtx = Free
  /\ qmtx' = i
  /\ QGoto(i, IF SameContent(i) THEN "unlock" ELSE "assign")
  /\ UNCHANGED <<slots, slot_states, new_data_mask, report, cpc, readvars>>

\* ls_string_assign_b(old, buf, nbuf);
Assign(i) ==
  /\ ppc[i] = "assign"
  /\ slots' = [slots EXCEPT ![i] = report[i].buf]
  /\ QGoto(i, "mark")
  /\ UNCHANGED <<slot_states, new_data_mask, qmtx, report, cpc, readvars>>

\* pthread_cond_signal() wakes the consumer if it waits.
Signal == cpc' = IF cpc = "waiting" THEN "woken" ELSE cpc

\* Mutant: the bit is assigned, not set.
MarkOnly(i) ==
  /\ ppc[i] = "mark"
  /\ slot_states' = [slot_states EXCEPT ![i] = report[i].state]
  /\ new_data_mask' = {i}
  /\ Signal
  /\ QGoto(i, "unlock")
  /\ UNCHANGED <<slots, qmtx, report, readvars>>

\* Mutant: the consumer is not signalled.
MarkNoSignal(i) ==
  /\ ppc[i] = "mark"
  /\ slot_states' = [slot_states EXCEPT ![i] = report[i].state]
  /\ new_data_mask' = new_data_mask \cup {i}
  /\ UNCHANGED cpc
  /\ QGoto(i, "unlock")
  /\ UNCHANGED <<slots, qmtx, report, readvars>>

\* The rest of conq_update_slot(): the state, the bit and the signal.
Mark(i) ==
  /\ ppc[i] = "mark"
  /\ slot_states' = [slot_states EXCEPT ![i] = report[i].state]
  /\ new_data_mask' = new_data_mask \cup {i}
  /\ Signal
  /\ QGoto(i, "unlock")
  /\ UNCHANGED <<slots, qmtx, report, readvars>>

\* After its PLUGIN_DONE the nested widget's thread ends.
QUnlock(i) ==
  /\ ppc[i] = "unlock"
  /\ qmtx' = Free
  /\ QGoto(i, IF report[i] = Done THEN "exited" ELSE "run")
  /\ report' = [report EXCEPT ![i] = Initial]
  /\ UNCHANGED <<slots, slot_states, new_data_mask, cpc, readvars>>
-----------------------------------------------------------------------------
\* conq_fetch_updates(): lock, or lock again on the way out of pthread_cond_wait().
FetchLock ==
  /\ cpc \in {"lock", "woken"} /\ qmtx = Free
  /\ qmtx' = Consumer
  /\ cpc' = "check"
  /\ UNCHANGED <<slots, slot_states, new_data_mask, prodvars, readvars>>

\* while (!(mask = q->new_data_mask)): wait, which releases the mutex,
FetchWait ==
  /\ cpc = "check" /\ new_data_mask = {}
  /\ cpc' = "waiting" /\ qmtx' = Free
  /\ UNCHANGED <<slots, slot_states, new_data_mask, prodvars, readvars>>

\* possibly to wake up for no reason,
SpuriousWakeup ==
  /\ cpc = "waiting"
  /\ cpc' = "woken"
  /\ UNCHANGED <<slots, slot_states, new_data_mask, qmtx, prodvars, readvars>>

\* or go on with the bits that are set.
FetchMask ==
  /\ cpc = "check" /\ new_data_mask # {}
  /\ mask' = new_data_mask
  /\ cpc' = "copy"
  /\ UNCHANGED <<slots, slot_states, new_data_mask, qmtx, prodvars, bufs, states, told>>

\* Mutant: the mutex is released before the mask is cleared.
FetchCopyUnlocks ==
  /\ cpc = "copy"
  /\ bufs' = [i \in Slots |-> IF i \in mask THEN slots[i] ELSE bufs[i]]
  /\ states' = [i \in Slots |-> IF i \in mask THEN slot_states[i] ELSE states[i]]
  /\ cpc' = "clear"
  /\ qmtx' = Free
  /\ UNCHANGED <<slots, slot_states, new_data_mask, prodvars, mask, told>>

\* The loop over the slots.
FetchCopy ==
  /\ cpc = "copy"
  /\ bufs' = [i \in Slots |-> IF i \in mask THEN slots[i] ELSE bufs[i]]
  /\ states' = [i \in Slots |-> IF i \in mask THEN slot_states[i] ELSE states[i]]
  /\ cpc' = "clear"
  /\ UNCHANGED <<slots, slot_states, new_data_mask, qmtx, prodvars, mask, told>>

\* q->new_data_mask = 0; and unlock.
FetchDone ==
  /\ cpc = "clear"
  /\ new_data_mask' = {}
  /\ qmtx' = Free
  /\ cpc' = "call"
  /\ UNCHANGED <<slots, slot_states, prodvars, readvars>>

\* make_call_update(): the widget's cb is told of the slots in mask.
CallUpdate ==
  /\ cpc = "call"
  /\ told' = [i \in Slots |-> IF i \in mask THEN Content(states[i], bufs[i]) ELSE told[i]]
  /\ cpc' = "lock" /\ mask' = {}
  /\ UNCHANGED <<slots, slot_states, new_data_mask, qmtx, prodvars, bufs, states>>
-----------------------------------------------------------------------------
Produce(i) == Assign(i) \/ Mark(i) \/ QUnlock(i)
Fetch == FetchWait \/ FetchMask \/ FetchCopy \/ FetchDone \/ CallUpdate

QNext ==
  \/ FetchLock \/ Fetch \/ SpuriousWakeup
  \/ \E i \in Slots : (\E c \in Reports \cup {Done} : Report(i, c)) \/ QLock(i) \/ Produce(i)
QSpec == QInit /\ [][QNext]_qvars
\* Nested widgets owe no report; mutexes are granted and critical sections end.
QFairness ==
  /\ SF_qvars(FetchLock) /\ WF_qvars(Fetch)
  /\ \A i \in Slots : SF_qvars(QLock(i)) /\ WF_qvars(Produce(i))
-----------------------------------------------------------------------------
QTypeOK ==
  /\ slots \in [Slots -> Bufs] /\ bufs \in [Slots -> Bufs]
  /\ slot_states \in [Slots -> States]
  /\ states \in [Slots -> States]
  /\ new_data_mask \subseteq Slots /\ mask \subseteq Slots
  /\ qmtx \in Slots \cup {Free, Consumer}
  /\ ppc \in [Slots -> {"run", "lock", "assign", "mark", "unlock", "exited"}]
  /\ report \in [Slots -> Contents]
  /\ cpc \in {"lock", "check", "waiting", "woken", "copy", "clear", "call"}
  /\ told \in [Slots -> Contents]

\* What a slot holds, for who holds the mutex.
Slot(i) == Content(slot_states[i], slots[i])

\* No update is lost: while the widget is not being told of new contents and no producer
\* is in the middle of an update, a slot without its bit is as the widget was told.
NothingLost ==
  cpc \in {"lock", "check", "waiting", "woken"} =>
    \A i \in Slots : i \notin new_data_mask /\ ppc[i] # "mark" => told[i] = Slot(i)

\* The consumer does not wait for a signal that was already given.
NoMissedSignal == cpc = "waiting" => new_data_mask = {}

\* A finished conq_update_slot() left in the slot just what was reported, also when it
\* found the slot equal and when the consumer was fetching at the same time.
Stored == \A i \in Slots : ppc[i] = "unlock" => Slot(i) = report[i]

\* Every call of the cb tells it of some slot, and only whole contents: a string for
\* has_value and none for the rest, and never "empty", which push_update() would turn
\* into a missing key.
ToldWhole ==
  cpc = "call" =>
    mask # {} /\ \A i \in mask : Content(states[i], bufs[i]) \in Reports \cup {Done}

\* What a finished conq_update_slot() left in a slot is told, unless the next one changes
\* the slot first.
ReportIsTold ==
  \A i \in Slots :
    ppc[i] = "unlock" ~> (told[i] = Slot(i) \/ ppc[i] \in {"assign", "mark"})

\* A producer's update happens when it assigns the string; the consumer takes the slots
\* when it reads the mask.
Taking == cpc \in {"copy", "clear"}
Cell == [i \in Slots |-> IF ppc[i] = "mark" THEN report[i] ELSE Slot(i)]
Seen == [i \in Slots |-> IF Taking /\ i \in mask THEN Slot(i) ELSE Content(states[i], bufs[i])]
Fresh == IF Taking THEN {} ELSE new_data_mask \cup {i \in Slots : ppc[i] = "mark"}
Table == INSTANCE Mailbox WITH cell <- Cell, seen <- Seen, fresh <- Fresh

\* conq.c implements the table of latest contents.
IsMailbox == Table!MSpec
=============================================================================
