-------------------------------- MODULE Comm --------------------------------
(***************************************************************************)
(* luastatus.communicate(): l_communicate() in luastatus.c over comm.c.    *)
(* A widget's cb runs on the widget's interpreter and its string event     *)
(* handler on the separate state, so two threads can be in l_communicate() *)
(* for the same widget; only the global comm mutex keeps them apart.       *)
(* The steps under the mutex are separate, as in the code: comm_set()      *)
(* frees the old buffer, copies the new string, and then sets the length.  *)
(***************************************************************************)
EXTENDS Integers, Sequences

CONSTANTS Users,      \* the interpreters that call communicate() for this widget
          Values,     \* the strings they write
          Nothing,    \* no value
          Swapped, NotSwapped,  \* cas answered true, or false
          Freed,      \* the content of freed memory
          Finalizers  \* whether user code has __gc metamethods that call communicate()

Empty   == <<>>
Strings == Values \cup {Empty}
Ops ==
  [action : {"read"}] \cup [action : {"read_and_clear"}]
    \cup [action : {"write"}, new : Strings]
    \cup [action : {"cas"}, old : Strings, new : Strings]

ASSUME CommAssumption ==
  /\ \A v \in Values : v \in Seq(STRING)
  /\ Nothing \notin Users /\ Nothing \notin Ops /\ Finalizers \in BOOLEAN
  /\ Freed \notin Values /\ Freed # Empty

VARIABLES data,      \* comm->data: the bytes, or Freed
          data_len,  \* comm->data_len
          mtx,       \* the holder of the comm mutex, or Nothing
          pc,        \* [Users -> control point in l_communicate()]
          op,        \* [Users -> the arguments of the call, or Nothing]
          res        \* [Users -> the value pushed for the caller, or Nothing]

vars == <<data, data_len, mtx, pc, op, res>>

Init ==
  /\ data = Empty /\ data_len = 0       \* COMM_INITIALIZER
  /\ mtx = Nothing
  /\ pc = [u \in Users |-> "idle"]
  /\ op = [u \in Users |-> Nothing]
  /\ res = [u \in Users |-> Nothing]

Goto(u, l) == pc' = [pc EXCEPT ![u] = l]

\* The string comm_set() is given: read_and_clear passes NULL and 0.
NewData(u) == IF op[u].action = "read_and_clear" THEN Empty ELSE op[u].new

\* Lua code calls luastatus.communicate(); the arguments are checked before the lock.
Call(u, o) ==
  /\ pc[u] = "idle"
  /\ op' = [op EXCEPT ![u] = o]
  /\ Goto(u, "lock")
  /\ UNCHANGED <<data, data_len, mtx, res>>

\* comm_lock()
Lock(u) ==
  /\ pc[u] = "lock" /\ mtx = Nothing
  /\ mtx' = u
  /\ Goto(u, CASE op[u].action \in {"read", "read_and_clear"} -> "push"
               [] op[u].action = "write" -> "free"
               [] op[u].action = "cas" -> "compare")
  /\ UNCHANGED <<data, data_len, op, res>>

\* lua_pushlstring(L, comm->data, comm->data_len), under the mutex.
Push(u) ==
  /\ pc[u] = "push"
  /\ res' = [res EXCEPT ![u] = SubSeq(data, 1, data_len)]
  /\ Goto(u, IF op[u].action = "read" THEN "unlock" ELSE "free")
  /\ UNCHANGED <<data, data_len, mtx, op>>

\* lua_pushlstring() may run a step of Lua's garbage collector and with it a __gc
\* metamethod; one that calls communicate() waits in comm_lock() for a mutex that its
\* own thread holds, so there is no step out of this control point.
Finalize(u) ==
  /\ Finalizers
  /\ pc[u] = "push"
  /\ Goto(u, "lock_in_gc")
  /\ UNCHANGED <<data, data_len, mtx, op, res>>

\* Mutant: comm_cas() does not look at the bytes.
SameLength(u) ==
  /\ data_len = Len(op[u].old)

\* comm_cas() up to its comm_set(): the lengths first, then the bytes.
SameAsOld(u) ==
  /\ data_len = Len(op[u].old)
  /\ \A i \in 1..data_len : data[i] = op[u].old[i]

\* Mutant: a failed cas returns without comm_unlock().
CompareReturns(u) ==
  /\ pc[u] = "compare"
  /\ IF SameAsOld(u) THEN Goto(u, "free") /\ UNCHANGED res
                     ELSE Goto(u, "return") /\ res' = [res EXCEPT ![u] = NotSwapped]
  /\ UNCHANGED <<data, data_len, mtx, op>>

Compare(u) ==
  /\ pc[u] = "compare"
  /\ IF SameAsOld(u) THEN Goto(u, "free") /\ UNCHANGED res
                     ELSE Goto(u, "unlock") /\ res' = [res EXCEPT ![u] = NotSwapped]
  /\ UNCHANGED <<data, data_len, mtx, op>>

\* comm_set(): free(c->data);
FreeData(u) ==
  /\ pc[u] = "free"
  /\ data' = Freed
  /\ Goto(u, "dup")
  /\ UNCHANGED <<data_len, mtx, op, res>>

\* c->data = ls_xmemdup(new_data, new_data_len);
DupData(u) ==
  /\ pc[u] = "dup"
  /\ data' = NewData(u)
  /\ Goto(u, "set_len")
  /\ UNCHANGED <<data_len, mtx, op, res>>

\* c->data_len = new_data_len; and a cas answers true.
SetLen(u) ==
  /\ pc[u] = "set_len"
  /\ data_len' = Len(NewData(u))
  /\ res' = IF op[u].action = "cas" THEN [res EXCEPT ![u] = Swapped] ELSE res
  /\ Goto(u, "unlock")
  /\ UNCHANGED <<data, mtx, op>>

\* comm_unlock()
Unlock(u) ==
  /\ pc[u] = "unlock"
  /\ mtx' = Nothing
  /\ Goto(u, "return")
  /\ UNCHANGED <<data, data_len, op, res>>

\* l_communicate() returns the pushed value to the Lua code.
Return(u) ==
  /\ pc[u] = "return"
  /\ Goto(u, "idle")
  /\ op' = [op EXCEPT ![u] = Nothing]
  /\ res' = [res EXCEPT ![u] = Nothing]
  /\ UNCHANGED <<data, data_len, mtx>>

Step(u) == Push(u) \/ Finalize(u) \/ Compare(u) \/ FreeData(u) \/ DupData(u) \/ SetLen(u)
             \/ Unlock(u) \/ Return(u)
Next == \E u \in Users : (\E o \in Ops : Call(u, o)) \/ Lock(u) \/ Step(u)
Spec == Init /\ [][Next]_vars
\* Critical sections end and the mutex is eventually granted; callers owe no call.
Fairness == \A u \in Users : SF_vars(Lock(u)) /\ WF_vars(Step(u))
FairSpec == Spec /\ Fairness
-----------------------------------------------------------------------------
Critical == {"push", "lock_in_gc", "compare", "free", "dup", "set_len", "unlock"}

TypeOK ==
  /\ data \in Strings \cup {Freed}
  /\ data_len \in Nat
  /\ mtx \in Users \cup {Nothing}
  /\ pc \in [Users -> {"idle", "lock", "return"} \cup Critical]
  /\ op \in [Users -> Ops \cup {Nothing}]
  /\ res \in [Users -> Strings \cup {Swapped, NotSwapped, Nothing}]

\* Whoever looks at the string finds a buffer that was not freed and a length that
\* belongs to it: a half-done comm_set() of another thread is never seen.
NeverTorn ==
  \A u \in Users : pc[u] \in {"push", "compare"} => data # Freed /\ data_len = Len(data)

\* No thread waits for the comm mutex while it has it.
NoSelfLock == \A u \in Users : pc[u] \in {"lock", "lock_in_gc"} => mtx # u

\* Every call of communicate() returns, unless a finalizer made some thread wait for itself.
CallsReturn ==
  \A u \in Users : pc[u] = "lock" ~> pc[u] = "idle" \/ \E v \in Users : pc[v] = "lock_in_gc"

\* Each call takes effect in the step that frees the old string, or, when it changes
\* nothing, in the step that computes its answer.
Setting(u) == pc[u] \in {"dup", "set_len"}
TookEffect(u) == Setting(u) \/ pc[u] \in {"unlock", "return"}

SharedString == IF mtx # Nothing /\ Setting(mtx) THEN NewData(mtx) ELSE data
Phase == [u \in Users |-> IF pc[u] = "idle" THEN "idle"
                          ELSE IF TookEffect(u) THEN "done" ELSE "called"]
Answers == [u \in Users |-> IF ~TookEffect(u) THEN Nothing
                            ELSE IF Setting(u) /\ op[u].action = "cas" THEN Swapped
                            ELSE res[u]]
Register == INSTANCE CommRegister WITH
  val <- SharedString, phase <- Phase, req <- op, ans <- Answers

\* communicate() implements an atomic shared string.
IsAtomic == Register!RSpec
=============================================================================
