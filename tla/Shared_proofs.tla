---------------------------- MODULE Shared_proofs -----------------------------
(*****************************************************************************)
(* What threads share, for any interpreters, data sources and strings:       *)
(* communicate() is an atomic shared string, whether or not finalizers call  *)
(* it, and nobody ever sees a half-done comm_set(); no update of a nested    *)
(* widget is lost or torn, no wakeup is missed, and conq.c with the loop of  *)
(* run() implements the table of latest contents (Mailbox).                  *)
(*****************************************************************************)
EXTENDS Comm, Conq, TLAPS

-----------------------------------------------------------------------------
(* communicate().                                                          *)

\* The mutex is held exactly by the thread between comm_lock() and comm_unlock().
Mutex == \A u \in Users : (pc[u] \in Critical) <=> (mtx = u)

\* What a control point says of the call: its action and whether it has a result.
Calls ==
  \A u \in Users :
    /\ pc[u] = "idle" => op[u] = Nothing /\ res[u] = Nothing
    /\ pc[u] # "idle" => op[u] \in Ops
    /\ pc[u] \in {"lock", "push", "lock_in_gc", "compare"} => res[u] = Nothing
    /\ pc[u] \in {"push", "lock_in_gc"} => op[u].action \in {"read", "read_and_clear"}
    /\ pc[u] = "compare" => op[u].action = "cas"
    /\ pc[u] \in {"free", "dup", "set_len"} =>
         /\ op[u].action # "read"
         /\ op[u].action # "read_and_clear" => res[u] = Nothing

\* The buffer matches its length except while a comm_set() is under way.
Buffer ==
  /\ (\A u \in Users : ~Setting(u)) => data # Freed /\ data_len = Len(data)
  /\ \A u \in Users : pc[u] = "set_len" => data = NewData(u)

\* comm_set() replaces the very string that was read or compared.
Replaces ==
  \A u \in Users : pc[u] = "free" =>
    /\ op[u].action = "read_and_clear" => res[u] = data
    /\ op[u].action = "cas" => op[u].old = data

Inv == TypeOK /\ Mutex /\ Calls /\ Buffer /\ Replaces
-----------------------------------------------------------------------------
LEMMA StringsAreSeqs == \A s \in Strings : s \in Seq(STRING) /\ s # Freed
<1>1. <<>> \in Seq(STRING)
  OBVIOUS
<1> QED
  BY <1>1, CommAssumption DEF CommAssumption, Strings, Empty

\* The string comm_set() stores is one of the strings.
LEMMA NewDataType ==
  ASSUME NEW u \in Users, op[u] \in Ops, op[u].action # "read"
  PROVE  NewData(u) \in Strings
  BY DEF NewData, Ops, Strings, Empty

\* A comparison of length and bytes is a comparison of strings.
LEMMA SameAsOldIsEqual ==
  ASSUME NEW u \in Users, op[u] \in Ops, op[u].action = "cas",
         data \in Strings, data_len = Len(data)
  PROVE  SameAsOld(u) <=> op[u].old = data
<1>1. op[u].old \in Strings
  BY DEF Ops
<1>2. data \in Seq(STRING) /\ op[u].old \in Seq(STRING)
  BY <1>1, StringsAreSeqs
<1> QED
  BY <1>2, SMTT(30) DEF SameAsOld

LEMMA InitInv == Init => Inv
  BY CommAssumption, SMTT(30)
  DEF CommAssumption, Init, Inv, TypeOK, Mutex, Calls, Buffer, Replaces, Setting, Critical,
      Strings, Empty

\* Every step of a call keeps the invariant.
LEMMA NextInv == Inv /\ [Next]_vars => Inv'
<1> SUFFICES ASSUME Inv, [Next]_vars
             PROVE  Inv'
  OBVIOUS
<1> USE CommAssumption DEF CommAssumption
<1>1. ASSUME NEW u \in Users, NEW o \in Ops, Call(u, o)
      PROVE  Inv'
  BY <1>1, SMTT(30)
  DEF Inv, TypeOK, Mutex, Calls, Buffer, Replaces, Call, Goto, NewData, Setting, Critical
<1>2. ASSUME NEW u \in Users, Lock(u)
      PROVE  Inv'
  <2>1. op[u] \in Ops /\ op[u].action \in {"read", "read_and_clear", "write", "cas"}
    BY <1>2 DEF Inv, Calls, Lock, Ops
  <2>11. TypeOK'
    BY <1>2, <2>1, SMTT(30)
    DEF TypeOK, Critical, Inv, Lock, Goto
  <2>12. Mutex'
    BY <1>2, <2>1, SMTT(30)
    DEF Mutex, Inv, TypeOK, Critical, Lock, Goto
  <2>13. Calls'
    BY <1>2, <2>1, SMTT(30)
    DEF Calls, Inv, TypeOK, Lock, Goto
  <2>14. Buffer'
    BY <1>2, <2>1, SMTT(30)
    DEF Buffer, Inv, TypeOK, Mutex, Critical, Setting, NewData, Calls, Lock, Goto
  <2>15. Replaces'
    BY <1>2, <2>1, SMTT(30)
    DEF Replaces, Inv, TypeOK, Calls, Mutex, Buffer, Critical, NewData, Lock, Goto
  <2> QED
    BY <2>11, <2>12, <2>13, <2>14, <2>15 DEF Inv
<1>3. ASSUME NEW u \in Users, Push(u)
      PROVE  Inv'
  <2>1. op[u] \in Ops /\ op[u].action \in {"read", "read_and_clear"}
    BY <1>3 DEF Inv, Calls, Push
  <2>2. data \in Strings /\ data_len = Len(data)
    BY <1>3 DEF Inv, TypeOK, Mutex, Buffer, Push, Critical, Setting
  <2>3. SubSeq(data, 1, data_len) = data
    BY <2>2, StringsAreSeqs
  <2>4. res' = [res EXCEPT ![u] = data]
    BY <1>3, <2>3 DEF Push
  <2>5. pc' \in [Users -> {"idle", "lock", "return"} \cup Critical]
    BY <1>3 DEF Push, Goto, Inv, TypeOK, Critical
  <2>11. TypeOK'
    BY <1>3, <2>2, <2>4, <2>5, ZenonT(60) DEF TypeOK, Inv, Push
  <2>12. Mutex'
    BY <1>3, <2>1, <2>2, <2>3, SMTT(30)
    DEF Mutex, Inv, TypeOK, Critical, Push, Goto
  <2>13. Calls'
    BY <1>3, <2>1, <2>2, <2>3, SMTT(30)
    DEF Calls, Inv, TypeOK, Push, Goto
  <2>14. Buffer'
    BY <1>3, <2>1, <2>2, <2>3, SMTT(30)
    DEF Buffer, Inv, TypeOK, Mutex, Critical, Setting, NewData, Calls, Push, Goto
  <2>15. Replaces'
    BY <1>3, <2>1, <2>2, <2>3, SMTT(30)
    DEF Replaces, Inv, TypeOK, Calls, Mutex, Buffer, Critical, NewData, Push, Goto
  <2> QED
    BY <2>11, <2>12, <2>13, <2>14, <2>15 DEF Inv
<1>4. ASSUME NEW u \in Users, Finalize(u)
      PROVE  Inv'
  BY <1>4, SMTT(30)
  DEF Inv, TypeOK, Mutex, Calls, Buffer, Replaces, Finalize, Goto, NewData, Setting, Critical
<1>5. ASSUME NEW u \in Users, Compare(u)
      PROVE  Inv'
  <2>1. op[u] \in Ops /\ op[u].action = "cas"
    BY <1>5 DEF Inv, Calls, Compare
  <2>2. data \in Strings /\ data_len = Len(data)
    BY <1>5 DEF Inv, TypeOK, Mutex, Buffer, Compare, Critical, Setting
  <2>3. SameAsOld(u) <=> op[u].old = data
    BY <2>1, <2>2, SameAsOldIsEqual
  <2>11. TypeOK'
    BY <1>5, <2>1, <2>2, <2>3, SMTT(30)
    DEF TypeOK, Critical, Inv, Compare, Goto
  <2>12. Mutex'
    BY <1>5, <2>1, <2>2, <2>3, SMTT(30)
    DEF Mutex, Inv, TypeOK, Critical, Compare, Goto
  <2>13. Calls'
    BY <1>5, <2>1, <2>2, <2>3, SMTT(30)
    DEF Calls, Inv, TypeOK, Compare, Goto
  <2>14. Buffer'
    BY <1>5, <2>1, <2>2, <2>3, SMTT(30)
    DEF Buffer, Inv, TypeOK, Mutex, Critical, Setting, NewData, Calls, Compare, Goto
  <2>15. Replaces'
    BY <1>5, <2>1, <2>2, <2>3, SMTT(30)
    DEF Replaces, Inv, TypeOK, Calls, Mutex, Buffer, Critical, NewData, Compare, Goto
  <2> QED
    BY <2>11, <2>12, <2>13, <2>14, <2>15 DEF Inv
<1>6. ASSUME NEW u \in Users, FreeData(u)
      PROVE  Inv'
  BY <1>6, SMTT(30)
  DEF Inv, TypeOK, Mutex, Calls, Buffer, Replaces, FreeData, Goto, NewData, Setting, Critical
<1>7. ASSUME NEW u \in Users, DupData(u)
      PROVE  Inv'
  <2>1. op[u] \in Ops /\ op[u].action # "read"
    BY <1>7 DEF Inv, Calls, DupData
  <2>2. NewData(u) \in Strings /\ NewData(u) # Freed /\ Len(NewData(u)) \in Nat
    BY <2>1, NewDataType, StringsAreSeqs
  <2>11. TypeOK'
    BY <1>7, <2>1, <2>2, SMTT(30)
    DEF TypeOK, Critical, Inv, DupData, Goto
  <2>12. Mutex'
    BY <1>7, <2>1, <2>2, SMTT(30)
    DEF Mutex, Inv, TypeOK, Critical, DupData, Goto
  <2>13. Calls'
    BY <1>7, <2>1, <2>2, SMTT(30)
    DEF Calls, Inv, TypeOK, DupData, Goto
  <2>14. Buffer'
    BY <1>7, <2>1, <2>2, SMTT(30)
    DEF Buffer, Inv, TypeOK, Mutex, Critical, Setting, NewData, Calls, DupData, Goto
  <2>15. Replaces'
    BY <1>7, <2>1, <2>2, SMTT(30)
    DEF Replaces, Inv, TypeOK, Calls, Mutex, Buffer, Critical, NewData, DupData, Goto
  <2> QED
    BY <2>11, <2>12, <2>13, <2>14, <2>15 DEF Inv
<1>8. ASSUME NEW u \in Users, SetLen(u)
      PROVE  Inv'
  <2>1. op[u] \in Ops /\ op[u].action # "read"
    BY <1>8 DEF Inv, Calls, SetLen
  <2>2. NewData(u) \in Strings /\ NewData(u) # Freed /\ Len(NewData(u)) \in Nat
    BY <2>1, NewDataType, StringsAreSeqs
  <2>11. TypeOK'
    BY <1>8, <2>1, <2>2, SMTT(30)
    DEF TypeOK, Critical, Inv, SetLen, Goto
  <2>12. Mutex'
    BY <1>8, <2>1, <2>2, SMTT(30)
    DEF Mutex, Inv, TypeOK, Critical, SetLen, Goto
  <2>13. Calls'
    BY <1>8, <2>1, <2>2, SMTT(30)
    DEF Calls, Inv, TypeOK, SetLen, Goto
  <2>14. Buffer'
    BY <1>8, <2>1, <2>2, SMTT(30)
    DEF Buffer, Inv, TypeOK, Mutex, Critical, Setting, NewData, Calls, SetLen, Goto
  <2>15. Replaces'
    BY <1>8, <2>1, <2>2, SMTT(30)
    DEF Replaces, Inv, TypeOK, Calls, Mutex, Buffer, Critical, NewData, SetLen, Goto
  <2> QED
    BY <2>11, <2>12, <2>13, <2>14, <2>15 DEF Inv
<1>9. ASSUME NEW u \in Users, Unlock(u)
      PROVE  Inv'
  BY <1>9, SMTT(30)
  DEF Inv, TypeOK, Mutex, Calls, Buffer, Replaces, Unlock, Goto, NewData, Setting, Critical
<1>10. ASSUME NEW u \in Users, Return(u)
      PROVE  Inv'
  BY <1>10, SMTT(30)
  DEF Inv, TypeOK, Mutex, Calls, Buffer, Replaces, Return, Goto, NewData, Setting, Critical
<1>11. CASE UNCHANGED vars
  BY <1>11
  DEF Inv, TypeOK, Mutex, Calls, Buffer, Replaces, NewData, Setting, vars, SameAsOld
<1> QED
  BY <1>1, <1>2, <1>3, <1>4, <1>5, <1>6, <1>7, <1>8, <1>9, <1>10, <1>11 DEF Next, Step

\* The inductive invariant holds in every reachable state.
THEOREM Invariance == Spec => []Inv
<1>1. Init => Inv
  BY InitInv
<1>2. Inv /\ [Next]_vars => Inv'
  BY NextInv
<1> QED
  BY <1>1, <1>2, PTL DEF Spec

\* The fields of Comm, its mutex and every call stay within their types.
THEOREM TypeCorrect == Spec => []TypeOK
<1>1. Inv => TypeOK
  BY DEF Inv
<1> QED
  BY <1>1, Invariance, PTL

\* A call that reads or compares the string finds it whole, with its own length.
THEOREM NeverTornHolds == Spec => []NeverTorn
<1>1. Inv => NeverTorn
  BY DEF Inv, Mutex, Buffer, NeverTorn, Critical, Setting
<1> QED
  BY <1>1, Invariance, PTL
-----------------------------------------------------------------------------
LEMMA InitRefines == Init => Register!RInit
  BY CommAssumption
  DEF CommAssumption, Init, Register!RInit, Register!Empty, Empty, SharedString, Phase, Answers,
      TookEffect, Setting

\* A step of u changes what the others' calls map to only if it changes those calls.
LEMMA PhaseChanges ==
  ASSUME NEW u \in Users, \A v \in Users \ {u} : pc'[v] = pc[v]
  PROVE  Phase' = [Phase EXCEPT ![u] = Phase'[u]]
  BY DEF Phase, TookEffect, Setting

LEMMA AnswersChange ==
  ASSUME NEW u \in Users,
         \A v \in Users \ {u} : pc'[v] = pc[v] /\ op'[v] = op[v] /\ res'[v] = res[v]
  PROVE  Answers' = [Answers EXCEPT ![u] = Answers'[u]]
<1>1. \A v \in Users \ {u} : Answers'[v] = Answers[v]
  BY DEF Answers, TookEffect, Setting
<1>2. Answers = [v \in Users |-> Answers[v]] /\ Answers' = [v \in Users |-> Answers'[v]]
  BY Zenon DEF Answers
<1> QED
  BY <1>1, <1>2

\* Every step is a call, an effect or a return of the atomic string, or is invisible.
LEMMA StepRefines == Inv /\ Inv' /\ [Next]_vars => [Register!RNext]_(Register!rvars)
<1> SUFFICES ASSUME Inv, Inv', [Next]_vars
             PROVE  Register!RNext \/ UNCHANGED Register!rvars
  OBVIOUS
<1> USE CommAssumption DEF CommAssumption, Inv, Critical, Setting, TookEffect,
        SharedString, Phase, Answers, Goto
<1>0. Register!Ops = Ops
  BY DEF Register!Ops, Ops, Register!Strings, Strings, Register!Empty, Empty
<1>1. ASSUME NEW u \in Users, NEW o \in Ops, Call(u, o)
      PROVE  Register!Invoke(u, o)
  <2>1. SharedString' = SharedString
    BY <1>1, SMTT(30) DEF Call, TypeOK, Mutex, Calls, NewData
  <2>2. Phase' = [Phase EXCEPT ![u] = "called"]
    <3>1. Phase'[u] = "called"
      BY <1>1 DEF Call, TypeOK
    <3>2. \A v \in Users \ {u} : pc'[v] = pc[v]
      BY <1>1 DEF Call, TypeOK
    <3> QED
      BY <3>1, <3>2, PhaseChanges
  <2>3. Answers' = Answers
    BY <1>1, SMTT(30) DEF Call, TypeOK, Calls
  <2> QED
    BY <1>1, <2>1, <2>2, <2>3 DEF Call, Register!Invoke
<1>2. ASSUME NEW u \in Users, Lock(u)
      PROVE  UNCHANGED Register!rvars
  <2>1. op[u].action \in {"read", "read_and_clear", "write", "cas"}
    BY <1>2 DEF Lock, Calls, Ops
  <2>2. SharedString' = SharedString
    BY <1>2, <2>1, SMTT(30) DEF Lock, TypeOK, Mutex, Calls, NewData
  <2>3. Phase' = Phase
    BY <1>2, <2>1, SMTT(30) DEF Lock, TypeOK
  <2>4. Answers' = Answers
    BY <1>2, <2>1, SMTT(30) DEF Lock, TypeOK
  <2> QED
    BY <1>2, <2>2, <2>3, <2>4 DEF Lock, Register!rvars
<1>3. ASSUME NEW u \in Users, Push(u)
      PROVE  Register!Effect(u) \/ UNCHANGED Register!rvars
  <2>1. mtx = u /\ SharedString = data /\ SharedString' = data
    BY <1>3, SMTT(30) DEF Push, TypeOK, Mutex, NewData
  <2>2. SubSeq(data, 1, data_len) = data
    BY <1>3, StringsAreSeqs DEF Push, TypeOK, Mutex, Buffer
  <2>3. op[u] \in Ops /\ op[u].action \in {"read", "read_and_clear"}
    BY <1>3 DEF Push, Calls
  <2>4. CASE op[u].action = "read"
    <3>1. Phase' = [Phase EXCEPT ![u] = "done"] /\ Phase[u] = "called"
      <4>1. Phase'[u] = "done" /\ Phase[u] = "called"
        BY <1>3, <2>4 DEF Push, TypeOK
      <4>2. \A v \in Users \ {u} : pc'[v] = pc[v]
        BY <1>3 DEF Push, TypeOK
      <4> QED
        BY <4>1, <4>2, PhaseChanges
    <3>2. Answers' = [Answers EXCEPT ![u] = data]
      <4>1. Answers'[u] = data
        BY <1>3, <2>2, <2>4 DEF Push, TypeOK
      <4>2. \A v \in Users \ {u} : pc'[v] = pc[v] /\ op'[v] = op[v] /\ res'[v] = res[v]
        BY <1>3 DEF Push, TypeOK
      <4> QED
        BY <4>1, <4>2, AnswersChange
    <3> QED
      BY <1>3, <2>1, <2>4, <3>1, <3>2 DEF Push, Register!Effect, Register!Answer
  <2>5. CASE op[u].action = "read_and_clear"
    <3>1. Phase' = Phase
      BY <1>3, <2>5, SMTT(30) DEF Push, TypeOK
    <3>2. Answers' = Answers
      BY <1>3, <2>5, SMTT(30) DEF Push, TypeOK
    <3> QED
      BY <1>3, <2>1, <3>1, <3>2 DEF Push, Register!rvars
  <2> QED
    BY <2>3, <2>4, <2>5
<1>4. ASSUME NEW u \in Users, Finalize(u)
      PROVE  UNCHANGED Register!rvars
  BY <1>4, SMTT(30) DEF Finalize, Register!rvars, TypeOK, Mutex, Calls, NewData
<1>5. ASSUME NEW u \in Users, Compare(u)
      PROVE  Register!Effect(u) \/ UNCHANGED Register!rvars
  <2>1. mtx = u /\ SharedString = data /\ SharedString' = data
    BY <1>5, SMTT(30) DEF Compare, TypeOK, Mutex, NewData
  <2>2. op[u] \in Ops /\ op[u].action = "cas"
    BY <1>5 DEF Compare, Calls
  <2>3. SameAsOld(u) <=> op[u].old = data
    BY <1>5, <2>2, SameAsOldIsEqual DEF Compare, TypeOK, Mutex, Buffer
  <2>4. CASE ~SameAsOld(u)
    <3>1. Phase' = [Phase EXCEPT ![u] = "done"] /\ Phase[u] = "called"
      <4>1. Phase'[u] = "done" /\ Phase[u] = "called"
        BY <1>5, <2>4 DEF Compare, TypeOK
      <4>2. \A v \in Users \ {u} : pc'[v] = pc[v]
        BY <1>5 DEF Compare, TypeOK
      <4> QED
        BY <4>1, <4>2, PhaseChanges
    <3>2. Answers' = [Answers EXCEPT ![u] = NotSwapped]
      <4>1. Answers'[u] = NotSwapped
        BY <1>5, <2>4 DEF Compare, TypeOK
      <4>2. \A v \in Users \ {u} : pc'[v] = pc[v] /\ op'[v] = op[v] /\ res'[v] = res[v]
        BY <1>5 DEF Compare, TypeOK
      <4> QED
        BY <4>1, <4>2, AnswersChange
    <3> QED
      BY <1>5, <2>1, <2>2, <2>3, <2>4, <3>1, <3>2
      DEF Compare, Register!Effect, Register!Answer
  <2>5. CASE SameAsOld(u)
    <3>1. Phase' = Phase
      BY <1>5, <2>5, SMTT(30) DEF Compare, TypeOK
    <3>2. Answers' = Answers
      BY <1>5, <2>5, SMTT(30) DEF Compare, TypeOK
    <3> QED
      BY <1>5, <2>1, <3>1, <3>2 DEF Compare, Register!rvars
  <2> QED
    BY <2>4, <2>5
<1>6. ASSUME NEW u \in Users, FreeData(u)
      PROVE  Register!Effect(u)
  <2>1. mtx = u /\ SharedString = data /\ SharedString' = NewData(u)
    BY <1>6, SMTT(30) DEF FreeData, TypeOK, Mutex, NewData
  <2>2. op[u].action \in {"read_and_clear", "write", "cas"}
    BY <1>6 DEF FreeData, Calls, Ops
  <2>3. Phase' = [Phase EXCEPT ![u] = "done"] /\ Phase[u] = "called"
    <3>1. Phase'[u] = "done" /\ Phase[u] = "called"
      BY <1>6 DEF FreeData, TypeOK
    <3>2. \A v \in Users \ {u} : pc'[v] = pc[v]
      BY <1>6 DEF FreeData, TypeOK
    <3> QED
      BY <3>1, <3>2, PhaseChanges
  <2>4. Answers' = [Answers EXCEPT ![u] = IF op[u].action = "cas" THEN Swapped ELSE res[u]]
    <3>1. Answers'[u] = IF op[u].action = "cas" THEN Swapped ELSE res[u]
      BY <1>6 DEF FreeData, TypeOK
    <3>2. \A v \in Users \ {u} : pc'[v] = pc[v] /\ op'[v] = op[v] /\ res'[v] = res[v]
      BY <1>6 DEF FreeData, TypeOK
    <3> QED
      BY <3>1, <3>2, AnswersChange
  <2>5. op[u].action = "write" => res[u] = Nothing
    BY <1>6 DEF FreeData, Calls
  <2> QED
    BY <1>6, <2>1, <2>2, <2>3, <2>4, <2>5, ZenonT(40)
    DEF FreeData, Register!Effect, Register!Answer, Replaces, NewData, Register!Empty, Empty
<1>7. ASSUME NEW u \in Users, DupData(u)
      PROVE  UNCHANGED Register!rvars
  BY <1>7, SMTT(30) DEF DupData, Register!rvars, TypeOK, Mutex, Calls, NewData
<1>8. ASSUME NEW u \in Users, SetLen(u)
      PROVE  UNCHANGED Register!rvars
  BY <1>8, SMTT(30) DEF SetLen, Register!rvars, TypeOK, Mutex, Calls, NewData, Buffer
<1>9. ASSUME NEW u \in Users, Unlock(u)
      PROVE  UNCHANGED Register!rvars
  BY <1>9, SMTT(30) DEF Unlock, Register!rvars, TypeOK, Mutex, Calls, NewData
<1>10. ASSUME NEW u \in Users, Return(u)
      PROVE  Register!Return(u)
  <2>1. SharedString' = SharedString
    BY <1>10, SMTT(30) DEF Return, TypeOK, Mutex, Calls, NewData
  <2>2. Phase' = [Phase EXCEPT ![u] = "idle"] /\ Phase[u] = "done"
    <3>1. Phase'[u] = "idle" /\ Phase[u] = "done"
      BY <1>10 DEF Return, TypeOK
    <3>2. \A v \in Users \ {u} : pc'[v] = pc[v]
      BY <1>10 DEF Return, TypeOK
    <3> QED
      BY <3>1, <3>2, PhaseChanges
  <2>3. Answers' = [Answers EXCEPT ![u] = Nothing]
    <3>1. Answers'[u] = Nothing
      BY <1>10 DEF Return, TypeOK
    <3>2. \A v \in Users \ {u} : pc'[v] = pc[v] /\ op'[v] = op[v] /\ res'[v] = res[v]
      BY <1>10 DEF Return, TypeOK
    <3> QED
      BY <3>1, <3>2, AnswersChange
  <2> QED
    BY <1>10, <2>1, <2>2, <2>3 DEF Return, Register!Return
<1>11. CASE UNCHANGED vars
  BY <1>11 DEF vars, Register!rvars, NewData
<1> QED
  BY <1>0, <1>1, <1>2, <1>3, <1>4, <1>5, <1>6, <1>7, <1>8, <1>9, <1>10, <1>11
  DEF Next, Step, Register!RNext

\* communicate() implements an atomic shared string: no interleaving of the steps under
\* the mutex, and no finalizer, lets two calls of it mix.
THEOREM Atomicity == Spec => IsAtomic
<1>1. Init => Register!RInit
  BY InitRefines
<1>2. Inv /\ Inv' /\ [Next]_vars => [Register!RNext]_(Register!rvars)
  BY StepRefines
<1> QED
  BY <1>1, <1>2, Invariance, PTL DEF Spec, IsAtomic, Register!RSpec

-----------------------------------------------------------------------------
(* conq.c: the queue of updates.                                           *)

\* Who holds the mutex.
QMutex ==
  /\ \A i \in Slots : (ppc[i] \in {"assign", "mark", "unlock"}) <=> (qmtx = i)
  /\ (cpc \in {"check", "copy", "clear"}) <=> (qmtx = Consumer)

\* What is known of a report while its conq_update_slot() runs.
Reporting ==
  \A i \in Slots :
    /\ ppc[i] \in {"lock", "assign", "mark", "unlock"} => report[i] \in Reports \cup {Done}
    /\ ppc[i] = "mark" => slots[i] = report[i].buf
    /\ ppc[i] = "unlock" => Slot(i) = report[i]

\* A slot is assigned only a content it does not have.
Assigning == \A i \in Slots : ppc[i] = "assign" => Slot(i) # report[i]

\* What is in the slots that have their bit.
Marked ==
  \A i \in Slots : i \in new_data_mask /\ ppc[i] # "mark" => Slot(i) \in Reports \cup {Done}

Fetched(i) == Content(states[i], bufs[i])

\* The consumer's copies are up to date except where a bit says otherwise.
Copies ==
  /\ \A i \in Slots : i \notin new_data_mask /\ ppc[i] # "mark" => Fetched(i) = Slot(i)
  /\ cpc = "clear" => \A i \in Slots : Fetched(i) = Slot(i)

\* What the widget's cb was told follows the copies, and mask says where it is behind.
Telling ==
  /\ cpc \in {"lock", "check", "waiting", "woken"} => mask = {}
  /\ cpc \in {"copy", "clear"} => mask = new_data_mask
  /\ cpc \in {"copy", "clear", "call"} => mask # {}
  /\ cpc = "call" => \A i \in mask : Fetched(i) \in Reports \cup {Done}
  /\ \A i \in Slots : cpc \notin {"clear", "call"} \/ i \notin mask => told[i] = Fetched(i)

QInv == QTypeOK /\ QMutex /\ Reporting /\ Assigning /\ Marked /\ Copies /\ Telling /\ NoMissedSignal
-----------------------------------------------------------------------------
LEMMA SlotFacts == Consumer \notin Slots /\ Free \notin Slots /\ Free # Consumer
  BY ConqAssumption DEF ConqAssumption, Consumer, Free, Slots

LEMMA ContentFacts ==
  /\ \A c \in Contents : c.state \in States /\ c.buf \in Bufs /\ c = Content(c.state, c.buf)
  /\ Reports \cup {Done, Initial} \subseteq Contents
  /\ Initial \notin Reports \cup {Done}
<1> USE ConqAssumption DEF ConqAssumption, Content
<1>1. \A c \in Contents : c.state \in States /\ c.buf \in Bufs /\ c = Content(c.state, c.buf)
  BY DEF Contents, Reports, Done, Initial, States, OtherResults
<1>2. Reports \cup {Done, Initial} \subseteq Contents
  BY DEF Contents
<1>3. \A c \in Reports \cup {Done} : c.state # "empty"
  BY DEF Reports, Done, OtherResults
<1> QED
  BY <1>1, <1>2, <1>3 DEF Initial

LEMMA ContentEqual ==
  \A s1, s2, b1, b2 : Content(s1, b1) = Content(s2, b2) <=> s1 = s2 /\ b1 = b2
  BY DEF Content

LEMMA ContentFields == \A s, b : Content(s, b).state = s /\ Content(s, b).buf = b
  BY DEF Content

LEMMA QInitInv == QInit => QInv
<1> SUFFICES ASSUME QInit PROVE QInv
  OBVIOUS
<1>1. QTypeOK
  BY ConqAssumption, SlotFacts, ContentFacts DEF ConqAssumption, QInit, Untouched, QTypeOK, States, OtherResults
<1>2. QMutex
  BY SlotFacts DEF QInit, Untouched, QMutex
<1>3. Reporting /\ Assigning /\ Marked /\ Copies /\ Telling /\ NoMissedSignal
  BY DEF QInit, Untouched, Reporting, Assigning, Marked, Copies, Telling, NoMissedSignal, Fetched, Slot, Initial
<1> QED
  BY <1>1, <1>2, <1>3 DEF QInv
\* Every step of a producer or the consumer keeps the invariant.
LEMMA QNextInv == QInv /\ [QNext]_qvars => QInv'
<1> SUFFICES ASSUME QInv, [QNext]_qvars
             PROVE  QInv'
  OBVIOUS
<1> USE SlotFacts, ContentFacts, ContentEqual, ContentFields
<1> USE DEF prodvars, readvars, QInv, QTypeOK, QMutex, Reporting, Assigning, Marked, Copies,
            Telling, NoMissedSignal, Slot, Fetched
<1>1. ASSUME NEW i \in Slots, NEW c \in Reports \cup {Done}, Report(i, c)
      PROVE  QInv'
  <2>1. QTypeOK'
    BY <1>1, SMTT(40) DEF Report, QGoto
  <2>2. QMutex'
    BY <1>1, SMTT(40) DEF Report, QGoto
  <2>3. Reporting'
    BY <1>1, SMTT(40) DEF Report, QGoto
  <2>4. Assigning'
    BY <1>1, SMTT(40) DEF Report, QGoto
  <2>5. Marked'
    BY <1>1, SMTT(40) DEF Report, QGoto
  <2>6. Copies'
    BY <1>1, SMTT(40) DEF Report, QGoto
  <2>7. Telling'
    BY <1>1, SMTT(40) DEF Report, QGoto
  <2>8. NoMissedSignal'
    BY <1>1, SMTT(40) DEF Report, QGoto
  <2> QED BY <2>1, <2>2, <2>3, <2>4, <2>5, <2>6, <2>7, <2>8
<1>2. ASSUME NEW i \in Slots, QLock(i)
      PROVE  QInv'
  <2>1. QTypeOK'
    BY <1>2, SMTT(40) DEF QLock, QGoto, SameContent
  <2>2. QMutex'
    BY <1>2, SMTT(40) DEF QLock, QGoto, SameContent
  <2>3. Reporting'
    BY <1>2, SMTT(40) DEF QLock, QGoto, SameContent
  <2>4. Assigning'
    BY <1>2, SMTT(40) DEF QLock, QGoto, SameContent
  <2>5. Marked'
    BY <1>2, SMTT(40) DEF QLock, QGoto, SameContent
  <2>6. Copies'
    BY <1>2, SMTT(40) DEF QLock, QGoto, SameContent
  <2>7. Telling'
    BY <1>2, SMTT(40) DEF QLock, QGoto, SameContent
  <2>8. NoMissedSignal'
    BY <1>2, SMTT(40) DEF QLock, QGoto, SameContent
  <2> QED BY <2>1, <2>2, <2>3, <2>4, <2>5, <2>6, <2>7, <2>8
<1>3. ASSUME NEW i \in Slots, Assign(i)
      PROVE  QInv'
  <2>1. QTypeOK'
    BY <1>3, SMTT(40) DEF Assign, QGoto
  <2>2. QMutex'
    BY <1>3, SMTT(40) DEF Assign, QGoto
  <2>3. Reporting'
    BY <1>3, SMTT(40) DEF Assign, QGoto
  <2>4. Assigning'
    BY <1>3, SMTT(40) DEF Assign, QGoto
  <2>5. Marked'
    BY <1>3, SMTT(40) DEF Assign, QGoto
  <2>6. Copies'
    BY <1>3, SMTT(40) DEF Assign, QGoto
  <2>7. Telling'
    BY <1>3, SMTT(40) DEF Assign, QGoto
  <2>8. NoMissedSignal'
    BY <1>3, SMTT(40) DEF Assign, QGoto
  <2> QED BY <2>1, <2>2, <2>3, <2>4, <2>5, <2>6, <2>7, <2>8
<1>4. ASSUME NEW i \in Slots, Mark(i)
      PROVE  QInv'
  <2>1. QTypeOK'
    BY <1>4, SMTT(40) DEF Mark, QGoto, Signal
  <2>2. QMutex'
    BY <1>4, SMTT(40) DEF Mark, QGoto, Signal
  <2>3. Reporting'
    BY <1>4, SMTT(40) DEF Mark, QGoto, Signal
  <2>4. Assigning'
    BY <1>4, SMTT(40) DEF Mark, QGoto, Signal
  <2>5. Marked'
    BY <1>4, SMTT(40) DEF Mark, QGoto, Signal
  <2>6. Copies'
    BY <1>4, SMTT(40) DEF Mark, QGoto, Signal
  <2>7. Telling'
    BY <1>4, SMTT(40) DEF Mark, QGoto, Signal
  <2>8. NoMissedSignal'
    BY <1>4, SMTT(40) DEF Mark, QGoto, Signal
  <2> QED BY <2>1, <2>2, <2>3, <2>4, <2>5, <2>6, <2>7, <2>8
<1>5. ASSUME NEW i \in Slots, QUnlock(i)
      PROVE  QInv'
  <2>1. QTypeOK'
    BY <1>5, SMTT(40) DEF QUnlock, QGoto
  <2>2. QMutex'
    BY <1>5, SMTT(40) DEF QUnlock, QGoto
  <2>3. Reporting'
    BY <1>5, SMTT(40) DEF QUnlock, QGoto
  <2>4. Assigning'
    BY <1>5, SMTT(40) DEF QUnlock, QGoto
  <2>5. Marked'
    BY <1>5, SMTT(40) DEF QUnlock, QGoto
  <2>6. Copies'
    BY <1>5, SMTT(40) DEF QUnlock, QGoto
  <2>7. Telling'
    BY <1>5, SMTT(40) DEF QUnlock, QGoto
  <2>8. NoMissedSignal'
    BY <1>5, SMTT(40) DEF QUnlock, QGoto
  <2> QED BY <2>1, <2>2, <2>3, <2>4, <2>5, <2>6, <2>7, <2>8
<1>6. CASE FetchLock
  <2>1. QTypeOK'
    BY <1>6, SMTT(40) DEF FetchLock
  <2>2. QMutex'
    BY <1>6, SMTT(40) DEF FetchLock
  <2>3. Reporting'
    BY <1>6, SMTT(40) DEF FetchLock
  <2>4. Assigning'
    BY <1>6, SMTT(40) DEF FetchLock
  <2>5. Marked'
    BY <1>6, SMTT(40) DEF FetchLock
  <2>6. Copies'
    BY <1>6, SMTT(40) DEF FetchLock
  <2>7. Telling'
    BY <1>6, SMTT(40) DEF FetchLock
  <2>8. NoMissedSignal'
    BY <1>6, SMTT(40) DEF FetchLock
  <2> QED BY <2>1, <2>2, <2>3, <2>4, <2>5, <2>6, <2>7, <2>8
<1>7. CASE FetchWait
  <2>1. QTypeOK'
    BY <1>7, SMTT(40) DEF FetchWait
  <2>2. QMutex'
    BY <1>7, SMTT(40) DEF FetchWait
  <2>3. Reporting'
    BY <1>7, SMTT(40) DEF FetchWait
  <2>4. Assigning'
    BY <1>7, SMTT(40) DEF FetchWait
  <2>5. Marked'
    BY <1>7, SMTT(40) DEF FetchWait
  <2>6. Copies'
    BY <1>7, SMTT(40) DEF FetchWait
  <2>7. Telling'
    BY <1>7, SMTT(40) DEF FetchWait
  <2>8. NoMissedSignal'
    BY <1>7, SMTT(40) DEF FetchWait
  <2> QED BY <2>1, <2>2, <2>3, <2>4, <2>5, <2>6, <2>7, <2>8
<1>8. CASE SpuriousWakeup
  <2>1. QTypeOK'
    BY <1>8, SMTT(40) DEF SpuriousWakeup
  <2>2. QMutex'
    BY <1>8, SMTT(40) DEF SpuriousWakeup
  <2>3. Reporting'
    BY <1>8, SMTT(40) DEF SpuriousWakeup
  <2>4. Assigning'
    BY <1>8, SMTT(40) DEF SpuriousWakeup
  <2>5. Marked'
    BY <1>8, SMTT(40) DEF SpuriousWakeup
  <2>6. Copies'
    BY <1>8, SMTT(40) DEF SpuriousWakeup
  <2>7. Telling'
    BY <1>8, SMTT(40) DEF SpuriousWakeup
  <2>8. NoMissedSignal'
    BY <1>8, SMTT(40) DEF SpuriousWakeup
  <2> QED BY <2>1, <2>2, <2>3, <2>4, <2>5, <2>6, <2>7, <2>8
<1>9. CASE FetchMask
  <2>1. QTypeOK'
    BY <1>9, SMTT(40) DEF FetchMask
  <2>2. QMutex'
    BY <1>9, SMTT(40) DEF FetchMask
  <2>3. Reporting'
    BY <1>9, SMTT(40) DEF FetchMask
  <2>4. Assigning'
    BY <1>9, SMTT(40) DEF FetchMask
  <2>5. Marked'
    BY <1>9, SMTT(40) DEF FetchMask
  <2>6. Copies'
    BY <1>9, SMTT(40) DEF FetchMask
  <2>7. Telling'
    BY <1>9, SMTT(40) DEF FetchMask
  <2>8. NoMissedSignal'
    BY <1>9, SMTT(40) DEF FetchMask
  <2> QED BY <2>1, <2>2, <2>3, <2>4, <2>5, <2>6, <2>7, <2>8
<1>10. CASE FetchCopy
  <2>1. QTypeOK'
    BY <1>10, SMTT(40) DEF FetchCopy
  <2>2. QMutex'
    BY <1>10, SMTT(40) DEF FetchCopy
  <2>3. Reporting'
    BY <1>10, SMTT(40) DEF FetchCopy
  <2>4. Assigning'
    BY <1>10, SMTT(40) DEF FetchCopy
  <2>5. Marked'
    BY <1>10, SMTT(40) DEF FetchCopy
  <2>6. Copies'
    BY <1>10, SMTT(40) DEF FetchCopy
  <2>7. Telling'
    BY <1>10, SMTT(40) DEF FetchCopy
  <2>8. NoMissedSignal'
    BY <1>10, SMTT(40) DEF FetchCopy
  <2> QED BY <2>1, <2>2, <2>3, <2>4, <2>5, <2>6, <2>7, <2>8
<1>11. CASE FetchDone
  <2>1. QTypeOK'
    BY <1>11, SMTT(40) DEF FetchDone
  <2>2. QMutex'
    BY <1>11, SMTT(40) DEF FetchDone
  <2>3. Reporting'
    BY <1>11, SMTT(40) DEF FetchDone
  <2>4. Assigning'
    BY <1>11, SMTT(40) DEF FetchDone
  <2>5. Marked'
    BY <1>11, SMTT(40) DEF FetchDone
  <2>6. Copies'
    BY <1>11, SMTT(40) DEF FetchDone
  <2>7. Telling'
    BY <1>11, SMTT(40) DEF FetchDone
  <2>8. NoMissedSignal'
    BY <1>11, SMTT(40) DEF FetchDone
  <2> QED BY <2>1, <2>2, <2>3, <2>4, <2>5, <2>6, <2>7, <2>8
<1>12. CASE CallUpdate
  <2>1. QTypeOK'
    BY <1>12, SMTT(40) DEF CallUpdate
  <2>2. QMutex'
    BY <1>12, SMTT(40) DEF CallUpdate
  <2>3. Reporting'
    BY <1>12, SMTT(40) DEF CallUpdate
  <2>4. Assigning'
    BY <1>12, SMTT(40) DEF CallUpdate
  <2>5. Marked'
    BY <1>12, SMTT(40) DEF CallUpdate
  <2>6. Copies'
    BY <1>12, SMTT(40) DEF CallUpdate
  <2>7. Telling'
    BY <1>12, SMTT(40) DEF CallUpdate
  <2>8. NoMissedSignal'
    BY <1>12, SMTT(40) DEF CallUpdate
  <2> QED BY <2>1, <2>2, <2>3, <2>4, <2>5, <2>6, <2>7, <2>8
<1>13. CASE UNCHANGED qvars
  <2>1. QTypeOK'
    BY <1>13, SMTT(40) DEF qvars
  <2>2. QMutex'
    BY <1>13, SMTT(40) DEF qvars
  <2>3. Reporting'
    BY <1>13, SMTT(40) DEF qvars
  <2>4. Assigning'
    BY <1>13, SMTT(40) DEF qvars
  <2>5. Marked'
    BY <1>13, SMTT(40) DEF qvars
  <2>6. Copies'
    BY <1>13, SMTT(40) DEF qvars
  <2>7. Telling'
    BY <1>13, SMTT(40) DEF qvars
  <2>8. NoMissedSignal'
    BY <1>13, SMTT(40) DEF qvars
  <2> QED BY <2>1, <2>2, <2>3, <2>4, <2>5, <2>6, <2>7, <2>8
<1> QED
  BY <1>1, <1>2, <1>3, <1>4, <1>5, <1>6, <1>7, <1>8, <1>9, <1>10, <1>11, <1>12, <1>13
  DEF QNext, Produce, Fetch

\* The inductive invariant holds in every reachable state.
THEOREM QInvariance == QSpec => []QInv
<1>1. QInit => QInv
  BY QInitInv
<1>2. QInv /\ [QNext]_qvars => QInv'
  BY QNextInv
<1> QED
  BY <1>1, <1>2, PTL DEF QSpec

\* The queue, its copies and the threads keep their types, for any number of slots.
THEOREM QTypeCorrect == QSpec => []QTypeOK
<1>1. QInv => QTypeOK
  BY DEF QInv
<1> QED
  BY <1>1, QInvariance, PTL

\* While the widget is not being told, a slot whose bit is not set is as it was told.
THEOREM NothingIsLost == QSpec => []NothingLost
<1>1. QInv => NothingLost
  BY DEF QInv, Copies, Telling, NothingLost, Fetched
<1> QED
  BY <1>1, QInvariance, PTL

\* The consumer never sleeps through a bit that is set.
THEOREM NoWakeupIsMissed == QSpec => []NoMissedSignal
<1>1. QInv => NoMissedSignal
  BY DEF QInv
<1> QED
  BY <1>1, QInvariance, PTL

\* A finished update left in the slot what was reported.
THEOREM UpdatesAreStored == QSpec => []Stored
<1>1. QInv => Stored
  BY DEF QInv, Reporting, Stored
<1> QED
  BY <1>1, QInvariance, PTL

\* The cb is told of some slot, and only of whole contents.
THEOREM OnlyWholeContentsAreTold == QSpec => []ToldWhole
<1>1. QInv => ToldWhole
  BY DEF QInv, Telling, ToldWhole, Fetched
<1> QED
  BY <1>1, QInvariance, PTL
-----------------------------------------------------------------------------
\* Slots of the table: a producer between its two assignments counts as done.
LEMMA QInitRefines == QInit => Table!MInit
<1> SUFFICES ASSUME QInit PROVE Table!MInit
  OBVIOUS
<1>1. Cell = [i \in Slots |-> Initial] /\ Seen = [i \in Slots |-> Initial]
  BY DEF QInit, Untouched, Cell, Seen, Slot, Initial, Taking
<1>2. Fresh = {}
  BY DEF QInit, Untouched, Fresh, Taking
<1> QED
  BY <1>1, <1>2 DEF Table!MInit

\* A step that leaves the data alone and no producer between its assignments is invisible.
LEMMA Invisible ==
  ASSUME UNCHANGED <<slots, slot_states, new_data_mask, bufs, states>>,
         \A j \in Slots : ppc'[j] = "mark" <=> ppc[j] = "mark",
         \A j \in Slots : ppc[j] = "mark" => report'[j] = report[j],
         Taking' <=> Taking, Taking => mask' = mask
  PROVE  UNCHANGED Table!mvars
<1>1. Cell' = Cell
  BY DEF Cell, Slot
<1>2. Seen' = Seen
  BY DEF Seen, Slot
<1>3. Fresh' = Fresh
  BY DEF Fresh
<1> QED
  BY <1>1, <1>2, <1>3 DEF Table!mvars

\* Every step puts a content, takes the fresh ones, or is invisible.
LEMMA QStepRefines == QInv /\ QInv' /\ [QNext]_qvars => [Table!MNext]_(Table!mvars)
<1> SUFFICES ASSUME QInv, QInv', [QNext]_qvars
             PROVE  Table!MNext \/ UNCHANGED Table!mvars
  OBVIOUS
<1> USE SlotFacts, ContentFacts, ContentEqual, ContentFields DEF prodvars, readvars
<1>1. ASSUME NEW i \in Slots, Assign(i)
      PROVE  Table!MNext
  <2>1. ppc[i] = "assign" /\ ~Taking /\ ~Taking' /\ report[i] \in Contents
    BY <1>1 DEF Assign, Taking, QInv, QMutex, QTypeOK
  <2>2. Cell[i] # report[i] /\ Cell[i] = Slot(i)
    BY <1>1, <2>1 DEF QInv, Assigning, Cell
  <2>3. \A j \in Slots : ppc'[j] = IF j = i THEN "mark" ELSE ppc[j]
    BY <1>1 DEF Assign, QGoto, QInv, QTypeOK
  <2>4. \A j \in Slots : Cell'[j] = IF j = i THEN report[i] ELSE Cell[j]
    BY <1>1, <2>3 DEF Assign, Cell, Slot, QInv, QTypeOK
  <2>5. Cell' = [Cell EXCEPT ![i] = report[i]]
    BY <2>4 DEF Cell
  <2>6. Seen' = Seen
    BY <1>1, <2>1 DEF Assign, Seen
  <2>7. Fresh' = Fresh \cup {i}
    BY <1>1, <2>1, <2>3 DEF Assign, Fresh
  <2> QED
    BY <2>1, <2>2, <2>5, <2>6, <2>7 DEF Table!MNext, Table!Put
<1>2. FetchMask => Table!MNext
  <2> SUFFICES ASSUME FetchMask PROVE Table!Take
    BY DEF Table!MNext
  <2>1. \A j \in Slots : ppc[j] # "mark"
    BY DEF FetchMask, QInv, QMutex
  <2>2. Fresh = new_data_mask /\ Fresh' = {}
    BY <2>1 DEF FetchMask, Fresh, Taking
  <2>3. Cell' = Cell /\ \A j \in Slots : Cell[j] = Slot(j)
    BY <2>1 DEF FetchMask, Cell, Slot
  <2>4. Seen' = [j \in Slots |-> IF j \in Fresh THEN Cell[j] ELSE Seen[j]]
    BY <2>2, <2>3 DEF FetchMask, Seen, Slot, Taking
  <2> QED
    BY <2>2, <2>3, <2>4 DEF FetchMask, Table!Take
<1>3. ASSUME NEW i \in Slots, NEW c \in Reports \cup {Done}, Report(i, c)
      PROVE  UNCHANGED Table!mvars
  BY <1>3, Invisible DEF Report, QGoto, Taking, QInv, QTypeOK
<1>4. ASSUME NEW i \in Slots, QLock(i)
      PROVE  UNCHANGED Table!mvars
  BY <1>4, Invisible DEF QLock, QGoto, Taking, QInv, QTypeOK
<1>5. ASSUME NEW i \in Slots, Mark(i)
      PROVE  UNCHANGED Table!mvars
  <2>1. ppc[i] = "mark" /\ ~Taking /\ ~Taking'
    BY <1>5 DEF Mark, Signal, Taking, QInv, QMutex
  <2>2. \A j \in Slots : ppc'[j] = IF j = i THEN "unlock" ELSE ppc[j]
    BY <1>5 DEF Mark, QGoto, QInv, QTypeOK
  <2>3. \A j \in Slots : Cell'[j] = Cell[j]
    BY <1>5, <2>1, <2>2 DEF Mark, Cell, Slot, QInv, QTypeOK, Reporting
  <2>4. Cell' = Cell
    BY <2>3 DEF Cell
  <2>5. Seen' = Seen
    BY <1>5, <2>1 DEF Mark, Seen
  <2>6. Fresh' = Fresh
    BY <1>5, <2>1, <2>2 DEF Mark, Fresh
  <2> QED
    BY <2>4, <2>5, <2>6 DEF Table!mvars
<1>6. ASSUME NEW i \in Slots, QUnlock(i)
      PROVE  UNCHANGED Table!mvars
  BY <1>6, Invisible DEF QUnlock, QGoto, Taking, QInv, QTypeOK
<1>7. CASE FetchLock \/ FetchWait \/ SpuriousWakeup \/ CallUpdate
  BY <1>7, Invisible DEF FetchLock, FetchWait, SpuriousWakeup, CallUpdate, Taking
<1>8. CASE FetchCopy
  BY <1>8 DEF FetchCopy, Table!mvars, Cell, Seen, Fresh, Slot, Taking
<1>9. CASE FetchDone
  BY <1>9 DEF FetchDone, Table!mvars, Cell, Seen, Fresh, Slot, Taking, QInv, QMutex, Copies, Fetched
<1>10. CASE UNCHANGED qvars
  BY <1>10 DEF qvars, Table!mvars, Cell, Seen, Fresh, Slot, Taking
<1> QED
  BY <1>1, <1>2, <1>3, <1>4, <1>5, <1>6, <1>7, <1>8, <1>9, <1>10 DEF QNext, Produce, Fetch

\* conq.c and the loop of run() implement the table of latest contents: whatever the
\* interleaving, each fetch takes every slot that changed since the last, as it is then.
THEOREM Refinement == QSpec => IsMailbox
<1>1. QInit => Table!MInit
  BY QInitRefines
<1>2. QInv /\ QInv' /\ [QNext]_qvars => [Table!MNext]_(Table!mvars)
  BY QStepRefines
<1> QED
  BY <1>1, <1>2, QInvariance, PTL DEF QSpec, IsMailbox, Table!MSpec
=============================================================================
