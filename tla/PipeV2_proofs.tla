---------------------------- MODULE PipeV2_proofs ----------------------------
(***************************************************************************)
(* For any options, output and pipes: kill() never signals a process that  *)
(* is not the plugin's own, cb always finds the process created, and it is *)
(* told the process's lines in order.                                      *)
(***************************************************************************)
EXTENDS PipeV2, Induction, SequenceTheorems, TLAPS

CPCs    == {"idle", "kill", "killing", "write", "writing"}
Running == {"call_begin", "cb", "read", "wait", "waitpid", "waited"}
RPCs    == Running \cup {"spawn", "publish", "pause", "returned"}

\* The types of what the argument is about.
Types ==
  /\ cpc \in [Callers -> CPCs] /\ answer \in [Callers -> {"true", "false", "not_created", None}]
  /\ rpc \in RPCs
  /\ what \in {"none", "hello", "line", "bye"}
  /\ child \in {"none", "running", "zombie", "reaped"}
  /\ child_pid \in {"not_spawned_yet", "child", "already_terminated"}

\* child_mtx is held exactly between its lock and its unlock.
Mutex ==
  /\ \A c \in Callers : cpc[c] = "killing" <=> child_mtx = c
  /\ rpc \in {"waitpid", "waited"} <=> child_mtx = "run"

\* A pid that may be signalled is that of a process not yet reaped, save while do_wait()
\* has the mutex.
Pid ==
  /\ rpc = "publish" => child \in {"running", "zombie"}
  /\ rpc \in {"spawn", "publish"} => child_pid = "not_spawned_yet"
  /\ child_pid = "child" => child \in {"running", "zombie"} \/ rpc = "waited"

\* cb runs in calls of run() only, after the process was published.
Created ==
  /\ rpc \in Running => child_pid # "not_spawned_yet" /\ child_stdin_fd = PipeStdin
  /\ cpc["cb"] # "idle" => rpc = "cb"
  /\ cpc["cb"] \in {"write", "writing"} => PipeStdin
  /\ answer["cb"] # "not_created"

Inv == Types /\ Mutex /\ Pid /\ Created
-----------------------------------------------------------------------------
LEMMA InitInv == Init => Inv
  BY PipeV2Assumption
  DEF PipeV2Assumption, Init, Inv, Types, Mutex, Pid, Created, Callers, CPCs, RPCs, Running

\* What the process does never matters: it is reaped by the plugin only.
LEMMA ProcessInv == Inv /\ Process => Inv'
  BY DEF Inv, Types, Mutex, Pid, Created, Process, Read, CloseStdout, CloseStdin, Exit, Write,
         callervars, Callers, CPCs, RPCs, Running

\* The steps of the plugin's thread.
LEMMA RunInv == Inv /\ (Run \/ CallBegin \/ WaitLock) => Inv'
<1> SUFFICES ASSUME Inv, Run \/ CallBegin \/ WaitLock
             PROVE  Inv'
  OBVIOUS
<1> USE PipeV2Assumption
    DEF PipeV2Assumption, Inv, Types, Mutex, Pid, Created, procvars, callervars, Callers, CPCs,
        RPCs, Running, Calls
<1>1. CASE Launch \/ LaunchFails \/ CleanUpLeftover
  BY <1>1 DEF Launch, LaunchFails, CleanUpLeftover
<1>2. CASE Publish
  BY <1>2 DEF Publish
<1>3. CASE CallBegin \/ CallEnd
  BY <1>3 DEF CallBegin, CallEnd
<1>4. CASE GetChar \/ TellLine \/ TellRest \/ Eof
  BY <1>4 DEF GetChar, TellLine, TellRest, Eof, AtEof
<1>5. CASE WaitLock
  BY <1>5 DEF WaitLock
<1>6. CASE Waitpid
  BY <1>6 DEF Waitpid
<1>7. CASE Waited
  BY <1>7 DEF Waited
<1> QED
  BY <1>1, <1>2, <1>3, <1>4, <1>5, <1>6, <1>7 DEF Run

\* The functions Lua code calls.
LEMMA CallerInv ==
  ASSUME Inv, NEW c \in Callers, Call(c) \/ KillLock(c) \/ FetchFd(c) \/ Step(c)
  PROVE  Inv'
<1> USE PipeV2Assumption
    DEF PipeV2Assumption, Inv, Types, Mutex, Pid, Created, procvars, Callers, CPCs, RPCs, Running
<1>1. CASE CallKill(c)
  BY <1>1 DEF CallKill, MayCall
<1>2. ASSUME NEW n \in 1..MaxData, CallWrite(c, n)
      PROVE  Inv'
  BY <1>2, ZenonT(60) DEF CallWrite, MayCall
<1>3. CASE KillLock(c)
  BY <1>3 DEF KillLock
<1>4. CASE Kill(c)
  BY <1>4 DEF Kill, Returns
<1>5. CASE FetchFd(c)
  BY <1>5 DEF FetchFd, Returns
<1>6. CASE WriteSome(c)
  BY <1>6 DEF WriteSome
<1>7. CASE WriteEnds(c)
  BY <1>7 DEF WriteEnds, Returns
<1> QED
  BY <1>1, <1>2, <1>3, <1>4, <1>5, <1>6, <1>7 DEF Call, Step

LEMMA NextInv == Inv /\ [Next]_vars => Inv'
<1>1. ASSUME Inv, UNCHANGED vars
      PROVE  Inv'
  BY <1>1 DEF vars, procvars, callervars, Inv, Types, Mutex, Pid, Created
<1> QED
  BY <1>1, ProcessInv, RunInv, CallerInv DEF Next

LEMMA Invariance == Spec => []Inv
  BY InitInv, NextInv, PTL DEF Spec
-----------------------------------------------------------------------------
\* kill() never reaches a process that got the number of the plugin's own after waitpid():
\* it is sent under child_mtx, and do_wait() has child_mtx from before waitpid() until the
\* pid is forgotten.
THEOREM SignalsReachOwnChild == Spec => []SignalsOwnChild
<1>1. Inv => SignalsOwnChild
  BY PipeV2Assumption DEF PipeV2Assumption, Inv, Mutex, Pid, Types, SignalsOwnChild, Callers
<1> QED
  BY <1>1, Invariance, PTL

\* cb is called only after do_spawn() published the pid and the descriptor, so that kill()
\* and write_to_stdin() never throw "process has not been created yet" in it.
THEOREM CbAlwaysFindsChild == Spec => []CbFindsChild
<1>1. Inv => CbFindsChild
  BY DEF Inv, Created, CbFindsChild
<1> QED
  BY <1>1, Invariance, PTL

-----------------------------------------------------------------------------
(* Lines.                                                                  *)

\* The lines as bytes.
Text(ls) == FlattenSeq([k \in DOMAIN ls |-> Append(ls[k], "delimiter")])

LEMMA TextAppend ==
  ASSUME NEW ls \in Seq(Seq(Bytes)), NEW x \in Seq(Bytes)
  PROVE  /\ Text(ls) \in Seq(Bytes) /\ Append(x, "delimiter") \in Seq(Bytes)
         /\ Append(ls, x) \in Seq(Seq(Bytes))
         /\ Text(Append(ls, x)) = Text(ls) \o Append(x, "delimiter")
<1> DEFINE ended(s) == [k \in DOMAIN s |-> Append(s[k], "delimiter")]
           more == Append(ls, x)
           y == Append(x, "delimiter")
<1>0. "delimiter" \in Bytes
  BY DEF Bytes
<1>1. y \in Seq(Bytes)
  BY <1>0
<1>2. /\ more \in Seq(Seq(Bytes)) /\ Len(more) = Len(ls) + 1 /\ Len(ls) \in Nat
      /\ DOMAIN ls = 1..Len(ls) /\ DOMAIN more = 1..Len(ls) + 1
      /\ (\A k \in 1..Len(ls) : more[k] = ls[k]) /\ more[Len(ls) + 1] = x
  BY AppendProperties
<1>3. ASSUME NEW k \in 1..Len(ls) PROVE Append(ls[k], "delimiter") \in Seq(Bytes)
  <2>1. ls[k] \in Seq(Bytes)
    OBVIOUS
  <2> QED BY <1>0, <2>1
<1>4. ended(ls) \in Seq(Seq(Bytes)) /\ Len(ended(ls)) = Len(ls)
      /\ \A k \in 1..Len(ls) : ended(ls)[k] = Append(ls[k], "delimiter")
  <2>1. ended(ls) = [k \in 1..Len(ls) |-> Append(ls[k], "delimiter")]
    BY <1>2
  <2>2. ended(ls) \in Seq(Seq(Bytes))
    BY <1>2, <1>3, <2>1
  <2> QED BY <1>2, <2>1, <2>2
<1>5. ended(more) = Append(ended(ls), y)
  <2> HIDE DEF y
  <2>1. ended(more) = [k \in 1..Len(ls) + 1 |-> IF k = Len(ls) + 1 THEN Append(x, "delimiter")
                                                 ELSE Append(ls[k], "delimiter")]
    BY <1>2
  <2>2. Append(ended(ls), y) \in Seq(Seq(Bytes)) /\ Len(Append(ended(ls), y)) = Len(ls) + 1
        /\ (\A k \in 1..Len(ls) : Append(ended(ls), y)[k] = ended(ls)[k])
        /\ Append(ended(ls), y)[Len(ls) + 1] = y
    <3> HIDE DEF ended
    <3> QED BY <1>1, <1>4, AppendProperties
  <2>3. Append(ended(ls), y) = [k \in 1..Len(ls) + 1 |-> Append(ended(ls), y)[k]]
    <3> HIDE DEF ended
    <3>1. PICK z : z = Append(ended(ls), y)
      OBVIOUS
    <3>2. z \in Seq(Seq(Bytes)) /\ Len(z) = Len(ls) + 1
      BY <2>2, <3>1
    <3>3. z = [k \in 1..Len(ls) + 1 |-> z[k]]
      BY <3>2
    <3> QED BY <3>1, <3>3
  <2>4. ASSUME NEW k \in 1..Len(ls) + 1
        PROVE  Append(ended(ls), y)[k] = IF k = Len(ls) + 1 THEN Append(x, "delimiter")
                                         ELSE Append(ls[k], "delimiter")
    <3>1. k \in 1..Len(ls) \/ k = Len(ls) + 1
      BY <1>2
    <3> HIDE DEF ended
    <3>2. CASE k = Len(ls) + 1
      BY <2>2, <3>2 DEF y
    <3>3. CASE k # Len(ls) + 1
      BY <1>4, <2>2, <3>1, <3>3
    <3> QED BY <3>2, <3>3
  <2> HIDE DEF ended
  <2> QED BY <2>1, <2>3, <2>4
<1>6. Text(ls) = FlattenSeq(ended(ls)) /\ Text(more) = FlattenSeq(ended(more))
  BY DEF Text
<1> HIDE DEF ended, y, more
<1>7. FlattenSeq(Append(ended(ls), y)) = FlattenSeq(ended(ls)) \o y /\ FlattenSeq(ended(ls)) \in Seq(Bytes)
  BY <1>1, <1>4, FlattenAppend
<1> QED BY <1>1, <1>2, <1>5, <1>6, <1>7 DEF y, more

\* What the process wrote has been told, is in getdelim()'s buffer or in the pipe; the last
\* byte of a text that ends without a delimiter is told as one.
AllTold  == wrote = Told \o (buf \o out)
RestTold ==
  /\ ~stdout /\ out = <<>> /\ buf = <<>> /\ rpc # "spawn"
  /\ Len(Told) = Len(wrote)
  /\ \A k \in 1..Len(Told) - 1 : Told[k] = wrote[k]

LinesTypes ==
  /\ wrote \in Seq(Bytes) /\ out \in Seq(Bytes) /\ buf \in Seq(Bytes)
  /\ lines \in Seq(Seq(Bytes))

\* run() waits for the process, and says "bye", after the last line.
Ending ==
  /\ rpc \in {"wait", "waitpid", "waited"} \/ what = "bye" => ~stdout /\ out = <<>> /\ buf = <<>>
  /\ rpc = "waited" \/ what = "bye" => child = "reaped"
  /\ what = "bye" => rpc \in {"call_begin", "cb", "pause"}

Lines == LinesTypes /\ (AllTold \/ RestTold) /\ Ending

LEMMA TextType ==
  ASSUME NEW ls \in Seq(Seq(Bytes))
  PROVE  Text(ls) \in Seq(Bytes)
<1>1. <<>> \in Seq(Bytes)
  OBVIOUS
<1> QED BY <1>1, TextAppend

LEMMA ToldIsText == Told = Text(lines)
BY DEF Told, Text

LEMMA LinesInit == Init => Lines
<1> SUFFICES ASSUME Init PROVE Lines
  OBVIOUS
<1>1. Told = <<>>
  <2>1. [k \in DOMAIN <<>> |-> Append(<<>>[k], "delimiter")] = <<>>
    OBVIOUS
  <2> QED BY <2>1 DEF Init, Told, FlattenSeq
<1>2. <<>> \o (<<>> \o <<>>) = <<>>
  OBVIOUS
<1> QED BY <1>1, <1>2 DEF Init, Lines, LinesTypes, AllTold, Ending

\* A step that touches neither the texts nor what the end depends on.
LEMMA LinesKept ==
  ASSUME Lines, UNCHANGED <<wrote, out, buf, lines>>, stdout' => stdout \/ rpc = "spawn",
         rpc' = "spawn" => rpc = "spawn", Ending'
  PROVE  Lines'
<1>1. Told' = Told
  BY DEF Told
<1>2. LinesTypes'
  BY DEF Lines, LinesTypes
<1>3. CASE AllTold
  BY <1>1, <1>2, <1>3 DEF Lines, AllTold
<1>4. CASE RestTold
  BY <1>1, <1>2, <1>4 DEF Lines, RestTold
<1> QED BY <1>3, <1>4 DEF Lines

\* One more byte in the pipe.
LEMMA ByteWritten ==
  ASSUME NEW s \in Seq(Bytes), NEW t \in Seq(Bytes), NEW u \in Seq(Bytes), NEW b \in Bytes
  PROVE  Append(s \o (t \o u), b) = s \o (t \o Append(u, b))
BY SMTT(40)

\* A byte goes from the pipe to the buffer.
LEMMA ByteRead ==
  ASSUME NEW t \in Seq(Bytes), NEW u \in Seq(Bytes), u # <<>>
  PROVE  /\ t \o u = Append(t, Head(u)) \o Tail(u)
         /\ Append(t, Head(u)) \in Seq(Bytes) /\ Tail(u) \in Seq(Bytes) /\ Head(u) \in Bytes
<1>1. Head(u) \in Bytes /\ Tail(u) \in Seq(Bytes)
  BY HeadTailProperties
<1>2. Append(t, Head(u)) \in Seq(Bytes)
  BY <1>1
<1>3. t \o u = Append(t, Head(u)) \o Tail(u)
  BY SMTT(30)
<1> QED BY <1>1, <1>2, <1>3

\* A line goes from the buffer and the pipe to cb.
LEMMA LineRead ==
  ASSUME NEW s \in Seq(Bytes), NEW t \in Seq(Bytes), NEW u \in Seq(Bytes), u # <<>>
  PROVE  s \o (t \o u) = (s \o Append(t, Head(u))) \o (<<>> \o Tail(u))
<1>1. /\ t \o u = Append(t, Head(u)) \o Tail(u) /\ Append(t, Head(u)) \in Seq(Bytes)
      /\ Tail(u) \in Seq(Bytes)
  BY ByteRead
<1>2. <<>> \o Tail(u) = Tail(u)
  BY <1>1
<1>3. PICK x, y : x = Append(t, Head(u)) /\ y = Tail(u)
  OBVIOUS
<1>4. s \o (x \o y) = (s \o x) \o y
  <2>1. x \in Seq(Bytes) /\ y \in Seq(Bytes)
    BY <1>1, <1>3
  <2> QED BY <2>1, SMTT(30)
<1> QED BY <1>1, <1>2, <1>3, <1>4

\* The last byte of the text, if it is not a delimiter.
LEMMA RestRead ==
  ASSUME NEW s \in Seq(Bytes), NEW t \in Seq(Bytes), t # <<>>
  PROVE  /\ Len(s \o Append(Front(t), "delimiter")) = Len(s \o (t \o <<>>))
         /\ \A k \in 1..Len(s \o (t \o <<>>)) - 1 :
              (s \o Append(Front(t), "delimiter"))[k] = (s \o (t \o <<>>))[k]
         /\ Front(t) \in Seq(Bytes)
<1>1. Len(t) \in Nat /\ Len(t) >= 1 /\ Len(s) \in Nat /\ "delimiter" \in Bytes
  BY DEF Bytes
<1>2. t \o <<>> = t
  OBVIOUS
<1>3. /\ Front(t) \in Seq(Bytes) /\ Len(Front(t)) = Len(t) - 1
      /\ \A k \in 1..Len(t) - 1 : Front(t)[k] = t[k]
  <2>1. \A k \in 1..Len(t) - 1 : t[k] \in Bytes
    BY <1>1
  <2>2. /\ SubSeq(t, 1, Len(t) - 1) \in Seq(Bytes)
        /\ Len(SubSeq(t, 1, Len(t) - 1)) = Len(t) - 1
        /\ \A k \in 1..Len(t) - 1 : SubSeq(t, 1, Len(t) - 1)[k] = t[k]
    <3>1. PICK n : n = Len(t) - 1
      OBVIOUS
    <3>2. n \in Nat /\ \A k \in 1..n : t[k] \in Bytes
      BY <1>1, <2>1, <3>1
    <3>3. /\ SubSeq(t, 1, n) \in Seq(Bytes) /\ Len(SubSeq(t, 1, n)) = n
          /\ \A k \in 1..n : SubSeq(t, 1, n)[k] = t[k]
      BY <3>2, SubSeqProperties
    <3> QED BY <3>1, <3>3
  <2> QED BY <2>2 DEF Front
<1>4. PICK f : f = Append(Front(t), "delimiter")
  OBVIOUS
<1>5. f \in Seq(Bytes) /\ Len(f) = Len(t) /\ \A k \in 1..Len(t) - 1 : f[k] = t[k]
  BY <1>1, <1>3, <1>4, AppendProperties
<1>6. Len(s \o f) = Len(s) + Len(f) /\ Len(s \o t) = Len(s) + Len(t)
  BY <1>5, ConcatProperties
<1>7. ASSUME NEW k \in 1..Len(s \o t) - 1 PROVE (s \o f)[k] = (s \o t)[k]
  <2>1. CASE k <= Len(s)
    BY <1>1, <1>5, <2>1
  <2>2. CASE k > Len(s)
    <3>1. k - Len(s) \in 1..Len(t) - 1 /\ k - Len(s) \in 1..Len(t)
      BY <1>1, <1>6, <2>2
    <3>2. (s \o f)[k] = f[k - Len(s)] /\ (s \o t)[k] = t[k - Len(s)]
      BY <1>1, <1>5, <1>6, <2>2, <3>1
    <3> QED BY <1>5, <3>1, <3>2
  <2>3. k <= Len(s) \/ k > Len(s)
    BY <1>1, <1>5, <1>6
  <2> QED BY <2>1, <2>2, <2>3
<1> QED BY <1>2, <1>3, <1>4, <1>5, <1>6, <1>7

\* A process with its stdout open has not come to its end.
LEMMA WriteLines ==
  ASSUME Lines, NEW b \in Bytes, Write(b), UNCHANGED <<rpc, what, buf, lines>>
  PROVE  Lines'
<1>1. LinesTypes'
  <2>1. Append(out, b) \in Seq(Bytes) /\ Append(wrote, b) \in Seq(Bytes)
    BY DEF Lines, LinesTypes
  <2> QED BY <2>1 DEF Lines, LinesTypes, Write
<1>2. Told' = Told
  BY DEF Told
<1>3. AllTold /\ stdout
  BY DEF Write, Lines, RestTold
<1>4. AllTold'
  <2>1. Told \in Seq(Bytes)
    BY ToldIsText, TextType DEF Lines, LinesTypes
  <2>2. PICK s : s = Told
    OBVIOUS
  <2>3. Append(s \o (buf \o out), b) = s \o (buf \o Append(out, b))
    BY <2>1, <2>2, ByteWritten, ZenonT(40) DEF Lines, LinesTypes
  <2> QED BY <1>2, <1>3, <2>2, <2>3 DEF AllTold, Write
<1>5. Ending'
  BY <1>3 DEF Lines, Ending, Write
<1> QED BY <1>1, <1>4, <1>5 DEF Lines

LEMMA ProcessLines ==
  ASSUME Lines, Process
  PROVE  Lines'
<1>1. ASSUME NEW b \in Bytes, Write(b) PROVE Lines'
  BY <1>1, WriteLines DEF Process
<1>2. CASE Read \/ CloseStdout \/ CloseStdin \/ Exit
  <2>1. /\ UNCHANGED <<wrote, out, buf, lines, rpc, what>> /\ (stdout' => stdout)
        /\ (child' = child \/ (child = "running" /\ child' = "zombie"))
    BY <1>2 DEF Process, Read, CloseStdout, CloseStdin, Exit
  <2>2. Ending'
    BY <2>1 DEF Lines, Ending
  <2> QED BY <2>1, <2>2, LinesKept
<1> QED BY <1>1, <1>2 DEF Process

LEMMA GetCharLines ==
  ASSUME Lines, GetChar
  PROVE  Lines'
<1>1. AllTold
  BY DEF GetChar, Lines, RestTold
<1>2. /\ buf \o out = Append(buf, Head(out)) \o Tail(out)
      /\ Append(buf, Head(out)) \in Seq(Bytes) /\ Tail(out) \in Seq(Bytes)
  BY ByteRead DEF GetChar, Lines, LinesTypes
<1>3. LinesTypes'
  BY <1>2 DEF GetChar, Lines, LinesTypes
<1>4. AllTold'
  <2>1. Told' = Told
    BY DEF Told, GetChar
  <2> QED BY <1>1, <1>2, <2>1 DEF AllTold, GetChar
<1>5. Ending'
  <2>1. rpc = "read" /\ rpc' = "read" /\ what # "bye" /\ what' = what
    BY DEF GetChar, Lines, Ending
  <2> QED BY <2>1 DEF Ending
<1> QED BY <1>3, <1>4, <1>5 DEF Lines

LEMMA TellLineLines ==
  ASSUME Lines, TellLine
  PROVE  Lines'
<1>1. AllTold
  BY DEF TellLine, Lines, RestTold
<1>2. /\ out # <<>> /\ Head(out) = "delimiter" /\ out' = Tail(out) /\ buf' = <<>>
      /\ lines' = Append(lines, buf) /\ wrote' = wrote /\ what' = "line" /\ rpc' = "call_begin"
  BY DEF TellLine, Calls
<1>3. /\ Text(lines) \in Seq(Bytes) /\ Append(lines, buf) \in Seq(Seq(Bytes))
      /\ Text(Append(lines, buf)) = Text(lines) \o Append(buf, "delimiter")
  BY TextAppend DEF Lines, LinesTypes
<1>4. Tail(out) \in Seq(Bytes) /\ <<>> \in Seq(Bytes)
  BY <1>2, ByteRead DEF Lines, LinesTypes
<1>5. LinesTypes'
  BY <1>2, <1>3, <1>4 DEF Lines, LinesTypes
<1>6. AllTold'
  <2>1. Told' = Text(lines') /\ Told = Text(lines)
    BY DEF Told, Text
  <2>2. Text(lines) \o (buf \o out) = (Text(lines) \o Append(buf, Head(out))) \o (<<>> \o Tail(out))
    BY <1>2, <1>3, LineRead DEF Lines, LinesTypes
  <2> QED BY <1>1, <1>2, <1>3, <2>1, <2>2 DEF AllTold
<1>7. Ending'
  BY <1>2 DEF Ending
<1> QED BY <1>5, <1>6, <1>7 DEF Lines

LEMMA TellRestLines ==
  ASSUME Lines, TellRest
  PROVE  Lines'
<1>1. AllTold
  BY DEF TellRest, Lines, RestTold
<1>2. /\ out = <<>> /\ out' = <<>> /\ buf # <<>> /\ buf' = <<>> /\ ~stdout'
      /\ lines' = Append(lines, Front(buf)) /\ wrote' = wrote /\ what' = "line"
      /\ rpc' = "call_begin"
  BY DEF TellRest, AtEof, Calls, procvars
<1>3. Text(lines) \in Seq(Bytes)
  BY TextType DEF Lines, LinesTypes
<1>4. /\ Len(Text(lines) \o Append(Front(buf), "delimiter")) = Len(Text(lines) \o (buf \o <<>>))
      /\ \A k \in 1..Len(Text(lines) \o (buf \o <<>>)) - 1 :
           (Text(lines) \o Append(Front(buf), "delimiter"))[k] = (Text(lines) \o (buf \o <<>>))[k]
      /\ Front(buf) \in Seq(Bytes)
  BY <1>2, <1>3, RestRead DEF Lines, LinesTypes
<1>5. /\ Append(lines, Front(buf)) \in Seq(Seq(Bytes))
      /\ Text(Append(lines, Front(buf))) = Text(lines) \o Append(Front(buf), "delimiter")
  BY <1>4, TextAppend DEF Lines, LinesTypes
<1>6. LinesTypes'
  <2>1. <<>> \in Seq(Bytes)
    OBVIOUS
  <2> QED BY <1>2, <1>5, <2>1 DEF Lines, LinesTypes
<1>7. RestTold'
  <2>1. Told' = Text(lines') /\ Told = Text(lines)
    BY DEF Told, Text
  <2>2. wrote' = Text(lines) \o (buf \o <<>>)
    BY <1>1, <1>2, <2>1 DEF AllTold
  <2>3. Told' = Text(lines) \o Append(Front(buf), "delimiter")
    BY <1>2, <1>5, <2>1
  <2>4. Len(Told') = Len(wrote') /\ \A k \in 1..Len(Told') - 1 : Told'[k] = wrote'[k]
    BY <1>4, <2>2, <2>3
  <2> QED BY <1>2, <2>4 DEF RestTold
<1>8. Ending'
  BY <1>2 DEF Ending
<1> QED BY <1>6, <1>7, <1>8 DEF Lines

\* The other steps of the plugin's thread.
LEMMA RunLines ==
  ASSUME Lines, (Run \/ CallBegin \/ WaitLock)
  PROVE  Lines'
<1> USE DEF procvars, callervars
<1>1. CASE Launch \/ LaunchFails \/ CleanUpLeftover \/ Publish
  <2>1. /\ UNCHANGED <<wrote, out, buf, lines>> /\ (stdout' => stdout \/ rpc = "spawn")
        /\ rpc \in {"spawn", "publish"} /\ rpc' \in {"publish", "returned", "call_begin", "read"}
        /\ (what' = what \/ what' = "hello")
    BY <1>1 DEF Launch, LaunchFails, CleanUpLeftover, Publish, Calls
  <2>2. Ending'
    BY <2>1 DEF Lines, Ending
  <2> QED BY <2>1, <2>2, LinesKept
<1>2. CASE CallBegin \/ CallEnd
  <2>1. /\ UNCHANGED <<wrote, out, buf, lines, stdout, child, what>>
        /\ rpc' \in {"cb", "pause", "read"} /\ (what = "bye" => rpc' \in {"cb", "pause"})
    BY <1>2 DEF CallBegin, CallEnd
  <2>2. Ending'
    BY <2>1 DEF Lines, Ending
  <2> QED BY <2>1, <2>2, LinesKept
<1>3. CASE Eof
  <2>1. /\ UNCHANGED <<wrote, out, buf, lines, stdout, child, what>>
        /\ rpc = "read" /\ rpc' = "wait" /\ out = <<>> /\ buf = <<>> /\ ~stdout
    BY <1>3 DEF Eof, AtEof
  <2>2. Ending'
    BY <2>1 DEF Lines, Ending
  <2> QED BY <2>1, <2>2, LinesKept
<1>4. CASE WaitLock \/ Waitpid \/ Waited
  <2>1. /\ UNCHANGED <<wrote, out, buf, lines, stdout>>
        /\ rpc \in {"wait", "waitpid", "waited"} /\ rpc' # "spawn"
        /\ rpc' = "waited" => child' = "reaped"
        /\ what' # "bye" \/ (rpc = "waited" /\ rpc' = "call_begin" /\ child' = child) \/ what' = what
    BY <1>4 DEF WaitLock, Waitpid, Waited, Calls
  <2>2. Ending'
    BY <2>1 DEF Lines, Ending
  <2> QED BY <2>1, <2>2, LinesKept
<1> QED
  BY <1>1, <1>2, <1>3, <1>4, GetCharLines, TellLineLines, TellRestLines DEF Run

LEMMA CallerLines ==
  ASSUME Lines, NEW c \in Callers, Call(c) \/ KillLock(c) \/ FetchFd(c) \/ Step(c)
  PROVE  Lines'
<1>1. UNCHANGED <<wrote, out, buf, lines, stdout, child, rpc, what>>
  BY DEF Call, CallKill, CallWrite, KillLock, FetchFd, Step, Kill, WriteSome, WriteEnds, procvars
<1>2. Ending'
  BY <1>1 DEF Lines, Ending
<1> QED BY <1>1, <1>2, LinesKept

LEMMA NextLines == Lines /\ [Next]_vars => Lines'
<1> SUFFICES ASSUME Lines, [Next]_vars PROVE Lines'
  OBVIOUS
<1>1. CASE UNCHANGED vars
  <2>1. UNCHANGED <<wrote, out, buf, lines, stdout, child, rpc, what>>
    BY <1>1 DEF vars, procvars
  <2>2. Ending'
    BY <2>1 DEF Lines, Ending
  <2> QED BY <2>1, <2>2, LinesKept
<1> QED
  BY <1>1, ProcessLines, RunLines, CallerLines DEF Next

\* cb is told what the process wrote, line by line, in order and to the end; what no delimiter
\* ends loses its last byte, as make_call_line() drops one.  "bye" comes after it all.
THEOREM LinesAreToldInOrder == Spec => []LinesInOrder
<1>1. Lines => LinesInOrder
  <2> SUFFICES ASSUME Lines PROVE LinesInOrder
    OBVIOUS
  <2>1. Told \in Seq(Bytes) /\ DOMAIN Told = 1..Len(Told) /\ Len(Told) \in Nat
    BY ToldIsText, TextType DEF Lines, LinesTypes
  <2>2. buf \in Seq(Bytes) /\ out \in Seq(Bytes) /\ wrote \in Seq(Bytes) /\ buf \o out \in Seq(Bytes)
    BY DEF Lines, LinesTypes
  <2>3. CASE AllTold
    <3>1. PICK s, t : s = Told /\ t = buf \o out
      OBVIOUS
    <3>2. s \in Seq(Bytes) /\ t \in Seq(Bytes) /\ wrote = s \o t
      BY <2>1, <2>2, <2>3, <3>1 DEF AllTold
    <3>3. Len(wrote) = Len(s) + Len(t) /\ Len(s) \in Nat /\ Len(t) \in Nat
      BY <3>2, ConcatProperties
    <3>4. ASSUME NEW k \in 1..Len(s) PROVE k <= Len(wrote) /\ s[k] = wrote[k]
      BY <3>2, <3>3
    <3>5. ASSUME what = "bye" PROVE Len(s) = Len(wrote) /\ child = "reaped"
      <4>1. t = <<>> /\ child = "reaped"
        <5>1. buf = <<>> /\ out = <<>> /\ child = "reaped"
          BY <3>5 DEF Lines, Ending
        <5> QED BY <3>1, <5>1
      <4> QED BY <3>3, <4>1
    <3> QED BY <2>1, <3>1, <3>4, <3>5 DEF LinesInOrder
  <2>4. CASE RestTold
    <3>0. PICK s, n : s = Told /\ n = Len(Told)
      OBVIOUS
    <3>a. n \in Nat /\ Len(wrote) = n /\ ~stdout /\ \A k \in 1..n - 1 : s[k] = wrote[k]
      BY <2>1, <2>4, <3>0 DEF RestTold
    <3>b. ASSUME NEW k \in 1..n
          PROVE  k <= Len(wrote) /\ (s[k] = wrote[k] \/ (k = n /\ k = Len(wrote) /\ ~stdout))
      <4>1. k = n \/ k \in 1..n - 1
        BY <3>a
      <4>2. k <= n
        BY <3>a
      <4> QED BY <3>a, <4>1, <4>2
    <3>1. \A k \in 1..Len(Told) :
            k <= Len(wrote) /\ (Told[k] = wrote[k] \/ (k = Len(Told) /\ k = Len(wrote) /\ ~stdout))
      BY <3>0, <3>b
    <3>2. what = "bye" => Len(Told) = Len(wrote) /\ child = "reaped"
      BY <2>4 DEF Lines, Ending, RestTold
    <3> QED BY <2>1, <3>1, <3>2 DEF LinesInOrder
  <2> QED BY <2>3, <2>4 DEF Lines
<1> QED
  BY <1>1, LinesInit, NextLines, PTL DEF Spec
=============================================================================
