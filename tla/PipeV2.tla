------------------------------- MODULE PipeV2 -------------------------------
(***************************************************************************)
(* The pipev2 plugin: its thread spawns a process, reads its stdout to the *)
(* end, waits for the process and then hangs; cb and the event handler     *)
(* call kill() and write_to_stdin().  The process and its descendants do   *)
(* what they like: write, read, close stdin or stdout, exit.               *)
(***************************************************************************)
EXTENDS Integers, Sequences, SequencesExt

CONSTANTS Greet, Bye, PipeStdin, \* the options of those names
          OnL,                   \* whether the event handler runs on the widget's L
          MaxWrote,              \* bound: what the process writes
          MaxData,               \* bound: what one write_to_stdin() is given
          Capacity,              \* bound: what a pipe holds
          None                   \* no holder of a mutex, no answer

ASSUME PipeV2Assumption ==
  /\ {Greet, Bye, PipeStdin, OnL} \subseteq BOOLEAN
  /\ MaxWrote \in Nat /\ MaxData \in Nat \ {0} /\ Capacity \in Nat \ {0}
  /\ None \notin {"cb", "ev", "run", "not_created"}

Callers == {"cb", "ev"}
Bytes   == {"char", "delimiter"}

VARIABLES child,          \* the process: "none", "running", "zombie" or "reaped"
          stdout, stdin,  \* whether the process has its ends open
          out,            \* bytes in the stdout pipe
          wrote,          \* all the bytes it wrote
          inp,            \* number of bytes in the stdin pipe
          child_pid,      \* p->child_pid
          child_stdin_fd, \* whether p->child_stdin_fd was set
          child_mtx, L,   \* holders of the mutexes
          rpc,            \* control point of run()
          what,           \* the call run() makes
          buf,            \* what getdelim() has of the next line
          lines,          \* the lines cb was called with
          cpc,            \* [Callers -> control point of the function called]
          left,           \* [Callers -> bytes utils_full_write() has yet to write]
          answer          \* [Callers -> what the last function returned]

procvars   == <<child, stdout, stdin, out, wrote, inp>>
callervars == <<cpc, left, answer>>
vars == <<procvars, child_pid, child_stdin_fd, child_mtx, L, rpc, what, buf, lines, callervars>>

Init ==
  /\ child = "none" /\ stdout = FALSE /\ stdin = FALSE
  /\ out = <<>> /\ wrote = <<>> /\ inp = 0
  /\ child_pid = "not_spawned_yet" /\ child_stdin_fd = FALSE
  /\ child_mtx = None /\ L = None
  /\ rpc = "spawn" /\ what = "none" /\ buf = <<>> /\ lines = <<>>
  /\ cpc = [c \in Callers |-> "idle"]
  /\ left = [c \in Callers |-> 0] /\ answer = [c \in Callers |-> None]
-----------------------------------------------------------------------------
Write(b) ==
  /\ stdout /\ Len(out) < Capacity /\ Len(wrote) < MaxWrote
  /\ out' = Append(out, b) /\ wrote' = Append(wrote, b)
  /\ UNCHANGED <<child, stdout, stdin, inp>>
Read        == stdin /\ inp > 0 /\ inp' = inp - 1 /\ UNCHANGED <<child, stdout, stdin, out, wrote>>
CloseStdout == stdout /\ stdout' = FALSE /\ UNCHANGED <<child, stdin, out, wrote, inp>>
CloseStdin  == stdin /\ stdin' = FALSE /\ UNCHANGED <<child, stdout, out, wrote, inp>>
Exit        == child = "running" /\ child' = "zombie" /\ UNCHANGED <<stdout, stdin, out, wrote, inp>>

Process ==
  /\ Read \/ CloseStdout \/ CloseStdin \/ Exit \/ \E b \in Bytes : Write(b)
  /\ UNCHANGED <<child_pid, child_stdin_fd, child_mtx, L, rpc, what, buf, lines, callervars>>
-----------------------------------------------------------------------------
\* launch()
Launch ==
  /\ rpc = "spawn"
  /\ child' = "running" /\ stdout' = TRUE /\ stdin' = PipeStdin
  /\ rpc' = "publish"
  /\ UNCHANGED <<out, wrote, inp, child_pid, child_stdin_fd, child_mtx, L, what, buf, lines,
                 callervars>>

LaunchFails ==
  /\ rpc = "spawn"
  /\ rpc' = "returned"
  /\ UNCHANGED <<procvars, child_pid, child_stdin_fd, child_mtx, L, what, buf, lines, callervars>>

\* fdopen() fails: do_cleanup_leftover() kills the process, waits for it and closes the pipes.
CleanUpLeftover ==
  /\ rpc = "publish"
  /\ child' = "reaped"
  /\ rpc' = "returned"
  /\ UNCHANGED <<stdout, stdin, out, wrote, inp, child_pid, child_stdin_fd, child_mtx, L, what, buf,
                 lines, callervars>>

\* make_call_simple() and make_call_line() up to call_begin().
Calls(w) == what' = w /\ rpc' = "call_begin"

\* The end of do_spawn(), under child_mtx; then the greeting.
Publish ==
  /\ rpc = "publish" /\ child_mtx = None
  /\ child_stdin_fd' = PipeStdin /\ child_pid' = "child"
  /\ IF Greet THEN Calls("hello") ELSE rpc' = "read" /\ UNCHANGED what
  /\ UNCHANGED <<procvars, child_mtx, L, buf, lines, callervars>>

CallBegin ==
  /\ rpc = "call_begin" /\ L = None
  /\ L' = "run" /\ rpc' = "cb"
  /\ UNCHANGED <<procvars, child_pid, child_stdin_fd, child_mtx, what, buf, lines, callervars>>

\* cb returns, and call_end() gives L back.
CallEnd ==
  /\ rpc = "cb" /\ cpc["cb"] = "idle"
  /\ L' = None
  /\ rpc' = IF what = "bye" THEN "pause" ELSE "read"
  /\ UNCHANGED <<procvars, child_pid, child_stdin_fd, child_mtx, what, buf, lines, callervars>>

\* getdelim() goes on to the next delimiter.
GetChar ==
  /\ rpc = "read" /\ out # <<>> /\ Head(out) = "char"
  /\ buf' = Append(buf, Head(out)) /\ out' = Tail(out)
  /\ UNCHANGED <<child, stdout, stdin, wrote, inp, child_pid, child_stdin_fd, child_mtx, L, rpc,
                 what, lines, callervars>>

\* Mutant: the buffer is not overwritten by the next line.
TellLineKeepsBuf ==
  /\ rpc = "read" /\ out # <<>> /\ Head(out) = "delimiter"
  /\ lines' = Append(lines, buf) /\ UNCHANGED buf /\ out' = Tail(out)
  /\ Calls("line")
  /\ UNCHANGED <<child, stdout, stdin, wrote, inp, child_pid, child_stdin_fd, child_mtx, L,
                 callervars>>

\* make_call_line(buf, r - 1) drops the last byte of what getdelim() returned: the delimiter,
TellLine ==
  /\ rpc = "read" /\ out # <<>> /\ Head(out) = "delimiter"
  /\ lines' = Append(lines, buf) /\ buf' = <<>> /\ out' = Tail(out)
  /\ Calls("line")
  /\ UNCHANGED <<child, stdout, stdin, wrote, inp, child_pid, child_stdin_fd, child_mtx, L,
                 callervars>>

AtEof == rpc = "read" /\ out = <<>> /\ ~stdout

\* or, at the end of the file, the last byte of the line.
TellRest ==
  /\ AtEof /\ buf # <<>>
  /\ lines' = Append(lines, Front(buf)) /\ buf' = <<>>
  /\ Calls("line")
  /\ UNCHANGED <<procvars, child_pid, child_stdin_fd, child_mtx, L, callervars>>

Eof ==
  /\ AtEof /\ buf = <<>>
  /\ rpc' = "wait"
  /\ UNCHANGED <<procvars, child_pid, child_stdin_fd, child_mtx, L, what, buf, lines, callervars>>

\* Mutant: do_wait() does not lock child_mtx.
WaitUnlocked ==
  /\ rpc = "wait" /\ child_mtx = None
  /\ rpc' = "waitpid"
  /\ UNCHANGED <<procvars, child_mtx, child_pid, child_stdin_fd, L, what, buf, lines, callervars>>

\* do_wait(): child_mtx is held all through waitpid().
WaitLock ==
  /\ rpc = "wait" /\ child_mtx = None
  /\ child_mtx' = "run" /\ rpc' = "waitpid"
  /\ UNCHANGED <<procvars, child_pid, child_stdin_fd, L, what, buf, lines, callervars>>

Waitpid ==
  /\ rpc = "waitpid" /\ child = "zombie"
  /\ child' = "reaped" /\ rpc' = "waited"
  /\ UNCHANGED <<stdout, stdin, out, wrote, inp, child_pid, child_stdin_fd, child_mtx, L, what, buf,
                 lines, callervars>>

\* Mutant: do_wait() returns without the unlock.
WaitedKeepsMtx ==
  /\ rpc = "waited"
  /\ child_pid' = "already_terminated" /\ UNCHANGED child_mtx
  /\ IF Bye THEN Calls("bye") ELSE rpc' = "returned" /\ UNCHANGED what
  /\ UNCHANGED <<procvars, child_stdin_fd, L, buf, lines, callervars>>

\* The end of do_wait(), and of run() unless it says "bye" first.
Waited ==
  /\ rpc = "waited"
  /\ child_pid' = "already_terminated" /\ child_mtx' = None
  /\ IF Bye THEN Calls("bye") ELSE rpc' = "returned" /\ UNCHANGED what
  /\ UNCHANGED <<procvars, child_stdin_fd, L, buf, lines, callervars>>

Run ==
  \/ Publish \/ CallEnd \/ GetChar \/ TellLine \/ TellRest \/ Eof \/ Waitpid \/ Waited
  \/ Launch \/ LaunchFails \/ CleanUpLeftover
-----------------------------------------------------------------------------
\* Lua code calls a function: cb while it runs, the event handler at any time, on L or E.
MayCall(c) ==
  /\ cpc[c] = "idle"
  /\ IF c = "cb" THEN rpc = "cb" /\ UNCHANGED L
                 ELSE IF OnL THEN L = None /\ L' = "ev" ELSE UNCHANGED L

CallKill(c) ==
  /\ MayCall(c)
  /\ cpc' = [cpc EXCEPT ![c] = "kill"] /\ answer' = [answer EXCEPT ![c] = None]
  /\ UNCHANGED <<procvars, child_pid, child_stdin_fd, child_mtx, rpc, what, buf, lines, left>>

CallWrite(c, n) ==
  /\ PipeStdin /\ MayCall(c)
  /\ cpc' = [cpc EXCEPT ![c] = "write"] /\ answer' = [answer EXCEPT ![c] = None]
  /\ left' = [left EXCEPT ![c] = n]
  /\ UNCHANGED <<procvars, child_pid, child_stdin_fd, child_mtx, rpc, what, buf, lines>>

\* The function returns; the handler ends.
Returns(c, a) ==
  /\ cpc' = [cpc EXCEPT ![c] = "idle"] /\ answer' = [answer EXCEPT ![c] = a]
  /\ left' = [left EXCEPT ![c] = 0]
  /\ L' = IF c = "ev" /\ OnL THEN None ELSE L

\* l_kill()
KillLock(c) ==
  /\ cpc[c] = "kill" /\ child_mtx = None
  /\ child_mtx' = c /\ cpc' = [cpc EXCEPT ![c] = "killing"]
  /\ UNCHANGED <<procvars, child_pid, child_stdin_fd, L, rpc, what, buf, lines, left, answer>>

\* kill(2), if there is a pid, and the unlock.
Kill(c) ==
  /\ cpc[c] = "killing"
  /\ child_mtx' = None
  /\ Returns(c, CASE child_pid = "not_spawned_yet" -> "not_created"
                  [] child_pid = "child" -> "true"
                  [] child_pid = "already_terminated" -> "false")
  /\ UNCHANGED <<procvars, child_pid, child_stdin_fd, rpc, what, buf, lines>>

\* l_write_to_stdin() looks at the descriptor under child_mtx and writes without it.
FetchFd(c) ==
  /\ cpc[c] = "write" /\ child_mtx = None
  /\ IF child_stdin_fd
     THEN cpc' = [cpc EXCEPT ![c] = "writing"] /\ UNCHANGED <<L, left, answer>>
     ELSE Returns(c, "not_created")
  /\ UNCHANGED <<procvars, child_pid, child_stdin_fd, child_mtx, rpc, what, buf, lines>>

\* utils_full_write(): write(2) blocks while the pipe is full, and fails without a reader.
WriteSome(c) ==
  /\ cpc[c] = "writing" /\ left[c] > 0 /\ stdin /\ inp < Capacity
  /\ inp' = inp + 1 /\ left' = [left EXCEPT ![c] = @ - 1]
  /\ UNCHANGED <<child, stdout, stdin, out, wrote, child_pid, child_stdin_fd, child_mtx, L, rpc,
                 what, buf, lines, cpc, answer>>

WriteEnds(c) ==
  /\ cpc[c] = "writing"
  /\ \/ left[c] = 0 /\ Returns(c, "true")
     \/ left[c] > 0 /\ ~stdin /\ Returns(c, "false")
  /\ UNCHANGED <<procvars, child_pid, child_stdin_fd, child_mtx, rpc, what, buf, lines>>

Call(c) == CallKill(c) \/ \E n \in 1..MaxData : CallWrite(c, n)
Step(c) == Kill(c) \/ WriteSome(c) \/ WriteEnds(c)
-----------------------------------------------------------------------------
Next ==
  \/ Process \/ Run \/ CallBegin \/ WaitLock
  \/ \E c \in Callers : Call(c) \/ KillLock(c) \/ FetchFd(c) \/ Step(c)
Spec == Init /\ [][Next]_vars
\* Threads run, cb returns and mutexes are granted; the process owes nothing.
FairSpec ==
  /\ Spec
  /\ WF_vars(Run) /\ SF_vars(CallBegin) /\ SF_vars(WaitLock) /\ SF_vars(CallEnd)
  /\ \A c \in Callers : SF_vars(KillLock(c)) /\ SF_vars(FetchFd(c)) /\ WF_vars(Step(c))
-----------------------------------------------------------------------------
TypeOK ==
  /\ child \in {"none", "running", "zombie", "reaped"}
  /\ {stdout, stdin, child_stdin_fd} \subseteq BOOLEAN
  /\ out \in BoundedSeq(Bytes, Capacity) /\ wrote \in BoundedSeq(Bytes, MaxWrote)
  /\ inp \in 0..Capacity
  /\ child_pid \in {"not_spawned_yet", "child", "already_terminated"}
  /\ child_mtx \in Callers \cup {"run", None} /\ L \in {"run", "ev", None}
  /\ rpc \in {"spawn", "publish", "call_begin", "cb", "read", "wait", "waitpid", "waited", "pause",
              "returned"}
  /\ what \in {"none", "hello", "line", "bye"}
  /\ buf \in BoundedSeq({"char"}, MaxWrote)
  /\ \A k \in DOMAIN lines : lines[k] \in BoundedSeq({"char"}, MaxWrote)
  /\ cpc \in [Callers -> {"idle", "kill", "killing", "write", "writing"}]
  /\ left \in [Callers -> 0..MaxData]
  /\ answer \in [Callers -> {"true", "false", "not_created", None}]

\* kill() signals the process that was spawned and never one that got its number later:
\* while a caller has child_mtx and a pid to signal, the process has not been reaped.
SignalsOwnChild ==
  \A c \in Callers : cpc[c] = "killing" /\ child_pid = "child" => child \in {"running", "zombie"}

\* The README's Notes: only event handlers can find that there is no process yet.
CbFindsChild == answer["cb"] # "not_created"

Told == FlattenSeq([k \in DOMAIN lines |-> Append(lines[k], "delimiter")])

\* cb is told the lines in order, none lost, split or repeated, the end without a delimiter
\* excepted; and "bye" comes after all of them, when the process has died.
LinesInOrder ==
  /\ \A k \in DOMAIN Told :
       k <= Len(wrote) /\ (Told[k] = wrote[k] \/ (k = Len(Told) /\ k = Len(wrote) /\ ~stdout))
  /\ what = "bye" => Len(Told) = Len(wrote) /\ child = "reaped"

\* While do_wait() waits for a process that closed its stdout, and lives, it keeps child_mtx.
WaitsForTheLiving == rpc = "waitpid" /\ child = "running"

\* A call of kill() returns, unless do_wait() keeps it.
KillReturns == \A c \in Callers : cpc[c] = "kill" ~> cpc[c] = "idle" \/ WaitsForTheLiving

\* kill() sends a signal to the process, or returns false: it does not wait for it to end.
KillIsSent == \A c \in Callers : cpc[c] = "kill" ~> cpc[c] = "idle"
=============================================================================
