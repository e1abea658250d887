---------------------------- MODULE CommRegister ----------------------------
(***************************************************************************)
(* What luastatus.communicate() promises the Lua code of a widget: an      *)
(* atomic shared string with read, read_and_clear, write and cas.  Each    *)
(* call takes effect in one step between its invocation and its return.    *)
(***************************************************************************)
EXTENDS Sequences

CONSTANTS Users,    \* the Lua interpreters that share the string
          Values,   \* the strings they write
          Nothing,  \* no result yet
          Swapped, NotSwapped  \* the answers of cas

Empty   == <<>>
Strings == Values \cup {Empty}
Ops ==
  [action : {"read"}] \cup [action : {"read_and_clear"}]
    \cup [action : {"write"}, new : Strings]
    \cup [action : {"cas"}, old : Strings, new : Strings]

VARIABLES val,     \* the shared string
          phase,   \* [Users -> idle | called | done]
          req,     \* [Users -> the call in progress, or Nothing]
          ans      \* [Users -> its result, or Nothing]

rvars == <<val, phase, req, ans>>

RInit ==
  /\ val = Empty
  /\ phase = [u \in Users |-> "idle"]
  /\ req = [u \in Users |-> Nothing]
  /\ ans = [u \in Users |-> Nothing]

Invoke(u, op) ==
  /\ phase[u] = "idle"
  /\ phase' = [phase EXCEPT ![u] = "called"]
  /\ req' = [req EXCEPT ![u] = op]
  /\ UNCHANGED <<val, ans>>

\* The call takes effect: it answers a and leaves v in the string.
Answer(u, v, a) ==
  /\ phase[u] = "called"
  /\ phase' = [phase EXCEPT ![u] = "done"]
  /\ val' = v
  /\ ans' = [ans EXCEPT ![u] = a]
  /\ UNCHANGED req

Effect(u) ==
  \/ phase[u] = "called" /\ req[u].action = "read" /\ Answer(u, val, val)
  \/ phase[u] = "called" /\ req[u].action = "read_and_clear" /\ Answer(u, Empty, val)
  \/ phase[u] = "called" /\ req[u].action = "write" /\ Answer(u, req[u].new, Nothing)
  \/ phase[u] = "called" /\ req[u].action = "cas" /\ val = req[u].old
       /\ Answer(u, req[u].new, Swapped)
  \/ phase[u] = "called" /\ req[u].action = "cas" /\ val # req[u].old
       /\ Answer(u, val, NotSwapped)

Return(u) ==
  /\ phase[u] = "done"
  /\ phase' = [phase EXCEPT ![u] = "idle"]
  /\ req' = [req EXCEPT ![u] = Nothing]
  /\ ans' = [ans EXCEPT ![u] = Nothing]
  /\ UNCHANGED val

RNext == \E u \in Users : (\E op \in Ops : Invoke(u, op)) \/ Effect(u) \/ Return(u)
RSpec == RInit /\ [][RNext]_rvars
=============================================================================
