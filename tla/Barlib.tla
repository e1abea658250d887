------------------------------- MODULE Barlib -------------------------------
(***************************************************************************)
(* The barlibs stdout, lemonbar, dwm and i3: init(), set(), set_error() and *)
(* redraw() of stdout.c, lemonbar.c, dwm.c and i3.c, step by step, called   *)
(* by the threads of luastatus.c under B.  They differ in how an element of *)
(* what a cb returned is written.  One temporary buffer serves all widgets; *)
(* a widget's buffer is replaced, and the line written, only on a change.   *)
(*                                                                         *)
(* A thread is a widget's, which sets what its cb returned or reports an   *)
(* error, or the main thread, which reports errors of any widget.  Text is *)
(* a sequence of characters; data, what a cb returned, is the sequence of  *)
(* the elements of a table: nil is the empty one, a string (a segment, for *)
(* i3) is a table of one, and a value of a wrong type is a bad element.    *)
(***************************************************************************)
EXTENDS Integers, Sequences, SequencesExt

CONSTANTS N,          \* nwidgets
          Datas,      \* what the cb's return
          Chars,      \* the characters
          NewLine,    \* the one that ends a line
          Separator,  \* p->sep; the comma, of i3
          ErrorText,  \* what set_error() shows; p->error, of stdout
          Nil, Bad    \* elements that are nil, and of a wrong type

Widgets == 1..N
Main    == 0
Threads == 0..N
Free    == -1
Empty   == <<>>

\* The elements of a table are texts, nil or of a wrong type.
ASSUME BarAssumption ==
  /\ N \in Nat
  /\ Datas \subseteq Seq({Nil, Bad} \cup Seq(Chars))
  /\ Separator \in Seq(Chars) /\ ErrorText \in Seq(Chars)

VARIABLES
  barlib,   \* which one it is
  pc,       \* [Threads -> control point]
  tgt,      \* [Threads -> widget_idx of the call]
  data,     \* [Threads -> the elements that set() has yet to append]
  i,        \* [Threads -> loop index of redraw()]
  B,        \* the thread that has locked set_mtx, or Free
  bufs,     \* p->bufs
  tmpbuf,   \* p->tmpbuf
  out,      \* what p->out holds after the last complete line
  line,     \* the last complete line
  proc,     \* the process: alive, or ended by a fatal error
  asked,    \* [Widgets -> what the last call of set() or set_error() was to show]
  drawn     \* p->bufs when the last line was completed

vars == <<barlib, pc, tgt, data, i, B, bufs, tmpbuf, out, line, proc, asked, drawn>>

-----------------------------------------------------------------------------
(* How a barlib writes an element.                                         *)

\* append_sanitized(), of stdout and of lemonbar, whose tags are the matter of BarEvents.
Sanitized(e) ==
  LET kept[k \in 0..Len(e)] ==
        IF k = 0 THEN Empty
        ELSE IF e[k] = NewLine THEN kept[k - 1] ELSE Append(kept[k - 1], e[k])
  IN kept[Len(e)]

\* append_segment(): the widget is its name, and strings are escaped.
Segment(w, e) ==
  <<"name", w>> \o [k \in DOMAIN e |-> IF e[k] = NewLine THEN "escape" ELSE e[k]] \o <<"}">>

Element(b, w, e) ==
  CASE b = "dwm" -> e
    [] b = "i3"  -> Segment(w, e)
    [] b \in {"stdout", "lemonbar"} -> Sanitized(e)

\* Whether there is anything of an element: of a string, but of every segment.
Counts(b, e) == b = "i3" \/ e # Empty

-----------------------------------------------------------------------------
(* What is promised: the display, and what each call is to show on it.     *)

\* The READMEs: the non-empty elements, joined by the separator.  joined[k] is that of the
\* first k.
Rendered(b, w, d) ==
  LET joined[k \in 0..Len(d)] ==
        IF k = 0 THEN Empty
        ELSE IF d[k] = Nil \/ ~Counts(b, d[k]) THEN joined[k - 1]
        ELSE IF joined[k - 1] = Empty THEN Element(b, w, d[k])
        ELSE joined[k - 1] \o Separator \o Element(b, w, d[k])
  IN IF Bad \in Range(d) THEN ErrorText ELSE joined[Len(d)]

Barlibs == {"stdout", "lemonbar", "dwm", "i3"}
Texts == {Rendered(b, w, d) : b \in Barlibs, w \in Widgets, d \in Datas} \cup {ErrorText}

Display == INSTANCE Bar WITH NWidgets <- N, content <- drawn

-----------------------------------------------------------------------------
(* init().  A descriptor is not given, one of the standard ones, or another. *)

BarOptions == [in_fd : {-1, 0, 3}, out_fd : {-1, 0, 3}, in_file : BOOLEAN, unknown : BOOLEAN]

\* open_input() and open_output(): of a descriptor and a file, not both are given.
OpenInput(o) == o.in_fd < 0 \/ ~o.in_file
StdoutInit(o) == o.out_fd >= 3 /\ (o.in_fd < 0 \/ o.in_fd >= 3) /\ OpenInput(o)
LemonbarInit(o) == o.in_fd >= 3 /\ o.out_fd >= 3
I3Init(o) == o.in_fd >= 3 /\ o.out_fd >= 3
\* The options of dwm are texts; it connects, and clears the name.
DwmInit(o) == TRUE

InitOk(b, o) ==
  ~o.unknown /\ CASE b = "stdout" -> StdoutInit(o) [] b = "lemonbar" -> LemonbarInit(o)
                   [] b = "i3" -> I3Init(o) [] b = "dwm" -> DwmInit(o)

\* The process ends when init() fails, for its options or because it cannot open something.
BarStart(b, p) ==
  /\ barlib = b
  /\ pc = [t \in Threads |-> "idle"]
  /\ tgt = [t \in Threads |-> t]
  /\ data = [t \in Threads |-> Empty]
  /\ i = [t \in Threads |-> 1]
  /\ B = Free
  /\ bufs = [w \in Widgets |-> Empty] /\ tmpbuf = Empty
  /\ out = Empty /\ line = Empty /\ proc = p
  /\ asked = [w \in Widgets |-> Empty]
  /\ drawn = [w \in Widgets |-> Empty]

Init == \E b \in Barlibs, o \in BarOptions, opens \in BOOLEAN :
          BarStart(b, IF InitOk(b, o) /\ opens THEN "alive" ELSE "fatal")

\* There is no bar.
BarOff == BarStart("stdout", "fatal")

Goto(t, l) == pc' = [pc EXCEPT ![t] = l]
At(t, l) == proc = "alive" /\ pc[t] = l

\* The cb of a widget returned d.
CallSet(t, d) ==
  /\ At(t, "idle") /\ t # Main
  /\ Goto(t, "lock_set")
  /\ data' = [data EXCEPT ![t] = d]
  /\ UNCHANGED <<barlib, tgt, i, B, bufs, tmpbuf, out, line, proc, asked, drawn>>

\* A cb, run() or event handler of w failed.
CallSetError(t, w) ==
  /\ At(t, "idle") /\ t \in {Main, w}
  /\ Goto(t, "lock_error")
  /\ tgt' = [tgt EXCEPT ![t] = w]
  /\ UNCHANGED <<barlib, data, i, B, bufs, tmpbuf, out, line, proc, asked, drawn>>

\* Mutant: LOCK_B() is left out.
LockBNoWait(t) ==
  /\ pc[t] \in {"lock_set", "lock_error"} /\ proc = "alive"
  /\ B' = t
  /\ \/ /\ pc[t] = "lock_set" /\ Goto(t, "append")
        /\ tmpbuf' = Empty
        /\ asked' = [asked EXCEPT ![tgt[t]] = Rendered(barlib, tgt[t], data[t])]
     \/ /\ pc[t] = "lock_error" /\ Goto(t, "set_error")
        /\ asked' = [asked EXCEPT ![tgt[t]] = ErrorText]
        /\ UNCHANGED tmpbuf
  /\ UNCHANGED <<barlib, tgt, data, i, bufs, out, line, proc, drawn>>

\* LOCK_B(), and, in set(), the clearing of the temporary buffer.
LockB(t) ==
  /\ pc[t] \in {"lock_set", "lock_error"} /\ proc = "alive"
  /\ B = Free
  /\ B' = t
  /\ \/ /\ pc[t] = "lock_set" /\ Goto(t, "append")
        /\ tmpbuf' = Empty
        /\ asked' = [asked EXCEPT ![tgt[t]] = Rendered(barlib, tgt[t], data[t])]
     \/ /\ pc[t] = "lock_error" /\ Goto(t, "set_error")
        /\ asked' = [asked EXCEPT ![tgt[t]] = ErrorText]
        /\ UNCHANGED tmpbuf
  /\ UNCHANGED <<barlib, tgt, data, i, bufs, out, line, proc, drawn>>

\* set(): one element is appended, after the separator if it is not the first.
Append1(t) ==
  /\ At(t, "append") /\ data[t] # Empty /\ Head(data[t]) # Bad
  /\ LET e == Head(data[t]) IN
       tmpbuf' = IF e = Nil THEN tmpbuf
                 ELSE IF tmpbuf # Empty /\ Counts(barlib, e)
                 THEN tmpbuf \o Separator \o Element(barlib, tgt[t], e)
                 ELSE tmpbuf \o Element(barlib, tgt[t], e)
  /\ data' = [data EXCEPT ![t] = Tail(@)]
  /\ UNCHANGED <<barlib, pc, tgt, i, B, bufs, out, line, proc, asked, drawn>>

\* Mutant: the caller does not go on to set_error_unlocked().
InvalidDataReturns(t) ==
  /\ At(t, "append") /\ data[t] # Empty /\ Head(data[t]) = Bad
  /\ bufs' = [bufs EXCEPT ![tgt[t]] = Empty]
  /\ data' = [data EXCEPT ![t] = Empty]
  /\ Goto(t, "unlock")
  /\ UNCHANGED <<barlib, tgt, i, B, tmpbuf, out, line, proc, asked, drawn>>

\* set() at invalid_data: the buffer is cleared, nothing is drawn, and the caller goes
\* on to set_error_unlocked().  Half of a bad segment may be in the temporary buffer.
InvalidData(t) ==
  /\ At(t, "append") /\ data[t] # Empty /\ Head(data[t]) = Bad
  /\ bufs' = [bufs EXCEPT ![tgt[t]] = Empty]
  /\ data' = [data EXCEPT ![t] = Empty]
  /\ Goto(t, "set_error")
  /\ tmpbuf' \in {tmpbuf} \cup (IF barlib = "i3" THEN {tmpbuf \o <<"name", tgt[t]>>} ELSE {})
  /\ UNCHANGED <<barlib, tgt, i, B, out, line, proc, asked, drawn>>

\* set(): the buffers are swapped and the line is drawn if there is a change.
Compare(t) ==
  /\ At(t, "append") /\ data[t] = Empty
  /\ IF tmpbuf = bufs[tgt[t]]
     THEN Goto(t, "unlock") /\ UNCHANGED <<bufs, tmpbuf, i>>
     ELSE /\ tmpbuf' = bufs[tgt[t]]
          /\ bufs' = [bufs EXCEPT ![tgt[t]] = tmpbuf]
          /\ i' = [i EXCEPT ![t] = 1]
          /\ Goto(t, "redraw")
  /\ UNCHANGED <<barlib, tgt, data, B, out, line, proc, asked, drawn>>

SetError(t) ==
  /\ At(t, "set_error")
  /\ bufs' = [bufs EXCEPT ![tgt[t]] = ErrorText]
  /\ i' = [i EXCEPT ![t] = 1]
  /\ Goto(t, "redraw")
  /\ UNCHANGED <<barlib, tgt, data, B, tmpbuf, out, line, proc, asked, drawn>>

\* redraw(): one round of the loop; "first" is that nothing was written yet.
RedrawOne(t) ==
  /\ At(t, "redraw") /\ i[t] \in Widgets
  /\ out' = IF bufs[i[t]] = Empty THEN out
            ELSE IF out = Empty THEN bufs[i[t]]
            ELSE out \o Separator \o bufs[i[t]]
  /\ i' = [i EXCEPT ![t] = @ + 1]
  /\ UNCHANGED <<barlib, pc, tgt, data, B, bufs, tmpbuf, line, proc, asked, drawn>>

Shows(t) ==
  /\ At(t, "redraw") /\ i[t] \notin Widgets
  /\ line' = out /\ out' = Empty
  /\ drawn' = bufs
  /\ Goto(t, "unlock")
  /\ UNCHANGED <<barlib, tgt, data, i, B, bufs, tmpbuf, proc, asked>>

\* redraw(): the line is ended and flushed,
RedrawEnds(t) == barlib # "dwm" /\ Shows(t)
\* or, with dwm, what was joined becomes the name of the root window.
ChangeName(t) == barlib = "dwm" /\ Shows(t)

\* A write error is a fatal error of the barlib: the process ends.
RedrawFails(t) ==
  /\ At(t, "redraw") /\ i[t] \notin Widgets
  /\ proc' = "fatal"
  /\ UNCHANGED <<barlib, pc, tgt, data, i, B, bufs, tmpbuf, out, line, asked, drawn>>

UnlockB(t) ==
  /\ At(t, "unlock")
  /\ B' = Free
  /\ Goto(t, "idle")
  /\ UNCHANGED <<barlib, tgt, data, i, bufs, tmpbuf, out, line, proc, asked, drawn>>

Ended == proc = "fatal" /\ UNCHANGED vars

Step(t) ==
  \/ \E d \in Datas : CallSet(t, d)
  \/ \E w \in Widgets : CallSetError(t, w)
  \/ LockB(t) \/ Append1(t) \/ InvalidData(t) \/ Compare(t) \/ SetError(t)
  \/ RedrawOne(t) \/ RedrawEnds(t) \/ ChangeName(t) \/ RedrawFails(t) \/ UnlockB(t)

Next == (\E t \in Threads : Step(t)) \/ Ended
Spec == Init /\ [][Next]_vars

-----------------------------------------------------------------------------
\* The step-by-step barlib implements the display: the line is always the join of whole
\* contents of the widgets, of the same moment, without a line break in them (but dwm's), and a
\* new line differs from the one before it in one widget.
IsBar == Display!DSpec

\* When no call is under way the bar shows of each widget what its last call was to
\* show, although set() skips what it takes for unchanged, compares with a buffer that
\* invalid data has cleared without drawing, and builds all texts in one buffer.
UpToDate == proc = "alive" /\ B = Free => drawn = asked
=============================================================================
