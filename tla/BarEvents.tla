----------------------------- MODULE BarEvents -----------------------------
(***************************************************************************)
(* The event watchers of the barlibs: i3 (event_watcher.c), which reads a  *)
(* stream of JSON tokens and tells each click to the widget its "name" is  *)
(* the number of; lemonbar, which marks the commands of a widget's tags    *)
(* with its number (markup_utils.c) and reads them back when the bar       *)
(* prints them; and stdout, which tells a line to every widget in turn.    *)
(***************************************************************************)
EXTENDS Integers, FiniteSets, Sequences, SequencesExt

CONSTANTS BeWidgets,    \* nwidgets
          BeDepthLimit, \* DEPTH_LIMIT of the i3 barlib
          BeMaxTokens,  \* bound: tokens of the stream, and lines
          BeMaxText     \* bound: the length of a widget's markup

ASSUME BeAssumption ==
  BeWidgets \in 1..3 /\ {BeDepthLimit, BeMaxTokens, BeMaxText} \subseteq Nat

VARIABLES
  be,     \* the event watcher: barlib, pc and, of i3, Context: depth, named
          \* (last_key_is_name), tokens, widget (of stdout, the next to tell)
  beIn,   \* what it reads: count, open (containers of the stream and, in a map, what is
          \* next), event (tokens of this click), clicks (the complete ones)
  beBar,  \* of lemonbar: what a widget drew: by, raw, escaped, text
  beTold  \* the calls made: [widget, what]

bevars == <<be, beIn, beBar, beTold>>

BeStart(barlib, pc) ==
  /\ be = [barlib |-> barlib, pc |-> pc, depth |-> -1, named |-> FALSE, tokens |-> <<>>, widget |-> -1]
  /\ beIn = [count |-> 0, open |-> <<>>, event |-> <<>>, clicks |-> <<>>]
  /\ beBar = [by |-> -1, raw |-> <<>>, escaped |-> FALSE, text |-> <<>>]
  /\ beTold = <<>>

\* i3 without click events, and stdout without an input, return at once.
BeInit == \E barlib \in {"i3", "lemonbar", "stdout"} :
            BeStart(barlib, "run") \/ (barlib # "lemonbar" /\ BeStart(barlib, "returned"))
BeOff  == BeStart("none", "returned")

BeTargets == 0..BeWidgets - 1
BeRuns(barlib) == be.barlib = barlib /\ be.pc = "run"

\* The stream ends, or read() fails.
InputEnds ==
  /\ be.pc = "run"
  /\ be' = [be EXCEPT !.pc = "returned"]
  /\ UNCHANGED <<beIn, beBar, beTold>>
-----------------------------------------------------------------------------
(* i3.  A token is a bracket, a key, a string or another scalar.           *)

Token(type, value) == [type |-> type, value |-> value]
Opening == {"array_start", "map_start"}
Closing == {"array_end", "map_end"}

\* ls_full_strtou_b(): the number that a string is all of.
Strings == {"0", "1", "2", "junk"}
FullStrtou(s) == CASE s = "0" -> 0 [] s = "1" -> 1 [] s = "2" -> 2 [] OTHER -> -1

\* push_object(): the index past the last token of the object that starts with the first; 0
\* is where an assertion fails, or what is not a token is read.
PushObject(tokens) ==
  LET after[at \in (0..Len(tokens) + 1) \X {"value", "array", "map"}] ==
        LET i == at[1]
            type == tokens[i].type
            ends == {<<"array", "array_end">>, <<"map", "map_end">>}
        IN IF i \notin DOMAIN tokens THEN 0
           ELSE IF at[2] = "value"
           THEN CASE type = "array_start" -> after[<<i + 1, "array">>]
                  [] type = "map_start"   -> after[<<i + 1, "map">>]
                  [] type \in {"string", "scalar"} -> i + 1
                  [] OTHER -> 0
           ELSE IF <<at[2], type>> \in ends THEN i + 1
           ELSE IF at[2] = "array" THEN after[<<after[<<i, "value">>], "array">>]
           ELSE IF type = "key" THEN after[<<after[<<i + 1, "value">>], "map">>]
           ELSE 0
  IN after[<<1, "value">>]

\* Mutant: the widget is not reset, and the next click without a name is its.
FlushKeepsWidget(ctx) ==
  LET known == ctx.widget \in BeTargets IN
  /\ be' = [ctx EXCEPT !.named = FALSE, !.tokens = <<>>,
                       !.pc = IF known => PushObject(ctx.tokens) = Len(ctx.tokens) + 1
                              THEN "run" ELSE "aborted"]
  /\ beTold' = IF known THEN Append(beTold, [widget |-> ctx.widget, what |-> ctx.tokens]) ELSE beTold

\* flush(): the call, if the widget is known, and the context is reset.  It asserts that
\* push_object() took all the tokens.
Flush(ctx) ==
  LET known == ctx.widget \in BeTargets IN
  /\ be' = [ctx EXCEPT !.named = FALSE, !.tokens = <<>>, !.widget = -1,
                       !.pc = IF known => PushObject(ctx.tokens) = Len(ctx.tokens) + 1
                              THEN "run" ELSE "aborted"]
  /\ beTold' = IF known THEN Append(beTold, [widget |-> ctx.widget, what |-> ctx.tokens]) ELSE beTold

\* token_helper(): a stream that is not an array of maps, or is too deep, is refused.
TokenHelper(ctx, token) ==
  LET step == IF token.type \in Opening THEN 1 ELSE IF token.type \in Closing THEN -1 ELSE 0
      next == [ctx EXCEPT !.tokens = Append(@, token), !.depth = @ + step]
      refused == \/ ctx.depth = -1 /\ token.type # "array_start"
                 \/ ctx.depth = 0 /\ token.type # "map_start"
                 \/ ctx.depth >= 0 /\ step = 1 /\ next.depth >= BeDepthLimit
  IN \/ refused /\ be' = [ctx EXCEPT !.pc = "returned"] /\ UNCHANGED beTold
     \/ ~refused /\ ctx.depth = -1 /\ be' = [ctx EXCEPT !.depth = 0] /\ UNCHANGED beTold
     \/ ~refused /\ ctx.depth >= 0 /\ step = -1 /\ next.depth = 0 /\ Flush(next)
     \/ ~refused /\ ctx.depth >= 0 /\ ~(step = -1 /\ next.depth = 0) /\ be' = next /\ UNCHANGED beTold

\* callback_string()
CallbackString(s) ==
  TokenHelper([be EXCEPT !.widget = IF be.depth = 1 /\ be.named THEN FullStrtou(s) ELSE @],
              Token("string", s))

\* callback_map_key()
CallbackMapKey(s) ==
  TokenHelper([be EXCEPT !.named = IF be.depth = 1 THEN s = "name" ELSE @], Token("key", s))

\* yajl lets only what is JSON through: here, which tokens may be next, and what is open then.
AfterValue(open) ==
  IF open # <<>> /\ Last(open) = "map_value" THEN Front(open) \o <<"map_key">> ELSE open

ValueNext == IF beIn.open = <<>> THEN beIn.count = 0 ELSE Last(beIn.open) \in {"array", "map_value"}

\* The rest of the tokens have callbacks that do nothing else.
Parse(token, open) ==
  /\ BeRuns("i3") /\ beIn.count < BeMaxTokens
  /\ CASE token.type = "string" -> CallbackString(token.value)
       [] token.type = "key"    -> CallbackMapKey(token.value)
       [] OTHER                 -> TokenHelper(be, token)
  /\ LET event == IF beIn.open = <<>> THEN <<>> ELSE Append(beIn.event, token)
         whole == Len(beIn.open) = 2 /\ Len(open) = 1
     IN beIn' = [count |-> beIn.count + 1, open |-> open,
                 event |-> IF whole THEN <<>> ELSE event,
                 clicks |-> IF whole THEN Append(beIn.clicks, event) ELSE beIn.clicks]
  /\ UNCHANGED beBar

ParseOpen ==
  /\ ValueNext
  /\ \/ Parse(Token("array_start", "none"), Append(AfterValue(beIn.open), "array"))
     \/ Parse(Token("map_start", "none"), Append(AfterValue(beIn.open), "map_key"))

ParseScalar ==
  /\ ValueNext
  /\ \/ Parse(Token("scalar", "none"), AfterValue(beIn.open))
     \/ \E s \in Strings : Parse(Token("string", s), AfterValue(beIn.open))

ParseKey ==
  /\ beIn.open # <<>> /\ Last(beIn.open) = "map_key"
  /\ \E s \in {"name", "other"} : Parse(Token("key", s), Front(beIn.open) \o <<"map_value">>)

ParseClose ==
  /\ beIn.open # <<>>
  /\ \/ Last(beIn.open) = "array" /\ Parse(Token("array_end", "none"), Front(beIn.open))
     \/ Last(beIn.open) = "map_key" /\ Parse(Token("map_end", "none"), Front(beIn.open))
-----------------------------------------------------------------------------
(* lemonbar.  Markup is made of these units: "%", the "{A" and the "}" of a tag, ":", *)
(* a newline, and any other text, here one that looks like a mark of widget 1.       *)

Units == {"%", "open_A", "close", ":", "newline", "1_"}
Mark(w) == <<"0_", "1_", "2_">>[w + 1]

\* escape()
Escape(v) == FoldLeft(LAMBDA out, u : out \o IF u = "%" THEN <<"%", "%">> ELSE <<u>>, <<>>, v)

\* One step of append_sanitized() with the unit u, after which comes the unit next.
Sanitize(st, u, next, w) ==
  CASE st.skip             -> [st EXCEPT !.out = Append(@, u), !.skip = FALSE]
    [] ~st.skip /\ u = "newline" -> st
    [] ~st.skip /\ u = ":" /\ st.tag -> [st EXCEPT !.out = @ \o <<u, Mark(w)>>, !.tag = FALSE]
    [] OTHER -> [out |-> Append(st.out, u), skip |-> u = "%" /\ next = "%",
                 tag |-> (u = "%" /\ next = "open_A") \/ (st.tag /\ u # "close")]

\* Mutant: the end of a tag is not seen.
AppendSanitizedNoEnd(w, v) ==
  FoldLeftDomain(LAMBDA st, i :
                   IF v[i] = "close" THEN [st EXCEPT !.out = Append(@, "close"), !.skip = FALSE]
                   ELSE Sanitize(st, v[i], IF i < Len(v) THEN v[i + 1] ELSE "end", w),
                 [out |-> <<>>, tag |-> FALSE, skip |-> FALSE], v).out

\* append_sanitized(): newlines go, and the command of an action tag is marked.
AppendSanitized(w, v) ==
  FoldLeftDomain(LAMBDA st, i : Sanitize(st, v[i], IF i < Len(v) THEN v[i + 1] ELSE "end", w),
                 [out |-> <<>>, tag |-> FALSE, skip |-> FALSE], v).out

\* parse_command(): a number, "_", and the command; no widget is -1.
ParseCommand(line) ==
  IF line # <<>> /\ \E w \in 0..2 : Head(line) = Mark(w)
  THEN [widget |-> CHOOSE w \in 0..2 : Head(line) = Mark(w), what |-> Tail(line)]
  ELSE [widget |-> -1, what |-> line]

\* How lemonbar reads a text: what it shows, and the commands of its tags; nothing is said of
\* what follows a tag that has no end.
UnitAt(text, i, u) == i <= Len(text) /\ text[i] = u
Where(text, u, i, j) == {k \in i..j : text[k] = u}

LemonbarReads(text) ==
  LET n == Len(text)
      read[i \in 1..n + 1] ==
        IF i > n \/ (UnitAt(text, i, "%") /\ UnitAt(text, i + 1, "open_A") /\ Where(text, "close", i, n) = {})
        THEN [shown |-> <<>>, commands |-> {}]
        ELSE IF UnitAt(text, i, "%") /\ UnitAt(text, i + 1, "open_A")
        THEN LET end    == Min(Where(text, "close", i, n))
                 colons == Where(text, ":", i + 3, end)
                 r      == read[end + 1]
             IN IF UnitAt(text, i + 2, ":") /\ colons # {}
                THEN [r EXCEPT !.commands = @ \cup {SubSeq(text, i + 3, Min(colons) - 1)}]
                ELSE r
        ELSE LET size == IF UnitAt(text, i, "%") /\ UnitAt(text, i + 1, "%") THEN 2 ELSE 1
                 r    == read[i + size]
             IN [r EXCEPT !.shown = <<text[i]>> \o @]
  IN read[1]

\* set() of a widget's string, which it may have escaped.
LemonbarSet ==
  /\ BeRuns("lemonbar") /\ beBar.by = -1
  /\ \E w \in BeTargets, escaped \in BOOLEAN, raw \in BoundedSeq(Units, BeMaxText) :
       beBar' = [by |-> w, raw |-> raw, escaped |-> escaped,
                 text |-> AppendSanitized(w, IF escaped THEN Escape(raw) ELSE raw)]
  /\ UNCHANGED <<be, beIn, beTold>>

\* The bar prints the command of the tag that was clicked; other lines may come too.
LemonbarLine ==
  /\ BeRuns("lemonbar") /\ beBar.by # -1 /\ beTold = <<>>
  /\ \E line \in LemonbarReads(beBar.text).commands \cup {<<>>, <<"%">>, <<"2_", "%">>} :
       LET command == ParseCommand(line) IN
       beTold' = IF command.widget \in BeTargets THEN <<command>> ELSE <<>>
  /\ UNCHANGED <<be, beIn, beBar>>
-----------------------------------------------------------------------------
(* stdout.                                                                 *)

StdoutLine ==
  /\ BeRuns("stdout") /\ be.widget = -1 /\ beIn.count < BeMaxTokens
  /\ be' = [be EXCEPT !.widget = 0]
  /\ beIn' = [beIn EXCEPT !.count = @ + 1]
  /\ UNCHANGED <<beBar, beTold>>

StdoutCall ==
  /\ BeRuns("stdout") /\ be.widget # -1
  /\ beTold' = Append(beTold, [widget |-> be.widget, what |-> beIn.count])
  /\ be' = [be EXCEPT !.widget = IF be.widget + 1 \in BeTargets THEN @ + 1 ELSE -1]
  /\ UNCHANGED <<beIn, beBar>>

BeNext ==
  \/ InputEnds \/ ParseOpen \/ ParseScalar \/ ParseKey \/ ParseClose
  \/ LemonbarSet \/ LemonbarLine \/ StdoutLine \/ StdoutCall

BeSpec == BeInit /\ [][BeNext]_bevars
-----------------------------------------------------------------------------
\* The string that is the value of the click's own key "name", not of one in what it holds;
\* the last, if there are many.
NameOf(click) ==
  LET Depth(i) == Cardinality({j \in 1..i : click[j].type \in Opening})
                  - Cardinality({j \in 1..i : click[j].type \in Closing})
      names == {i \in 2..Len(click) : /\ click[i].type = "string" /\ Depth(i) = 1
                                      /\ click[i - 1] = Token("key", "name")}
  IN IF names = {} THEN -1 ELSE FullStrtou(click[CHOOSE i \in names : \A j \in names : j <= i].value)

\* The calls for some clicks, in order: one for each that has the name of a widget.
CallsFor(clicks) ==
  FlattenSeq([k \in DOMAIN clicks |->
    IF NameOf(clicks[k]) \in BeTargets THEN <<[widget |-> NameOf(clicks[k]), what |-> clicks[k]]>>
    ELSE <<>>])

\* Every complete click is told, whole, to the widget its name is the number of, if there is
\* one, in order; one without a name is never taken for the last one's.
ClicksReachTheirWidget ==
  be.barlib = "i3" => be.pc # "aborted" /\ beTold = CallsFor(beIn.clicks)

\* A text without its newlines, and one that has some within a tag's opening or a "%%".
NoNewlines(v) == FoldLeft(LAMBDA out, u : out \o IF u = "newline" THEN <<>> ELSE <<u>>, <<>>, v)
Split(v) ==
  \E i, j \in 1..Len(v) :
    /\ i + 1 < j /\ v[i] = "%" /\ v[j] \in {"open_A", "%"}
    /\ \A k \in i + 1..j - 1 : v[k] = "newline"

\* What a widget draws is shown as it wrote it, without its newlines, and the commands of its
\* tags, when the bar prints them, come back to it and to no other widget; what is escaped
\* has no tags.  A newline within a tag's opening is excepted: the tag is not seen.
TagsComeBack ==
  LET line  == NoNewlines(beBar.raw)
      meant == LemonbarReads(IF beBar.escaped THEN Escape(line) ELSE line)
      read  == LemonbarReads(beBar.text)
  IN be.barlib = "lemonbar" /\ ~Split(beBar.raw) =>
       /\ read.shown = meant.shown
       /\ {ParseCommand(c) : c \in read.commands} = {[widget |-> beBar.by, what |-> c] : c \in meant.commands}
       /\ beBar.escaped => read = [shown |-> line, commands |-> {}]
=============================================================================
