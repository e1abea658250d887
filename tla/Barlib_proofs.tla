---------------------------- MODULE Barlib_proofs ----------------------------
(***************************************************************************)
(* The barlibs, for any widgets, tables and texts: the bar is up to date   *)
(* whenever no call is under way, and its line is always the join of the   *)
(* contents of one moment.                                                 *)
(***************************************************************************)
EXTENDS Barlib, Induction, SequenceTheorems, TLAPS

Elements == {Nil, Bad} \cup Seq(Chars)

\* Characters, and what i3's segments are made of.
Symbols == Chars \cup {"name", "escape", "}"} \cup Widgets

-----------------------------------------------------------------------------
(* Elements.                                                               *)

\* Sequences of one and of two symbols.
LEMMA ShortSequences ==
  ASSUME NEW S, NEW x \in S, NEW y \in S
  PROVE  <<x>> \in Seq(S) /\ <<x, y>> \in Seq(S)
OBVIOUS

\* Characters are symbols.
LEMMA TextType ==
  ASSUME NEW x \in Seq(Chars)
  PROVE  x \in Seq(Symbols)
<1>1. \A k \in 1..Len(x) : x[k] \in Chars
  OBVIOUS
<1>2. \A k \in 1..Len(x) : x[k] \in Symbols
  BY <1>1 DEF Symbols
<1> QED BY <1>2

\* append_sanitized() gives a text.
LEMMA SanitizedType ==
  ASSUME NEW e \in Seq(Chars)
  PROVE  Sanitized(e) \in Seq(Symbols) /\ (e = Empty => Sanitized(e) = Empty)
<1> DEFINE n == Len(e)
           V == Seq(Symbols)
           base == <<>>
           step == [k \in 1..n |-> [s \in V |-> IF e[k] = NewLine THEN s ELSE Append(s, e[k])]]
           After(f, k) == IF k = 0 THEN Empty
                          ELSE IF e[k] = NewLine THEN f[k - 1] ELSE Append(f[k - 1], e[k])
           IsKept(f) == f = [k \in 0..n |-> After(f, k)]
           kept == CHOOSE f : IsKept(f)
<1>1. n \in Nat /\ base \in V /\ step \in Steps(n, V)
  <2>1. \A k \in 1..n : e[k] \in Symbols
    <3>1. \A k \in 1..n : e[k] \in Chars
      OBVIOUS
    <3> QED BY <3>1 DEF Symbols
  <2>2. \A k \in 1..n, s \in V : (IF e[k] = NewLine THEN s ELSE Append(s, e[k])) \in V
    BY <2>1
  <2> QED BY <2>2 DEF Steps
<1>2. PICK f \in [0..n -> V] : Recursion(f, n, base, step)
  <2> HIDE DEF n, step, V, base, After, IsKept, kept
  <2> QED BY <1>1, RecursionExists
<1>3. \E h : IsKept(h)
  <2>1. ASSUME NEW k \in 0..n PROVE f[k] = After(f, k)
    <3>1. CASE k = 0
      BY <3>1, <1>2 DEF Recursion, Empty
    <3>2. CASE k # 0
      <4>1. k \in 1..n /\ k - 1 \in 0..n
        BY <3>2, <1>1
      <4>2. f[k - 1] \in V
        <5> HIDE DEF n, V
        <5> QED BY <1>2, <4>1
      <4>3. f[k] = step[k][f[k - 1]]
        <5> HIDE DEF n, V, step
        <5> QED BY <1>2, <4>1 DEF Recursion
      <4> QED BY <3>2, <4>1, <4>2, <4>3
    <3> QED BY <3>1, <3>2
  <2>2. f = [k \in 0..n |-> After(f, k)]
    <3> HIDE DEF n, After, V
    <3> QED BY <1>2, <2>1
  <2> QED BY <2>2
<1>4. kept = [k \in 0..n |-> After(kept, k)]
  <2> HIDE DEF After, n
  <2> QED BY <1>3
<1>5. \A k \in 0..n : kept[k] = After(kept, k)
  <2> HIDE DEF kept, After, n
  <2> QED BY <1>4
<1>6. Sanitized(e) = kept[n]
  BY DEF Sanitized
<1>7. 0 \in 0..n /\ n \in 0..n /\ kept[0] = <<>>
  <2>1. 0 \in 0..n /\ n \in 0..n
    BY <1>1
  <2> HIDE DEF kept
  <2> QED BY <1>5, <2>1 DEF Empty
<1>8. kept[n] \in V
  <2> DEFINE T == {k \in 0..n : kept[k] \in V}
  <2>1. 0 \in T
    <3> HIDE DEF kept, n, V
    <3> QED BY <1>1, <1>7 DEF base
  <2>2. ASSUME NEW k \in 0..n - 1, k \in T PROVE k + 1 \in T
    <3>1. k + 1 \in 0..n /\ k + 1 # 0 /\ (k + 1) - 1 = k /\ k + 1 \in 1..n
      BY <1>1
    <3>2. kept[k + 1] = After(kept, k + 1)
      <4> HIDE DEF kept, After, n
      <4> QED BY <1>5, <3>1
    <3>3. e[k + 1] \in Symbols
      <4>1. e[k + 1] \in Chars
        BY <3>1
      <4> QED BY <4>1 DEF Symbols
    <3>4. kept[k] \in V
      <4> HIDE DEF kept, V
      <4> QED BY <2>2
    <3>5. kept[k + 1] = IF e[k + 1] = NewLine THEN kept[k] ELSE Append(kept[k], e[k + 1])
      <4> HIDE DEF kept
      <4> QED BY <3>1, <3>2
    <3>6. kept[k + 1] \in V
      <4> HIDE DEF kept
      <4> QED BY <3>3, <3>4, <3>5
    <3> HIDE DEF kept, V
    <3> QED BY <3>1, <3>6
  <2>3. 0..n \subseteq T
    <3> HIDE DEF T, n
    <3> QED BY <1>1, <2>1, <2>2, IntervalInduction
  <2>4. n \in T
    <3> HIDE DEF T, n
    <3> QED BY <1>7, <2>3
  <2> HIDE DEF kept, V, n
  <2> QED BY <2>4
<1> HIDE DEF kept
<1> QED BY <1>6, <1>7, <1>8 DEF Empty

\* An element as its barlib writes it.  Of an empty text nothing is written but a segment.
LEMMA ElementType ==
  ASSUME NEW b \in Barlibs, NEW w \in Widgets, NEW e \in Seq(Chars)
  PROVE  /\ Element(b, w, e) \in Seq(Symbols)
         /\ ~Counts(b, e) => Element(b, w, e) = Empty
<1>1. CASE b = "dwm"
  BY <1>1, TextType DEF Element, Counts
<1>2. CASE b = "i3"
  <2> DEFINE escaped == [k \in DOMAIN e |-> IF e[k] = NewLine THEN "escape" ELSE e[k]]
  <2>1. DOMAIN e = 1..Len(e) /\ Len(e) \in Nat
    OBVIOUS
  <2>2. \A k \in 1..Len(e) : (IF e[k] = NewLine THEN "escape" ELSE e[k]) \in Symbols
    <3>1. \A k \in 1..Len(e) : e[k] \in Chars
      OBVIOUS
    <3> QED BY <3>1 DEF Symbols
  <2>3. escaped \in Seq(Symbols)
    BY <2>1, <2>2
  <2>4. <<"name", w>> \in Seq(Symbols) /\ <<"}">> \in Seq(Symbols)
    <3>1. "name" \in Symbols /\ "}" \in Symbols /\ w \in Symbols
      BY DEF Symbols
    <3> QED BY <3>1, ShortSequences
  <2> HIDE DEF escaped
  <2>5. (<<"name", w>> \o escaped) \o <<"}">> \in Seq(Symbols)
    BY <2>3, <2>4, ConcatProperties
  <2>6. Element(b, w, e) = (<<"name", w>> \o escaped) \o <<"}">>
    BY <1>2 DEF Element, Segment, escaped
  <2> QED BY <1>2, <2>5, <2>6 DEF Counts
<1>3. CASE b \in {"stdout", "lemonbar"}
  <2>1. Element(b, w, e) = Sanitized(e)
    BY <1>3 DEF Element
  <2> QED BY <1>3, <2>1, SanitizedType DEF Counts
<1> QED BY <1>1, <1>2, <1>3 DEF Barlibs

-----------------------------------------------------------------------------
(* A table, joined.                                                        *)

\* What the first k elements of d give is f[k].
Joins(f, b, w, d) ==
  /\ f[0] = Empty
  /\ \A k \in 1..Len(d) :
       f[k] = IF d[k] = Nil \/ ~Counts(b, d[k]) THEN f[k - 1]
              ELSE IF f[k - 1] = Empty THEN Element(b, w, d[k])
              ELSE f[k - 1] \o Separator \o Element(b, w, d[k])

\* Rendered() is such a function of a table without bad elements.
LEMMA RenderedIsRecursive ==
  ASSUME NEW b \in Barlibs, NEW w \in Widgets, NEW d \in Seq(Elements), Bad \notin Range(d)
  PROVE  \E f \in [0..Len(d) -> Seq(Symbols)] :
           Joins(f, b, w, d) /\ Rendered(b, w, d) = f[Len(d)]
<1> DEFINE n == Len(d)
           V == Seq(Symbols)
           base == <<>>
           Next1(k, s) == IF d[k] = Nil \/ ~Counts(b, d[k]) THEN s
                          ELSE IF s = Empty THEN Element(b, w, d[k])
                          ELSE s \o Separator \o Element(b, w, d[k])
           step == [k \in 1..n |-> [s \in V |-> Next1(k, s)]]
           After(f, k) == IF k = 0 THEN Empty
                          ELSE IF d[k] = Nil \/ ~Counts(b, d[k]) THEN f[k - 1]
                          ELSE IF f[k - 1] = Empty THEN Element(b, w, d[k])
                          ELSE f[k - 1] \o Separator \o Element(b, w, d[k])
           IsJoined(f) == f = [k \in 0..n |-> After(f, k)]
           joined == CHOOSE f : IsJoined(f)
<1>1. n \in Nat /\ base \in V /\ Separator \in V
  BY BarAssumption, TextType
<1>2. ASSUME NEW k \in 1..n, NEW s \in V PROVE Next1(k, s) \in V
  <2>1. CASE d[k] = Nil
    BY <2>1
  <2>2. CASE d[k] # Nil
    <3>1. d[k] \in Elements /\ d[k] \in Range(d)
      BY DEF Range
    <3>2. d[k] \in Seq(Chars)
      BY <2>2, <3>1 DEF Elements
    <3>3. Element(b, w, d[k]) \in V
      BY <3>2, ElementType
    <3> HIDE DEF V
    <3>4. s \o Separator \o Element(b, w, d[k]) \in V
      BY <1>1, <3>3 DEF V
    <3> QED BY <3>3, <3>4
  <2> QED BY <2>1, <2>2
<1>3. step \in Steps(n, V)
  <2> HIDE DEF n, V, Next1
  <2> QED BY <1>2 DEF Steps
<1>4. PICK f \in [0..n -> V] : Recursion(f, n, base, step)
  <2> HIDE DEF n, step, V, base, After, IsJoined, joined
  <2> QED BY <1>1, <1>3, RecursionExists
<1>5. ASSUME NEW k \in 1..n PROVE f[k] = Next1(k, f[k - 1])
  <2>1. k - 1 \in 0..n
    BY <1>1
  <2>2. f[k - 1] \in V
    <3> HIDE DEF n, V
    <3> QED BY <1>4, <2>1
  <2>3. f[k] = step[k][f[k - 1]]
    <3> HIDE DEF n, V, step
    <3> QED BY <1>4 DEF Recursion
  <2> HIDE DEF n, V, Next1
  <2> QED BY <2>2, <2>3 DEF step
<1>6. Joins(f, b, w, d)
  <2>1. f[0] = Empty
    BY <1>4 DEF Recursion, Empty
  <2> QED BY <1>5, <2>1 DEF Joins
<1>7. \E h : IsJoined(h)
  <2>1. ASSUME NEW k \in 0..n PROVE f[k] = After(f, k)
    <3>1. CASE k = 0
      BY <3>1, <1>6 DEF Joins
    <3>2. CASE k # 0
      <4>1. k \in 1..n
        BY <3>2, <1>1
      <4> QED BY <1>5, <3>2, <4>1
    <3> QED BY <3>1, <3>2
  <2>2. f = [k \in 0..n |-> After(f, k)]
    <3> HIDE DEF n, After, V
    <3> QED BY <1>4, <2>1
  <2> QED BY <2>2
<1>8. joined = [k \in 0..n |-> After(joined, k)]
  <2> HIDE DEF After, n
  <2> QED BY <1>7
<1>9. \A k \in 0..n : joined[k] = After(joined, k)
  <2> HIDE DEF joined, After, n
  <2> QED BY <1>8
<1>10. Rendered(b, w, d) = joined[n]
  BY DEF Rendered
\* Both start alike and go on alike.
<1>11. joined[n] = f[n]
  <2> DEFINE T == {k \in 0..n : joined[k] = f[k]}
  <2>1. 0 \in T
    <3>1. 0 \in 0..n
      BY <1>1
    <3>2. joined[0] = Empty
      <4> HIDE DEF joined
      <4> QED BY <1>9, <3>1
    <3> HIDE DEF joined
    <3> QED BY <1>6, <3>1, <3>2 DEF Joins
  <2>2. ASSUME NEW k \in 0..n - 1, k \in T PROVE k + 1 \in T
    <3>1. k + 1 \in 0..n /\ k + 1 # 0 /\ (k + 1) - 1 = k /\ k + 1 \in 1..n
      BY <1>1
    <3>2. joined[k + 1] = After(joined, k + 1)
      <4> HIDE DEF joined, After, n
      <4> QED BY <1>9, <3>1
    <3>3. joined[k + 1] = Next1(k + 1, joined[k])
      <4> HIDE DEF joined, n
      <4> QED BY <3>1, <3>2
    <3>4. f[k + 1] = Next1(k + 1, f[k])
      <4> HIDE DEF n, Next1
      <4> QED BY <1>5, <3>1
    <3> HIDE DEF joined, Next1, n
    <3> QED BY <2>2, <3>1, <3>3, <3>4
  <2>3. 0..n \subseteq T
    <3> HIDE DEF T, n
    <3> QED BY <1>1, <2>1, <2>2, IntervalInduction
  <2>4. n \in 0..n
    BY <1>1
  <2> HIDE DEF joined, n
  <2> QED BY <2>3, <2>4
<1> HIDE DEF joined
<1> QED BY <1>4, <1>6, <1>10, <1>11

\* What a call shows is a text.
LEMMA RenderedType ==
  ASSUME NEW b \in Barlibs, NEW w \in Widgets, NEW d \in Seq(Elements)
  PROVE  Rendered(b, w, d) \in Seq(Symbols) /\ ErrorText \in Seq(Symbols)
<1>1. ErrorText \in Seq(Symbols)
  BY BarAssumption, TextType
<1>2. CASE Bad \in Range(d)
  <2>1. Rendered(b, w, d) = ErrorText
    BY <1>2 DEF Rendered
  <2> QED BY <1>1, <2>1
<1>3. CASE Bad \notin Range(d)
  <2>1. PICK f \in [0..Len(d) -> Seq(Symbols)] : Rendered(b, w, d) = f[Len(d)]
    BY <1>3, RenderedIsRecursive
  <2>2. Len(d) \in 0..Len(d)
    OBVIOUS
  <2> QED BY <1>1, <2>1, <2>2
<1> QED BY <1>2, <1>3

-----------------------------------------------------------------------------
(* The line.                                                               *)

\* The line of the first w widgets is f[w].
Lines(f, c) ==
  /\ f[0] = Empty
  /\ \A w \in Widgets : f[w] = Display!Joined(f[w - 1], c[w])

\* Line() is such a function.
LEMMA LineIsRecursive ==
  ASSUME NEW c \in [Widgets -> Seq(Symbols)]
  PROVE  \E f \in [0..N -> Seq(Symbols)] : Lines(f, c) /\ Display!Line(c) = f[N]
<1> DEFINE V == Seq(Symbols)
           base == <<>>
           step == [k \in 1..N |-> [s \in V |-> Display!Joined(s, c[k])]]
           After(f, k) == IF k = 0 THEN Display!Empty ELSE Display!Joined(f[k - 1], c[k])
           IsUpto(f) == f = [k \in 0..N |-> After(f, k)]
           upto == CHOOSE f : IsUpto(f)
<1>1. N \in Nat /\ base \in V /\ Separator \in V
  BY BarAssumption, TextType
<1>2. ASSUME NEW k \in 1..N, NEW s \in V PROVE Display!Joined(s, c[k]) \in V
  <2>1. c[k] \in V
    BY DEF Widgets
  <2>2. s \o c[k] \in V /\ s \o Separator \o c[k] \in V
    BY <1>1, <2>1
  <2> HIDE DEF V
  <2> QED BY <2>2 DEF Display!Joined
<1>3. step \in Steps(N, V)
  <2> HIDE DEF V
  <2> QED BY <1>2 DEF Steps
<1>4. PICK f \in [0..N -> V] : Recursion(f, N, base, step)
  <2> HIDE DEF step, V, base, After, IsUpto, upto
  <2> QED BY <1>1, <1>3, RecursionExists
<1>5. ASSUME NEW k \in 1..N PROVE f[k] = Display!Joined(f[k - 1], c[k])
  <2>1. k - 1 \in 0..N
    BY <1>1
  <2>2. f[k - 1] \in V
    <3> HIDE DEF V
    <3> QED BY <1>4, <2>1
  <2>3. f[k] = step[k][f[k - 1]]
    <3> HIDE DEF V, step
    <3> QED BY <1>4 DEF Recursion
  <2> HIDE DEF V
  <2> QED BY <2>2, <2>3 DEF step
<1>6. Lines(f, c)
  <2>1. f[0] = Empty
    BY <1>4 DEF Recursion, Empty
  <2> QED BY <1>5, <2>1 DEF Lines, Widgets
<1>7. \E h : IsUpto(h)
  <2>1. ASSUME NEW k \in 0..N PROVE f[k] = After(f, k)
    <3>1. CASE k = 0
      BY <3>1, <1>6 DEF Lines, Display!Empty, Empty
    <3>2. CASE k # 0
      <4>1. k \in 1..N
        BY <3>2, <1>1
      <4> QED BY <1>5, <3>2, <4>1
    <3> QED BY <3>1, <3>2
  <2>2. f = [k \in 0..N |-> After(f, k)]
    <3> HIDE DEF After, V
    <3> QED BY <1>4, <2>1
  <2> QED BY <2>2
<1>8. upto = [k \in 0..N |-> After(upto, k)]
  <2> HIDE DEF After
  <2> QED BY <1>7
<1>9. \A k \in 0..N : upto[k] = After(upto, k)
  <2> HIDE DEF upto, After
  <2> QED BY <1>8
<1>10. Display!Line(c) = upto[N]
  BY DEF Display!Line
<1>11. upto[N] = f[N]
  <2> DEFINE T == {k \in 0..N : upto[k] = f[k]}
  <2>1. 0 \in T
    <3>1. 0 \in 0..N
      BY <1>1
    <3>2. upto[0] = Empty
      <4> HIDE DEF upto
      <4> QED BY <1>9, <3>1 DEF Display!Empty, Empty
    <3> HIDE DEF upto
    <3> QED BY <1>6, <3>1, <3>2 DEF Lines
  <2>2. ASSUME NEW k \in 0..N - 1, k \in T PROVE k + 1 \in T
    <3>1. k + 1 \in 0..N /\ k + 1 # 0 /\ (k + 1) - 1 = k /\ k + 1 \in 1..N
      BY <1>1
    <3>2. upto[k + 1] = After(upto, k + 1)
      <4> HIDE DEF upto, After
      <4> QED BY <1>9, <3>1
    <3>3. upto[k + 1] = Display!Joined(upto[k], c[k + 1])
      <4> HIDE DEF upto
      <4> QED BY <3>1, <3>2
    <3>4. f[k + 1] = Display!Joined(f[k], c[k + 1])
      BY <1>5, <3>1
    <3> HIDE DEF upto
    <3> QED BY <2>2, <3>1, <3>3, <3>4
  <2>3. 0..N \subseteq T
    <3> HIDE DEF T
    <3> QED BY <1>1, <2>1, <2>2, IntervalInduction
  <2>4. N \in 0..N
    BY <1>1
  <2> HIDE DEF upto
  <2> QED BY <2>3, <2>4
<1> HIDE DEF upto
<1> QED BY <1>4, <1>6, <1>10, <1>11

\* Nothing is written of widgets that show nothing.
LEMMA EmptyLine == Display!Line([w \in Widgets |-> Empty]) = Empty
<1> DEFINE c == [w \in Widgets |-> Empty]
<1>1. c \in [Widgets -> Seq(Symbols)] /\ \A w \in Widgets : c[w] = Empty
  BY DEF Empty
<1> HIDE DEF c
<1>2. PICK f \in [0..N -> Seq(Symbols)] : Lines(f, c) /\ Display!Line(c) = f[N]
  BY <1>1, LineIsRecursive
<1> DEFINE T == {k \in 0..N : f[k] = Empty}
<1>3. N \in Nat /\ 0 \in 0..N /\ N \in 0..N
  BY BarAssumption
<1>4. 0 \in T
  BY <1>2, <1>3 DEF Lines
<1>5. ASSUME NEW k \in 0..N - 1, k \in T PROVE k + 1 \in T
  <2>1. k + 1 \in Widgets /\ k + 1 \in 0..N /\ (k + 1) - 1 = k
    BY <1>3 DEF Widgets
  <2>2. f[k + 1] = Display!Joined(f[k], c[k + 1])
    BY <1>2, <2>1 DEF Lines
  <2>3. Display!Joined(Empty, Empty) = Empty
    BY DEF Display!Joined, Display!Empty, Empty
  <2> QED BY <1>1, <1>5, <2>1, <2>2, <2>3
<1>6. 0..N \subseteq T
  <2> HIDE DEF T
  <2> QED BY <1>3, <1>4, <1>5, IntervalInduction
<1> QED BY <1>2, <1>3, <1>6 DEF c

-----------------------------------------------------------------------------
(* The inductive invariant.                                                *)

Inside(t) == pc[t] \in {"append", "set_error", "redraw", "unlock"}

Points == {"idle", "lock_set", "lock_error", "append", "set_error", "redraw", "unlock"}
Contents == [Widgets -> Seq(Symbols)]

TypeB ==
  /\ barlib \in Barlibs
  /\ pc \in [Threads -> Points]
  /\ tgt \in [Threads -> Threads]
  /\ data \in [Threads -> Seq(Elements)]
  /\ i \in [Threads -> Nat]
  /\ B \in Threads \cup {Free}
  /\ bufs \in Contents /\ drawn \in Contents /\ asked \in Contents
  /\ out \in Seq(Symbols)

\* B is held inside set(), set_error() and redraw().
Locked == \A t \in Threads : Inside(t) <=> B = t

\* A widget's thread is about its widget, and what it sets is what its cb returned.
Targets ==
  \A t \in Threads :
    /\ t # Main => tgt[t] = t
    /\ pc[t] # "idle" => tgt[t] \in Widgets
    /\ pc[t] = "lock_set" => data[t] \in Datas

\* set() has joined the first n elements of d to text, the rest are to come: or there is a bad
\* element among them, and then an error is to be shown.
IsBuilding(lib, w, rest, text, goal) ==
  \/ Bad \in Range(rest) /\ goal = ErrorText
  \/ /\ Bad \notin Range(rest)
     /\ \E d \in Seq(Elements), n \in Nat : \E f \in [0..Len(d) -> Seq(Symbols)] :
          /\ n <= Len(d) /\ Bad \notin Range(d)
          /\ Joins(f, lib, w, d)
          /\ rest = SubSeq(d, n + 1, Len(d))
          /\ text = f[n]
          /\ goal = f[Len(d)]

Building(t) == IsBuilding(barlib, tgt[t], data[t], tmpbuf, asked[tgt[t]])

\* redraw() has written the line of the widgets before i.
Drawing(t) ==
  \E f \in [0..N -> Seq(Symbols)] :
    /\ Lines(f, bufs) /\ Display!Line(bufs) = f[N]
    /\ i[t] \in 1..N + 1
    /\ out = f[i[t] - 1]

\* With nobody inside everything is shown.
Quiet == B = Free => bufs = asked /\ drawn = asked /\ out = Empty

\* With a thread inside, of the other widgets everything is shown; and how far it has come.
Busy ==
  \A t \in Threads : Inside(t) =>
    /\ \A w \in Widgets : w # tgt[t] => bufs[w] = asked[w] /\ drawn[w] = asked[w]
    /\ asked[tgt[t]] \in Texts
    /\ pc[t] = "append" => drawn = bufs /\ out = Empty /\ Building(t)
    /\ pc[t] = "set_error" => out = Empty /\ asked[tgt[t]] = ErrorText
    /\ pc[t] = "redraw" => bufs = asked /\ Drawing(t)
    /\ pc[t] = "unlock" => bufs = asked /\ drawn = asked /\ out = Empty

BarInv == TypeB /\ Locked /\ Targets /\ Quiet /\ Busy

\* What a cb returned is a table of elements, and what is shown of it a text.
LEMMA DatasType ==
  /\ Datas \subseteq Seq(Elements)
  /\ \A b \in Barlibs, w \in Widgets, d \in Datas : Rendered(b, w, d) \in Seq(Symbols)
  /\ ErrorText \in Seq(Symbols) /\ ErrorText \in Texts /\ N \in Nat
<1>1. Datas \subseteq Seq(Elements) /\ N \in Nat
  BY BarAssumption DEF Elements
<1>2. \A b \in Barlibs, w \in Widgets, d \in Datas : Rendered(b, w, d) \in Seq(Symbols)
  BY <1>1, RenderedType
<1>3. ErrorText \in Seq(Symbols) /\ ErrorText \in Texts
  BY BarAssumption, TextType DEF Texts
<1> QED BY <1>1, <1>2, <1>3

\* The first states.
LEMMA BarInitInv == Init => BarInv
<1>1. SUFFICES ASSUME NEW b \in Barlibs, NEW p, BarStart(b, p) PROVE BarInv
  BY DEF Init
<1>2. Empty \in Seq(Symbols) /\ Empty \in Seq(Elements)
  BY DEF Empty
<1>3. TypeB
  <2>1. N \in Nat
    BY BarAssumption
  <2> QED BY <1>1, <1>2, <2>1 DEF TypeB, BarStart, Points, Contents, Threads, Widgets
<1>4. \A t \in Threads : pc[t] = "idle" /\ B = Free /\ B # t /\ tgt[t] = t
  BY <1>1, BarAssumption DEF BarStart, Threads, Free
<1>5. Locked /\ Targets /\ Busy
  BY <1>4 DEF Locked, Targets, Busy, Inside
<1>6. Quiet
  BY <1>1 DEF BarStart, Quiet
<1> QED BY <1>3, <1>5, <1>6 DEF BarInv

-----------------------------------------------------------------------------
(* The steps.                                                              *)

\* What a thread does outside disturbs nobody inside.
LEMMA OutsideStep ==
  ASSUME BarInv, NEW t \in Threads, NEW l \in {"lock_set", "lock_error"},
         pc[t] = "idle", pc' = [pc EXCEPT ![t] = l],
         \A s \in Threads \ {t} : tgt'[s] = tgt[s] /\ data'[s] = data[s],
         UNCHANGED <<barlib, i, B, bufs, tmpbuf, out, drawn, asked>>
  PROVE  Locked' /\ Quiet' /\ Busy'
<1>1. ~Inside(t) /\ ~Inside(t)'
  BY DEF BarInv, TypeB, Inside
<1>2. \A s \in Threads \ {t} : pc'[s] = pc[s] /\ (Inside(s)' <=> Inside(s))
  BY DEF BarInv, TypeB, Inside
<1>3. Locked' /\ Quiet'
  BY <1>1, <1>2 DEF BarInv, Locked, Quiet
<1>4. Busy'
  <2> SUFFICES ASSUME NEW s \in Threads \ {t}, Inside(s)
               PROVE  /\ \A w \in Widgets :
                           w # tgt[s] => bufs[w] = asked[w] /\ drawn[w] = asked[w]
                      /\ asked[tgt[s]] \in Texts
                      /\ pc[s] = "append" => drawn = bufs /\ out = Empty /\ Building(s)'
                      /\ pc[s] = "set_error" => out = Empty /\ asked[tgt[s]] = ErrorText
                      /\ pc[s] = "redraw" => bufs = asked /\ Drawing(s)'
                      /\ pc[s] = "unlock" => bufs = asked /\ drawn = asked /\ out = Empty
    BY <1>1, <1>2 DEF Busy
  <2>1. Building(s) => Building(s)'
    <3>1. /\ tgt'[s] = tgt[s] /\ data'[s] = data[s]
          /\ barlib' = barlib /\ tmpbuf' = tmpbuf /\ asked' = asked
      OBVIOUS
    <3> QED BY <3>1 DEF Building
  <2>2. Drawing(s) => Drawing(s)'
    BY DEF Drawing
  <2> QED BY <2>1, <2>2 DEF BarInv, Busy
<1> QED BY <1>3, <1>4

LEMMA CallSetStep ==
  ASSUME BarInv, NEW t \in Threads, NEW d \in Datas, CallSet(t, d)
  PROVE  BarInv'
<1>1. d \in Seq(Elements)
  BY DatasType
<1>2. /\ pc[t] = "idle" /\ t # Main /\ pc' = [pc EXCEPT ![t] = "lock_set"]
      /\ data' = [data EXCEPT ![t] = d]
      /\ UNCHANGED <<barlib, tgt, i, B, bufs, tmpbuf, out, line, proc, asked, drawn>>
  BY DEF CallSet, At, Goto
<1>3. TypeB'
  BY <1>1, <1>2 DEF BarInv, TypeB, Points
<1>4. Targets'
  <2>1. tgt[t] \in Widgets
    BY <1>2 DEF BarInv, Targets, Threads, Widgets, Main
  <2> QED BY <1>2, <2>1 DEF BarInv, TypeB, Targets
<1>5. \A s \in Threads \ {t} : tgt'[s] = tgt[s] /\ data'[s] = data[s]
  BY <1>2 DEF BarInv, TypeB
<1>6. Locked' /\ Quiet' /\ Busy'
  BY <1>2, <1>5, OutsideStep
<1> QED BY <1>3, <1>4, <1>6 DEF BarInv

LEMMA CallSetErrorStep ==
  ASSUME BarInv, NEW t \in Threads, NEW w \in Widgets, CallSetError(t, w)
  PROVE  BarInv'
<1>1. w \in Threads
  BY DEF Widgets, Threads
<1>2. /\ pc[t] = "idle" /\ t \in {Main, w} /\ pc' = [pc EXCEPT ![t] = "lock_error"]
      /\ tgt' = [tgt EXCEPT ![t] = w]
      /\ UNCHANGED <<barlib, data, i, B, bufs, tmpbuf, out, line, proc, asked, drawn>>
  BY DEF CallSetError, At, Goto
<1>3. TypeB'
  BY <1>1, <1>2 DEF BarInv, TypeB, Points
<1>4. Targets'
  BY <1>2 DEF BarInv, TypeB, Targets
<1>5. \A s \in Threads \ {t} : tgt'[s] = tgt[s] /\ data'[s] = data[s]
  BY <1>2 DEF BarInv, TypeB
<1>6. Locked' /\ Quiet' /\ Busy'
  BY <1>2, <1>5, OutsideStep
<1> QED BY <1>3, <1>4, <1>6 DEF BarInv

\* A thread that is inside is there alone.
LEMMA Alone ==
  ASSUME Locked, NEW t \in Threads, Inside(t)
  PROVE  B = t /\ \A s \in Threads \ {t} : ~Inside(s)
BY DEF Locked

\* A thread that goes from one point inside to another keeps the others out.
LEMMA InsideStep ==
  ASSUME BarInv, NEW t \in Threads, Inside(t),
         NEW l \in {"append", "set_error", "redraw", "unlock"},
         pc' = [pc EXCEPT ![t] = l], B' = B, tgt' = tgt,
         \A s \in Threads \ {t} : data'[s] = data[s]
  PROVE  /\ Locked' /\ Targets' /\ Quiet'
         /\ tgt[t] \in Widgets /\ pc'[t] = l
         /\ \A s \in Threads : Inside(s)' => s = t
<1>1. Inside(t)' /\ pc'[t] = l
  BY DEF BarInv, TypeB, Inside
<1>2. \A s \in Threads \ {t} : pc'[s] = pc[s] /\ (Inside(s)' <=> Inside(s))
  BY DEF BarInv, TypeB, Inside
<1>3. Locked' /\ Quiet'
  <2>1. B = t /\ t # Free
    BY Alone, BarAssumption DEF BarInv, Threads, Free
  <2> QED BY <1>1, <1>2, <2>1 DEF BarInv, Locked, Quiet
<1>4. tgt[t] \in Widgets
  BY DEF BarInv, Targets, Inside
<1>5. Targets'
  BY <1>1, <1>2, <1>4 DEF BarInv, Targets
<1> QED BY <1>1, <1>2, <1>3, <1>4, <1>5, Alone DEF BarInv

\* Nothing of the state of the bar changes.
LEMMA IdleStep ==
  ASSUME BarInv, UNCHANGED <<barlib, pc, tgt, data, i, B, bufs, tmpbuf, out, asked, drawn>>
  PROVE  BarInv'
<1>1. TypeB' /\ Locked' /\ Targets' /\ Quiet'
  BY DEF BarInv, TypeB, Locked, Targets, Quiet, Inside
<1>2. \A s \in Threads : (Building(s) => Building(s)') /\ (Drawing(s) => Drawing(s)')
  BY DEF Building, Drawing
<1>3. Busy'
  BY <1>2 DEF BarInv, Busy, Inside
<1> QED BY <1>1, <1>3 DEF BarInv

\* set() starts with nothing joined.
LEMMA BuildingStarts ==
  ASSUME NEW b \in Barlibs, NEW w \in Widgets, NEW d \in Datas, Bad \notin Range(d)
  PROVE  \E f \in [0..Len(d) -> Seq(Symbols)] :
           /\ Joins(f, b, w, d) /\ Rendered(b, w, d) = f[Len(d)]
           /\ d = SubSeq(d, 0 + 1, Len(d)) /\ Empty = f[0]
<1>1. d \in Seq(Elements)
  BY DatasType
<1>2. PICK f \in [0..Len(d) -> Seq(Symbols)] :
        Joins(f, b, w, d) /\ Rendered(b, w, d) = f[Len(d)]
  BY <1>1, RenderedIsRecursive
<1>3. Empty = f[0]
  BY <1>2 DEF Joins
<1>4. d = SubSeq(d, 0 + 1, Len(d))
  BY <1>1, SMTT(30)
<1> QED BY <1>2, <1>3, <1>4

LEMMA LockBStep ==
  ASSUME BarInv, NEW t \in Threads, LockB(t)
  PROVE  BarInv'
<1> DEFINE w == tgt[t]
           d == data[t]
           l == IF pc[t] = "lock_set" THEN "append" ELSE "set_error"
           shown == IF pc[t] = "lock_set" THEN Rendered(barlib, w, d) ELSE ErrorText
<1>1. /\ pc[t] \in {"lock_set", "lock_error"} /\ B = Free /\ B' = t
      /\ pc' = [pc EXCEPT ![t] = l] /\ asked' = [asked EXCEPT ![w] = shown]
      /\ pc[t] = "lock_set" => tmpbuf' = Empty
      /\ UNCHANGED <<barlib, tgt, data, i, bufs, out, line, proc, drawn>>
  BY DEF LockB, Goto
<1>3. w \in Widgets /\ (pc[t] = "lock_set" => d \in Datas)
  BY <1>1 DEF BarInv, Targets
<1>4. shown \in Seq(Symbols) /\ shown \in Texts
  <2>1. CASE pc[t] = "lock_set"
    <3>1. barlib \in Barlibs
      BY DEF BarInv, TypeB
    <3>2. Rendered(barlib, w, d) \in Texts
      BY <1>3, <2>1, <3>1 DEF Texts
    <3>3. Rendered(barlib, w, d) \in Seq(Symbols)
      BY <1>3, <2>1, <3>1, DatasType
    <3> QED BY <2>1, <3>2, <3>3
  <2>2. CASE pc[t] # "lock_set"
    BY <2>2, DatasType
  <2> QED BY <2>1, <2>2
<1> HIDE DEF shown
<1>5. TypeB'
  <2>1. asked' \in Contents
    BY <1>1, <1>3, <1>4 DEF BarInv, TypeB, Contents
  <2> QED BY <1>1, <2>1 DEF BarInv, TypeB, Points
<1>6. /\ pc'[t] = l /\ ~Inside(t) /\ Inside(t)' /\ t # Free
      /\ \A s \in Threads \ {t} : pc'[s] = pc[s] /\ ~Inside(s) /\ ~Inside(s)'
  <2>1. \A s \in Threads : s # Free
    BY BarAssumption DEF Threads, Free
  <2>2. \A s \in Threads : ~Inside(s)
    BY <1>1, <2>1 DEF BarInv, Locked
  <2>3. pc'[t] = l /\ \A s \in Threads \ {t} : pc'[s] = pc[s]
    BY <1>1 DEF BarInv, TypeB
  <2>4. Inside(t)' /\ \A s \in Threads \ {t} : ~Inside(s)'
    BY <2>2, <2>3 DEF Inside
  <2> QED BY <2>1, <2>2, <2>3, <2>4
<1>7. Locked' /\ Targets' /\ Quiet'
  BY <1>1, <1>3, <1>6 DEF BarInv, Locked, Targets, Quiet
<1>8. /\ bufs' = bufs /\ drawn' = bufs /\ out' = Empty /\ asked'[w] = shown
      /\ \A v \in Widgets : v # w => bufs[v] = asked'[v] /\ drawn[v] = asked'[v]
  BY <1>1, <1>3 DEF BarInv, TypeB, Quiet, Contents
<1>9. pc[t] = "lock_set" => Building(t)'
  <2> SUFFICES ASSUME pc[t] = "lock_set" PROVE Building(t)'
    OBVIOUS
  <2>1. asked'[w] = Rendered(barlib, w, d) /\ tmpbuf' = Empty
    BY <1>1, <1>8 DEF shown
  <2>2. CASE Bad \in Range(d)
    <3>1. Rendered(barlib, w, d) = ErrorText
      BY <2>2 DEF Rendered
    <3> QED BY <1>1, <2>1, <2>2, <3>1 DEF Building, IsBuilding
  <2>3. CASE Bad \notin Range(d)
    <3>1. d \in Datas /\ d \in Seq(Elements) /\ barlib \in Barlibs
      BY <1>3, DatasType DEF BarInv, TypeB
    <3>2. PICK f \in [0..Len(d) -> Seq(Symbols)] :
            /\ Joins(f, barlib, w, d) /\ Rendered(barlib, w, d) = f[Len(d)]
            /\ d = SubSeq(d, 0 + 1, Len(d)) /\ Empty = f[0]
      BY <1>3, <2>3, <3>1, BuildingStarts
    <3>3. 0 \in Nat /\ 0 <= Len(d)
      BY <3>1
    <3> QED BY <1>1, <2>1, <2>3, <3>1, <3>2, <3>3 DEF Building, IsBuilding
  <2> QED BY <2>2, <2>3
<1>10. Busy'
  <2> SUFFICES ASSUME NEW s \in Threads, Inside(s)'
               PROVE  (/\ \A v \in Widgets :
                            v # tgt[s] => bufs[v] = asked[v] /\ drawn[v] = asked[v]
                       /\ asked[tgt[s]] \in Texts
                       /\ pc[s] = "append" => drawn = bufs /\ out = Empty /\ Building(s)
                       /\ pc[s] = "set_error" => out = Empty /\ asked[tgt[s]] = ErrorText
                       /\ pc[s] = "redraw" => bufs = asked /\ Drawing(s)
                       /\ pc[s] = "unlock" => bufs = asked /\ drawn = asked /\ out = Empty)'
    BY DEF Busy
  <2>1. s = t /\ tgt' = tgt
    BY <1>1, <1>6
  <2>2. pc'[t] = "set_error" => asked'[w] = ErrorText
    BY <1>6, <1>8 DEF shown
  <2>3. pc'[t] = "append" => pc[t] = "lock_set"
    BY <1>6
  <2> QED BY <1>1, <1>4, <1>6, <1>8, <1>9, <2>1, <2>2, <2>3
<1> QED BY <1>5, <1>7, <1>10 DEF BarInv

\* set() appends one element more.
LEMMA BuildingGoesOn ==
  ASSUME NEW b \in Barlibs, NEW w \in Widgets, NEW d \in Seq(Elements), Bad \notin Range(d),
         NEW f, Joins(f, b, w, d),
         NEW n \in Nat, n < Len(d), f[n] \in Seq(Symbols), NEW e, e = d[n + 1]
  PROVE  f[n + 1] = IF e = Nil THEN f[n]
                    ELSE IF f[n] # Empty /\ Counts(b, e)
                    THEN f[n] \o Separator \o Element(b, w, e)
                    ELSE f[n] \o Element(b, w, e)
<1>1. n + 1 \in 1..Len(d) /\ (n + 1) - 1 = n /\ n \in 0..Len(d)
  OBVIOUS
<1>2. f[n + 1] = IF e = Nil \/ ~Counts(b, e) THEN f[n]
                 ELSE IF f[n] = Empty THEN Element(b, w, e)
                 ELSE f[n] \o Separator \o Element(b, w, e)
  BY <1>1 DEF Joins
<1>4. CASE e = Nil
  BY <1>2, <1>4
<1>5. CASE e # Nil
  <2>1. e \in Elements /\ e \in Range(d)
    BY <1>1 DEF Range
  <2>2. e \in Seq(Chars)
    BY <1>5, <2>1 DEF Elements
  <2>3. Element(b, w, e) \in Seq(Symbols) /\ (~Counts(b, e) => Element(b, w, e) = Empty)
    BY <2>2, ElementType
  <2>4. f[n] \o Empty = f[n] /\ Empty \o Element(b, w, e) = Element(b, w, e)
    BY <2>3 DEF Empty
  <2> QED BY <1>2, <1>5, <2>3, <2>4
<1> QED BY <1>4, <1>5

LEMMA Append1Step ==
  ASSUME BarInv, NEW t \in Threads, Append1(t)
  PROVE  BarInv'
<1> DEFINE w == tgt[t]
           e == Head(data[t])
           longer == IF e = Nil THEN tmpbuf
                     ELSE IF tmpbuf # Empty /\ Counts(barlib, e)
                     THEN tmpbuf \o Separator \o Element(barlib, w, e)
                     ELSE tmpbuf \o Element(barlib, w, e)
<1>1. /\ pc[t] = "append" /\ data[t] # Empty /\ e # Bad /\ tmpbuf' = longer
      /\ data' = [data EXCEPT ![t] = Tail(data[t])]
      /\ UNCHANGED <<barlib, pc, tgt, i, B, bufs, out, line, proc, asked, drawn>>
  BY DEF Append1, At
<1> HIDE DEF longer
<1>2. data[t] \in Seq(Elements) /\ data[t] # <<>> /\ barlib \in Barlibs
  BY <1>1 DEF BarInv, TypeB, Empty
<1>3. TypeB'
  <2>1. Tail(data[t]) \in Seq(Elements)
    BY <1>2
  <2> QED BY <1>1, <2>1 DEF BarInv, TypeB
<1>4. Inside(t) /\ pc' = [pc EXCEPT ![t] = "append"]
  BY <1>1 DEF Inside, BarInv, TypeB
<1>5. \A s \in Threads \ {t} : data'[s] = data[s]
  BY <1>1 DEF BarInv, TypeB
<1>6. /\ Locked' /\ Targets' /\ Quiet'
      /\ w \in Widgets
      /\ \A s \in Threads : Inside(s)' => s = t
  BY <1>1, <1>4, <1>5, InsideStep
<1>7. data'[t] = Tail(data[t])
  BY <1>1 DEF BarInv, TypeB
<1>8. Building(t)
  BY <1>1, <1>4 DEF BarInv, Busy
<1>9. Bad \in Range(Tail(data[t])) <=> Bad \in Range(data[t])
  <2>1. e = data[t][1] /\ Len(data[t]) \in Nat /\ Len(data[t]) >= 1
    BY <1>2
  <2>2. /\ DOMAIN data[t] = 1..Len(data[t]) /\ DOMAIN Tail(data[t]) = 1..Len(data[t]) - 1
        /\ \A k \in 1..Len(data[t]) - 1 : Tail(data[t])[k] = data[t][k + 1]
    BY <1>2
  <2>3. ASSUME NEW k \in 1..Len(data[t]), data[t][k] = Bad
        PROVE  \E m \in 1..Len(data[t]) - 1 : Tail(data[t])[m] = Bad
    <3>1. k # 1
      BY <1>1, <2>1, <2>3
    <3>2. k - 1 \in 1..Len(data[t]) - 1 /\ (k - 1) + 1 = k
      BY <2>1, <3>1
    <3> QED BY <2>2, <2>3, <3>2
  <2>4. ASSUME NEW k \in 1..Len(data[t]) - 1, Tail(data[t])[k] = Bad
        PROVE  \E m \in 1..Len(data[t]) : data[t][m] = Bad
    <3>1. k + 1 \in 1..Len(data[t])
      BY <2>1
    <3> QED BY <2>2, <2>4, <3>1
  <2> QED BY <2>2, <2>3, <2>4 DEF Range
<1>10. Building(t)'
  <2>1. CASE Bad \in Range(data[t])
    <3>1. asked[w] = ErrorText
      BY <1>8, <2>1 DEF Building, IsBuilding
    <3> QED BY <1>1, <1>7, <1>9, <2>1, <3>1 DEF Building, IsBuilding
  <2>2. CASE Bad \notin Range(data[t])
    <3>1. PICK d \in Seq(Elements), n \in Nat : \E f \in [0..Len(d) -> Seq(Symbols)] :
            /\ n <= Len(d) /\ Bad \notin Range(d)
            /\ Joins(f, barlib, w, d)
            /\ data[t] = SubSeq(d, n + 1, Len(d))
            /\ tmpbuf = f[n]
            /\ asked[w] = f[Len(d)]
      BY <1>8, <2>2 DEF Building, IsBuilding
    <3>2. PICK f \in [0..Len(d) -> Seq(Symbols)] :
            /\ n <= Len(d) /\ Bad \notin Range(d)
            /\ Joins(f, barlib, w, d)
            /\ data[t] = SubSeq(d, n + 1, Len(d))
            /\ tmpbuf = f[n]
            /\ asked[w] = f[Len(d)]
      BY <3>1
    <3>3. n < Len(d)
      <4>1. Len(SubSeq(d, n + 1, Len(d))) = IF n + 1 <= Len(d) THEN Len(d) - n ELSE 0
        BY <3>2
      <4>2. Len(data[t]) # 0
        BY <1>2
      <4> QED BY <3>2, <4>1, <4>2
    <3>4. e = d[n + 1] /\ Tail(data[t]) = SubSeq(d, (n + 1) + 1, Len(d))
      <4>1. n + 1 \in 1..Len(d)
        BY <3>3
      <4>2. Head(SubSeq(d, n + 1, Len(d))) = d[n + 1]
        BY <3>3, SMTT(30)
      <4>3. Tail(SubSeq(d, n + 1, Len(d))) = SubSeq(d, (n + 1) + 1, Len(d))
        BY <3>3, SMTT(30)
      <4> QED BY <3>2, <4>2, <4>3
    <3>5. f[n + 1] = longer
      <4>2. f[n] \in Seq(Symbols)
        BY <3>2, <3>3
      <4> HIDE DEF e, w
      <4>1. f[n + 1] = IF e = Nil THEN f[n]
                       ELSE IF f[n] # Empty /\ Counts(barlib, e)
                       THEN f[n] \o Separator \o Element(barlib, w, e)
                       ELSE f[n] \o Element(barlib, w, e)
        BY <1>2, <1>6, <3>2, <3>3, <3>4, <4>2, BuildingGoesOn, SMTT(20)
      <4> QED BY <3>2, <4>1 DEF longer
    <3>6. n + 1 \in Nat /\ n + 1 <= Len(d)
      BY <3>3
    <3> HIDE DEF e
    <3> QED BY <1>1, <1>7, <1>9, <2>2, <3>2, <3>4, <3>5, <3>6 DEF Building, IsBuilding
  <2> QED BY <2>1, <2>2
<1>11. Busy'
  <2> SUFFICES ASSUME NEW s \in Threads, Inside(s)'
               PROVE  (/\ \A v \in Widgets :
                            v # tgt[s] => bufs[v] = asked[v] /\ drawn[v] = asked[v]
                       /\ asked[tgt[s]] \in Texts
                       /\ pc[s] = "append" => drawn = bufs /\ out = Empty /\ Building(s)
                       /\ pc[s] = "set_error" => out = Empty /\ asked[tgt[s]] = ErrorText
                       /\ pc[s] = "redraw" => bufs = asked /\ Drawing(s)
                       /\ pc[s] = "unlock" => bufs = asked /\ drawn = asked /\ out = Empty)'
    BY DEF Busy
  <2>1. s = t
    BY <1>6
  <2> QED BY <1>1, <1>4, <1>10, <2>1 DEF BarInv, Busy
<1> QED BY <1>3, <1>6, <1>11 DEF BarInv

LEMMA InvalidDataStep ==
  ASSUME BarInv, NEW t \in Threads, InvalidData(t)
  PROVE  BarInv'
<1> DEFINE w == tgt[t]
<1>1. /\ pc[t] = "append" /\ data[t] # Empty /\ Head(data[t]) = Bad
      /\ bufs' = [bufs EXCEPT ![w] = Empty]
      /\ data' = [data EXCEPT ![t] = Empty]
      /\ pc' = [pc EXCEPT ![t] = "set_error"]
      /\ UNCHANGED <<barlib, tgt, i, B, out, line, proc, asked, drawn>>
  BY DEF InvalidData, At, Goto
<1>2. Empty \in Seq(Symbols) /\ Empty \in Seq(Elements)
  BY DEF Empty
<1>3. TypeB'
  BY <1>1, <1>2 DEF BarInv, TypeB, Points, Contents
<1>4. Inside(t)
  BY <1>1 DEF Inside
<1>5. \A s \in Threads \ {t} : data'[s] = data[s]
  BY <1>1 DEF BarInv, TypeB
<1>6. /\ Locked' /\ Targets' /\ Quiet'
      /\ w \in Widgets /\ pc'[t] = "set_error"
      /\ \A s \in Threads : Inside(s)' => s = t
  BY <1>1, <1>4, <1>5, InsideStep
<1>7. asked[w] = ErrorText
  <2>1. Bad \in Range(data[t])
    <3>1. data[t] \in Seq(Elements) /\ data[t] # <<>>
      BY <1>1 DEF BarInv, TypeB, Empty
    <3>2. 1 \in DOMAIN data[t] /\ data[t][1] = Bad
      BY <1>1, <3>1
    <3> QED BY <3>2 DEF Range
  <2>2. Building(t)
    BY <1>1, <1>4 DEF BarInv, Busy
  <2> QED BY <2>1, <2>2 DEF Building, IsBuilding
<1>8. \A v \in Widgets : v # w => bufs'[v] = bufs[v]
  BY <1>1 DEF BarInv, TypeB, Contents
<1>9. Busy'
  <2> SUFFICES ASSUME NEW s \in Threads, Inside(s)'
               PROVE  (/\ \A v \in Widgets :
                            v # tgt[s] => bufs[v] = asked[v] /\ drawn[v] = asked[v]
                       /\ asked[tgt[s]] \in Texts
                       /\ pc[s] = "append" => drawn = bufs /\ out = Empty /\ Building(s)
                       /\ pc[s] = "set_error" => out = Empty /\ asked[tgt[s]] = ErrorText
                       /\ pc[s] = "redraw" => bufs = asked /\ Drawing(s)
                       /\ pc[s] = "unlock" => bufs = asked /\ drawn = asked /\ out = Empty)'
    BY DEF Busy
  <2>1. s = t
    BY <1>6
  <2> QED BY <1>1, <1>4, <1>6, <1>7, <1>8, <2>1 DEF BarInv, Busy
<1> QED BY <1>3, <1>6, <1>9 DEF BarInv

\* redraw() starts with nothing written.
LEMMA DrawingStarts ==
  ASSUME NEW c \in Contents
  PROVE  \E f \in [0..N -> Seq(Symbols)] :
           Lines(f, c) /\ Display!Line(c) = f[N] /\ f[0] = Empty
<1>1. c \in [Widgets -> Seq(Symbols)]
  BY DEF Contents
<1>2. PICK f \in [0..N -> Seq(Symbols)] : Lines(f, c) /\ Display!Line(c) = f[N]
  BY <1>1, LineIsRecursive
<1> QED BY <1>2 DEF Lines

\* A thread goes to redraw() with what it shows in its widget's buffer.
LEMMA RedrawStarts ==
  ASSUME BarInv, NEW t \in Threads, Inside(t), out = Empty,
         bufs' = [bufs EXCEPT ![tgt[t]] = asked[tgt[t]]],
         i' = [i EXCEPT ![t] = 1],
         pc' = [pc EXCEPT ![t] = "redraw"],
         UNCHANGED <<barlib, tgt, data, B, out, line, proc, asked, drawn>>
  PROVE  BarInv'
<1> DEFINE w == tgt[t]
<1>1. \A s \in Threads \ {t} : data'[s] = data[s]
  OBVIOUS
<1>2. /\ Locked' /\ Targets' /\ Quiet'
      /\ w \in Widgets /\ pc'[t] = "redraw"
      /\ \A s \in Threads : Inside(s)' => s = t
  BY <1>1, InsideStep
<1>3. bufs' = asked
  <2>1. \A v \in Widgets : v # w => bufs[v] = asked[v]
    BY DEF BarInv, Busy
  <2> QED BY <1>2, <2>1 DEF BarInv, TypeB, Contents
<1>4. TypeB'
  BY <1>3 DEF BarInv, TypeB, Points
<1>5. Drawing(t)'
  <2>1. asked \in Contents
    BY DEF BarInv, TypeB
  <2>2. PICK f \in [0..N -> Seq(Symbols)] :
          Lines(f, asked) /\ Display!Line(asked) = f[N] /\ f[0] = Empty
    BY <2>1, DrawingStarts
  <2>3. i'[t] = 1 /\ 1 - 1 = 0 /\ 1 \in 1..N + 1
    BY DatasType DEF BarInv, TypeB
  <2> QED BY <1>3, <2>2, <2>3 DEF Drawing
<1>6. Busy'
  <2> SUFFICES ASSUME NEW s \in Threads, Inside(s)'
               PROVE  (/\ \A v \in Widgets :
                            v # tgt[s] => bufs[v] = asked[v] /\ drawn[v] = asked[v]
                       /\ asked[tgt[s]] \in Texts
                       /\ pc[s] = "append" => drawn = bufs /\ out = Empty /\ Building(s)
                       /\ pc[s] = "set_error" => out = Empty /\ asked[tgt[s]] = ErrorText
                       /\ pc[s] = "redraw" => bufs = asked /\ Drawing(s)
                       /\ pc[s] = "unlock" => bufs = asked /\ drawn = asked /\ out = Empty)'
    BY DEF Busy
  <2>1. s = t
    BY <1>2
  <2> QED BY <1>2, <1>3, <1>5, <2>1 DEF BarInv, Busy
<1> QED BY <1>2, <1>4, <1>6 DEF BarInv

LEMMA CompareStep ==
  ASSUME BarInv, NEW t \in Threads, Compare(t)
  PROVE  BarInv'
<1> DEFINE w == tgt[t]
<1>1. /\ pc[t] = "append" /\ data[t] = Empty
      /\ UNCHANGED <<barlib, tgt, data, B, out, line, proc, asked, drawn>>
  BY DEF Compare, At
<1>2. Inside(t)
  BY <1>1 DEF Inside
\* All of the table is joined: it is what is to be shown.
<1>3. drawn = bufs /\ out = Empty /\ tmpbuf = asked[w]
  <2>1. drawn = bufs /\ out = Empty /\ Building(t)
    BY <1>1, <1>2 DEF BarInv, Busy
  <2>2. Bad \notin Range(data[t])
    BY <1>1 DEF Range, Empty
  <2>3. PICK d \in Seq(Elements), n \in Nat : \E f \in [0..Len(d) -> Seq(Symbols)] :
          /\ n <= Len(d)
          /\ data[t] = SubSeq(d, n + 1, Len(d))
          /\ tmpbuf = f[n]
          /\ asked[w] = f[Len(d)]
    BY <2>1, <2>2 DEF Building, IsBuilding
  <2>4. Len(SubSeq(d, n + 1, Len(d))) = IF n + 1 <= Len(d) THEN Len(d) - n ELSE 0
    BY <2>3
  <2>5. Len(data[t]) = 0
    BY <1>1 DEF Empty
  <2>6. n = Len(d)
    BY <2>3, <2>4, <2>5
  <2> QED BY <2>1, <2>3, <2>6
<1>4. CASE tmpbuf = bufs[w]
  <2>1. pc' = [pc EXCEPT ![t] = "unlock"] /\ UNCHANGED <<bufs, tmpbuf, i>>
    BY <1>4 DEF Compare, Goto
  <2>2. /\ Locked' /\ Targets' /\ Quiet'
        /\ w \in Widgets /\ pc'[t] = "unlock"
        /\ \A s \in Threads : Inside(s)' => s = t
    BY <1>1, <1>2, <2>1, InsideStep
  <2>3. TypeB'
    BY <1>1, <2>1 DEF BarInv, TypeB, Points
  <2>4. bufs = asked
    <3>1. \A v \in Widgets : v # w => bufs[v] = asked[v]
      BY <1>2 DEF BarInv, Busy
    <3>2. \A v \in Widgets : bufs[v] = asked[v]
      BY <1>3, <1>4, <3>1
    <3> QED BY <3>2 DEF BarInv, TypeB, Contents
  <2>5. Busy'
    <3> SUFFICES ASSUME NEW s \in Threads, Inside(s)'
                 PROVE  (/\ \A v \in Widgets :
                              v # tgt[s] => bufs[v] = asked[v] /\ drawn[v] = asked[v]
                         /\ asked[tgt[s]] \in Texts
                         /\ pc[s] = "append" => drawn = bufs /\ out = Empty /\ Building(s)
                         /\ pc[s] = "set_error" => out = Empty /\ asked[tgt[s]] = ErrorText
                         /\ pc[s] = "redraw" => bufs = asked /\ Drawing(s)
                         /\ pc[s] = "unlock" => bufs = asked /\ drawn = asked /\ out = Empty)'
      BY DEF Busy
    <3>1. s = t
      BY <2>2
    <3> QED BY <1>1, <1>2, <1>3, <2>1, <2>2, <2>4, <3>1 DEF BarInv, Busy
  <2> QED BY <2>2, <2>3, <2>5 DEF BarInv
<1>5. CASE tmpbuf # bufs[w]
  <2>1. /\ bufs' = [bufs EXCEPT ![w] = tmpbuf] /\ i' = [i EXCEPT ![t] = 1]
        /\ pc' = [pc EXCEPT ![t] = "redraw"]
    BY <1>5 DEF Compare, Goto
  <2>2. bufs' = [bufs EXCEPT ![w] = asked[w]]
    BY <1>3, <2>1
  <2> QED BY <1>1, <1>2, <1>3, <2>1, <2>2, RedrawStarts
<1> QED BY <1>4, <1>5

LEMMA SetErrorStep ==
  ASSUME BarInv, NEW t \in Threads, SetError(t)
  PROVE  BarInv'
<1>1. /\ pc[t] = "set_error"
      /\ bufs' = [bufs EXCEPT ![tgt[t]] = ErrorText] /\ i' = [i EXCEPT ![t] = 1]
      /\ pc' = [pc EXCEPT ![t] = "redraw"]
      /\ UNCHANGED <<barlib, tgt, data, B, tmpbuf, out, line, proc, asked, drawn>>
  BY DEF SetError, At, Goto
<1>2. Inside(t)
  BY <1>1 DEF Inside
<1>3. out = Empty /\ asked[tgt[t]] = ErrorText
  BY <1>1, <1>2 DEF BarInv, Busy
<1>4. bufs' = [bufs EXCEPT ![tgt[t]] = asked[tgt[t]]]
  BY <1>1, <1>3
<1> QED BY <1>1, <1>2, <1>3, <1>4, RedrawStarts

\* redraw() writes one widget more.
LEMMA DrawingGoesOn ==
  ASSUME NEW c \in Contents, NEW f, Lines(f, c), NEW w \in Widgets, f[w - 1] \in Seq(Symbols)
  PROVE  f[w] = IF c[w] = Empty THEN f[w - 1]
                ELSE IF f[w - 1] = Empty THEN c[w]
                ELSE f[w - 1] \o Separator \o c[w]
<1>1. f[w] = Display!Joined(f[w - 1], c[w])
  BY DEF Lines
<1>2. c[w] \in Seq(Symbols)
  BY DEF Contents
<1>3. f[w - 1] \o Empty = f[w - 1] /\ Empty \o c[w] = c[w]
  BY <1>2 DEF Empty
<1> QED BY <1>1, <1>3 DEF Display!Joined, Display!Empty, Empty

LEMMA RedrawOneStep ==
  ASSUME BarInv, NEW t \in Threads, RedrawOne(t)
  PROVE  BarInv'
<1> DEFINE v == i[t]
           longer == IF bufs[v] = Empty THEN out
                     ELSE IF out = Empty THEN bufs[v]
                     ELSE out \o Separator \o bufs[v]
<1>1. /\ pc[t] = "redraw" /\ v \in Widgets /\ out' = longer
      /\ i' = [i EXCEPT ![t] = v + 1]
      /\ UNCHANGED <<barlib, pc, tgt, data, B, bufs, tmpbuf, line, proc, asked, drawn>>
  BY DEF RedrawOne, At
<1>2. Inside(t) /\ pc' = [pc EXCEPT ![t] = "redraw"]
  BY <1>1 DEF Inside, BarInv, TypeB
<1>3. /\ Locked' /\ Targets' /\ Quiet'
      /\ tgt[t] \in Widgets
      /\ \A s \in Threads : Inside(s)' => s = t
  BY <1>1, <1>2, InsideStep
<1>4. bufs = asked /\ Drawing(t)
  BY <1>1, <1>2 DEF BarInv, Busy
<1>5. PICK f \in [0..N -> Seq(Symbols)] :
        /\ Lines(f, bufs) /\ Display!Line(bufs) = f[N]
        /\ out = f[v - 1]
  BY <1>4 DEF Drawing
<1>6. v \in 1..N /\ v - 1 \in 0..N /\ v \in 0..N /\ v + 1 \in 1..N + 1 /\ (v + 1) - 1 = v
  BY <1>1, DatasType, SMTT(40) DEF Widgets
<1>7. f[v] = longer
  <2>1. f[v - 1] \in Seq(Symbols)
    BY <1>5, <1>6
  <2>2. bufs \in Contents
    BY DEF BarInv, TypeB
  <2> HIDE DEF v
  <2>3. f[v] = IF bufs[v] = Empty THEN f[v - 1]
               ELSE IF f[v - 1] = Empty THEN bufs[v]
               ELSE f[v - 1] \o Separator \o bufs[v]
    BY <1>1, <1>5, <2>1, <2>2, DrawingGoesOn
  <2> QED BY <1>5, <2>3
<1> HIDE DEF longer
<1>8. TypeB'
  <2>1. f[v] \in Seq(Symbols)
    BY <1>5, <1>6
  <2> QED BY <1>1, <1>6, <1>7, <2>1 DEF BarInv, TypeB
<1>9. Drawing(t)'
  <2>1. i'[t] = v + 1
    BY <1>1 DEF BarInv, TypeB
  <2> QED BY <1>1, <1>5, <1>6, <1>7, <2>1 DEF Drawing
<1>10. Busy'
  <2> SUFFICES ASSUME NEW s \in Threads, Inside(s)'
               PROVE  (/\ \A u \in Widgets :
                            u # tgt[s] => bufs[u] = asked[u] /\ drawn[u] = asked[u]
                       /\ asked[tgt[s]] \in Texts
                       /\ pc[s] = "append" => drawn = bufs /\ out = Empty /\ Building(s)
                       /\ pc[s] = "set_error" => out = Empty /\ asked[tgt[s]] = ErrorText
                       /\ pc[s] = "redraw" => bufs = asked /\ Drawing(s)
                       /\ pc[s] = "unlock" => bufs = asked /\ drawn = asked /\ out = Empty)'
    BY DEF Busy
  <2>1. s = t
    BY <1>3
  <2> QED BY <1>1, <1>2, <1>4, <1>9, <2>1 DEF BarInv, Busy
<1> QED BY <1>3, <1>8, <1>10 DEF BarInv

\* The line is complete, and differs from the one before in one widget.
LEMMA ShowsStep ==
  ASSUME BarInv, NEW t \in Threads, Shows(t)
  PROVE  BarInv' /\ Display!DNext
<1> DEFINE w == tgt[t]
<1>1. /\ pc[t] = "redraw" /\ i[t] \notin Widgets
      /\ line' = out /\ out' = Empty /\ drawn' = bufs
      /\ pc' = [pc EXCEPT ![t] = "unlock"]
      /\ UNCHANGED <<barlib, tgt, data, i, B, bufs, tmpbuf, proc, asked>>
  BY DEF Shows, At, Goto
<1>2. Inside(t)
  BY <1>1 DEF Inside
<1>3. /\ Locked' /\ Targets' /\ Quiet'
      /\ w \in Widgets /\ pc'[t] = "unlock"
      /\ \A s \in Threads : Inside(s)' => s = t
  BY <1>1, <1>2, InsideStep
<1>4. bufs = asked /\ Drawing(t)
  BY <1>1, <1>2 DEF BarInv, Busy
<1>5. TypeB'
  <2>1. Empty \in Seq(Symbols)
    BY DEF Empty
  <2> QED BY <1>1, <2>1 DEF BarInv, TypeB, Points
<1>6. Busy'
  <2> SUFFICES ASSUME NEW s \in Threads, Inside(s)'
               PROVE  (/\ \A v \in Widgets :
                            v # tgt[s] => bufs[v] = asked[v] /\ drawn[v] = asked[v]
                       /\ asked[tgt[s]] \in Texts
                       /\ pc[s] = "append" => drawn = bufs /\ out = Empty /\ Building(s)
                       /\ pc[s] = "set_error" => out = Empty /\ asked[tgt[s]] = ErrorText
                       /\ pc[s] = "redraw" => bufs = asked /\ Drawing(s)
                       /\ pc[s] = "unlock" => bufs = asked /\ drawn = asked /\ out = Empty)'
    BY DEF Busy
  <2>1. s = t
    BY <1>3
  <2> QED BY <1>1, <1>2, <1>3, <1>4, <2>1 DEF BarInv, Busy
<1>7. out = Display!Line(bufs)
  <2>1. PICK f \in [0..N -> Seq(Symbols)] :
          /\ Display!Line(bufs) = f[N]
          /\ i[t] \in 1..N + 1
          /\ out = f[i[t] - 1]
    BY <1>4 DEF Drawing
  <2>2. i[t] - 1 = N
    BY <1>1, <2>1, DatasType DEF Widgets
  <2> QED BY <2>1, <2>2
<1>8. drawn' = [drawn EXCEPT ![w] = asked[w]]
  <2>1. \A v \in Widgets : v # w => drawn[v] = asked[v]
    BY <1>2 DEF BarInv, Busy
  <2> QED BY <1>1, <1>3, <1>4, <2>1 DEF BarInv, TypeB, Contents
<1>9. asked[w] \in Texts /\ w \in 1..N
  BY <1>2, <1>3 DEF BarInv, Busy, Widgets
<1>10. line' = Display!Line(drawn')
  BY <1>1, <1>7
<1>11. Display!DNext
  BY <1>8, <1>9, <1>10 DEF Display!DNext, Display!Show
<1> QED BY <1>3, <1>5, <1>6, <1>11 DEF BarInv

LEMMA UnlockBStep ==
  ASSUME BarInv, NEW t \in Threads, UnlockB(t)
  PROVE  BarInv'
<1>1. /\ pc[t] = "unlock" /\ B' = Free /\ pc' = [pc EXCEPT ![t] = "idle"]
      /\ UNCHANGED <<barlib, tgt, data, i, bufs, tmpbuf, out, line, proc, asked, drawn>>
  BY DEF UnlockB, At, Goto
<1>2. Inside(t)
  BY <1>1 DEF Inside
<1>3. bufs = asked /\ drawn = asked /\ out = Empty
  BY <1>1, <1>2 DEF BarInv, Busy
<1>4. TypeB'
  BY <1>1 DEF BarInv, TypeB, Points
<1>5. pc'[t] = "idle" /\ \A s \in Threads \ {t} : pc'[s] = pc[s] /\ ~Inside(s)
  BY <1>1, <1>2, Alone DEF BarInv, TypeB
<1>6. \A s \in Threads : ~Inside(s)' /\ s # Free
  BY <1>5, BarAssumption DEF Inside, Threads, Free
<1>7. Locked' /\ Busy' /\ Quiet'
  BY <1>1, <1>3, <1>6 DEF Locked, Busy, Quiet
<1>8. Targets'
  BY <1>1, <1>5 DEF BarInv, Targets
<1> QED BY <1>4, <1>7, <1>8 DEF BarInv

\* Every step keeps the invariant, and is one of the display or leaves it as it is.
LEMMA BarStepInv ==
  ASSUME BarInv, [Next]_vars
  PROVE  BarInv' /\ [Display!DNext]_<<drawn, line>>
<1>1. CASE UNCHANGED vars
  BY <1>1, IdleStep DEF vars
<1>2. ASSUME NEW t \in Threads, NEW d \in Datas, CallSet(t, d)
      PROVE  BarInv' /\ UNCHANGED <<drawn, line>>
  BY <1>2, CallSetStep DEF CallSet
<1>3. ASSUME NEW t \in Threads, NEW w \in Widgets, CallSetError(t, w)
      PROVE  BarInv' /\ UNCHANGED <<drawn, line>>
  BY <1>3, CallSetErrorStep DEF CallSetError
<1>4. ASSUME NEW t \in Threads, LockB(t) PROVE BarInv' /\ UNCHANGED <<drawn, line>>
  BY <1>4, LockBStep DEF LockB
<1>5. ASSUME NEW t \in Threads, Append1(t) PROVE BarInv' /\ UNCHANGED <<drawn, line>>
  BY <1>5, Append1Step DEF Append1
<1>6. ASSUME NEW t \in Threads, InvalidData(t) PROVE BarInv' /\ UNCHANGED <<drawn, line>>
  BY <1>6, InvalidDataStep DEF InvalidData
<1>7. ASSUME NEW t \in Threads, Compare(t) PROVE BarInv' /\ UNCHANGED <<drawn, line>>
  BY <1>7, CompareStep DEF Compare
<1>8. ASSUME NEW t \in Threads, SetError(t) PROVE BarInv' /\ UNCHANGED <<drawn, line>>
  BY <1>8, SetErrorStep DEF SetError
<1>9. ASSUME NEW t \in Threads, RedrawOne(t) PROVE BarInv' /\ UNCHANGED <<drawn, line>>
  BY <1>9, RedrawOneStep DEF RedrawOne
<1>10. ASSUME NEW t \in Threads, RedrawEnds(t) \/ ChangeName(t)
       PROVE  BarInv' /\ Display!DNext
  BY <1>10, ShowsStep DEF RedrawEnds, ChangeName
<1>11. ASSUME NEW t \in Threads, RedrawFails(t) PROVE BarInv' /\ UNCHANGED <<drawn, line>>
  BY <1>11, IdleStep DEF RedrawFails
<1>12. ASSUME NEW t \in Threads, UnlockB(t) PROVE BarInv' /\ UNCHANGED <<drawn, line>>
  BY <1>12, UnlockBStep DEF UnlockB
<1> QED
  BY <1>1, <1>2, <1>3, <1>4, <1>5, <1>6, <1>7, <1>8, <1>9, <1>10, <1>11, <1>12
     DEF Next, Step, Ended

-----------------------------------------------------------------------------
\* BarInv holds of every state of the barlibs of stdout.c, lemonbar.c, dwm.c and i3.c: a
\* thread is alone inside set(), set_error() and redraw(), and how far it has come there is
\* what the buffers, the temporary buffer and the unfinished line hold.
THEOREM BarInvariance == Spec => []BarInv
BY BarInitInv, BarStepInv, PTL DEF Spec

\* Whenever no thread is inside set() or set_error(), the bar shows of every widget what its
\* last call was to show (UpToDate).
THEOREM BarIsUpToDate == Spec => []UpToDate
<1>1. BarInv => UpToDate
  BY DEF BarInv, Quiet, UpToDate
<1> QED BY <1>1, BarInvariance, PTL

\* set(), set_error() and redraw(), step by step, implement the display: the line changes
\* from the join of whole contents to that of others, one widget changed (IsBar).
THEOREM BarlibsAreBars == Spec => IsBar
<1>1. Init => Display!DInit
  <2> SUFFICES ASSUME NEW b \in Barlibs, NEW p, BarStart(b, p) PROVE Display!DInit
    BY DEF Init
  <2>1. drawn = [w \in Widgets |-> Empty] /\ line = Empty
    BY DEF BarStart
  <2>2. line = Display!Line(drawn)
    BY <2>1, EmptyLine
  <2> QED BY <2>1, <2>2 DEF Display!DInit, Widgets, Display!Empty, Empty
<1>2. BarInv /\ [Next]_vars => [Display!DNext]_<<drawn, line>>
  BY BarStepInv
<1> QED BY <1>1, <1>2, BarInvariance, PTL DEF Spec, IsBar, Display!DSpec
=============================================================================
