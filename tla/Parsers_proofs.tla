--------------------------- MODULE Parsers_proofs ---------------------------
(***************************************************************************)
(* What the program reads and writes, of any length.  Every click in i3's  *)
(* stream of tokens is told, whole, to the widget it names; the commands   *)
(* of a widget's tags come back to it from lemonbar.  What is URL-encoded  *)
(* is decoded as it was and fills what its size was counted as; numerals   *)
(* and layouts are read as they are meant; a text fits its width.          *)
(***************************************************************************)
EXTENDS BarEvents, Codecs, Induction, SequenceTheorems, FiniteSetTheorems, TLAPS

-----------------------------------------------------------------------------
(* push_object().                                                          *)

TokenTypes == {"array_start", "map_start", "array_end", "map_end", "key", "string", "scalar"}
TokenValues == Strings \cup {"name", "other", "none"}
Tokens == [type : TokenTypes, value : TokenValues]
PushModes == {"value", "array", "map"}

\* What push_object() computes at one place, when it computes after at the others.
PushValue(after, ts, i) ==
  CASE ts[i].type = "array_start" -> after[<<i + 1, "array">>]
    [] ts[i].type = "map_start"   -> after[<<i + 1, "map">>]
    [] ts[i].type \in {"string", "scalar"} -> i + 1
    [] OTHER -> 0

PushArray(after, ts, i) ==
  IF ts[i].type = "array_end" THEN i + 1 ELSE after[<<after[<<i, "value">>], "array">>]

PushMap(after, ts, i) ==
  IF ts[i].type = "map_end" THEN i + 1
  ELSE IF ts[i].type = "key" THEN after[<<after[<<i + 1, "value">>], "map">>]
  ELSE 0

Pushes(after, ts) ==
  /\ \A w \in PushModes : after[<<0, w>>] = 0 /\ after[<<Len(ts) + 1, w>>] = 0
  /\ \A i \in 1..Len(ts) :
       /\ after[<<i, "value">>] = PushValue(after, ts, i)
       /\ after[<<i, "array">>] = PushArray(after, ts, i)
       /\ after[<<i, "map">>] = PushMap(after, ts, i)

\* The recursion ends for any tokens: the index only grows.
LEMMA PushesExists ==
  ASSUME NEW ts \in Seq(Tokens)
  PROVE  \E after : after = [at \in (0..Len(ts) + 1) \X PushModes |-> after[at]] /\ Pushes(after, ts)
<1> DEFINE n == Len(ts)
           D == (0..n + 1) \X PushModes
           Later(i) == {0} \cup (i + 1..n + 1)
           V == [i \in 1..n |-> [PushModes -> Later(i)]]
           Ext(i, t) == [at \in D |-> IF at[1] \in i + 1..n THEN t[at[1]][at[2]] ELSE 0]
           Val(i, t) == PushValue(Ext(i, t), ts, i)
           Arr(i, t) == IF ts[i].type = "array_end" THEN i + 1 ELSE Ext(i, t)[<<Val(i, t), "array">>]
           Map(i, t) == PushMap(Ext(i, t), ts, i)
           Row(i, t) == [w \in PushModes |-> IF w = "value" THEN Val(i, t)
                                             ELSE IF w = "array" THEN Arr(i, t) ELSE Map(i, t)]
           step == [i \in 1..n |-> [t \in Tails(V, i, n) |-> Row(i, t)]]
<1>1. n \in Nat /\ \A i \in 1..n : ts[i] \in Tokens
  OBVIOUS
<1>2. ASSUME NEW i \in 1..n, NEW t \in Tails(V, i, n)
      PROVE  Row(i, t) \in V[i]
  <2>1. ASSUME NEW j \in 0..n + 1, NEW w \in PushModes, j > i \/ j = 0
        PROVE  Ext(i, t)[<<j, w>>] \in Later(i)
    <3>1. <<j, w>> \in D /\ Ext(i, t)[<<j, w>>] = IF j \in i + 1..n THEN t[j][w] ELSE 0
      OBVIOUS
    <3>2. CASE j \in i + 1..n
      <4>1. t[j] \in V[j] /\ j \in 1..n
        <5> HIDE DEF V
        <5> QED BY <3>2 DEF Tails
      <4>2. t[j] \in [PushModes -> Later(j)]
        BY <4>1
      <4>3. t[j][w] \in Later(j) /\ Later(j) \subseteq Later(i)
        BY <3>2, <4>2
      <4> HIDE DEF Ext, Later
      <4> QED BY <3>1, <3>2, <4>3
    <3>3. CASE j \notin i + 1..n
      BY <3>1, <3>3
    <3> QED BY <3>2, <3>3
  <2>2. /\ "value" \in PushModes /\ "array" \in PushModes /\ "map" \in PushModes
        /\ i + 1 \in 0..n + 1 /\ i + 1 > i /\ i + 1 \in Later(i) /\ 0 \in Later(i)
        /\ \A j \in Later(i) : j \in 0..n + 1 /\ (j > i \/ j = 0)
    BY <1>1 DEF PushModes
  <2> HIDE DEF Ext, Later
  <2>3. Val(i, t) \in Later(i)
    BY <2>1, <2>2 DEF PushValue
  <2>4. Arr(i, t) \in Later(i)
    <3> HIDE DEF Val
    <3> QED BY <2>1, <2>2, <2>3
  <2>5. Map(i, t) \in Later(i)
    <3>1. Ext(i, t)[<<i + 1, "value">>] \in Later(i)
      BY <2>1, <2>2
    <3> QED BY <2>1, <2>2, <3>1 DEF PushMap
  <2> HIDE DEF Val, Arr, Map
  <2> QED BY <2>3, <2>4, <2>5
<1>3. \A i \in 1..n : \A t \in Tails(V, i, n) : step[i][t] = Row(i, t) /\ step[i][t] \in V[i]
  <2> HIDE DEF Row, V
  <2> QED BY <1>2
<1>4. PICK f \in Tails(V, 0, n) : BackwardSteps(f, n, step)
  <2> HIDE DEF step, V, n, Row
  <2>1. \A i \in 1..n : \A t \in Tails(V, i, n) : step[i][t] \in V[i]
    BY <1>3
  <2>2. n \in Nat
    BY <1>1
  <2> QED BY <2>1, <2>2, BackwardRecursion
<1> DEFINE after == [at \in D |-> IF at[1] \in 1..n THEN f[at[1]][at[2]] ELSE 0]
<1>5. \A i \in 0..n + 1, w \in PushModes : after[<<i, w>>] = IF i \in 1..n THEN f[i][w] ELSE 0
  OBVIOUS
<1>6. ASSUME NEW i \in 1..n
      PROVE  \E t \in Tails(V, i, n) : f[i] = Row(i, t) /\ t = [j \in i + 1..n |-> f[j]]
  <2> DEFINE t == [j \in i + 1..n |-> f[j]]
  <2>1. t \in Tails(V, i, n)
    <3>1. \A j \in i + 1..n : j \in 0 + 1..n /\ t[j] = f[j]
      OBVIOUS
    <3>2. \A j \in 0 + 1..n : f[j] \in V[j] /\ f[j] \in UNION {V[k] : k \in 1..n}
      BY <1>4 DEF Tails
    <3> HIDE DEF V, n
    <3> QED BY <3>1, <3>2 DEF Tails
  <2>2. f[i] = step[i][t]
    <3> HIDE DEF step, V, n
    <3> QED BY <1>4 DEF BackwardSteps
  <2> HIDE DEF step, t, V, n, Row
  <2> QED BY <1>3, <2>1, <2>2 DEF t
<1>7. ASSUME NEW i \in 1..n
      PROVE  /\ after[<<i, "value">>] = PushValue(after, ts, i)
             /\ after[<<i, "array">>] = PushArray(after, ts, i)
             /\ after[<<i, "map">>] = PushMap(after, ts, i)
  <2>0. /\ "value" \in PushModes /\ "array" \in PushModes /\ "map" \in PushModes
        /\ i + 1 \in 0..n + 1 /\ i + 1 > i /\ i \in 0..n + 1
    <3>1. /\ "value" \in PushModes /\ "array" \in PushModes /\ "map" \in PushModes
      BY DEF PushModes
    <3>2. n \in Nat /\ i \in Nat /\ 1 <= i /\ i <= n
      BY <1>1
    <3> HIDE DEF n
    <3>3. i + 1 \in 0..n + 1
      BY <3>2
    <3>4. i \in 0..n + 1
      BY <3>2
    <3>5. i + 1 > i
      BY <3>2
    <3> QED BY <3>1, <3>3, <3>4, <3>5
  <2>1. PICK t \in Tails(V, i, n) : f[i] = Row(i, t) /\ t = [j \in i + 1..n |-> f[j]]
    <3> HIDE DEF V, Row
    <3> QED BY <1>6
  <2>2. ASSUME NEW j \in 0..n + 1, NEW w \in PushModes, j > i \/ j = 0
        PROVE  Ext(i, t)[<<j, w>>] = after[<<j, w>>]
    <3>1. <<j, w>> \in D /\ Ext(i, t)[<<j, w>>] = IF j \in i + 1..n THEN t[j][w] ELSE 0
      OBVIOUS
    <3>2. CASE j \in i + 1..n
      <4>1. t[j] = f[j] /\ j \in 1..n
        <5> HIDE DEF Row, V
        <5> QED BY <2>1, <3>2
      <4> HIDE DEF Ext, after
      <4> QED BY <1>5, <3>1, <3>2, <4>1
    <3>3. CASE j \notin i + 1..n
      <4>1. j \notin 1..n
        BY <2>2, <3>3
      <4> HIDE DEF Ext, after
      <4> QED BY <1>5, <3>1, <3>3, <4>1
    <3> QED BY <3>2, <3>3
  <2>4. Row(i, t) \in [PushModes -> Later(i)]
    <3>1. Row(i, t) \in V[i]
      <4> HIDE DEF V, Row
      <4> QED BY <1>2
    <3>2. V[i] = [PushModes -> Later(i)]
      <4> HIDE DEF Later
      <4> QED OBVIOUS
    <3> HIDE DEF V, Row
    <3> QED BY <3>1, <3>2
  <2>5. /\ after[<<i, "value">>] = Val(i, t)
        /\ after[<<i, "array">>] = Arr(i, t)
        /\ after[<<i, "map">>] = Map(i, t)
    <3>1. f[i]["value"] = Val(i, t) /\ f[i]["array"] = Arr(i, t) /\ f[i]["map"] = Map(i, t)
      <4> HIDE DEF Val, Arr, Map
      <4> QED BY <2>1, <2>0
    <3> HIDE DEF Val, Arr, Map, after
    <3> QED BY <1>5, <2>0, <3>1
  <2>6. /\ Val(i, t) \in 0..n + 1 /\ (Val(i, t) > i \/ Val(i, t) = 0)
        /\ Ext(i, t)[<<i + 1, "value">>] \in 0..n + 1
        /\ (Ext(i, t)[<<i + 1, "value">>] > i \/ Ext(i, t)[<<i + 1, "value">>] = 0)
    <3>1. Val(i, t) \in Later(i)
      <4> HIDE DEF Val, Arr, Map, Later
      <4> QED BY <2>0, <2>4
    <3>2. Ext(i, t)[<<i + 1, "value">>] \in Later(i)
      <4>1. CASE i + 1 \in i + 1..n
        <5>1. t[i + 1] \in V[i + 1] /\ i + 1 \in 1..n
          <6> HIDE DEF V
          <6> QED BY <4>1 DEF Tails
        <5>2. t[i + 1]["value"] \in Later(i + 1)
          BY <5>1, <2>0
        <5>3. <<i + 1, "value">> \in D /\ Ext(i, t)[<<i + 1, "value">>] = t[i + 1]["value"]
          BY <4>1, <2>0
        <5>4. Later(i + 1) \subseteq Later(i)
          OBVIOUS
        <5> QED BY <5>2, <5>3, <5>4
      <4>2. CASE i + 1 \notin i + 1..n
        BY <2>0, <4>2
      <4> QED BY <4>1, <4>2
    <3> QED BY <3>1, <3>2, <1>1
  <2> HIDE DEF Ext, after
  <2>7. Val(i, t) = PushValue(after, ts, i)
    BY <2>2, <2>0 DEF PushValue
  <2>8. Arr(i, t) = PushArray(after, ts, i)
    <3> HIDE DEF Val
    <3> QED BY <2>2, <2>0, <2>5, <2>6 DEF PushArray
  <2>9. Map(i, t) = PushMap(after, ts, i)
    BY <2>2, <2>0, <2>6 DEF PushMap
  <2> HIDE DEF Val, Arr, Map
  <2> QED BY <2>5, <2>7, <2>8, <2>9
<1>8. \A w \in PushModes : after[<<0, w>>] = 0 /\ after[<<n + 1, w>>] = 0
  BY <1>1, <1>5
<1>9. after = [at \in D |-> after[at]]
  OBVIOUS
<1> HIDE DEF after
<1> QED BY <1>7, <1>8, <1>9 DEF Pushes

\* PushObject() is such a recursion.
LEMMA PushObjectIsRecursive ==
  ASSUME NEW ts \in Seq(Tokens)
  PROVE  \E after : Pushes(after, ts) /\ PushObject(ts) = after[<<1, "value">>]
<1> DEFINE D == (0..Len(ts) + 1) \X PushModes
           ends == {<<"array", "array_end">>, <<"map", "map_end">>}
           At(after, at) ==
             IF at[1] \notin DOMAIN ts THEN 0
             ELSE IF at[2] = "value"
             THEN CASE ts[at[1]].type = "array_start" -> after[<<at[1] + 1, "array">>]
                    [] ts[at[1]].type = "map_start"   -> after[<<at[1] + 1, "map">>]
                    [] ts[at[1]].type \in {"string", "scalar"} -> at[1] + 1
                    [] OTHER -> 0
             ELSE IF <<at[2], ts[at[1]].type>> \in ends THEN at[1] + 1
             ELSE IF at[2] = "array" THEN after[<<after[<<at[1], "value">>], "array">>]
             ELSE IF ts[at[1]].type = "key" THEN after[<<after[<<at[1] + 1, "value">>], "map">>]
             ELSE 0
           Is(after) == after = [at \in D |-> At(after, at)]
           push == CHOOSE after : Is(after)
<1>1. PushObject(ts) = push[<<1, "value">>]
  BY DEF PushObject, PushModes
<1>2. /\ DOMAIN ts = 1..Len(ts) /\ Len(ts) \in Nat
      /\ "value" \in PushModes /\ "array" \in PushModes /\ "map" \in PushModes
      /\ \A w \in PushModes : w = "value" \/ w = "array" \/ w = "map"
  BY DEF PushModes
<1>3. ASSUME NEW after, NEW i \in 1..Len(ts)
      PROVE  /\ At(after, <<i, "value">>) = PushValue(after, ts, i)
             /\ At(after, <<i, "array">>) = PushArray(after, ts, i)
             /\ At(after, <<i, "map">>) = PushMap(after, ts, i)
  BY <1>2 DEF PushValue, PushArray, PushMap
<1>4. \A after, w : At(after, <<0, w>>) = 0 /\ At(after, <<Len(ts) + 1, w>>) = 0
  BY <1>2
<1>5. \E after : Is(after)
  <2>1. PICK after : after = [at \in D |-> after[at]] /\ Pushes(after, ts)
    BY PushesExists
  <2>2. ASSUME NEW i \in 0..Len(ts) + 1, NEW w \in PushModes
        PROVE  after[<<i, w>>] = At(after, <<i, w>>)
    <3>1. i \in 1..Len(ts) \/ i \in {0, Len(ts) + 1}
      BY <1>2
    <3> HIDE DEF At
    <3>2. CASE i \in {0, Len(ts) + 1}
      BY <1>4, <2>1, <3>2 DEF Pushes
    <3>3. CASE i \in 1..Len(ts)
      BY <1>2, <1>3, <2>1, <3>3 DEF Pushes
    <3> QED BY <3>1, <3>2, <3>3
  <2>3. \A at \in D : after[at] = At(after, at)
    <3> HIDE DEF At
    <3>1. \A at \in D : at = <<at[1], at[2]>> /\ at[1] \in 0..Len(ts) + 1 /\ at[2] \in PushModes
      OBVIOUS
    <3> QED BY <2>2, <3>1
  <2> HIDE DEF At, D
  <2> QED BY <2>1, <2>3
<1>6. Is(push)
  <2> HIDE DEF Is
  <2> QED BY <1>5
<1>7. \A i \in 0..Len(ts) + 1, w \in PushModes : push[<<i, w>>] = At(push, <<i, w>>)
  <2> HIDE DEF At, push
  <2>1. \A i \in 0..Len(ts) + 1, w \in PushModes : <<i, w>> \in D
    OBVIOUS
  <2> HIDE DEF D
  <2> QED BY <1>6, <2>1
<1>8. Pushes(push, ts)
  <2> HIDE DEF At, push
  <2>1. /\ 0 \in 0..Len(ts) + 1 /\ Len(ts) + 1 \in 0..Len(ts) + 1
        /\ \A i \in 1..Len(ts) : i \in 0..Len(ts) + 1
    BY <1>2
  <2> QED BY <1>2, <1>3, <1>4, <1>7, <2>1 DEF Pushes
<1> QED BY <1>1, <1>8

\* From the stack h of what is open, the token t is one yajl lets through, and leads to g.
ValueIsNext(h) == h # <<>> /\ Last(h) \in {"array", "map_value"}
Parsed(h, t, g) ==
  \/ ValueIsNext(h) /\ t.type = "array_start" /\ g = Append(AfterValue(h), "array")
  \/ ValueIsNext(h) /\ t.type = "map_start" /\ g = Append(AfterValue(h), "map_key")
  \/ ValueIsNext(h) /\ t.type \in {"string", "scalar"} /\ g = AfterValue(h)
  \/ h # <<>> /\ Last(h) = "map_key" /\ t.type = "key" /\ g = Append(Front(h), "map_value")
  \/ h # <<>> /\ Last(h) = "array" /\ t.type = "array_end" /\ g = Front(h)
  \/ h # <<>> /\ Last(h) = "map_key" /\ t.type = "map_end" /\ g = Front(h)

\* The stacks hist lead through the tokens of an element of the outer array to open.
Containers == {"array", "map_key", "map_value"}
ParsedTo(hist, ts, open) ==
  /\ hist \in [0..Len(ts) -> Seq(Containers)]
  /\ hist[0] = <<"array">> /\ hist[Len(ts)] = open
  /\ \A k \in 1..Len(ts) : Parsed(hist[k - 1], ts[k], hist[k])
  /\ \A k \in 1..Len(ts) - 1 : Len(hist[k]) >= 2

\* What is open after a value.
LEMMA AfterValueIs ==
  ASSUME NEW h \in Seq(Containers), h # <<>>
  PROVE  /\ AfterValue(h) \in Seq(Containers) /\ Len(AfterValue(h)) = Len(h) /\ AfterValue(h) # <<>>
         /\ Last(h) = "map_value" => /\ AfterValue(h) = Append(Front(h), "map_key")
                                     /\ Front(AfterValue(h)) = Front(h) /\ Last(AfterValue(h)) = "map_key"
         /\ Last(h) # "map_value" => AfterValue(h) = h
<1>1. "map_key" \in Containers
  BY DEF Containers
<1>2. /\ Front(h) \in Seq(Containers) /\ Len(Front(h)) = Len(h) - 1
      /\ Front(h) \o <<"map_key">> = Append(Front(h), "map_key")
  BY <1>1, PopProperties
<1>3. /\ Append(Front(h), "map_key") \in Seq(Containers)
      /\ Len(Append(Front(h), "map_key")) = Len(Front(h)) + 1
      /\ Front(Append(Front(h), "map_key")) = Front(h)
      /\ Last(Append(Front(h), "map_key")) = "map_key" /\ Append(Front(h), "map_key") # <<>>
  <2> DEFINE f == Front(h)
  <2> HIDE DEF f
  <2>1. f \in Seq(Containers)
    BY <1>2 DEF f
  <2>2. /\ Append(f, "map_key") \in Seq(Containers) /\ Len(Append(f, "map_key")) = Len(f) + 1
        /\ Front(Append(f, "map_key")) = f
        /\ Last(Append(f, "map_key")) = "map_key" /\ Append(f, "map_key") # <<>>
    BY <1>1, <2>1, PushProperties
  <2> QED BY <2>2 DEF f
<1>4. Len(h) \in Nat
  OBVIOUS
<1>5. AfterValue(h) = IF Last(h) = "map_value" THEN Append(Front(h), "map_key") ELSE h
  BY <1>2 DEF AfterValue
<1> QED BY <1>2, <1>3, <1>4, <1>5

\* push_object() takes a whole element of the outer array, and none of its assertions fails.
LEMMA PushObjectTakesAll ==
  ASSUME NEW ts \in Seq(Tokens), ts # <<>>, NEW hist, ParsedTo(hist, ts, <<"array">>)
  PROVE  PushObject(ts) = Len(ts) + 1
<1> DEFINE n == Len(ts)
           IsValue(i) == ts[i].type \in {"array_start", "map_start", "string", "scalar"}
<1>1. n \in Nat /\ n >= 1 /\ \A i \in 1..n : ts[i] \in Tokens
  OBVIOUS
<1>2. PICK after : Pushes(after, ts) /\ PushObject(ts) = after[<<1, "value">>]
  BY PushObjectIsRecursive
<1> DEFINE IsRead(i) == \E m \in i..n : after[<<i, "value">>] = m + 1 /\ hist[m] = AfterValue(hist[i - 1])
           Array(i) == \E m \in i..n : after[<<i, "array">>] = m + 1 /\ hist[m] = Front(hist[i - 1])
           Map(i)   == \E m \in i..n : after[<<i, "map">>] = m + 1 /\ hist[m] = Front(hist[i - 1])
           Claim(i) == /\ IsValue(i) => IsRead(i)
                       /\ i >= 2 /\ Last(hist[i - 1]) = "array" => Array(i)
                       /\ i >= 2 /\ Last(hist[i - 1]) = "map_key" => Map(i)
           T == {k \in 0..n : \A i \in n - k + 1..n : Claim(i)}
<1>3. \A k \in 0..n : hist[k] \in Seq(Containers) /\ Len(hist[k]) \in Nat
  <2>1. \A k \in 0..n : hist[k] \in Seq(Containers)
    BY DEF ParsedTo
  <2> QED BY <2>1
<1>4. /\ \A k \in 1..n : Parsed(hist[k - 1], ts[k], hist[k])
      /\ \A k \in 1..n - 1 : Len(hist[k]) >= 2
      /\ hist[0] = <<"array">> /\ hist[n] = <<"array">> /\ Len(hist[n]) = 1 /\ Len(hist[0]) = 1
  BY DEF ParsedTo
<1> HIDE DEF n, Claim
\* The object at i, from those inside it.
<1>5. ASSUME NEW i \in 1..n, \A j \in i + 1..n : Claim(j), IsValue(i)
      PROVE  IsRead(i)
  <2> DEFINE h == hist[i - 1]
             g == hist[i]
  <2>1. /\ i - 1 \in 0..n /\ i \in 0..n /\ h \in Seq(Containers) /\ g \in Seq(Containers)
        /\ Parsed(h, ts[i], g)
    <3>1. i - 1 \in 0..n /\ i \in 0..n
      BY <1>1
    <3>2. h \in Seq(Containers) /\ g \in Seq(Containers)
      BY <1>3, <3>1
    <3>3. Parsed(h, ts[i], g)
      BY <1>4
    <3> QED BY <3>1, <3>2, <3>3
  <2>2. h # <<>> /\ ValueIsNext(h)
    <3> HIDE DEF h, g
    <3> QED BY <1>5, <2>1 DEF Parsed, ValueIsNext
  <2>3. AfterValue(h) \in Seq(Containers) /\ Len(AfterValue(h)) = Len(h) /\ Len(h) >= 1
    <3> HIDE DEF h
    <3> QED BY <2>1, <2>2, AfterValueIs
  <2>4. after[<<i, "value">>] = PushValue(after, ts, i)
    BY <1>2 DEF Pushes, n
  <2>5. CASE ts[i].type \in {"string", "scalar"}
    <3>1. g = AfterValue(h)
      <4> HIDE DEF h, g
      <4> QED BY <2>1, <2>5 DEF Parsed
    <3>2. after[<<i, "value">>] = i + 1
      BY <2>4, <2>5 DEF PushValue
    <3>3. i \in i..n
      BY <1>1
    <3> QED BY <3>1, <3>2, <3>3
  <2>6. ASSUME NEW w \in {"array", "map"},
               NEW c \in {"array", "map_key"},
               w = "array" <=> c = "array",
               g = Append(AfterValue(h), c), after[<<i, "value">>] = after[<<i + 1, w>>]
        PROVE  IsRead(i)
    <3>1. Last(g) = c /\ Front(g) = AfterValue(h) /\ Len(g) = Len(h) + 1
      <4>1. c \in Containers
        BY DEF Containers
      <4> HIDE DEF h, g
      <4> QED BY <2>3, <2>6, <4>1, PushProperties
    <3>2. i # n
      <4>1. Len(g) >= 2
        <5>1. Len(h) \in Nat
          BY <1>3, <2>1
        <5> HIDE DEF h, g
        <5> QED BY <2>3, <3>1, <5>1
      <4>2. CASE i = n
        <5>1. Len(g) = 1
          BY <1>4, <4>2
        <5> HIDE DEF g
        <5> QED BY <4>1, <5>1
      <4> QED BY <4>2
    <3>3. i + 1 \in i + 1..n /\ i + 1 >= 2 /\ (i + 1) - 1 = i /\ i + 1 \in 1..n
      BY <1>1, <3>2
    <3>4. \E m \in i + 1..n : after[<<i + 1, w>>] = m + 1 /\ hist[m] = Front(g)
      <4>1. Claim(i + 1)
        BY <1>5, <3>3
      <4>2. CASE w = "array"
        BY <2>6, <3>1, <3>3, <4>1, <4>2 DEF Claim
      <4>3. CASE w = "map"
        BY <2>6, <3>1, <3>3, <4>1, <4>3 DEF Claim
      <4> QED BY <4>2, <4>3
    <3>5. \A m \in i + 1..n : m \in i..n
      OBVIOUS
    <3> HIDE DEF h, g
    <3> QED BY <2>6, <3>1, <3>4, <3>5 DEF h
  <2>7. CASE ts[i].type = "array_start"
    <3>1. g = Append(AfterValue(h), "array")
      <4> HIDE DEF h, g
      <4> QED BY <2>1, <2>7 DEF Parsed
    <3>2. after[<<i, "value">>] = after[<<i + 1, "array">>]
      BY <2>4, <2>7 DEF PushValue
    <3> HIDE DEF h, g, IsRead
    <3> QED BY <2>6, <3>1, <3>2
  <2>8. CASE ts[i].type = "map_start"
    <3>1. g = Append(AfterValue(h), "map_key")
      <4> HIDE DEF h, g
      <4> QED BY <2>1, <2>8 DEF Parsed
    <3>2. after[<<i, "value">>] = after[<<i + 1, "map">>]
      BY <2>4, <2>8 DEF PushValue
    <3> HIDE DEF h, g, IsRead
    <3> QED BY <2>6, <3>1, <3>2
  <2> HIDE DEF IsRead
  <2> QED BY <1>5, <2>5, <2>7, <2>8
\* What is after an element, at m + 1, is told by the claim there.
<1>6. ASSUME NEW i \in 2..n, NEW m \in i..n, \A j \in i + 1..n : Claim(j),
             hist[m] = hist[i - 1]
      PROVE  /\ m + 1 \in i + 1..n
             /\ Last(hist[i - 1]) = "array" =>
                  \E k \in i..n : after[<<m + 1, "array">>] = k + 1 /\ hist[k] = Front(hist[i - 1])
             /\ Last(hist[i - 1]) = "map_key" =>
                  \E k \in i..n : after[<<m + 1, "map">>] = k + 1 /\ hist[k] = Front(hist[i - 1])
  <2>1. m # n
    <3>1. Len(hist[i - 1]) >= 2
      <4>1. i - 1 \in 1..n - 1
        BY <1>1
      <4> QED BY <1>4, <4>1
    <3>2. CASE m = n
      <4>1. Len(hist[i - 1]) = 1
        BY <1>4, <1>6, <3>2
      <4> QED BY <3>1, <4>1
    <3> QED BY <3>2
  <2>2. m + 1 \in i + 1..n /\ m + 1 >= 2 /\ (m + 1) - 1 = m
    BY <1>1, <2>1
  <2>3. Claim(m + 1)
    BY <1>6, <2>2
  <2>4. \A k \in m + 1..n : k \in i..n
    OBVIOUS
  <2> QED BY <1>6, <2>2, <2>3, <2>4 DEF Claim
<1>7. ASSUME NEW i \in 1..n, \A j \in i + 1..n : Claim(j), i >= 2, Last(hist[i - 1]) = "array"
      PROVE  Array(i)
  <2>1. i - 1 \in 0..n /\ Parsed(hist[i - 1], ts[i], hist[i]) /\ i \in i..n /\ i \in 2..n
    BY <1>1, <1>4, <1>7
  <2>2. after[<<i, "array">>] = PushArray(after, ts, i)
    BY <1>2 DEF Pushes, n
  <2>3. CASE ts[i].type = "array_end"
    <3>1. hist[i] = Front(hist[i - 1])
      BY <2>1, <2>3 DEF Parsed
    <3>2. after[<<i, "array">>] = i + 1
      BY <2>2, <2>3 DEF PushArray
    <3> QED BY <2>1, <3>1, <3>2
  <2>4. CASE ts[i].type # "array_end"
    <3>1. IsValue(i)
      BY <1>7, <2>1, <2>4 DEF Parsed
    <3>2. AfterValue(hist[i - 1]) = hist[i - 1]
      <4>1. hist[i - 1] \in Seq(Containers) /\ hist[i - 1] # <<>>
        BY <1>3, <2>1 DEF Parsed, ValueIsNext
      <4> QED BY <1>7, <4>1, AfterValueIs
    <3>3. PICK m \in i..n : after[<<i, "value">>] = m + 1 /\ hist[m] = hist[i - 1]
      BY <1>5, <1>7, <3>1, <3>2
    <3>4. PICK k \in i..n : after[<<m + 1, "array">>] = k + 1 /\ hist[k] = Front(hist[i - 1])
      BY <1>6, <1>7, <2>1, <3>3
    <3> QED BY <2>2, <2>4, <3>3, <3>4 DEF PushArray
  <2> HIDE DEF Array
  <2> QED BY <2>3, <2>4
<1>8. ASSUME NEW i \in 1..n, \A j \in i + 1..n : Claim(j), i >= 2, Last(hist[i - 1]) = "map_key"
      PROVE  Map(i)
  <2>1. i - 1 \in 0..n /\ Parsed(hist[i - 1], ts[i], hist[i]) /\ i \in i..n /\ i \in 2..n
    BY <1>1, <1>4, <1>8
  <2>2. after[<<i, "map">>] = PushMap(after, ts, i)
    BY <1>2 DEF Pushes, n
  <2>3. CASE ts[i].type = "map_end"
    <3>1. hist[i] = Front(hist[i - 1])
      BY <2>1, <2>3 DEF Parsed
    <3>2. after[<<i, "map">>] = i + 1
      BY <2>2, <2>3 DEF PushMap
    <3> QED BY <2>1, <3>1, <3>2
  <2>4. CASE ts[i].type # "map_end"
    <3>1. ts[i].type = "key" /\ hist[i] = Append(Front(hist[i - 1]), "map_value")
      BY <1>8, <2>1, <2>4 DEF Parsed, ValueIsNext
    <3>2. hist[i - 1] \in Seq(Containers) /\ hist[i - 1] # <<>>
      BY <1>3, <2>1, <3>1 DEF Parsed, ValueIsNext
    <3>3. Front(hist[i - 1]) \in Seq(Containers) /\ hist[i - 1] = Append(Front(hist[i - 1]), "map_key")
      BY <1>8, <3>2, PopProperties
    <3>4. Last(hist[i]) = "map_value" /\ Front(hist[i]) = Front(hist[i - 1]) /\ hist[i] # <<>>
      <4>1. "map_value" \in Containers
        BY DEF Containers
      <4> DEFINE f == Front(hist[i - 1])
      <4> HIDE DEF f
      <4>2. f \in Seq(Containers) /\ hist[i] = Append(f, "map_value")
        BY <3>1, <3>3 DEF f
      <4>3. Last(hist[i]) = "map_value" /\ Front(hist[i]) = f /\ hist[i] # <<>>
        BY <4>1, <4>2, PushProperties
      <4> QED BY <4>3 DEF f
    <3>5. AfterValue(hist[i]) = hist[i - 1]
      <4>1. i \in 0..n
        BY <1>1
      <4> QED BY <1>3, <3>3, <3>4, <4>1, AfterValueIs
    <3>6. i # n /\ i + 1 \in i + 1..n /\ i + 1 \in 1..n /\ (i + 1) - 1 = i
      <4>1. Len(<<"array">>) = 1 /\ Last(<<"array">>) = "array"
        BY DEF Last
      <4>2. i # n
        BY <1>4, <3>4, <4>1
      <4> QED BY <1>1, <4>2
    <3>7. IsValue(i + 1)
      <4>1. Parsed(hist[i], ts[i + 1], hist[i + 1])
        BY <1>4, <3>6
      <4> QED BY <3>4, <4>1 DEF Parsed
    <3>8. PICK m \in i..n : after[<<i + 1, "value">>] = m + 1 /\ hist[m] = hist[i - 1]
      <4>1. IsRead(i + 1)
        <5>1. \A j \in (i + 1) + 1..n : j \in i + 1..n
          BY <3>6
        <5> HIDE DEF IsRead, IsValue
        <5> QED BY <1>5, <1>8, <3>6, <3>7, <5>1
      <4>2. \A m \in i + 1..n : m \in i..n
        OBVIOUS
      <4> QED BY <3>5, <3>6, <4>1, <4>2
    <3>9. PICK k \in i..n : after[<<m + 1, "map">>] = k + 1 /\ hist[k] = Front(hist[i - 1])
      BY <1>6, <1>8, <2>1, <3>8
    <3> QED BY <2>2, <2>4, <3>1, <3>8, <3>9 DEF PushMap
  <2> HIDE DEF Map
  <2> QED BY <2>3, <2>4
<1>9. ASSUME NEW i \in 1..n, \A j \in i + 1..n : Claim(j) PROVE Claim(i)
  <2> HIDE DEF IsRead, Array, Map, IsValue
  <2> QED BY <1>5, <1>7, <1>8, <1>9 DEF Claim
<1>10. 0 \in T
  BY <1>1
<1>11. ASSUME NEW k \in 0..n - 1, k \in T PROVE k + 1 \in T
  <2>1. n - k \in 1..n /\ k + 1 \in 0..n /\ n - (k + 1) + 1 = n - k
    BY <1>1
  <2>2. \A j \in (n - k) + 1..n : Claim(j)
    BY <1>11
  <2>3. Claim(n - k)
    BY <1>9, <2>1, <2>2
  <2>4. \A i \in n - (k + 1) + 1..n : i = n - k \/ i \in n - k + 1..n
    BY <1>1, <2>1
  <2> QED BY <2>1, <2>2, <2>3, <2>4
<1>12. Claim(1)
  <2>1. 0..n \subseteq T
    <3> HIDE DEF T
    <3> QED BY <1>1, <1>10, <1>11, IntervalInduction
  <2>2. n \in T /\ n - n + 1 = 1 /\ 1 \in 1..n
    <3> HIDE DEF T
    <3> QED BY <1>1, <2>1
  <2> QED BY <2>2
<1>13. IsValue(1)
  <2>1. Parsed(<<"array">>, ts[1], hist[1]) /\ Last(<<"array">>) = "array" /\ Front(<<"array">>) = <<>>
    <3>1. 1 \in 1..n /\ 1 - 1 = 0
      BY <1>1
    <3> QED BY <1>4, <3>1 DEF Last, Front
  <2>2. hist[1] # <<>>
    <3>1. CASE n = 1
      <4>1. Len(hist[n]) = 1
        BY <1>4
      <4>2. Len(hist[1]) = 1
        BY <3>1, <4>1
      <4>3. hist[1] \in Seq(Containers)
        BY <1>1, <1>3, <3>1
      <4>4. Len(hist[1]) # 0
        BY <4>2
      <4> QED BY <4>3, <4>4, EmptySeq, Zenon
    <3>2. CASE n # 1
      <4>1. 1 \in 1..n - 1
        BY <1>1, <3>2
      <4>2. Len(hist[1]) >= 2
        BY <1>4, <4>1
      <4> QED BY <4>2
    <3> QED BY <3>1, <3>2
  <2> QED BY <2>1, <2>2 DEF Parsed
<1>14. PICK m \in 1..n : after[<<1, "value">>] = m + 1 /\ hist[m] = AfterValue(hist[0])
  BY <1>12, <1>13 DEF Claim
<1>15. m = n
  <2>1. AfterValue(hist[0]) = <<"array">>
    BY <1>4 DEF AfterValue, Last
  <2>2. CASE m # n
    <3>1. m \in 1..n - 1 /\ Len(<<"array">>) = 1
      BY <1>1, <2>2
    <3>2. Len(hist[m]) >= 2 /\ hist[m] = <<"array">>
      BY <1>4, <1>14, <2>1, <3>1
    <3> QED BY <3>1, <3>2
  <2> QED BY <2>2
<1> QED BY <1>2, <1>14, <1>15 DEF n

-----------------------------------------------------------------------------
(* The name of a click.                                                    *)

\* How deep the first i tokens of a click lead.
OpeningsIn(c, i) == {j \in 1..i : c[j].type \in Opening}
ClosingsIn(c, i) == {j \in 1..i : c[j].type \in Closing}
DepthAt(c, i) == Cardinality(OpeningsIn(c, i)) - Cardinality(ClosingsIn(c, i))
NamesIn(c) == {i \in 2..Len(c) : /\ c[i].type = "string" /\ DepthAt(c, i) = 1
                                 /\ c[i - 1] = Token("key", "name")}
TokenStep(t) == IF t.type \in Opening THEN 1 ELSE IF t.type \in Closing THEN -1 ELSE 0

LEMMA NameIs ==
  ASSUME NEW c
  PROVE  NameOf(c) = IF NamesIn(c) = {} THEN -1
                     ELSE FullStrtou(c[CHOOSE i \in NamesIn(c) : \A j \in NamesIn(c) : j <= i].value)
BY DEF NameOf, NamesIn, DepthAt, OpeningsIn, ClosingsIn

LEMMA DepthIsInt ==
  ASSUME NEW c \in Seq(Tokens), NEW i \in 0..Len(c)
  PROVE  DepthAt(c, i) \in Int
<1> DEFINE S == {j \in Nat : c[j].type \in Opening}
           R == {j \in Nat : c[j].type \in Closing}
<1>1. OpeningsIn(c, i) = S \cap 1..i /\ ClosingsIn(c, i) = R \cap 1..i /\ i \in Nat
  BY DEF OpeningsIn, ClosingsIn
<1> HIDE DEF S, R
<1>2. Cardinality(S \cap 1..i) \in Nat /\ Cardinality(R \cap 1..i) \in Nat
  BY <1>1, CountNext
<1> QED BY <1>1, <1>2 DEF DepthAt

\* One more token: what was so deep is so still.
LEMMA DepthAppend ==
  ASSUME NEW c \in Seq(Tokens), NEW t \in Tokens
  PROVE  /\ \A i \in 0..Len(c) : DepthAt(Append(c, t), i) = DepthAt(c, i)
         /\ DepthAt(Append(c, t), Len(c) + 1) = DepthAt(c, Len(c)) + TokenStep(t)
<1> DEFINE d == Append(c, t)
           n == Len(c)
           S == {j \in Nat : d[j].type \in Opening}
           R == {j \in Nat : d[j].type \in Closing}
<1>1. n \in Nat /\ d[n + 1] = t /\ \A j \in 1..n : d[j] = c[j]
  BY AppendProperties
<1>2. \A i \in 0..n : OpeningsIn(d, i) = OpeningsIn(c, i) /\ ClosingsIn(d, i) = ClosingsIn(c, i)
  <2> HIDE DEF d, n
  <2> QED BY <1>1 DEF OpeningsIn, ClosingsIn
<1>3. \A i \in 0..n : DepthAt(d, i) = DepthAt(c, i)
  <2> HIDE DEF d, n
  <2> QED BY <1>2 DEF DepthAt
<1>4. \A i \in 0..n + 1 : OpeningsIn(d, i) = S \cap 1..i /\ ClosingsIn(d, i) = R \cap 1..i
  <2> HIDE DEF d, n
  <2> QED BY <1>1 DEF OpeningsIn, ClosingsIn
<1>5. (n + 1 \in S <=> t.type \in Opening) /\ (n + 1 \in R <=> t.type \in Closing)
  <2> HIDE DEF d, n
  <2> QED BY <1>1
<1> HIDE DEF S, R, d, n
<1>6. /\ Cardinality(S \cap 1..n) \in Nat /\ Cardinality(R \cap 1..n) \in Nat
      /\ Cardinality(S \cap 1..n + 1) = Cardinality(S \cap 1..n) + (IF n + 1 \in S THEN 1 ELSE 0)
      /\ Cardinality(R \cap 1..n + 1) = Cardinality(R \cap 1..n) + (IF n + 1 \in R THEN 1 ELSE 0)
  BY <1>1, CountNext
<1>7. ~(t.type \in Opening /\ t.type \in Closing)
  BY DEF Opening, Closing
<1>8. DepthAt(d, n + 1) = DepthAt(d, n) + TokenStep(t)
  <2>1. n + 1 \in 0..n + 1 /\ n \in 0..n + 1
    BY <1>1
  <2>2. /\ DepthAt(d, n) = Cardinality(S \cap 1..n) - Cardinality(R \cap 1..n)
        /\ DepthAt(d, n + 1) = Cardinality(S \cap 1..n + 1) - Cardinality(R \cap 1..n + 1)
    BY <1>4, <2>1 DEF DepthAt
  <2>3. CASE t.type \in Opening
    BY <1>5, <1>6, <1>7, <2>2, <2>3 DEF TokenStep
  <2>4. CASE t.type \in Closing
    BY <1>5, <1>6, <1>7, <2>2, <2>4 DEF TokenStep
  <2>5. CASE t.type \notin Opening /\ t.type \notin Closing
    BY <1>5, <1>6, <2>2, <2>5 DEF TokenStep
  <2> QED BY <2>3, <2>4, <2>5
<1>9. n \in 0..n
  BY <1>1
<1> QED BY <1>3, <1>8, <1>9 DEF d, n

\* A token is the click's name if it is the string after its own key "name".
LEMMA NameOfAppend ==
  ASSUME NEW c \in Seq(Tokens), NEW t \in Tokens
  PROVE  NameOf(Append(c, t)) =
           IF /\ t.type = "string" /\ DepthAt(c, Len(c)) = 1
              /\ c # <<>> /\ Last(c) = Token("key", "name")
           THEN FullStrtou(t.value) ELSE NameOf(c)
<1> DEFINE d == Append(c, t)
           n == Len(c)
           new == /\ t.type = "string" /\ DepthAt(c, n) = 1
                  /\ c # <<>> /\ Last(c) = Token("key", "name")
<1>1. n \in Nat /\ Len(d) = n + 1 /\ d[n + 1] = t /\ \A j \in 1..n : d[j] = c[j]
  BY AppendProperties
<1>2. (c # <<>> <=> n >= 1) /\ Last(c) = c[n]
  BY DEF Last
<1>3. \A i \in 2..n : i \in NamesIn(d) <=> i \in NamesIn(c)
  <2>1. \A i \in 2..n : DepthAt(d, i) = DepthAt(c, i) /\ i \in 1..n /\ i - 1 \in 1..n /\ i \in 2..n + 1
    <3>1. \A i \in 2..n : i \in 0..n /\ i \in 1..n /\ i - 1 \in 1..n /\ i \in 2..n + 1
      BY <1>1
    <3> QED BY <3>1, DepthAppend
  <2> HIDE DEF d, n
  <2> QED BY <1>1, <2>1 DEF NamesIn, n
<1>4. n + 1 \in NamesIn(d) <=> new
  <2>1. t.type = "string" => DepthAt(d, n + 1) = DepthAt(c, n)
    <3>1. DepthAt(d, n + 1) = DepthAt(c, n) + TokenStep(t) /\ DepthAt(c, n) \in Int
      <4>1. n \in 0..n
        BY <1>1
      <4> QED BY <4>1, DepthAppend, DepthIsInt
    <3> QED BY <3>1 DEF TokenStep, Opening, Closing
  <2>2. n >= 1 => n \in 1..n /\ n + 1 \in 2..n + 1 /\ (n + 1) - 1 = n
    BY <1>1
  <2>3. n + 1 \in 2..n + 1 => n >= 1
    BY <1>1
  <2> HIDE DEF d, n
  <2> QED BY <1>1, <1>2, <2>1, <2>2, <2>3 DEF NamesIn
<1>5. NamesIn(c) \subseteq 2..n /\ NamesIn(d) \subseteq 2..n + 1
  BY <1>1 DEF NamesIn
<1> HIDE DEF d, n
<1>6. CASE new
  <2>1. n + 1 \in NamesIn(d) /\ \A j \in NamesIn(d) : j <= n + 1
    BY <1>1, <1>4, <1>5, <1>6
  <2>2. \A i \in NamesIn(d) : (\A j \in NamesIn(d) : j <= i) => i = n + 1
    BY <1>1, <1>5, <2>1
  <2>3. (CHOOSE i \in NamesIn(d) : \A j \in NamesIn(d) : j <= i) = n + 1
    BY <2>1, <2>2
  <2>4. NameOf(d) = FullStrtou(d[n + 1].value)
    <3>1. NamesIn(d) # {}
      BY <2>1
    <3> QED BY <2>3, <3>1, NameIs
  <2>5. NameOf(d) = FullStrtou(t.value)
    BY <1>1, <2>4
  <2> QED BY <1>6, <2>5 DEF d, n
<1>7. CASE ~new
  <2>1. NamesIn(d) = NamesIn(c)
    <3>1. \A i \in 2..n + 1 : i = n + 1 \/ i \in 2..n
      BY <1>1
    <3>2. \A i \in 2..n : i \in 2..n + 1
      BY <1>1
    <3>3. n + 1 \notin NamesIn(d) /\ n + 1 \notin NamesIn(c)
      BY <1>1, <1>4, <1>5, <1>7
    <3> QED BY <1>3, <1>5, <3>1, <3>2, <3>3
  <2>2. CASE NamesIn(c) = {}
    BY <1>7, <2>1, <2>2, NameIs DEF d, n
  <2>3. CASE NamesIn(c) # {}
    <3> DEFINE i == CHOOSE i \in NamesIn(c) : \A j \in NamesIn(c) : j <= i
    <3>1. \E m \in NamesIn(c) : \A k \in NamesIn(c) : k <= m
      <4>1. NamesIn(c) \subseteq 0..n
        BY <1>1, <1>5
      <4> QED BY <1>1, <2>3, <4>1, GreatestUpTo
    <3>2. i \in NamesIn(c)
      BY <3>1
    <3>3. d[i] = c[i]
      <4>1. i \in 1..n
        BY <1>1, <1>5, <3>2
      <4> QED BY <1>1, <4>1
    <3>4. NameOf(d) = FullStrtou(d[i].value) /\ NameOf(c) = FullStrtou(c[i].value)
      BY <2>1, <2>3, NameIs
    <3> QED BY <1>7, <3>3, <3>4 DEF d, n
  <2> QED BY <2>2, <2>3
<1> QED BY <1>6, <1>7

LEMMA NameOfNone == NameOf(<<>>) = -1 /\ DepthAt(<<>>, 0) = 0
<1>1. NamesIn(<<>>) = {}
  BY DEF NamesIn
<1>2. OpeningsIn(<<>>, 0) = {} /\ ClosingsIn(<<>>, 0) = {} /\ Cardinality({}) = 0
  BY FS_EmptySet DEF OpeningsIn, ClosingsIn
<1>3. DepthAt(<<>>, 0) = 0
  <2>1. Cardinality(OpeningsIn(<<>>, 0)) = 0 /\ Cardinality(ClosingsIn(<<>>, 0)) = 0
    BY <1>2
  <2>2. DepthAt(<<>>, 0) = Cardinality(OpeningsIn(<<>>, 0)) - Cardinality(ClosingsIn(<<>>, 0))
    BY DEF DepthAt
  <2> QED BY <2>1, <2>2
<1>4. NameOf(<<>>) = -1
  BY <1>1, NameIs
<1> QED BY <1>3, <1>4

-----------------------------------------------------------------------------
(* The i3 event watcher.                                                   *)

\* What is open: the outer array, then a map; only the innermost awaits a value.
StackInv(open) ==
  /\ open \in Seq(Containers)
  /\ open # <<>> => open[1] = "array"
  /\ Len(open) >= 2 => open[2] # "array"
  /\ \A i \in 1..Len(open) - 1 : open[i] # "map_value"

\* The stacks that a token leads through.
LEMMA ParsedStack ==
  ASSUME NEW h, StackInv(h), NEW t \in Tokens, NEW g, Parsed(h, t, g), h # <<>>,
         Len(h) = 1 => t.type = "map_start"
  PROVE  /\ StackInv(g) /\ Len(g) = Len(h) + TokenStep(t) /\ g # <<>>
         /\ g # <<>> /\ Last(g) = "map_value" => t.type = "key"
<1>1. h \in Seq(Containers) /\ Len(h) \in Nat /\ Len(h) >= 1
  BY DEF StackInv
<1>2. /\ Front(h) \in Seq(Containers) /\ Len(Front(h)) = Len(h) - 1
      /\ h = Append(Front(h), Last(h)) /\ Last(h) \in Containers /\ Last(h) = h[Len(h)]
  BY <1>1, PopProperties DEF Last
<1>3. \A i \in 1..Len(h) - 1 : Front(h)[i] = h[i]
  <2> DEFINE f == Front(h)
             l == Last(h)
  <2> HIDE DEF f, l
  <2>1. f \in Seq(Containers) /\ h = Append(f, l) /\ Len(f) = Len(h) - 1 /\ l \in Containers
    BY <1>2 DEF f, l
  <2>2. \A i \in 1..Len(f) : h[i] = f[i]
    BY <2>1, AppendProperties
  <2> QED BY <2>1, <2>2 DEF f
<1>4. ASSUME NEW x \in Containers
      PROVE  /\ Append(Front(h), x) \in Seq(Containers) /\ Len(Append(Front(h), x)) = Len(h)
             /\ Append(Front(h), x)[Len(h)] = x
             /\ \A i \in 1..Len(h) - 1 : Append(Front(h), x)[i] = h[i]
  <2> DEFINE f == Front(h)
  <2> HIDE DEF f
  <2>1. f \in Seq(Containers) /\ Len(f) = Len(h) - 1 /\ \A i \in 1..Len(h) - 1 : f[i] = h[i]
    BY <1>2, <1>3 DEF f
  <2>2. /\ Append(f, x) \in Seq(Containers) /\ Len(Append(f, x)) = Len(f) + 1
        /\ \A i \in 1..Len(f) : Append(f, x)[i] = f[i]
        /\ Append(f, x)[Len(f) + 1] = x
    BY <2>1, AppendProperties
  <2>3. Len(f) + 1 = Len(h)
    BY <1>1, <2>1
  <2> QED BY <2>1, <2>2, <2>3 DEF f
<1>5. DEFINE a == AfterValue(h)
<1>6. /\ a \in Seq(Containers) /\ Len(a) = Len(h)
      /\ \A i \in 1..Len(h) - 1 : a[i] = h[i]
      /\ a[Len(h)] = IF h[Len(h)] = "map_value" THEN "map_key" ELSE h[Len(h)]
  <2>1. "map_key" \in Containers
    BY DEF Containers
  <2>2. a = IF Last(h) = "map_value" THEN Append(Front(h), "map_key") ELSE h
    BY <1>1, AfterValueIs
  <2>3. CASE Last(h) = "map_value"
    <3> HIDE DEF a
    <3> QED BY <1>2, <1>4, <2>1, <2>2, <2>3
  <2>4. CASE Last(h) # "map_value"
    <3> HIDE DEF a
    <3> QED BY <1>1, <1>2, <2>2, <2>4
  <2> QED BY <2>3, <2>4
<1> HIDE DEF a
<1>7. a # <<>> /\ StackInv(a) /\ Last(a) # "map_value"
  <2>1. a # <<>>
    BY <1>1, <1>6
  <2>2. Last(a) # "map_value"
    BY <1>6 DEF Last
  <2>3. a[1] = "array"
    <3>1. CASE Len(h) = 1
      BY <1>1, <1>6, <3>1 DEF StackInv
    <3>2. CASE Len(h) # 1
      BY <1>1, <1>6, <3>2 DEF StackInv
    <3> QED BY <3>1, <3>2
  <2>4. Len(a) >= 2 => a[2] # "array"
    <3>1. CASE Len(h) = 2
      BY <1>1, <1>6, <3>1 DEF StackInv
    <3>2. CASE Len(h) > 2
      BY <1>1, <1>6, <3>2 DEF StackInv
    <3> QED BY <1>1, <1>6, <3>1, <3>2
  <2>5. \A i \in 1..Len(a) - 1 : a[i] # "map_value"
    BY <1>6 DEF StackInv
  <2> QED BY <1>6, <2>1, <2>2, <2>3, <2>4, <2>5 DEF StackInv
<1>8. ASSUME NEW x \in {"array", "map_key"}, g = Append(a, x), Len(h) = 1 => x = "map_key"
      PROVE  StackInv(g) /\ Len(g) = Len(h) + 1 /\ g # <<>> /\ Last(g) # "map_value"
  <2>1. /\ g \in Seq(Containers) /\ Len(g) = Len(h) + 1 /\ g[Len(h) + 1] = x
        /\ \A i \in 1..Len(h) : g[i] = a[i]
    <3>1. x \in Containers
      BY DEF Containers
    <3> QED BY <1>6, <1>8, <3>1, AppendProperties
  <2>2. Last(g) # "map_value" /\ g # <<>>
    BY <1>1, <2>1 DEF Last
  <2>3. g[1] = "array"
    BY <1>1, <1>7, <2>1 DEF StackInv
  <2>4. g[2] # "array"
    <3>1. CASE Len(h) = 1
      BY <1>8, <2>1, <3>1
    <3>2. CASE Len(h) # 1
      BY <1>1, <1>6, <1>7, <2>1, <3>2 DEF StackInv
    <3> QED BY <3>1, <3>2
  <2>5. ASSUME NEW i \in 1..Len(g) - 1 PROVE g[i] # "map_value"
    <3>1. i \in 1..Len(h) /\ g[i] = a[i]
      BY <1>1, <2>1
    <3>2. CASE i = Len(h)
      BY <1>6, <1>7, <3>1, <3>2 DEF Last
    <3>3. CASE i # Len(h)
      BY <1>6, <1>7, <3>1, <3>3 DEF StackInv
    <3> QED BY <3>2, <3>3
  <2> QED BY <2>1, <2>2, <2>3, <2>4, <2>5 DEF StackInv
<1>9. CASE t.type \in Opening
  <2>1. TokenStep(t) = 1
    BY <1>9 DEF TokenStep
  <2>2. CASE t.type = "array_start"
    <3>1. g = Append(a, "array") /\ Len(h) # 1
      BY <2>2 DEF Parsed, a
    <3>2. StackInv(g) /\ Len(g) = Len(h) + 1 /\ g # <<>> /\ Last(g) # "map_value"
      BY <1>8, <3>1
    <3> QED BY <2>1, <3>2
  <2>3. CASE t.type = "map_start"
    <3>1. g = Append(a, "map_key")
      BY <2>3 DEF Parsed, a
    <3>2. StackInv(g) /\ Len(g) = Len(h) + 1 /\ g # <<>> /\ Last(g) # "map_value"
      BY <1>8, <3>1
    <3> QED BY <2>1, <3>2
  <2> QED BY <1>9, <2>2, <2>3 DEF Opening
<1>10. CASE t.type \in {"string", "scalar"}
  <2>1. g = a /\ TokenStep(t) = 0
    BY <1>10 DEF Parsed, a, TokenStep, Opening, Closing
  <2> QED BY <1>1, <1>6, <1>7, <2>1
<1>11. CASE t.type = "key"
  <2>1. g = Append(Front(h), "map_value") /\ TokenStep(t) = 0 /\ Len(h) >= 2
    <3>1. t.type # "map_start" /\ TokenStep(t) = 0
      BY <1>11 DEF TokenStep, Opening, Closing
    <3>2. Len(h) # 1
      BY <3>1
    <3>3. g = Append(Front(h), "map_value")
      BY <1>11 DEF Parsed, Closing
    <3>4. Len(h) >= 2
      <4> DEFINE n == Len(h)
      <4>1. n \in Nat /\ n >= 1 /\ n # 1
        BY <1>1, <3>2
      <4> HIDE DEF n
      <4>2. n >= 2
        BY <4>1
      <4> QED BY <4>2 DEF n
    <3> QED BY <3>1, <3>3, <3>4
  <2>2. /\ g \in Seq(Containers) /\ Len(g) = Len(h) /\ g[Len(h)] = "map_value"
        /\ \A i \in 1..Len(h) - 1 : g[i] = h[i]
    <3>1. "map_value" \in Containers
      BY DEF Containers
    <3> QED BY <1>4, <2>1, <3>1
  <2>3. g[1] = "array" /\ g # <<>>
    BY <1>1, <2>1, <2>2 DEF StackInv
  <2>4. g[2] # "array"
    <3>1. CASE Len(h) = 2
      BY <2>2, <3>1
    <3>2. CASE Len(h) # 2
      BY <1>1, <2>1, <2>2, <3>2 DEF StackInv
    <3> QED BY <3>1, <3>2
  <2>5. \A i \in 1..Len(g) - 1 : g[i] # "map_value"
    BY <2>2 DEF StackInv
  <2>6. StackInv(g)
    BY <2>2, <2>3, <2>4, <2>5 DEF StackInv
  <2> QED BY <1>1, <1>11, <2>1, <2>2, <2>3, <2>6
<1>12. CASE t.type \in Closing
  <2>1. g = Front(h) /\ TokenStep(t) = -1 /\ Len(h) >= 2
    <3>1. t.type # "map_start" /\ TokenStep(t) = -1
      BY <1>12 DEF TokenStep, Opening, Closing
    <3>2. Len(h) # 1
      BY <3>1
    <3>3. g = Front(h)
      BY <1>12 DEF Parsed, Closing
    <3>4. Len(h) >= 2
      <4> DEFINE n == Len(h)
      <4>1. n \in Nat /\ n >= 1 /\ n # 1
        BY <1>1, <3>2
      <4> HIDE DEF n
      <4>2. n >= 2
        BY <4>1
      <4> QED BY <4>2 DEF n
    <3> QED BY <3>1, <3>3, <3>4
  <2>2. g \in Seq(Containers) /\ Len(g) = Len(h) - 1 /\ \A i \in 1..Len(h) - 1 : g[i] = h[i]
    BY <1>2, <1>3, <2>1
  <2>3. g[1] = "array" /\ g # <<>>
    BY <1>1, <2>1, <2>2 DEF StackInv
  <2>4. Len(g) >= 2 => g[2] # "array"
    BY <1>1, <2>2 DEF StackInv
  <2>5. \A i \in 1..Len(g) : g[i] # "map_value"
    BY <1>1, <2>2 DEF StackInv
  <2>6. StackInv(g) /\ Last(g) # "map_value"
    BY <1>1, <2>1, <2>2, <2>3, <2>4, <2>5 DEF StackInv, Last
  <2> QED BY <1>1, <2>1, <2>2, <2>3, <2>6
<1> QED BY <1>9, <1>10, <1>11, <1>12 DEF Tokens, TokenTypes, Opening, Closing

\* One more token of an element of the outer array.
LEMMA ParsedToAppend ==
  ASSUME NEW hist, NEW ts \in Seq(Tokens), NEW open, ParsedTo(hist, ts, open),
         NEW t \in Tokens, NEW g \in Seq(Containers), Parsed(open, t, g),
         ts # <<>> => Len(open) >= 2
  PROVE  \E hist2 : ParsedTo(hist2, Append(ts, t), g)
<1> DEFINE n == Len(ts)
           tt == Append(ts, t)
           hist2 == [k \in 0..n + 1 |-> IF k = n + 1 THEN g ELSE hist[k]]
<1>1. n \in Nat /\ Len(tt) = n + 1 /\ tt[n + 1] = t /\ \A k \in 1..n : tt[k] = ts[k]
  BY AppendProperties
<1>2. /\ hist \in [0..n -> Seq(Containers)] /\ hist[0] = <<"array">> /\ hist[n] = open
      /\ \A k \in 1..n : Parsed(hist[k - 1], ts[k], hist[k])
      /\ \A k \in 1..n - 1 : Len(hist[k]) >= 2
  BY DEF ParsedTo
<1>3. ts # <<>> <=> n # 0
  <2>1. ts = <<>> <=> n = 0
    BY EmptySeq, Zenon
  <2> QED BY <2>1
<1> HIDE DEF n, tt
<1>4. hist2 \in [0..n + 1 -> Seq(Containers)]
  <2>1. \A k \in 0..n + 1 : k # n + 1 => k \in 0..n
    BY <1>1
  <2> QED BY <1>2, <2>1
<1>5. hist2[n + 1] = g /\ \A k \in 0..n : hist2[k] = hist[k]
  BY <1>1
<1> HIDE DEF hist2
<1>6. ASSUME NEW k \in 1..n + 1 PROVE Parsed(hist2[k - 1], tt[k], hist2[k])
  <2>1. CASE k = n + 1
    <3>1. k - 1 = n /\ n \in 0..n
      BY <1>1, <2>1
    <3> QED BY <1>1, <1>2, <1>5, <2>1, <3>1
  <2>2. CASE k # n + 1
    <3>1. k \in 1..n /\ k \in 0..n /\ k - 1 \in 0..n
      BY <1>1, <2>2
    <3> QED BY <1>1, <1>2, <1>5, <3>1
  <2> QED BY <2>1, <2>2
<1>7. ASSUME NEW k \in 1..n PROVE Len(hist2[k]) >= 2
  <2>1. CASE k = n
    <3>1. n # 0 /\ k \in 0..n
      BY <1>1, <2>1
    <3> QED BY <1>2, <1>3, <1>5, <2>1, <3>1
  <2>2. CASE k # n
    <3>1. k \in 1..n - 1 /\ k \in 0..n
      BY <1>1, <2>2
    <3> QED BY <1>2, <1>5, <3>1
  <2> QED BY <2>1, <2>2
<1>8. hist2[0] = <<"array">>
  BY <1>1, <1>2, <1>5
<1>9. Len(tt) - 1 = n
  BY <1>1
<1>10. ParsedTo(hist2, tt, g)
  BY <1>1, <1>4, <1>5, <1>6, <1>7, <1>8, <1>9 DEF ParsedTo
<1> QED BY <1>10 DEF tt

\* Of the context and the stream, while the event watcher reads.
I3Types ==
  /\ be \in [barlib : {"i3"}, pc : {"run"}, depth : Int, named : BOOLEAN,
             tokens : Seq(Tokens), widget : Int]
  /\ beIn \in [count : Nat, open : Seq(Containers), event : Seq(Tokens), clicks : Seq(Seq(Tokens))]

I3Context ==
  /\ be.depth = Len(beIn.open) - 1
  /\ be.tokens = beIn.event
  /\ be.widget = NameOf(beIn.event)
  /\ be.depth = 1 /\ Last(beIn.open) = "map_value" =>
       /\ beIn.event # <<>> /\ Last(beIn.event).type = "key"
       /\ be.named = (Last(beIn.event).value = "name")

I3Stream ==
  /\ StackInv(beIn.open)
  /\ beIn.open = <<>> => beIn.event = <<>>
  /\ beIn.event # <<>> => Len(beIn.open) >= 2
  /\ beIn.open # <<>> => /\ DepthAt(beIn.event, Len(beIn.event)) = be.depth
                         /\ \E hist : ParsedTo(hist, beIn.event, beIn.open)

I3Inv ==
  be.barlib = "i3" =>
    /\ be.pc \in {"run", "returned"}
    /\ beTold = CallsFor(beIn.clicks)
    /\ be.pc = "run" => I3Types /\ I3Context /\ I3Stream

\* A call for one more click, if it has the name of a widget.
CallFor(c) == [widget |-> NameOf(c), what |-> c]

LEMMA CallsForAppend ==
  ASSUME NEW clicks \in Seq(Seq(Tokens)), NEW c \in Seq(Tokens)
  PROVE  CallsFor(Append(clicks, c)) =
           IF NameOf(c) \in BeTargets THEN Append(CallsFor(clicks), CallFor(c)) ELSE CallsFor(clicks)
<1> DEFINE A == [widget : BeTargets, what : Seq(Tokens)]
           One(d) == IF NameOf(d) \in BeTargets THEN <<CallFor(d)>> ELSE <<>>
           more == Append(clicks, c)
           ss == [k \in DOMAIN clicks |-> One(clicks[k])]
           tt == [k \in DOMAIN more |-> One(more[k])]
<1>1. /\ Len(clicks) \in Nat /\ DOMAIN clicks = 1..Len(clicks) /\ DOMAIN more = 1..Len(clicks) + 1
      /\ more[Len(clicks) + 1] = c /\ \A k \in 1..Len(clicks) : more[k] = clicks[k]
  BY AppendProperties
<1>2. \A d \in Seq(Tokens) : One(d) \in Seq(A)
  <2> TAKE d \in Seq(Tokens)
  <2>1. NameOf(d) \in BeTargets => CallFor(d) \in A
    BY DEF CallFor
  <2> HIDE DEF A
  <2>2. NameOf(d) \in BeTargets => <<CallFor(d)>> \in Seq(A)
    BY <2>1
  <2>3. <<>> \in Seq(A)
    OBVIOUS
  <2> QED BY <2>2, <2>3
<1> HIDE DEF A, One
<1>3. ss \in Seq(Seq(A)) /\ Len(ss) = Len(clicks)
  <2>1. \A k \in 1..Len(clicks) : clicks[k] \in Seq(Tokens)
    OBVIOUS
  <2>2. \A k \in 1..Len(clicks) : One(clicks[k]) \in Seq(A)
    BY <1>2, <2>1
  <2> QED BY <1>1, <2>2
<1>4. tt = Append(ss, One(c))
  <2>1. tt = [k \in 1..Len(clicks) + 1 |-> One(more[k])]
    BY <1>1
  <2>2. /\ Append(ss, One(c)) = [k \in 1..Len(clicks) + 1 |-> Append(ss, One(c))[k]]
        /\ Append(ss, One(c))[Len(clicks) + 1] = One(c)
        /\ \A k \in 1..Len(clicks) : Append(ss, One(c))[k] = ss[k]
    <3> HIDE DEF ss
    <3>1. One(c) \in Seq(A)
      BY <1>2
    <3>2. /\ Append(ss, One(c)) \in Seq(Seq(A)) /\ Len(Append(ss, One(c))) = Len(clicks) + 1
          /\ Append(ss, One(c))[Len(clicks) + 1] = One(c)
          /\ \A k \in 1..Len(clicks) : Append(ss, One(c))[k] = ss[k]
      BY <1>3, <3>1, AppendProperties
    <3> DEFINE u == Append(ss, One(c))
    <3> HIDE DEF u
    <3>3. u = [k \in 1..Len(u) |-> u[k]]
      <4>1. u \in Seq(Seq(A))
        BY <3>2 DEF u
      <4> QED BY <4>1
    <3> QED BY <3>2, <3>3 DEF u
  <2>3. \A k \in 1..Len(clicks) : ss[k] = One(clicks[k])
    BY <1>1
  <2>4. \A k \in 1..Len(clicks) + 1 : k = Len(clicks) + 1 \/ k \in 1..Len(clicks)
    BY <1>1
  <2>5. \A k \in 1..Len(clicks) + 1 : One(more[k]) = Append(ss, One(c))[k]
    <3> HIDE DEF more, ss
    <3> QED BY <1>1, <2>2, <2>3, <2>4
  <2> HIDE DEF ss, more, tt
  <2> QED BY <2>1, <2>2, <2>5
<1>5. FlattenSeq(tt) = FlattenSeq(ss) \o One(c) /\ FlattenSeq(ss) \in Seq(A)
  <2>1. One(c) \in Seq(A)
    BY <1>2
  <2> HIDE DEF ss, tt
  <2> QED BY <1>3, <1>4, <2>1, FlattenAppend
<1>6. CallsFor(more) = FlattenSeq(tt) /\ CallsFor(clicks) = FlattenSeq(ss)
  BY DEF CallsFor, One, CallFor
<1> HIDE DEF ss, tt, more
<1>7. CASE NameOf(c) \in BeTargets
  <2>1. One(c) = <<CallFor(c)>> /\ CallFor(c) \in A
    BY <1>7 DEF One, CallFor, A
  <2>2. CallsFor(more) = Append(CallsFor(clicks), CallFor(c))
    BY <1>5, <1>6, <2>1, AppendIsConcat
  <2> QED BY <1>7, <2>2 DEF more
<1>8. CASE NameOf(c) \notin BeTargets
  <2>1. One(c) = <<>>
    BY <1>8 DEF One
  <2>2. CallsFor(more) = CallsFor(clicks)
    BY <1>5, <1>6, <2>1
  <2> QED BY <1>8, <2>2 DEF more
<1> QED BY <1>7, <1>8

\* What the callback of a token leaves in the context before token_helper().
ContextAt(token) ==
  [be EXCEPT !.widget = IF token.type = "string" /\ be.depth = 1 /\ be.named
                        THEN FullStrtou(token.value) ELSE @,
             !.named = IF token.type = "key" /\ be.depth = 1 THEN token.value = "name" ELSE @]

LEMMA StrtouIsInt == \A s : FullStrtou(s) \in Int
BY DEF FullStrtou

LEMMA ContextAtIs ==
  ASSUME I3Types, NEW token \in Tokens, NEW open, Parse(token, open)
  PROVE  /\ TokenHelper(ContextAt(token), token)
         /\ ContextAt(token) = [barlib |-> "i3", pc |-> "run", depth |-> be.depth,
                                named |-> ContextAt(token).named, tokens |-> be.tokens,
                                widget |-> ContextAt(token).widget]
         /\ ContextAt(token).named = IF token.type = "key" /\ be.depth = 1 THEN token.value = "name"
                                     ELSE be.named
         /\ ContextAt(token).widget = IF token.type = "string" /\ be.depth = 1 /\ be.named
                                      THEN FullStrtou(token.value) ELSE be.widget
<1>1. be = [barlib |-> "i3", pc |-> "run", depth |-> be.depth, named |-> be.named,
            tokens |-> be.tokens, widget |-> be.widget]
  BY DEF I3Types
<1>2. CASE token.type = "string"
  <2>1. token = Token("string", token.value)
    BY <1>2 DEF Token, Tokens
  <2>2. CallbackString(token.value)
    BY <1>2 DEF Parse
  <2>3. ContextAt(token) = [be EXCEPT !.widget = IF be.depth = 1 /\ be.named
                                                 THEN FullStrtou(token.value) ELSE @]
    BY <1>1, <1>2 DEF ContextAt
  <2>4. TokenHelper(ContextAt(token), token)
    BY <2>1, <2>2, <2>3, Zenon DEF CallbackString
  <2> QED BY <1>1, <1>2, <2>3, <2>4
<1>3. CASE token.type = "key"
  <2>1. token = Token("key", token.value)
    BY <1>3 DEF Token, Tokens
  <2>2. CallbackMapKey(token.value)
    BY <1>3 DEF Parse
  <2>3. ContextAt(token) = [be EXCEPT !.named = IF be.depth = 1 THEN token.value = "name" ELSE @]
    BY <1>1, <1>3 DEF ContextAt
  <2>4. TokenHelper(ContextAt(token), token)
    BY <2>1, <2>2, <2>3, Zenon DEF CallbackMapKey
  <2> QED BY <1>1, <1>3, <2>3, <2>4
<1>4. CASE token.type \notin {"string", "key"}
  <2>1. TokenHelper(be, token)
    BY <1>4 DEF Parse
  <2>2. ContextAt(token) = be
    BY <1>1, <1>4 DEF ContextAt
  <2> QED BY <1>1, <1>4, <2>1, <2>2
<1> QED BY <1>2, <1>3, <1>4

\* The element of the outer array that has not begun.
LEMMA NothingParsed == \E hist : ParsedTo(hist, <<>>, <<"array">>)
<1> DEFINE hist == [k \in 0..0 |-> <<"array">>]
<1>1. <<"array">> \in Seq(Containers)
  BY DEF Containers
<1>2. hist[0] = <<"array">> /\ hist \in [0..0 -> Seq(Containers)]
  BY <1>1
<1> HIDE DEF hist
<1>3. ParsedTo(hist, <<>>, <<"array">>)
  BY <1>2 DEF ParsedTo
<1> QED BY <1>3

\* What the tokens of the click are with one more, and the stack they lead to.
LEMMA OneMoreToken ==
  ASSUME I3Types, I3Context, I3Stream, NEW token \in Tokens, NEW open,
         beIn.open # <<>>, Parsed(beIn.open, token, open),
         be.depth = 0 => token.type = "map_start"
  PROVE  /\ Append(beIn.event, token) \in Seq(Tokens) /\ Append(beIn.event, token) # <<>>
         /\ Last(Append(beIn.event, token)) = token
         /\ StackInv(open) /\ open # <<>> /\ Len(open) = Len(beIn.open) + TokenStep(token)
         /\ Last(open) = "map_value" => token.type = "key"
         /\ DepthAt(Append(beIn.event, token), Len(Append(beIn.event, token))) = be.depth + TokenStep(token)
         /\ NameOf(Append(beIn.event, token)) = ContextAt(token).widget
         /\ \E hist : ParsedTo(hist, Append(beIn.event, token), open)
<1> DEFINE event == beIn.event
           h == beIn.open
<1>1. event \in Seq(Tokens) /\ h \in Seq(Containers) /\ Len(h) \in Nat /\ be.depth \in Int
  BY DEF I3Types
<1>2. /\ Append(event, token) \in Seq(Tokens) /\ Append(event, token) # <<>>
      /\ Last(Append(event, token)) = token /\ Len(Append(event, token)) = Len(event) + 1
  <2> HIDE DEF event
  <2> QED BY <1>1, PushProperties
<1>3. be.depth = Len(h) - 1 /\ StackInv(h) /\ (Len(h) = 1 => token.type = "map_start")
  <2>1. be.depth = Len(h) - 1 /\ StackInv(h)
    BY DEF I3Context, I3Stream
  <2>2. Len(h) = 1 => be.depth = 0
    BY <1>1, <2>1
  <2> QED BY <2>1, <2>2
<1>4. /\ StackInv(open) /\ open # <<>> /\ Len(open) = Len(h) + TokenStep(token)
      /\ Last(open) = "map_value" => token.type = "key"
  <2>1. h # <<>> /\ Parsed(h, token, open)
    OBVIOUS
  <2> HIDE DEF h
  <2> QED BY <1>3, <2>1, ParsedStack
<1>5. DepthAt(event, Len(event)) = be.depth
  BY DEF I3Stream
<1>6. DepthAt(Append(event, token), Len(event) + 1) = be.depth + TokenStep(token)
  BY <1>1, <1>5, DepthAppend
<1>7. ASSUME token.type = "string", be.depth = 1
      PROVE  event # <<>> /\ (be.named <=> Last(event) = Token("key", "name"))
  <2>1. Last(h) \in {"array", "map_value"}
    BY <1>7 DEF Parsed, ValueIsNext, Closing
  <2>2. Last(h) # "array"
    <3>1. Len(h) = 2 /\ Len(h) >= 2
      <4> DEFINE n == Len(h)
      <4>1. n \in Nat /\ be.depth = n - 1
        BY <1>1, <1>3
      <4> HIDE DEF n
      <4>2. n = 2 /\ n >= 2
        BY <1>7, <4>1
      <4> QED BY <4>2 DEF n
    <3>2. Last(h) = h[2] /\ h[2] # "array"
      <4>1. Last(h) = h[Len(h)]
        BY DEF Last
      <4>2. h[2] # "array"
        BY <1>3, <3>1 DEF StackInv
      <4> HIDE DEF h
      <4> QED BY <3>1, <4>1, <4>2
    <3> QED BY <3>2
  <2>3. event # <<>> /\ Last(event).type = "key" /\ be.named = (Last(event).value = "name")
    BY <1>7, <2>1, <2>2 DEF I3Context
  <2>4. Last(event) \in Tokens
    <3> HIDE DEF event
    <3> QED BY <1>1, <2>3, PopProperties
  <2>5. be.named \in BOOLEAN
    BY DEF I3Types
  <2>6. Last(event) = Token("key", "name") <=> Last(event).type = "key" /\ Last(event).value = "name"
    <3> DEFINE l == Last(event)
    <3> HIDE DEF l
    <3>1. l \in Tokens
      BY <2>4 DEF l
    <3>2. l = Token("key", "name") <=> l.type = "key" /\ l.value = "name"
      BY <3>1 DEF Tokens, Token
    <3> QED BY <3>2 DEF l
  <2> QED BY <2>3, <2>5, <2>6
<1>8. NameOf(Append(event, token)) = ContextAt(token).widget
  <2>1. NameOf(Append(event, token)) =
          IF /\ token.type = "string" /\ be.depth = 1
             /\ event # <<>> /\ Last(event) = Token("key", "name")
          THEN FullStrtou(token.value) ELSE NameOf(event)
    BY <1>1, <1>5, NameOfAppend
  <2>2. ContextAt(token).widget = IF token.type = "string" /\ be.depth = 1 /\ be.named
                                  THEN FullStrtou(token.value) ELSE be.widget
    BY DEF ContextAt, I3Types
  <2>3. be.widget = NameOf(event)
    BY DEF I3Context
  <2> HIDE DEF event
  <2> QED BY <1>7, <2>1, <2>2, <2>3
<1>9. \E hist : ParsedTo(hist, Append(event, token), open)
  <2>1. PICK hist : ParsedTo(hist, event, h)
    BY DEF I3Stream
  <2>2. event # <<>> => Len(h) >= 2
    BY DEF I3Stream
  <2>3. Parsed(h, token, open) /\ open \in Seq(Containers)
    BY <1>4 DEF StackInv
  <2> HIDE DEF event, h
  <2> QED BY <1>1, <2>1, <2>2, <2>3, ParsedToAppend
<1> QED BY <1>2, <1>4, <1>6, <1>8, <1>9

\* An element of the outer array is whole when its last token leads back to the array.
LEMMA FlushStep ==
  ASSUME I3Types, I3Context, I3Stream, beTold = CallsFor(beIn.clicks), NEW token \in Tokens, NEW open,
         beIn.open # <<>>, Parsed(beIn.open, token, open), be.depth # 0,
         TokenStep(token) = -1, be.depth - 1 = 0, NEW next,
         next = [barlib |-> "i3", pc |-> "run", depth |-> 0, named |-> next.named,
                 tokens |-> Append(beIn.event, token), widget |-> ContextAt(token).widget],
         Flush(next)
  PROVE  /\ open = <<"array">> /\ Len(beIn.open) = 2 /\ Len(open) = 1
         /\ be' = [barlib |-> "i3", pc |-> "run", depth |-> 0, named |-> FALSE,
                   tokens |-> <<>>, widget |-> -1]
         /\ beTold' = CallsFor(Append(beIn.clicks, Append(beIn.event, token)))
<1> DEFINE event == Append(beIn.event, token)
<1>1. /\ event \in Seq(Tokens) /\ event # <<>>
      /\ StackInv(open) /\ open # <<>> /\ Len(open) = Len(beIn.open) + TokenStep(token)
      /\ NameOf(event) = ContextAt(token).widget
      /\ \E hist : ParsedTo(hist, event, open)
  BY OneMoreToken
<1>2. open = <<"array">> /\ Len(beIn.open) = 2 /\ Len(open) = 1
  <2> DEFINE n == Len(beIn.open)
             m == Len(open)
  <2>1. n \in Nat /\ m = n - 1 /\ be.depth = n - 1 /\ be.depth = 1
    BY <1>1 DEF I3Types, I3Context
  <2>2. open \in Seq(Containers) /\ open[1] = "array"
    BY <1>1 DEF StackInv
  <2> HIDE DEF n, m
  <2>3. n = 2 /\ m = 1
    BY <2>1
  <2>4. Len(open) = 1
    BY <2>3 DEF m
  <2>5. open = <<"array">>
    BY <2>2, <2>4
  <2> QED BY <2>3, <2>5 DEF n, m
<1>3. next.tokens = event /\ next.widget = NameOf(event)
  <2> HIDE DEF event
  <2> QED BY <1>1 DEF event
<1>4. PushObject(event) = Len(event) + 1
  <2> HIDE DEF event
  <2> QED BY <1>1, <1>2, PushObjectTakesAll
<1>5. be' = [barlib |-> "i3", pc |-> "run", depth |-> 0, named |-> FALSE, tokens |-> <<>>, widget |-> -1]
  <2>1. be' = [next EXCEPT !.named = FALSE, !.tokens = <<>>, !.widget = -1,
                           !.pc = IF next.widget \in BeTargets => PushObject(next.tokens) = Len(next.tokens) + 1
                                  THEN "run" ELSE "aborted"]
    BY DEF Flush
  <2> HIDE DEF event
  <2>2. be' = [next EXCEPT !.named = FALSE, !.tokens = <<>>, !.widget = -1, !.pc = "run"]
    BY <1>3, <1>4, <2>1
  <2>3. next \in [barlib : {"i3"}, pc : {"run"}, depth : {0}, named : {next.named},
                  tokens : {next.tokens}, widget : {next.widget}]
    OBVIOUS
  <2> QED BY <2>2, <2>3
<1>6. beTold' = CallsFor(Append(beIn.clicks, event))
  <2> HIDE DEF event
  <2>1. beTold' = IF NameOf(event) \in BeTargets
                  THEN Append(beTold, [widget |-> NameOf(event), what |-> event]) ELSE beTold
    BY <1>3 DEF Flush
  <2>2. beIn.clicks \in Seq(Seq(Tokens))
    BY DEF I3Types
  <2> QED BY <1>1, <2>1, <2>2, CallsForAppend DEF CallFor
<1> QED BY <1>2, <1>5, <1>6

\* Between two elements of the outer array.
LEMMA NothingRead ==
  ASSUME NEW named \in BOOLEAN, NEW count \in Nat, NEW clicks \in Seq(Seq(Tokens)),
         be' = [barlib |-> "i3", pc |-> "run", depth |-> 0, named |-> named, tokens |-> <<>>, widget |-> -1],
         beIn' = [count |-> count, open |-> <<"array">>, event |-> <<>>, clicks |-> clicks],
         beTold' = CallsFor(clicks)
  PROVE  I3Inv'
<1>1. <<"array">> \in Seq(Containers) /\ <<>> \in Seq(Tokens)
  BY DEF Containers
<1>2. I3Types'
  BY <1>1 DEF I3Types
<1>3. /\ beIn'.open = <<"array">> /\ beIn'.event = <<>> /\ beIn'.clicks = clicks
      /\ be'.depth = 0 /\ be'.pc = "run" /\ be'.tokens = <<>> /\ be'.widget = -1
  OBVIOUS
<1>4. I3Context'
  <2>1. be'.depth = Len(beIn'.open) - 1
    BY <1>3
  <2>2. be'.tokens = beIn'.event /\ be'.widget = NameOf(beIn'.event)
    BY <1>3, NameOfNone
  <2> QED BY <1>3, <2>1, <2>2 DEF I3Context
<1>5. I3Stream'
  <2>1. StackInv(<<"array">>)
    BY <1>1 DEF StackInv
  <2>2. DepthAt(beIn'.event, Len(beIn'.event)) = be'.depth
    <3>1. Len(<<>>) = 0
      OBVIOUS
    <3> QED BY <1>3, <3>1, NameOfNone
  <2>3. \E hist : ParsedTo(hist, beIn'.event, beIn'.open)
    BY <1>3, NothingParsed
  <2> QED BY <1>3, <2>1, <2>2, <2>3 DEF I3Stream
<1> QED BY <1>2, <1>3, <1>4, <1>5 DEF I3Inv

\* What token_helper() does with a token yajl lets through.
LEMMA ParseStep ==
  ASSUME be.barlib = "i3", be.pc = "run", I3Inv, NEW token \in Tokens, NEW open, Parse(token, open),
         beIn.open # <<>> => Parsed(beIn.open, token, open),
         beIn.open = <<>> /\ token.type = "array_start" => open = <<"array">>
  PROVE  I3Inv'
<1> DEFINE ctx == ContextAt(token)
           h == beIn.open
           event == Append(beIn.event, token)
           next == [ctx EXCEPT !.tokens = Append(@, token), !.depth = @ + TokenStep(token)]
           refused == \/ ctx.depth = -1 /\ token.type # "array_start"
                      \/ ctx.depth = 0 /\ token.type # "map_start"
                      \/ ctx.depth >= 0 /\ TokenStep(token) = 1 /\ next.depth >= BeDepthLimit
           whole == Len(h) = 2 /\ Len(open) = 1
<1>1. I3Types /\ I3Context /\ I3Stream /\ beTold = CallsFor(beIn.clicks)
  BY DEF I3Inv
<1>2. /\ ctx = [barlib |-> "i3", pc |-> "run", depth |-> be.depth, named |-> ctx.named,
                tokens |-> beIn.event, widget |-> ctx.widget]
      /\ ctx.named = IF token.type = "key" /\ be.depth = 1 THEN token.value = "name" ELSE be.named
      /\ ctx.widget \in Int /\ ctx.named \in BOOLEAN
  <2>1. /\ ctx = [barlib |-> "i3", pc |-> "run", depth |-> be.depth, named |-> ctx.named,
                  tokens |-> be.tokens, widget |-> ctx.widget]
        /\ ctx.named = IF token.type = "key" /\ be.depth = 1 THEN token.value = "name" ELSE be.named
        /\ ctx.widget = IF token.type = "string" /\ be.depth = 1 /\ be.named
                        THEN FullStrtou(token.value) ELSE be.widget
    BY <1>1, ContextAtIs
  <2>2. be.tokens = beIn.event /\ be.widget \in Int /\ be.named \in BOOLEAN
    BY <1>1 DEF I3Context, I3Types
  <2>3. ctx.widget \in Int
    <3> HIDE DEF ctx
    <3> QED BY <2>1, <2>2, StrtouIsInt
  <2>4. ctx.named \in BOOLEAN
    <3> HIDE DEF ctx
    <3> QED BY <2>1, <2>2
  <2> HIDE DEF ctx
  <2> QED BY <2>1, <2>2, <2>3, <2>4
<1>3. \/ refused /\ be' = [ctx EXCEPT !.pc = "returned"] /\ beTold' = beTold
      \/ ~refused /\ ctx.depth = -1 /\ be' = [ctx EXCEPT !.depth = 0] /\ beTold' = beTold
      \/ ~refused /\ ctx.depth >= 0 /\ TokenStep(token) = -1 /\ next.depth = 0 /\ Flush(next)
      \/ ~refused /\ ctx.depth >= 0 /\ ~(TokenStep(token) = -1 /\ next.depth = 0) /\ be' = next
         /\ beTold' = beTold
  <2>1. TokenHelper(ctx, token)
    BY <1>1, ContextAtIs
  <2> HIDE DEF ctx
  <2> QED BY <2>1 DEF TokenHelper, TokenStep
<1>4. beIn' = [count |-> beIn.count + 1, open |-> open,
               event |-> IF whole THEN <<>> ELSE IF h = <<>> THEN <<>> ELSE event,
               clicks |-> IF whole THEN Append(beIn.clicks, IF h = <<>> THEN <<>> ELSE event)
                          ELSE beIn.clicks]
  BY DEF Parse
<1>5. /\ be.depth = Len(h) - 1 /\ Len(h) \in Nat /\ be.depth \in Int /\ h \in Seq(Containers)
      /\ beIn.count \in Nat /\ beIn.clicks \in Seq(Seq(Tokens)) /\ beIn.event \in Seq(Tokens)
  BY <1>1 DEF I3Types, I3Context
<1>6. h = <<>> <=> be.depth = -1
  <2> HIDE DEF h
  <2>1. h = <<>> <=> Len(h) = 0
    BY <1>5, EmptySeq, Zenon
  <2> DEFINE n == Len(h)
  <2>2. n \in Nat /\ be.depth = n - 1
    BY <1>5
  <2> HIDE DEF n
  <2>3. n = 0 <=> be.depth = -1
    BY <2>2
  <2> QED BY <2>1, <2>3 DEF n
<1>7. TokenStep(token) \in {-1, 0, 1} /\ next.depth = be.depth + TokenStep(token)
  <2>1. TokenStep(token) \in {-1, 0, 1}
    BY DEF TokenStep
  <2> HIDE DEF ctx
  <2> QED BY <1>2, <2>1
<1>8. ctx.depth = be.depth /\ ctx.tokens = beIn.event
  <2> HIDE DEF ctx
  <2> QED BY <1>2
<1>9. next = [barlib |-> "i3", pc |-> "run", depth |-> be.depth + TokenStep(token),
              named |-> ctx.named, tokens |-> event, widget |-> ctx.widget]
  <2> DEFINE n == ctx.named
             w == ctx.widget
             d == be.depth + TokenStep(token)
  <2>1. ctx = [barlib |-> "i3", pc |-> "run", depth |-> be.depth, named |-> n,
               tokens |-> beIn.event, widget |-> w]
    BY <1>2
  <2> HIDE DEF ctx
  <2>2. ctx.depth = be.depth /\ ctx.tokens = beIn.event
    BY <2>1
  <2>3. next = [ctx EXCEPT !.tokens = event, !.depth = d]
    BY <2>2, Zenon
  <2> HIDE DEF n, w, h, refused, next, d, event
  <2>4. next = [barlib |-> "i3", pc |-> "run", depth |-> d, named |-> n, tokens |-> event, widget |-> w]
    BY <2>1, <2>3
  <2> QED BY <2>4 DEF n, w, d
<1> HIDE DEF ctx, next
<1>10. CASE refused /\ be' = [ctx EXCEPT !.pc = "returned"] /\ beTold' = beTold
  <2>1. be'.barlib = "i3" /\ be'.pc = "returned"
    BY <1>2, <1>10
  <2>2. ~whole
    <3>1. CASE be.depth \in {-1, 0}
      <4> HIDE DEF h
      <4>1. Len(h) # 2
        <5> DEFINE n == Len(h)
        <5>1. n \in Nat /\ be.depth = n - 1
          BY <1>5
        <5> HIDE DEF n
        <5>2. n # 2
          BY <3>1, <5>1
        <5> QED BY <5>2 DEF n
      <4> QED BY <4>1
    <3>2. CASE be.depth \notin {-1, 0}
      <4>1. TokenStep(token) = 1 /\ h # <<>>
        BY <1>6, <1>8, <1>10, <3>2
      <4>2. Len(open) = Len(h) + 1
        BY <1>1, <3>2, <4>1, OneMoreToken
      <4> DEFINE n == Len(h)
                 m == Len(open)
      <4>3. n \in Nat /\ m = n + 1
        BY <1>5, <4>2
      <4> HIDE DEF n, m
      <4>4. ~(n = 2 /\ m = 1)
        BY <4>3
      <4> QED BY <4>4 DEF n, m
    <3> QED BY <3>1, <3>2
  <2>3. beIn'.clicks = beIn.clicks
    <3> HIDE DEF whole, event
    <3> QED BY <1>4, <2>2
  <2> QED BY <1>1, <1>10, <2>1, <2>3 DEF I3Inv
<1>11. CASE ~refused /\ ctx.depth = -1 /\ be' = [ctx EXCEPT !.depth = 0] /\ beTold' = beTold
  <2>1. h = <<>> /\ token.type = "array_start" /\ open = <<"array">> /\ be.depth = -1
    BY <1>6, <1>8, <1>11
  <2>2. ~whole
    <3>1. Len(h) = 0
      BY <2>1
    <3> HIDE DEF h
    <3> QED BY <3>1
  <2>3. beIn' = [count |-> beIn.count + 1, open |-> <<"array">>, event |-> <<>>, clicks |-> beIn.clicks]
    <3> HIDE DEF whole, event, h
    <3> QED BY <1>4, <2>1, <2>2
  <2>4. beIn.event = <<>>
    BY <1>1, <2>1 DEF I3Stream
  <2>5. be' = [barlib |-> "i3", pc |-> "run", depth |-> 0, named |-> ctx.named, tokens |-> <<>>,
               widget |-> ctx.widget]
    BY <1>2, <1>11, <2>4
  <2>6. ctx.widget = -1
    <3>1. ctx.widget = be.widget
      BY <1>1, <2>1 DEF ctx, ContextAt, I3Types
    <3>2. be.widget = NameOf(beIn.event)
      BY <1>1 DEF I3Context
    <3> QED BY <2>4, <3>1, <3>2, NameOfNone
  <2>7. ctx.named \in BOOLEAN /\ beIn.count + 1 \in Nat /\ beIn.clicks \in Seq(Seq(Tokens))
    BY <1>2, <1>5
  <2>8. /\ be' = [barlib |-> "i3", pc |-> "run", depth |-> 0, named |-> ctx.named, tokens |-> <<>>,
                  widget |-> -1]
        /\ beTold' = CallsFor(beIn.clicks)
    BY <1>1, <1>11, <2>5, <2>6
  <2> QED BY <2>3, <2>7, <2>8, NothingRead
<1>12. ASSUME ~refused, ctx.depth >= 0
       PROVE  /\ h # <<>> /\ Parsed(h, token, open) /\ (be.depth = 0 => token.type = "map_start")
              /\ event \in Seq(Tokens) /\ event # <<>> /\ Last(event) = token
              /\ StackInv(open) /\ open # <<>> /\ Len(open) = Len(h) + TokenStep(token)
              /\ Last(open) = "map_value" => token.type = "key"
              /\ DepthAt(event, Len(event)) = be.depth + TokenStep(token)
              /\ NameOf(event) = ctx.widget
              /\ \E hist : ParsedTo(hist, event, open)
  <2>1. h # <<>> /\ (be.depth = 0 => token.type = "map_start")
    BY <1>6, <1>8, <1>12
  <2>2. Parsed(h, token, open)
    BY <2>1
  <2> QED BY <1>1, <2>1, <2>2, OneMoreToken DEF ctx
<1>13. CASE ~refused /\ ctx.depth >= 0 /\ TokenStep(token) = -1 /\ next.depth = 0 /\ Flush(next)
  <2>1. be.depth # 0 /\ be.depth - 1 = 0
    <3>1. be.depth \in Int /\ be.depth + TokenStep(token) = 0 /\ TokenStep(token) = -1
      BY <1>5, <1>7, <1>13
    <3> QED BY <3>1
  <2>2. /\ open = <<"array">> /\ Len(h) = 2 /\ Len(open) = 1
        /\ be' = [barlib |-> "i3", pc |-> "run", depth |-> 0, named |-> FALSE, tokens |-> <<>>, widget |-> -1]
        /\ beTold' = CallsFor(Append(beIn.clicks, event))
    <3>1. next = [barlib |-> "i3", pc |-> "run", depth |-> 0, named |-> next.named,
                  tokens |-> Append(beIn.event, token), widget |-> ContextAt(token).widget]
      <4>1. be.depth + TokenStep(token) = 0 /\ ctx.widget = ContextAt(token).widget
        BY <1>13, <2>1 DEF ctx
      <4> QED BY <1>9, <4>1
    <3>2. h # <<>> /\ Parsed(h, token, open) /\ Flush(next) /\ TokenStep(token) = -1
      BY <1>12, <1>13
    <3> QED BY <1>1, <2>1, <3>1, <3>2, FlushStep
  <2>3. beIn' = [count |-> beIn.count + 1, open |-> <<"array">>, event |-> <<>>,
                 clicks |-> Append(beIn.clicks, event)]
    <3>1. whole /\ h # <<>>
      BY <1>12, <1>13, <2>2
    <3> HIDE DEF whole, event, h
    <3> QED BY <1>4, <2>2, <3>1
  <2>4. Append(beIn.clicks, event) \in Seq(Seq(Tokens)) /\ beIn.count + 1 \in Nat
    <3>1. event \in Seq(Tokens)
      BY <1>12, <1>13
    <3> HIDE DEF event
    <3> QED BY <1>5, <3>1
  <2> HIDE DEF event, whole, h
  <2> QED BY <2>2, <2>3, <2>4, NothingRead
<1>14. CASE /\ ~refused /\ ctx.depth >= 0 /\ ~(TokenStep(token) = -1 /\ next.depth = 0)
            /\ be' = next /\ beTold' = beTold
  <2>1. /\ h # <<>> /\ (be.depth = 0 => token.type = "map_start")
        /\ event \in Seq(Tokens) /\ event # <<>> /\ Last(event) = token
        /\ StackInv(open) /\ open # <<>> /\ Len(open) = Len(h) + TokenStep(token)
        /\ Last(open) = "map_value" => token.type = "key"
        /\ DepthAt(event, Len(event)) = be.depth + TokenStep(token)
        /\ NameOf(event) = ctx.widget
        /\ \E hist : ParsedTo(hist, event, open)
    BY <1>12, <1>14
  <2>2. be.depth \in Int /\ be.depth >= 0 /\ be.depth + TokenStep(token) # -1
        /\ (TokenStep(token) = -1 => be.depth + TokenStep(token) # 0)
    <3>1. be.depth = 0 => TokenStep(token) = 1
      BY <2>1 DEF TokenStep, Opening
    <3>2. be.depth \in Int /\ be.depth >= 0
      BY <1>5, <1>8, <1>14
    <3>3. TokenStep(token) = -1 => be.depth + TokenStep(token) # 0
      BY <1>7, <1>14
    <3>4. TokenStep(token) \in {-1, 0, 1}
      BY <1>7
    <3> QED BY <3>1, <3>2, <3>3, <3>4
  <2>3. Len(open) = be.depth + TokenStep(token) + 1 /\ Len(open) >= 2
    <3> DEFINE n == Len(h)
               m == Len(open)
    <3>1. n \in Nat /\ be.depth = n - 1 /\ m = n + TokenStep(token)
      BY <1>5, <2>1
    <3>2. be.depth = 0 => TokenStep(token) = 1
      BY <2>1 DEF TokenStep, Opening
    <3> HIDE DEF n, m, event, h
    <3>3. m = be.depth + TokenStep(token) + 1 /\ m >= 2
      BY <1>7, <2>2, <3>1, <3>2
    <3> QED BY <3>3 DEF m
  <2>4. beIn' = [count |-> beIn.count + 1, open |-> open, event |-> event, clicks |-> beIn.clicks]
    <3>1. ~whole
      <4> DEFINE m == Len(open)
      <4>1. m >= 2 /\ m \in Nat
        BY <2>1, <2>3 DEF StackInv
      <4> HIDE DEF m, h
      <4>2. m # 1
        BY <4>1
      <4> QED BY <4>2 DEF m
    <3>2. h # <<>>
      BY <2>1
    <3> HIDE DEF whole, event, h
    <3> QED BY <1>4, <3>1, <3>2
  <2>5. be' = [barlib |-> "i3", pc |-> "run", depth |-> be.depth + TokenStep(token),
               named |-> ctx.named, tokens |-> event, widget |-> ctx.widget]
    BY <1>9, <1>14
  <2> HIDE DEF event, h, whole, refused
  <2>6. /\ beIn'.open = open /\ beIn'.event = event /\ beIn'.clicks = beIn.clicks
        /\ be'.depth = be.depth + TokenStep(token) /\ be'.named = ctx.named /\ be'.pc = "run"
        /\ be'.tokens = event /\ be'.widget = ctx.widget
    BY <2>4, <2>5
  <2>7. I3Types'
    <3>1. be.depth + TokenStep(token) \in Int /\ beIn.count + 1 \in Nat /\ open \in Seq(Containers)
      BY <1>5, <1>7, <2>1 DEF StackInv
    <3>2. /\ ctx.named \in BOOLEAN /\ ctx.widget \in Int /\ event \in Seq(Tokens)
          /\ beIn.clicks \in Seq(Seq(Tokens))
      BY <1>2, <1>5, <2>1
    <3>3. be' \in [barlib : {"i3"}, pc : {"run"}, depth : Int, named : BOOLEAN,
                   tokens : Seq(Tokens), widget : Int]
      BY <2>5, <3>1, <3>2
    <3>4. beIn' \in [count : Nat, open : Seq(Containers), event : Seq(Tokens), clicks : Seq(Seq(Tokens))]
      BY <2>4, <3>1, <3>2
    <3> QED BY <3>3, <3>4 DEF I3Types
  <2>8. I3Context'
    <3>1. be'.depth = Len(beIn'.open) - 1
      <4> DEFINE m == Len(open)
      <4>1. m = be.depth + TokenStep(token) + 1
        BY <2>3
      <4> HIDE DEF m
      <4>2. be.depth + TokenStep(token) = m - 1
        BY <1>7, <2>2, <4>1
      <4> QED BY <2>6, <4>2 DEF m
    <3>2. be'.tokens = beIn'.event /\ be'.widget = NameOf(beIn'.event)
      BY <2>1, <2>6
    <3>3. ASSUME be'.depth = 1, Last(beIn'.open) = "map_value"
          PROVE  /\ beIn'.event # <<>> /\ Last(beIn'.event).type = "key"
                 /\ be'.named = (Last(beIn'.event).value = "name")
      <4>1. token.type = "key"
        BY <2>1, <2>6, <3>3
      <4>2. be.depth = 1
        <5>1. TokenStep(token) = 0
          BY <4>1 DEF TokenStep, Opening, Closing
        <5> QED BY <2>2, <2>6, <3>3, <5>1
      <4>3. ctx.named = (token.value = "name")
        BY <1>2, <4>1, <4>2
      <4> QED BY <2>1, <2>6, <4>1, <4>3
    <3> QED BY <3>1, <3>2, <3>3 DEF I3Context
  <2>9. I3Stream'
    <3>1. \E hist : ParsedTo(hist, beIn'.event, beIn'.open)
      BY <2>1, <2>6
    <3>2. DepthAt(beIn'.event, Len(beIn'.event)) = be'.depth
      BY <2>1, <2>6
    <3>3. StackInv(beIn'.open) /\ beIn'.open # <<>> /\ Len(beIn'.open) >= 2
      BY <2>1, <2>3, <2>6
    <3> QED BY <3>1, <3>2, <3>3 DEF I3Stream
  <2> QED BY <1>1, <1>14, <2>6, <2>7, <2>8, <2>9 DEF I3Inv
<1> QED BY <1>3, <1>10, <1>11, <1>13, <1>14

\* Where the i3 event watcher starts.
LEMMA I3Start == BeInit => I3Inv
<1> SUFFICES ASSUME BeInit, be.barlib = "i3" PROVE I3Inv
  BY DEF I3Inv
<1>1. /\ be = [barlib |-> "i3", pc |-> be.pc, depth |-> -1, named |-> FALSE, tokens |-> <<>>, widget |-> -1]
      /\ be.pc \in {"run", "returned"}
      /\ beIn = [count |-> 0, open |-> <<>>, event |-> <<>>, clicks |-> <<>>]
      /\ beTold = <<>>
  <2>1. PICK barlib \in {"i3", "lemonbar", "stdout"}, pc \in {"run", "returned"} : BeStart(barlib, pc)
    BY DEF BeInit
  <2>2. be = [barlib |-> barlib, pc |-> pc, depth |-> -1, named |-> FALSE, tokens |-> <<>>, widget |-> -1]
    BY <2>1 DEF BeStart
  <2>3. barlib = "i3" /\ be.pc = pc
    BY <2>2
  <2> QED BY <2>1, <2>2, <2>3 DEF BeStart
<1>2. beIn.open = <<>> /\ beIn.event = <<>> /\ beIn.clicks = <<>> /\ be.depth = -1 /\ be.tokens = <<>>
      /\ be.widget = -1
  BY <1>1
<1>3. beTold = CallsFor(beIn.clicks)
  <2>1. CallsFor(<<>>) = <<>>
    <3> DEFINE none == [k \in DOMAIN <<>> |->
                 IF NameOf(<<>>[k]) \in BeTargets
                 THEN <<[widget |-> NameOf(<<>>[k]), what |-> <<>>[k]]>> ELSE <<>>]
    <3>1. none = <<>>
      OBVIOUS
    <3> HIDE DEF none
    <3>2. FlattenSeq(none) = <<>>
      BY <3>1 DEF FlattenSeq
    <3> QED BY <3>2 DEF CallsFor, none
  <2> QED BY <1>1, <1>2, <2>1
<1>4. ASSUME be.pc = "run" PROVE I3Types
  <2>1. <<>> \in Seq(Tokens) /\ <<>> \in Seq(Containers) /\ <<>> \in Seq(Seq(Tokens))
    OBVIOUS
  <2>2. be = [barlib |-> "i3", pc |-> "run", depth |-> -1, named |-> FALSE, tokens |-> <<>>, widget |-> -1]
    BY <1>1, <1>4
  <2>3. be \in [barlib : {"i3"}, pc : {"run"}, depth : Int, named : BOOLEAN,
                tokens : Seq(Tokens), widget : Int]
    BY <2>1, <2>2
  <2>4. beIn \in [count : Nat, open : Seq(Containers), event : Seq(Tokens), clicks : Seq(Seq(Tokens))]
    BY <1>1, <2>1
  <2> QED BY <2>3, <2>4 DEF I3Types
<1>5. I3Context
  <2>1. be.depth = Len(beIn.open) - 1
    BY <1>2
  <2> QED BY <1>2, <2>1, NameOfNone DEF I3Context
<1>6. I3Stream
  BY <1>2 DEF I3Stream, StackInv
<1> QED BY <1>1, <1>3, <1>4, <1>5, <1>6 DEF I3Inv

\* The context keeps its fields.
BeFields == {"barlib", "pc"} \subseteq DOMAIN be

LEMMA FieldsStart == BeInit => BeFields
BY DEF BeInit, BeStart, BeFields

LEMMA FieldsStep ==
  ASSUME BeFields, BeNext
  PROVE  /\ BeFields'
         /\ be'.barlib = be.barlib
<1>1. CASE InputEnds
  BY <1>1 DEF InputEnds, BeFields
<1>2. ASSUME NEW token, NEW open, Parse(token, open)
      PROVE  BeFields' /\ be'.barlib = be.barlib
  <2>1. ASSUME NEW ctx, NEW t, TokenHelper(ctx, t), {"barlib", "pc"} \subseteq DOMAIN ctx
        PROVE  {"barlib", "pc"} \subseteq DOMAIN be' /\ be'.barlib = ctx.barlib
    BY <2>1 DEF TokenHelper, Flush
  <2>2. {"barlib", "pc"} \subseteq DOMAIN be
    BY DEF BeFields
  <2>3. CASE token.type = "string"
    <3> DEFINE ctx == [be EXCEPT !.widget = IF be.depth = 1 /\ be.named THEN FullStrtou(token.value) ELSE @]
    <3>1. TokenHelper(ctx, Token("string", token.value))
      BY <1>2, <2>3, Zenon DEF Parse, CallbackString
    <3>2. {"barlib", "pc"} \subseteq DOMAIN ctx /\ ctx.barlib = be.barlib
      BY <2>2
    <3> HIDE DEF ctx
    <3> QED BY <2>1, <3>1, <3>2 DEF BeFields
  <2>4. CASE token.type = "key"
    <3> DEFINE ctx == [be EXCEPT !.named = IF be.depth = 1 THEN token.value = "name" ELSE @]
    <3>1. TokenHelper(ctx, Token("key", token.value))
      BY <1>2, <2>4 DEF Parse, CallbackMapKey
    <3>2. {"barlib", "pc"} \subseteq DOMAIN ctx /\ ctx.barlib = be.barlib
      BY <2>2
    <3> HIDE DEF ctx
    <3> QED BY <2>1, <3>1, <3>2 DEF BeFields
  <2>5. CASE token.type \notin {"string", "key"}
    <3>1. TokenHelper(be, token)
      BY <1>2, <2>5 DEF Parse
    <3> QED BY <2>1, <2>2, <3>1 DEF BeFields
  <2> QED BY <2>3, <2>4, <2>5
<1>3. CASE ParseOpen \/ ParseScalar \/ ParseKey \/ ParseClose
  BY <1>2, <1>3 DEF ParseOpen, ParseScalar, ParseKey, ParseClose
<1>4. CASE LemonbarSet \/ LemonbarLine
  BY <1>4 DEF LemonbarSet, LemonbarLine, BeFields
<1>5. CASE StdoutLine \/ StdoutCall
  BY <1>5 DEF StdoutLine, StdoutCall, BeFields
<1> QED BY <1>1, <1>3, <1>4, <1>5 DEF BeNext

\* Every step.
LEMMA I3Step == BeFields /\ I3Inv /\ [BeNext]_bevars => I3Inv'
<1> SUFFICES ASSUME BeFields, I3Inv, [BeNext]_bevars PROVE I3Inv'
  OBVIOUS
<1>1. ASSUME NEW token \in Tokens, NEW open, Parse(token, open),
             beIn.open # <<>> => Parsed(beIn.open, token, open),
             beIn.open = <<>> /\ token.type = "array_start" => open = <<"array">>
      PROVE  I3Inv'
  <2>1. be.barlib = "i3" /\ be.pc = "run"
    BY <1>1 DEF Parse, BeRuns
  <2> QED BY <1>1, <2>1, ParseStep
<1>2. \A type \in TokenTypes, s \in TokenValues :
        Token(type, s) \in Tokens /\ Token(type, s).type = type
  BY DEF Token, Tokens
<1>3. beIn.open # <<>> => Front(beIn.open) \o <<"map_value">> = Append(Front(beIn.open), "map_value")
  BY SMT
<1>4. CASE InputEnds
  <2>1. /\ be'.barlib = be.barlib /\ be'.pc = "returned"
        /\ beIn' = beIn /\ beTold' = beTold /\ be.pc = "run"
    BY <1>4 DEF InputEnds, BeFields
  <2> QED BY <2>1 DEF I3Inv
<1>5. CASE ParseOpen
  <2>1. beIn.open # <<>> => ValueIsNext(beIn.open)
    BY <1>5, Zenon DEF ParseOpen, ValueNext, ValueIsNext
  <2>2. CASE Parse(Token("array_start", "none"), Append(AfterValue(beIn.open), "array"))
    <3> DEFINE t == Token("array_start", "none")
               g == Append(AfterValue(beIn.open), "array")
    <3>1. t \in Tokens /\ t.type = "array_start"
      BY DEF Token, Tokens, TokenTypes, TokenValues
    <3>2. beIn.open # <<>> => Parsed(beIn.open, t, g)
      BY <2>1, <3>1 DEF Parsed
    <3>3. beIn.open = <<>> => g = <<"array">>
      BY DEF AfterValue
    <3> HIDE DEF t, g
    <3> QED BY <1>1, <2>2, <3>1, <3>2, <3>3 DEF t, g
  <2>3. CASE Parse(Token("map_start", "none"), Append(AfterValue(beIn.open), "map_key"))
    <3> DEFINE t == Token("map_start", "none")
               g == Append(AfterValue(beIn.open), "map_key")
    <3>1. t \in Tokens /\ t.type = "map_start"
      BY DEF Token, Tokens, TokenTypes, TokenValues
    <3>2. beIn.open # <<>> => Parsed(beIn.open, t, g)
      BY <2>1, <3>1 DEF Parsed
    <3> HIDE DEF t, g
    <3> QED BY <1>1, <2>3, <3>1, <3>2 DEF t, g
  <2> QED BY <1>5, <2>2, <2>3 DEF ParseOpen
<1>6. CASE ParseScalar
  <2>1. beIn.open # <<>> => ValueIsNext(beIn.open)
    BY <1>6, Zenon DEF ParseScalar, ValueNext, ValueIsNext
  <2>2. ASSUME NEW t \in Tokens, t.type \in {"scalar", "string"}, Parse(t, AfterValue(beIn.open))
        PROVE  I3Inv'
    <3>1. beIn.open # <<>> => Parsed(beIn.open, t, AfterValue(beIn.open))
      BY <2>1, <2>2 DEF Parsed
    <3> QED BY <1>1, <2>2, <3>1
  <2>3. Token("scalar", "none") \in Tokens /\ Token("scalar", "none").type \in {"scalar", "string"}
    BY DEF Token, Tokens, TokenTypes, TokenValues
  <2>4. \A s \in Strings : Token("string", s) \in Tokens /\ Token("string", s).type \in {"scalar", "string"}
    BY DEF Token, Tokens, TokenTypes, TokenValues
  <2> QED BY <1>6, <2>2, <2>3, <2>4 DEF ParseScalar
<1>7. CASE ParseKey
  <2>1. PICK s \in {"name", "other"} : Parse(Token("key", s), Front(beIn.open) \o <<"map_value">>)
    BY <1>7 DEF ParseKey
  <2> DEFINE t == Token("key", s)
             g == Front(beIn.open) \o <<"map_value">>
  <2>2. t \in Tokens /\ t.type = "key"
    BY DEF Token, Tokens, TokenTypes, TokenValues
  <2>3. Parsed(beIn.open, t, g) /\ beIn.open # <<>>
    BY <1>3, <1>7, <2>2 DEF Parsed, ParseKey
  <2> HIDE DEF t, g
  <2> QED BY <1>1, <2>1, <2>2, <2>3 DEF t, g
<1>8. CASE ParseClose
  <2>1. ASSUME NEW t \in Tokens, Parse(t, Front(beIn.open)),
               \/ Last(beIn.open) = "array" /\ t.type = "array_end"
               \/ Last(beIn.open) = "map_key" /\ t.type = "map_end"
        PROVE  I3Inv'
    <3>1. Parsed(beIn.open, t, Front(beIn.open)) /\ beIn.open # <<>>
      BY <1>8, <2>1 DEF Parsed, ParseClose
    <3> QED BY <1>1, <2>1, <3>1
  <2>2. /\ Token("array_end", "none") \in Tokens /\ Token("array_end", "none").type = "array_end"
        /\ Token("map_end", "none") \in Tokens /\ Token("map_end", "none").type = "map_end"
    BY DEF Token, Tokens, TokenTypes, TokenValues
  <2> QED BY <1>8, <2>1, <2>2 DEF ParseClose
<1>9. CASE LemonbarSet \/ LemonbarLine
  <2>1. be' = be /\ be.barlib = "lemonbar"
    BY <1>9 DEF LemonbarSet, LemonbarLine, BeRuns
  <2> QED BY <2>1 DEF I3Inv
<1>10. CASE StdoutLine \/ StdoutCall
  <2>1. be'.barlib = "stdout"
    BY <1>10 DEF StdoutLine, StdoutCall, BeRuns, BeFields
  <2> QED BY <2>1 DEF I3Inv
<1>11. CASE UNCHANGED bevars
  BY <1>11 DEF bevars, I3Inv, I3Types, I3Context, I3Stream
<1> QED BY <1>4, <1>5, <1>6, <1>7, <1>8, <1>9, <1>10, <1>11 DEF BeNext

\* For every number of widgets and limit of the depth: every complete click is told, whole, to
\* the widget its name is the number of, and no assertion of push_object() fails.
THEOREM ClicksAreTold == BeSpec => []ClicksReachTheirWidget
<1>1. BeFields /\ I3Inv => ClicksReachTheirWidget
  BY DEF I3Inv, ClicksReachTheirWidget
<1>2. BeInit => BeFields /\ I3Inv
  BY FieldsStart, I3Start
<1>3. BeFields /\ I3Inv /\ [BeNext]_bevars => (BeFields /\ I3Inv)'
  <2>1. BeFields /\ BeNext => BeFields'
    BY FieldsStep
  <2>2. BeFields /\ UNCHANGED bevars => BeFields'
    BY DEF BeFields, bevars
  <2> QED BY <2>1, <2>2, I3Step
<1> QED BY <1>1, <1>2, <1>3, PTL DEF BeSpec

\* Every index of what is after the first i pieces, and not after the first m, is in one of the others.
LEMMA PieceOf ==
  ASSUME NEW n, NEW A, NEW f, NEW e, GrowsBy(f, n, e, A),
         NEW i \in 0..n, NEW m \in i..n, NEW p \in Len(f[i]) + 1..Len(f[m])
  PROVE  \E k \in i + 1..m : \E j \in 1..Len(e[k]) : p = Len(f[k - 1]) + j
<1>0. ASSUME NEW k \in 1..n PROVE Len(f[k]) = Len(f[k - 1]) + Len(e[k])
  <2>1. PieceIn(f, n, e, k)
    BY PieceStands
  <2> QED BY <2>1 DEF PieceIn
<1> DEFINE S == {k \in 0..m : Len(f[k]) < p}
<1>1. n \in Nat /\ (\A k \in 0..n : Len(f[k]) \in Nat) /\ e \in [1..n -> Seq(A)]
  BY DEF GrowsBy
<1>2. i \in 0..n /\ m \in 0..n /\ m \in Nat /\ i <= m
  BY <1>1
<1>3. Len(f[i]) \in Nat /\ Len(f[m]) \in Nat
  BY <1>1, <1>2
<1>4. i \in S /\ S \subseteq 0..m
  BY <1>2, <1>3
<1>5. PICK k \in S : \A x \in S : x <= k
  <2> HIDE DEF S
  <2> QED BY <1>2, <1>4, GreatestUpTo
<1>6. k \in 0..m /\ Len(f[k]) < p /\ i <= k
  BY <1>4, <1>5
<1>7. k # m
  <2>1. p <= Len(f[m])
    BY <1>3
  <2> QED BY <1>1, <1>2, <1>3, <1>6, <2>1
<1> DEFINE x == k + 1
<1>8. x \in i + 1..m /\ x \in 1..n /\ x - 1 = k /\ x \in 0..m /\ x > k /\ k \in Nat
  BY <1>1, <1>2, <1>6, <1>7
<1>9. ~(Len(f[x]) < p)
  BY <1>5, <1>8
<1> HIDE DEF x
<1>10. Len(f[x]) = Len(f[k]) + Len(e[x])
  <2>1. Len(f[x]) = Len(f[x - 1]) + Len(e[x])
    BY <1>0, <1>8
  <2> QED BY <1>8, <2>1
<1> DEFINE a == Len(f[k])
           c == Len(e[x])
           b == Len(f[x])
           j == p - a
<1>11. a \in Nat /\ b = a + c /\ b \in Nat /\ c \in Nat
  <2>3. PieceIn(f, n, e, x)
    BY <1>8, PieceStands
  <2>2. x \in 0..n /\ k \in 0..n
    BY <1>1, <1>2, <1>8, <1>6
  <2> QED BY <1>1, <1>10, <2>2, <2>3 DEF PieceIn
<1>12. a < p /\ ~(b < p) /\ p \in Nat
  BY <1>3, <1>6, <1>9
<1> HIDE DEF a, b, c
<1>13. j \in 1..c /\ p = a + j
  BY <1>11, <1>12
<1> QED BY <1>8, <1>13 DEF a, c

-----------------------------------------------------------------------------
(* The tags of lemonbar.                                                   *)

\* What escape() makes of a unit, and of a text.
EscapeUnit(u) == IF u = "%" THEN <<"%", "%">> ELSE <<u>>

\* escape() does them.
LEMMA EscapeIsRecursive ==
  ASSUME NEW src \in Seq(Units)
  PROVE  \E f \in [0..Len(src) -> Seq(Units)] :
           GrowsBy(f, Len(src), [k \in 1..Len(src) |-> EscapeUnit(src[k])], Units) /\ Escape(src) = f[Len(src)]
<1> DEFINE n == Len(src)
           V == Seq(Units)
           step == [k \in 1..n |-> [v \in V |-> v \o (IF src[k] = "%" THEN <<"%", "%">> ELSE <<src[k]>>)]]
           Is(g) == g = [s \in SUBSET (1..n) |->
                           IF s = {} THEN <<>> ELSE g[s \ {Max(s)}] \o (IF src[Max(s)] = "%" THEN <<"%", "%">> ELSE <<src[Max(s)]>>)]
           g == CHOOSE g : Is(g)
           f == [k \in 0..n |-> g[1..k]]
<1>1. n \in Nat
  OBVIOUS
<1>2. <<>> \in V /\ \A k \in 1..n, v \in V : v \o (IF src[k] = "%" THEN <<"%", "%">> ELSE <<src[k]>>) \in V
  <2>1. <<>> \in V
    OBVIOUS
  <2>2. ASSUME NEW k \in 1..n, NEW v \in V
        PROVE  v \o (IF src[k] = "%" THEN <<"%", "%">> ELSE <<src[k]>>) \in V
    <3>1. src[k] \in Units /\ "%" \in Units
      BY DEF Units
    <3> DEFINE x == IF src[k] = "%" THEN <<"%", "%">> ELSE <<src[k]>>
    <3>2. x \in Seq(Units)
      BY <3>1
    <3> HIDE DEF x
    <3>3. v \o x \in Seq(Units)
      BY <3>2
    <3> QED BY <3>3 DEF x
  <2> HIDE DEF n, V
  <2> QED BY <2>1, <2>2
<1>3. \E h : Is(h)
  <2>1. step \in [1..n -> [V -> V]]
    <3> HIDE DEF V, n
    <3>1. \A k \in 1..n : [v \in V |-> v \o (IF src[k] = "%" THEN <<"%", "%">> ELSE <<src[k]>>)] \in [V -> V]
      BY <1>2
    <3> QED BY <3>1
  <2>2. PICK h \in [SUBSET (1..n) -> V] : FoldsSets(h, n, <<>>, step)
    <3> HIDE DEF V, n, step
    <3> QED BY <1>1, <1>2, <2>1, FoldExists
  <2>3. ASSUME NEW s \in SUBSET (1..n), s # {}
        PROVE  h[s] = h[s \ {Max(s)}] \o (IF src[Max(s)] = "%" THEN <<"%", "%">> ELSE <<src[Max(s)]>>)
    <3>1. Max(s) \in 1..n /\ s \ {Max(s)} \in SUBSET (1..n)
      <4> HIDE DEF n
      <4> QED BY <1>1, <2>3, MaxOfSome
    <3>2. h[s \ {Max(s)}] \in V
      <4> HIDE DEF n, V
      <4> QED BY <3>1
    <3>3. h[s] = step[Max(s)][h[s \ {Max(s)}]]
      <4> HIDE DEF n, V, step
      <4> QED BY <2>2, <2>3 DEF FoldsSets
    <3> DEFINE m == Max(s)
               t == s \ {m}
               u == h[t]
    <3> HIDE DEF V, n, m
    <3>4. h[s] = step[m][u] /\ u \in V /\ m \in 1..n
      BY <3>1, <3>2, <3>3 DEF m
    <3> HIDE DEF u
    <3>5. step[m][u] = u \o (IF src[m] = "%" THEN <<"%", "%">> ELSE <<src[m]>>)
      BY <3>4
    <3> HIDE DEF step
    <3>6. h[s] = u \o (IF src[m] = "%" THEN <<"%", "%">> ELSE <<src[m]>>)
      BY <3>4, <3>5
    <3> QED BY <3>6 DEF u, m
  <2>4. h[{}] = <<>>
    <3> HIDE DEF V, n, step
    <3> QED BY <2>2 DEF FoldsSets
  <2>5. Is(h)
    <3> HIDE DEF V, n, step
    <3>1. \A s \in SUBSET (1..n) : h[s] = IF s = {} THEN <<>> ELSE h[s \ {Max(s)}] \o (IF src[Max(s)] = "%" THEN <<"%", "%">> ELSE <<src[Max(s)]>>)
      BY <2>3, <2>4
    <3>2. h = [s \in SUBSET (1..n) |-> h[s]]
      BY <2>2
    <3> QED BY <3>1, <3>2, Zenon
  <2> QED BY <2>5
<1>4. Is(g)
  <2> HIDE DEF Is
  <2> QED BY <1>3
<1>5. Escape(src) = g[1..n]
  <2>1. DOMAIN src = 1..n
    OBVIOUS
  <2> QED BY <2>1 DEF Escape, FoldLeft, MapThenFoldSet
<1> HIDE DEF g
<1>6. f[0] = <<>>
  <2> HIDE DEF n
  <2>1. 1..0 = {} /\ {} \in SUBSET (1..n) /\ 0 \in 0..n
    BY <1>1
  <2>2. g[{}] = <<>>
    BY <1>4, <2>1, Zenon
  <2> QED BY <2>1, <2>2
<1>7. ASSUME NEW k \in 1..n PROVE f[k] = f[k - 1] \o (IF src[k] = "%" THEN <<"%", "%">> ELSE <<src[k]>>)
  <2> HIDE DEF n
  <2>1. 1..k \in SUBSET (1..n) /\ k \in 0..n /\ k - 1 \in 0..n /\ k \in Nat /\ k >= 1
    BY <1>1
  <2>2. Max(1..k) = k /\ (1..k) \ {Max(1..k)} = 1..k - 1 /\ 1..k # {}
    BY <2>1, MaxOfInterval
  <2>3. g[1..k] = g[(1..k) \ {Max(1..k)}] \o (IF src[Max(1..k)] = "%" THEN <<"%", "%">> ELSE <<src[Max(1..k)]>>)
    BY <1>4, <2>1, <2>2, Zenon
  <2>4. g[1..k] = g[1..k - 1] \o (IF src[k] = "%" THEN <<"%", "%">> ELSE <<src[k]>>)
    BY <2>2, <2>3, Zenon
  <2>5. f[k] = g[1..k] /\ f[k - 1] = g[1..k - 1]
    BY <2>1
  <2> QED BY <2>4, <2>5, Zenon
<1> HIDE DEF f
<1>8. \A k \in 0..n : f[k] \in V
  <2> HIDE DEF n, V
  <2>1. f[0] \in V
    BY <1>2, <1>6
  <2>2. \A k \in 1..n : f[k - 1] \in V => f[k] \in V
    BY <1>2, <1>7, Zenon
  <2> QED BY <1>1, <2>1, <2>2, AllAlong
<1>9. f \in [0..n -> V] /\ Escape(src) = f[n]
  <2> HIDE DEF n, V
  <2>1. n \in 0..n /\ f = [k \in 0..n |-> g[1..k]]
    BY <1>1 DEF f
  <2> QED BY <1>5, <1>8, <2>1
<1>10. GrowsBy(f, n, [k \in 1..n |-> EscapeUnit(src[k])], Units)
  <2> DEFINE e == [k \in 1..n |-> EscapeUnit(src[k])]
  <2>1. ASSUME NEW k \in 1..n PROVE EscapeUnit(src[k]) \in Seq(Units)
    <3>1. src[k] \in Units
      OBVIOUS
    <3>2. "%" \in Units
      BY DEF Units
    <3> QED BY <3>1, <3>2 DEF EscapeUnit
  <2> HIDE DEF n
  <2>2. e \in [1..n -> Seq(Units)]
    BY <2>1
  <2>3. \A k \in 1..n : f[k] = f[k - 1] \o e[k]
    BY <1>7 DEF EscapeUnit
  <2> HIDE DEF e
  <2> QED BY <1>1, <1>6, <1>9, <2>2, <2>3 DEF GrowsBy, e
<1> QED BY <1>9, <1>10

\* A text without its newlines.
DropUnit(u) == IF u = "newline" THEN <<>> ELSE <<u>>
Line == Units \ {"newline"}

\* The newlines are dropped so.
LEMMA DropIsRecursive ==
  ASSUME NEW src \in Seq(Units)
  PROVE  \E f \in [0..Len(src) -> Seq(Line)] :
           GrowsBy(f, Len(src), [k \in 1..Len(src) |-> DropUnit(src[k])], Line) /\ NoNewlines(src) = f[Len(src)]
<1> DEFINE n == Len(src)
           V == Seq(Line)
           step == [k \in 1..n |-> [v \in V |-> v \o (IF src[k] = "newline" THEN <<>> ELSE <<src[k]>>)]]
           Is(g) == g = [s \in SUBSET (1..n) |->
                           IF s = {} THEN <<>> ELSE g[s \ {Max(s)}] \o (IF src[Max(s)] = "newline" THEN <<>> ELSE <<src[Max(s)]>>)]
           g == CHOOSE g : Is(g)
           f == [k \in 0..n |-> g[1..k]]
<1>1. n \in Nat
  OBVIOUS
<1>2. <<>> \in V /\ \A k \in 1..n, v \in V : v \o (IF src[k] = "newline" THEN <<>> ELSE <<src[k]>>) \in V
  <2>1. <<>> \in V
    OBVIOUS
  <2>2. ASSUME NEW k \in 1..n, NEW v \in V
        PROVE  v \o (IF src[k] = "newline" THEN <<>> ELSE <<src[k]>>) \in V
    <3>1. src[k] # "newline" => src[k] \in Line
      BY DEF Line
    <3> DEFINE x == IF src[k] = "newline" THEN <<>> ELSE <<src[k]>>
    <3>2. x \in Seq(Line)
      BY <3>1
    <3> HIDE DEF x
    <3>3. v \o x \in Seq(Line)
      BY <3>2
    <3> QED BY <3>3 DEF x
  <2> HIDE DEF n, V
  <2> QED BY <2>1, <2>2
<1>3. \E h : Is(h)
  <2>1. step \in [1..n -> [V -> V]]
    <3> HIDE DEF V, n
    <3>1. \A k \in 1..n : [v \in V |-> v \o (IF src[k] = "newline" THEN <<>> ELSE <<src[k]>>)] \in [V -> V]
      BY <1>2
    <3> QED BY <3>1
  <2>2. PICK h \in [SUBSET (1..n) -> V] : FoldsSets(h, n, <<>>, step)
    <3> HIDE DEF V, n, step
    <3> QED BY <1>1, <1>2, <2>1, FoldExists
  <2>3. ASSUME NEW s \in SUBSET (1..n), s # {}
        PROVE  h[s] = h[s \ {Max(s)}] \o (IF src[Max(s)] = "newline" THEN <<>> ELSE <<src[Max(s)]>>)
    <3>1. Max(s) \in 1..n /\ s \ {Max(s)} \in SUBSET (1..n)
      <4> HIDE DEF n
      <4> QED BY <1>1, <2>3, MaxOfSome
    <3>2. h[s \ {Max(s)}] \in V
      <4> HIDE DEF n, V
      <4> QED BY <3>1
    <3>3. h[s] = step[Max(s)][h[s \ {Max(s)}]]
      <4> HIDE DEF n, V, step
      <4> QED BY <2>2, <2>3 DEF FoldsSets
    <3> DEFINE m == Max(s)
               t == s \ {m}
               u == h[t]
    <3> HIDE DEF V, n, m
    <3>4. h[s] = step[m][u] /\ u \in V /\ m \in 1..n
      BY <3>1, <3>2, <3>3 DEF m
    <3> HIDE DEF u
    <3>5. step[m][u] = u \o (IF src[m] = "newline" THEN <<>> ELSE <<src[m]>>)
      BY <3>4
    <3> HIDE DEF step
    <3>6. h[s] = u \o (IF src[m] = "newline" THEN <<>> ELSE <<src[m]>>)
      BY <3>4, <3>5
    <3> QED BY <3>6 DEF u, m
  <2>4. h[{}] = <<>>
    <3> HIDE DEF V, n, step
    <3> QED BY <2>2 DEF FoldsSets
  <2>5. Is(h)
    <3> HIDE DEF V, n, step
    <3>1. \A s \in SUBSET (1..n) : h[s] = IF s = {} THEN <<>> ELSE h[s \ {Max(s)}] \o (IF src[Max(s)] = "newline" THEN <<>> ELSE <<src[Max(s)]>>)
      BY <2>3, <2>4
    <3>2. h = [s \in SUBSET (1..n) |-> h[s]]
      BY <2>2
    <3> QED BY <3>1, <3>2, Zenon
  <2> QED BY <2>5
<1>4. Is(g)
  <2> HIDE DEF Is
  <2> QED BY <1>3
<1>5. NoNewlines(src) = g[1..n]
  <2>1. DOMAIN src = 1..n
    OBVIOUS
  <2> QED BY <2>1 DEF NoNewlines, FoldLeft, MapThenFoldSet
<1> HIDE DEF g
<1>6. f[0] = <<>>
  <2> HIDE DEF n
  <2>1. 1..0 = {} /\ {} \in SUBSET (1..n) /\ 0 \in 0..n
    BY <1>1
  <2>2. g[{}] = <<>>
    BY <1>4, <2>1, Zenon
  <2> QED BY <2>1, <2>2
<1>7. ASSUME NEW k \in 1..n PROVE f[k] = f[k - 1] \o (IF src[k] = "newline" THEN <<>> ELSE <<src[k]>>)
  <2> HIDE DEF n
  <2>1. 1..k \in SUBSET (1..n) /\ k \in 0..n /\ k - 1 \in 0..n /\ k \in Nat /\ k >= 1
    BY <1>1
  <2>2. Max(1..k) = k /\ (1..k) \ {Max(1..k)} = 1..k - 1 /\ 1..k # {}
    BY <2>1, MaxOfInterval
  <2>3. g[1..k] = g[(1..k) \ {Max(1..k)}] \o (IF src[Max(1..k)] = "newline" THEN <<>> ELSE <<src[Max(1..k)]>>)
    BY <1>4, <2>1, <2>2, Zenon
  <2>4. g[1..k] = g[1..k - 1] \o (IF src[k] = "newline" THEN <<>> ELSE <<src[k]>>)
    BY <2>2, <2>3, Zenon
  <2>5. f[k] = g[1..k] /\ f[k - 1] = g[1..k - 1]
    BY <2>1
  <2> QED BY <2>4, <2>5, Zenon
<1> HIDE DEF f
<1>8. \A k \in 0..n : f[k] \in V
  <2> HIDE DEF n, V
  <2>1. f[0] \in V
    BY <1>2, <1>6
  <2>2. \A k \in 1..n : f[k - 1] \in V => f[k] \in V
    BY <1>2, <1>7, Zenon
  <2> QED BY <1>1, <2>1, <2>2, AllAlong
<1>9. f \in [0..n -> V] /\ NoNewlines(src) = f[n]
  <2> HIDE DEF n, V
  <2>1. n \in 0..n /\ f = [k \in 0..n |-> g[1..k]]
    BY <1>1 DEF f
  <2> QED BY <1>5, <1>8, <2>1
<1>10. GrowsBy(f, n, [k \in 1..n |-> DropUnit(src[k])], Line)
  <2> DEFINE e == [k \in 1..n |-> DropUnit(src[k])]
  <2>1. ASSUME NEW k \in 1..n PROVE DropUnit(src[k]) \in Seq(Line)
    <3>1. src[k] \in Units
      OBVIOUS
    <3>2. src[k] # "newline" => src[k] \in Line
      BY <3>1 DEF Line
    <3> QED BY <3>2 DEF DropUnit
  <2> HIDE DEF n
  <2>2. e \in [1..n -> Seq(Line)]
    BY <2>1
  <2>3. \A k \in 1..n : f[k] = f[k - 1] \o e[k]
    BY <1>7 DEF DropUnit
  <2> HIDE DEF e
  <2> QED BY <1>1, <1>6, <1>9, <2>2, <2>3 DEF GrowsBy, e
<1> QED BY <1>9, <1>10

\* What append_sanitized() writes to, and one step of it.
Marked == Units \cup {"0_", "2_"}
SanitizeStates == [out : Seq(Marked), tag : BOOLEAN, skip : BOOLEAN]
SanitizeStart == [out |-> <<>>, tag |-> FALSE, skip |-> FALSE]
NextUnit(v, k) == IF k < Len(v) THEN v[k + 1] ELSE "end"
SanitizeAt(st, v, i, w) == Sanitize(st, v[i], NextUnit(v, i), w)
Sanitizes(f, v, w) == f[0] = SanitizeStart /\ \A k \in 1..Len(v) : f[k] = SanitizeAt(f[k - 1], v, k, w)

\* What the state is after a unit.
Goes(st, r, u, next, w) ==
  /\ st.skip => r.out = Append(st.out, u) /\ (r.tag <=> st.tag) /\ ~r.skip
  /\ ~st.skip /\ u = "newline" => r = st
  /\ ~st.skip /\ u = ":" /\ st.tag => r.out = st.out \o <<":", Mark(w)>> /\ ~r.tag /\ ~r.skip
  /\ ~st.skip /\ u # "newline" /\ ~(u = ":" /\ st.tag) =>
       /\ r.out = Append(st.out, u)
       /\ r.skip <=> u = "%" /\ next = "%"
       /\ r.tag <=> (u = "%" /\ next = "open_A") \/ (st.tag /\ u # "close")

\* What a step does.
LEMMA SanitizeIs ==
  ASSUME NEW st \in SanitizeStates, NEW u \in Units, NEW next, NEW w \in 0..2
  PROVE  Sanitize(st, u, next, w) \in SanitizeStates /\ Goes(st, Sanitize(st, u, next, w), u, next, w)
<1> DEFINE a == st.out
           b == st.tag
           c == st.skip
           d == Mark(w)
           r == Sanitize(st, u, next, w)
<1>1. a \in Seq(Marked) /\ b \in BOOLEAN /\ c \in BOOLEAN /\ st = [out |-> a, tag |-> b, skip |-> c]
  BY DEF SanitizeStates
<1>2. d \in Marked /\ u \in Marked
  <2>1. w = 0 \/ w = 1 \/ w = 2
    OBVIOUS
  <2> QED BY <2>1 DEF Mark, Marked, Units
<1> HIDE DEF d
<1>3. Append(a, u) \in Seq(Marked) /\ a \o <<u, d>> \in Seq(Marked)
  <2>1. <<u, d>> \in Seq(Marked)
    BY <1>2
  <2> DEFINE x == <<u, d>>
  <2> HIDE DEF a, x
  <2>2. a \o x \in Seq(Marked) /\ Append(a, u) \in Seq(Marked)
    BY <1>1, <1>2, <2>1 DEF x
  <2> QED BY <2>2 DEF x
<1>4. r = CASE c -> [st EXCEPT !.out = Append(@, u), !.skip = FALSE]
            [] ~c /\ u = "newline" -> st
            [] ~c /\ u = ":" /\ b -> [st EXCEPT !.out = @ \o <<u, d>>, !.tag = FALSE]
            [] OTHER -> [out |-> Append(a, u), skip |-> u = "%" /\ next = "%",
                         tag |-> (u = "%" /\ next = "open_A") \/ (b /\ u # "close")]
  BY DEF Sanitize, d
<1> HIDE DEF a, b, c, r
<1>5. CASE c
  <2> DEFINE y == Append(a, u)
  <2>1. y \in Seq(Marked)
    BY <1>3
  <2>2. r = [st EXCEPT !.out = Append(@, u), !.skip = FALSE]
    BY <1>4, <1>5
  <2>3. r = [out |-> y, tag |-> b, skip |-> FALSE]
    BY <1>1, <2>2
  <2> HIDE DEF y
  <2>4. r \in SanitizeStates
    BY <1>1, <2>1, <2>3 DEF SanitizeStates
  <2>5. r.out = y /\ (r.tag <=> b) /\ ~r.skip
    BY <2>3
  <2> QED BY <1>5, <2>4, <2>5 DEF Goes, a, b, c, r, y
<1>6. CASE ~c /\ u = "newline"
  <2>1. r = st
    BY <1>4, <1>6
  <2>2. u # ":"
    BY <1>6
  <2> QED BY <1>6, <2>1, <2>2 DEF Goes, c, r
<1>7. CASE ~c /\ u = ":" /\ b
  <2> DEFINE y == a \o <<u, d>>
  <2>1. y \in Seq(Marked)
    BY <1>3
  <2>2. r = [st EXCEPT !.out = @ \o <<u, d>>, !.tag = FALSE]
    BY <1>4, <1>7
  <2>3. r = [out |-> y, tag |-> FALSE, skip |-> c]
    <3> DEFINE x == <<u, d>>
    <3> HIDE DEF x
    <3>1. r = [st EXCEPT !.out = @ \o x, !.tag = FALSE]
      BY <2>2 DEF x
    <3>2. r = [out |-> a \o x, tag |-> FALSE, skip |-> c]
      BY <1>1, <3>1
    <3> QED BY <3>2 DEF x
  <2>4. y = a \o <<":", d>>
    BY <1>7
  <2> HIDE DEF y
  <2>5. r \in SanitizeStates
    BY <1>1, <2>1, <2>3 DEF SanitizeStates
  <2>6. r.out = y /\ ~r.tag /\ ~r.skip
    BY <1>7, <2>3
  <2>7. u # "newline"
    BY <1>7
  <2> QED BY <1>7, <2>4, <2>5, <2>6, <2>7 DEF Goes, a, b, c, d, r
<1>8. CASE ~c /\ u # "newline" /\ ~(u = ":" /\ b)
  <2> DEFINE y == u = "%" /\ next = "%"
             z == (u = "%" /\ next = "open_A") \/ (b /\ u # "close")
             x == Append(a, u)
  <2>1. y \in BOOLEAN /\ z \in BOOLEAN /\ x \in Seq(Marked)
    BY <1>3
  <2>2. r = [out |-> x, skip |-> y, tag |-> z]
    BY <1>4, <1>8
  <2> HIDE DEF x, y, z
  <2>3. r \in SanitizeStates
    BY <2>1, <2>2 DEF SanitizeStates
  <2>4. r.out = x /\ (r.skip <=> y) /\ (r.tag <=> z)
    BY <2>2
  <2> QED BY <1>8, <2>3, <2>4 DEF Goes, a, b, c, r, x, y, z
<1>9. c \/ ~c
  OBVIOUS
<1> QED BY <1>5, <1>6, <1>7, <1>8 DEF r

\* append_sanitized() does them.
LEMMA SanitizeIsRecursive ==
  ASSUME NEW src \in Seq(Units), NEW w \in 0..2
  PROVE  \E f \in [0..Len(src) -> SanitizeStates] :
           Sanitizes(f, src, w) /\ AppendSanitized(w, src) = f[Len(src)].out
<1> DEFINE n == Len(src)
           V == SanitizeStates
           step == [k \in 1..n |-> [v \in V |-> SanitizeAt(v, src, [x \in DOMAIN src |-> x][k], w)]]
           Is(g) == g = [s \in SUBSET (1..n) |->
                           IF s = {} THEN SanitizeStart ELSE SanitizeAt(g[s \ {Max(s)}], src, [x \in DOMAIN src |-> x][Max(s)], w)]
           g == CHOOSE g : Is(g)
           f == [k \in 0..n |-> g[1..k]]
<1>1. n \in Nat
  OBVIOUS
<1>2. SanitizeStart \in V /\ \A k \in 1..n, v \in V : SanitizeAt(v, src, [x \in DOMAIN src |-> x][k], w) \in V
  <2>1. SanitizeStart \in V
    BY DEF SanitizeStart, SanitizeStates
  <2>2. ASSUME NEW k \in 1..n, NEW v \in V
        PROVE  SanitizeAt(v, src, [x \in DOMAIN src |-> x][k], w) \in V
    <3>1. src[k] \in Units /\ [x \in DOMAIN src |-> x][k] = k
      OBVIOUS
    <3>2. SanitizeAt(v, src, k, w) \in V
      BY <3>1, SanitizeIs DEF SanitizeAt
    <3> QED BY <3>1, <3>2
  <2> HIDE DEF n, V
  <2> QED BY <2>1, <2>2
<1>3. \E h : Is(h)
  <2>1. step \in [1..n -> [V -> V]]
    <3> HIDE DEF V, n
    <3>1. \A k \in 1..n : [v \in V |-> SanitizeAt(v, src, [x \in DOMAIN src |-> x][k], w)] \in [V -> V]
      BY <1>2
    <3> QED BY <3>1
  <2>2. PICK h \in [SUBSET (1..n) -> V] : FoldsSets(h, n, SanitizeStart, step)
    <3> HIDE DEF V, n, step
    <3> QED BY <1>1, <1>2, <2>1, FoldExists
  <2>3. ASSUME NEW s \in SUBSET (1..n), s # {}
        PROVE  h[s] = SanitizeAt(h[s \ {Max(s)}], src, [x \in DOMAIN src |-> x][Max(s)], w)
    <3>1. Max(s) \in 1..n /\ s \ {Max(s)} \in SUBSET (1..n)
      <4> HIDE DEF n
      <4> QED BY <1>1, <2>3, MaxOfSome
    <3>2. h[s \ {Max(s)}] \in V
      <4> HIDE DEF n, V
      <4> QED BY <3>1
    <3>3. h[s] = step[Max(s)][h[s \ {Max(s)}]]
      <4> HIDE DEF n, V, step
      <4> QED BY <2>2, <2>3 DEF FoldsSets
    <3> DEFINE m == Max(s)
               t == s \ {m}
               u == h[t]
    <3> HIDE DEF V, n, m
    <3>4. h[s] = step[m][u] /\ u \in V /\ m \in 1..n
      BY <3>1, <3>2, <3>3 DEF m
    <3> HIDE DEF u
    <3>5. step[m][u] = SanitizeAt(u, src, [x \in DOMAIN src |-> x][m], w)
      BY <3>4
    <3> HIDE DEF step
    <3>6. h[s] = SanitizeAt(u, src, [x \in DOMAIN src |-> x][m], w)
      BY <3>4, <3>5
    <3> QED BY <3>6 DEF u, m
  <2>4. h[{}] = SanitizeStart
    <3> HIDE DEF V, n, step
    <3> QED BY <2>2 DEF FoldsSets
  <2>5. Is(h)
    <3> HIDE DEF V, n, step
    <3>1. \A s \in SUBSET (1..n) : h[s] = IF s = {} THEN SanitizeStart ELSE SanitizeAt(h[s \ {Max(s)}], src, [x \in DOMAIN src |-> x][Max(s)], w)
      BY <2>3, <2>4
    <3>2. h = [s \in SUBSET (1..n) |-> h[s]]
      BY <2>2
    <3> QED BY <3>1, <3>2, Zenon
  <2> QED BY <2>5
<1>4. Is(g)
  <2> HIDE DEF Is
  <2> QED BY <1>3
<1>5. g[1..n] = g[1..n]
  <2>1. DOMAIN src = 1..n
    OBVIOUS
  <2> QED BY <2>1 DEF FoldLeftDomain, FoldLeft, MapThenFoldSet
<1> HIDE DEF g
<1>6. f[0] = SanitizeStart
  <2> HIDE DEF n
  <2>1. 1..0 = {} /\ {} \in SUBSET (1..n) /\ 0 \in 0..n
    BY <1>1
  <2>2. g[{}] = SanitizeStart
    BY <1>4, <2>1, Zenon
  <2> QED BY <2>1, <2>2
<1>7. ASSUME NEW k \in 1..n PROVE f[k] = SanitizeAt(f[k - 1], src, [x \in DOMAIN src |-> x][k], w)
  <2> HIDE DEF n
  <2>1. 1..k \in SUBSET (1..n) /\ k \in 0..n /\ k - 1 \in 0..n /\ k \in Nat /\ k >= 1
    BY <1>1
  <2>2. Max(1..k) = k /\ (1..k) \ {Max(1..k)} = 1..k - 1 /\ 1..k # {}
    BY <2>1, MaxOfInterval
  <2>3. g[1..k] = SanitizeAt(g[(1..k) \ {Max(1..k)}], src, [x \in DOMAIN src |-> x][Max(1..k)], w)
    BY <1>4, <2>1, <2>2, Zenon
  <2>4. g[1..k] = SanitizeAt(g[1..k - 1], src, [x \in DOMAIN src |-> x][k], w)
    BY <2>2, <2>3, Zenon
  <2>5. f[k] = g[1..k] /\ f[k - 1] = g[1..k - 1]
    BY <2>1
  <2> QED BY <2>4, <2>5, Zenon
<1> HIDE DEF f
<1>8. \A k \in 0..n : f[k] \in V
  <2> HIDE DEF n, V
  <2>1. f[0] \in V
    BY <1>2, <1>6
  <2>2. \A k \in 1..n : f[k - 1] \in V => f[k] \in V
    BY <1>2, <1>7, Zenon
  <2> QED BY <1>1, <2>1, <2>2, AllAlong
<1>9. f \in [0..n -> V] /\ g[1..n] = f[n]
  <2> HIDE DEF n, V
  <2>1. n \in 0..n /\ f = [k \in 0..n |-> g[1..k]]
    BY <1>1 DEF f
  <2> QED BY <1>5, <1>8, <2>1
<1>10. Sanitizes(f, src, w)
  <2>1. \A k \in 1..n : [x \in DOMAIN src |-> x][k] = k
    OBVIOUS
  <2>2. ASSUME NEW k \in 1..n PROVE f[k] = SanitizeAt(f[k - 1], src, k, w)
    <3> HIDE DEF n
    <3> QED BY <1>7, <2>1
  <2> QED BY <1>6, <2>2 DEF Sanitizes
<1>11. AppendSanitized(w, src) = g[1..n].out
  <2> USE DEF g
  <2>1. DOMAIN [x \in DOMAIN src |-> x] = 1..n
    OBVIOUS
  <2> QED BY <2>1 DEF AppendSanitized, FoldLeftDomain, FoldLeft, MapThenFoldSet, SanitizeAt, NextUnit, SanitizeStart
<1>12. n \in 0..n /\ f[n] = g[1..n]
  BY <1>1, <1>9
<1> QED BY <1>9, <1>10, <1>11, <1>12

\* The next state of append_sanitized().
LEMMA SanitizedNext ==
  ASSUME NEW v \in Seq(Units), NEW w \in 0..2, NEW f \in [0..Len(v) -> SanitizeStates], Sanitizes(f, v, w),
         NEW k \in 1..Len(v)
  PROVE  Goes(f[k - 1], f[k], v[k], NextUnit(v, k), w)
<1> DEFINE st == f[k - 1]
           u == v[k]
           next == NextUnit(v, k)
           r == f[k]
<1>1. st \in SanitizeStates /\ u \in Units
  OBVIOUS
<1>2. r = Sanitize(st, u, next, w)
  BY DEF Sanitizes, SanitizeAt
<1> HIDE DEF st, u, next, r
<1>3. Goes(st, Sanitize(st, u, next, w), u, next, w)
  BY <1>1, SanitizeIs
<1> QED BY <1>2, <1>3 DEF st, u, next, r

\* What is escaped loses its newlines and gets no marks.
LEMMA EscapedHasNoTags ==
  ASSUME NEW raw \in Seq(Units), NEW w \in 0..2
  PROVE  AppendSanitized(w, Escape(raw)) = Escape(NoNewlines(raw))
<1> DEFINE n == Len(raw)
           pe == [k \in 1..n |-> EscapeUnit(raw[k])]
           pd == [k \in 1..n |-> DropUnit(raw[k])]
<1>1. n \in Nat
  OBVIOUS
<1>2. PICK e \in [0..n -> Seq(Units)] : GrowsBy(e, n, pe, Units) /\ Escape(raw) = e[n]
  BY EscapeIsRecursive
<1>3. PICK h \in [0..n -> Seq(Line)] : GrowsBy(h, n, pd, Line) /\ NoNewlines(raw) = h[n]
  BY DropIsRecursive
<1> DEFINE text == e[n]
           line == h[n]
           m == Len(line)
           px == [k \in 1..m |-> EscapeUnit(line[k])]
<1>4. text \in Seq(Units) /\ line \in Seq(Line) /\ line \in Seq(Units) /\ m \in Nat
  BY <1>1 DEF Line
<1>5. PICK x \in [0..m -> Seq(Units)] : GrowsBy(x, m, px, Units) /\ Escape(line) = x[m]
  <2> HIDE DEF line
  <2> QED BY <1>4, EscapeIsRecursive
<1>6. PICK s \in [0..Len(text) -> SanitizeStates] :
        Sanitizes(s, text, w) /\ AppendSanitized(w, text) = s[Len(text)].out
  <2> HIDE DEF text
  <2> QED BY <1>4, SanitizeIsRecursive
<1>7. e[0] = <<>> /\ h[0] = <<>> /\ x[0] = <<>> /\ s[0] = SanitizeStart
  BY <1>2, <1>3, <1>5, <1>6 DEF GrowsBy, Sanitizes
<1> DEFINE Is(r, o) == r.out = o /\ ~r.tag /\ ~r.skip
           T == {i \in 0..n : Is(s[Len(e[i])], x[Len(h[i])])}
<1>8. 0 \in T
  <2>1. Len(e[0]) = 0 /\ Len(h[0]) = 0
    BY <1>7
  <2> QED BY <1>1, <1>7, <2>1 DEF SanitizeStart
<1>9. ASSUME NEW i \in 0..n - 1, i \in T PROVE i + 1 \in T
  <2> DEFINE k == i + 1
             u == raw[k]
             c == Len(e[i])
             d == Len(h[i])
             c2 == Len(e[k])
             d2 == Len(h[k])
             o == x[d]
             l == Len(text)
  <2>1. k \in 1..n /\ k - 1 = i /\ u \in Units /\ k \in 0..n /\ i \in 0..n
    BY <1>1
  <2>2. PieceIn(e, n, pe, k) /\ PieceIn(h, n, pd, k)
    <3> HIDE DEF k, n, pe, pd
    <3> QED BY <1>2, <1>3, <2>1, PieceStands
  <2>3. pe[k] = EscapeUnit(u) /\ pd[k] = DropUnit(u)
    BY <2>1
  <2>4. /\ c \in Nat /\ c2 = c + Len(EscapeUnit(u)) /\ c2 <= l
        /\ \A j \in 1..Len(EscapeUnit(u)) : text[c + j] = EscapeUnit(u)[j]
    BY <2>1, <2>2, <2>3 DEF PieceIn
  <2>5. /\ d \in Nat /\ d2 = d + Len(DropUnit(u)) /\ d2 <= m
        /\ \A j \in 1..Len(DropUnit(u)) : line[d + j] = DropUnit(u)[j]
    BY <2>1, <2>2, <2>3 DEF PieceIn
  <2>6. Is(s[c], o)
    BY <1>9
  <2>7. l \in Nat
    BY <1>4
  <2> SUFFICES Is(s[c2], x[d2])
    BY <2>1
  <2> HIDE DEF k, u, c, d, c2, d2, l
  <2>8. ASSUME u # "newline"
        PROVE  d2 = d + 1 /\ d + 1 \in 1..m /\ o \in Seq(Units) /\ x[d2] = o \o EscapeUnit(u)
    <3>1. Len(DropUnit(u)) = 1 /\ DropUnit(u)[1] = u
      BY <2>8 DEF DropUnit
    <3>2. d2 = d + 1 /\ line[d + 1] = u
      BY <2>5, <3>1
    <3> DEFINE y == d + 1
    <3>3. y \in 1..m /\ y - 1 = d /\ d \in 0..m
      BY <1>4, <2>5, <3>2
    <3>4. px[y] = EscapeUnit(line[y])
      <4> HIDE DEF y, m, line
      <4> QED BY <3>3
    <3>5. x[y] = x[y - 1] \o px[y]
      <4> HIDE DEF y, m, px
      <4> QED BY <1>5, <3>3 DEF GrowsBy
    <3>6. o \in Seq(Units)
      <4> HIDE DEF m
      <4> QED BY <1>5, <3>3
    <3> HIDE DEF px, line, m, o
    <3> QED BY <3>2, <3>3, <3>4, <3>5, <3>6 DEF o
  <2>9. ASSUME NEW a \in 1..l PROVE Goes(s[a - 1], s[a], text[a], NextUnit(text, a), w)
    <3> HIDE DEF text
    <3> QED BY <1>4, <1>6, SanitizedNext DEF l
  <2> HIDE DEF text, line, m, o, px, pe, pd
  <2>10. CASE u = "newline"
    <3>1. Len(EscapeUnit(u)) = 1 /\ EscapeUnit(u)[1] = "newline" /\ Len(DropUnit(u)) = 0
      BY <2>10 DEF EscapeUnit, DropUnit
    <3>2. c2 = c + 1 /\ text[c + 1] = "newline" /\ d2 = d
      BY <2>4, <2>5, <3>1
    <3>3. c2 \in 1..l /\ c2 - 1 = c /\ text[c2] = "newline"
      <4>1. c \in Nat /\ c2 <= l
        BY <2>4
      <4>2. c2 = c + 1
        BY <3>2
      <4>3. c2 \in 1..l /\ c2 - 1 = c
        BY <2>7, <4>1, <4>2
      <4> QED BY <3>2, <4>2, <4>3
    <3>4. s[c2] = s[c]
      BY <2>6, <2>9, <3>3 DEF Goes
    <3> QED BY <2>6, <3>2, <3>4 DEF o
  <2>11. CASE u = "%"
    <3>1. Len(EscapeUnit(u)) = 2 /\ EscapeUnit(u)[1] = "%" /\ EscapeUnit(u)[2] = "%" /\ EscapeUnit(u) = <<"%", "%">>
      BY <2>11 DEF EscapeUnit
    <3> DEFINE a == c + 1
               b == c + 2
    <3>2. c2 = b /\ text[a] = "%" /\ text[b] = "%"
      BY <2>4, <3>1
    <3>3. a \in 1..l /\ b \in 1..l /\ a - 1 = c /\ b - 1 = a /\ a < l /\ a + 1 = b
      <4>1. c \in Nat /\ c2 <= l
        BY <2>4
      <4>2. c2 = b
        BY <3>2
      <4> QED BY <2>7, <4>1, <4>2
    <3> HIDE DEF a, b
    <3>4. s[a].out = Append(o, "%") /\ s[a].skip /\ ~s[a].tag
      <4>1. Is(s[a - 1], o)
        BY <2>6, <3>3
      <4>2. NextUnit(text, a) = "%"
        BY <3>2, <3>3 DEF NextUnit, l
      <4>3. Goes(s[a - 1], s[a], text[a], NextUnit(text, a), w)
        BY <2>9, <3>3
      <4>4. Goes(s[a - 1], s[a], "%", "%", w)
        BY <3>2, <4>2, <4>3
      <4>5. s[a - 1].out = o /\ ~s[a - 1].tag /\ ~s[a - 1].skip
        BY <4>1
      <4> QED BY <4>4, <4>5 DEF Goes
    <3>5. s[b].out = Append(Append(o, "%"), "%") /\ ~s[b].tag /\ ~s[b].skip
      <4>1. s[b - 1].out = Append(o, "%") /\ s[b - 1].skip /\ ~s[b - 1].tag
        BY <3>3, <3>4
      <4> QED BY <2>9, <3>2, <3>3, <4>1 DEF Goes
    <3>6. o \o <<"%", "%">> = Append(Append(o, "%"), "%") /\ x[d2] = o \o <<"%", "%">>
      <4>1. "%" \in Units
        BY DEF Units
      <4>2. o \in Seq(Units) /\ x[d2] = o \o EscapeUnit(u)
        BY <2>8, <2>11
      <4> QED BY <3>1, <4>1, <4>2, GrowsByTwo
    <3> QED BY <3>2, <3>5, <3>6
  <2>12. CASE u # "newline" /\ u # "%"
    <3>1. Len(EscapeUnit(u)) = 1 /\ EscapeUnit(u)[1] = u /\ EscapeUnit(u) = <<u>>
      BY <2>12 DEF EscapeUnit
    <3>2. c2 = c + 1 /\ text[c + 1] = u
      BY <2>4, <3>1
    <3>3. c2 \in 1..l /\ c2 - 1 = c
      <4>1. c \in Nat /\ c2 <= l
        BY <2>4
      <4>2. c2 = c + 1
        BY <3>2
      <4> QED BY <2>7, <4>1, <4>2
    <3>4. Is(s[c2 - 1], o) /\ text[c2] = u
      BY <2>6, <3>2, <3>3
    <3>5. s[c2].out = Append(o, u) /\ ~s[c2].skip /\ ~s[c2].tag
      BY <2>9, <2>12, <3>3, <3>4 DEF Goes
    <3>6. x[d2] = Append(o, u)
      <4>1. o \in Seq(Units) /\ x[d2] = o \o EscapeUnit(u)
        BY <2>8, <2>12
      <4> QED BY <2>1, <3>1, <4>1, GrowsByTwo
    <3> QED BY <3>5, <3>6
  <2> QED BY <2>10, <2>11, <2>12
<1>10. n \in T
  <2> HIDE DEF T, n
  <2>1. 0..n \subseteq T
    BY <1>1, <1>8, <1>9, IntervalInduction
  <2> QED BY <1>1, <2>1
<1>11. s[Len(text)].out = x[m]
  BY <1>10
<1> QED BY <1>2, <1>3, <1>5, <1>6, <1>11

\* How lemonbar reads a text from the unit i on.
ReadStep(read, text, i) ==
  IF i > Len(text) \/ (UnitAt(text, i, "%") /\ UnitAt(text, i + 1, "open_A")
                       /\ Where(text, "close", i, Len(text)) = {})
  THEN [shown |-> <<>>, commands |-> {}]
  ELSE IF UnitAt(text, i, "%") /\ UnitAt(text, i + 1, "open_A")
  THEN IF UnitAt(text, i + 2, ":") /\ Where(text, ":", i + 3, Min(Where(text, "close", i, Len(text)))) # {}
       THEN [read[Min(Where(text, "close", i, Len(text))) + 1] EXCEPT
               !.commands = @ \cup {SubSeq(text, i + 3,
                 Min(Where(text, ":", i + 3, Min(Where(text, "close", i, Len(text))))) - 1)}]
       ELSE read[Min(Where(text, "close", i, Len(text))) + 1]
  ELSE [read[i + (IF UnitAt(text, i, "%") /\ UnitAt(text, i + 1, "%") THEN 2 ELSE 1)] EXCEPT
          !.shown = <<text[i]>> \o @]
Nothing == [shown |-> <<>>, commands |-> {}]
Readings == [shown : Seq(Marked), commands : SUBSET Seq(Marked)]
Reads(read, text) == \A i \in 1..Len(text) + 1 : read[i] = ReadStep(read, text, i)

\* The parts of a step.
TagAt(text, i) == UnitAt(text, i, "%") /\ UnitAt(text, i + 1, "open_A")
Ends(text, i) == Where(text, "close", i, Len(text))
Colons(text, i) == Where(text, ":", i + 3, Min(Ends(text, i)))
Size(text, i) == IF UnitAt(text, i, "%") /\ UnitAt(text, i + 1, "%") THEN 2 ELSE 1
Command(text, i) == SubSeq(text, i + 3, Min(Colons(text, i)) - 1)

\* What they are.
LEMMA ReadParts ==
  ASSUME NEW text \in Seq(Marked), NEW i \in 1..Len(text)
  PROVE  /\ Ends(text, i) # {} => Min(Ends(text, i)) \in i..Len(text) /\ Min(Ends(text, i)) + 1 \in i + 1..Len(text) + 1
         /\ Ends(text, i) # {} /\ UnitAt(text, i + 2, ":") /\ Colons(text, i) # {} => Command(text, i) \in Seq(Marked)
         /\ i + Size(text, i) \in i + 1..Len(text) + 1
         /\ text[i] \in Marked
<1> DEFINE n == Len(text)
           S == Ends(text, i)
           e == Min(S)
           C == Colons(text, i)
           c == Min(C)
           z == Size(text, i)
<1>1. n \in Nat /\ i \in 1..n /\ i \in Nat /\ text[i] \in Marked
  OBVIOUS
<1>2. S \subseteq i..n /\ C \subseteq i + 3..e
  BY DEF Ends, Colons, Where
<1>3. z = 1 \/ (z = 2 /\ i + 1 <= n)
  BY DEF Size, UnitAt
<1> HIDE DEF n, S, e, C, c, z
<1>4. S # {} => e \in i..n
  <2>1. S # {} => e \in S
    BY <1>1, <1>2, MinOfSome DEF e
  <2> QED BY <1>2, <2>1
<1>5. S # {} /\ C # {} => c \in i + 3..e
  <2>1. S # {} => e \in Nat /\ i + 3 \in Nat
    BY <1>1, <1>4
  <2>2. S # {} /\ C # {} => c \in C
    BY <1>2, <2>1, MinOfSome DEF c
  <2> QED BY <1>2, <2>2
<1>6. S # {} /\ C # {} => SubSeq(text, i + 3, c - 1) \in Seq(Marked)
  <2> SUFFICES ASSUME S # {}, C # {} PROVE SubSeq(text, i + 3, c - 1) \in Seq(Marked)
    OBVIOUS
  <2> DEFINE a == i + 3
             b == c - 1
  <2>1. a \in 1..n + 1 /\ b \in a - 1..n
    BY <1>1, <1>4, <1>5
  <2> HIDE DEF a, b
  <2> QED BY <2>1, PartIs DEF n, a, b
<1>7. i + z \in i + 1..n + 1
  BY <1>1, <1>3
<1>8. S # {} => e + 1 \in i + 1..n + 1
  BY <1>1, <1>4
<1> QED BY <1>1, <1>4, <1>6, <1>7, <1>8 DEF n, S, e, C, c, z, Command

\* A command read, and a unit shown, before the rest.
WithCommand(r, c) == [r EXCEPT !.commands = @ \cup {c}]
Showing(r, u) == [r EXCEPT !.shown = <<u>> \o @]
HasCommand(text, i) == UnitAt(text, i + 2, ":") /\ Colons(text, i) # {}

\* What is read from the unit i on.
ReadsOn(r, read, text, i) ==
  /\ TagAt(text, i) /\ Ends(text, i) = {} => r = Nothing
  /\ TagAt(text, i) /\ Ends(text, i) # {} /\ HasCommand(text, i) =>
       r = WithCommand(read[Min(Ends(text, i)) + 1], Command(text, i))
  /\ TagAt(text, i) /\ Ends(text, i) # {} /\ ~HasCommand(text, i) => r = read[Min(Ends(text, i)) + 1]
  /\ ~TagAt(text, i) => r = Showing(read[i + Size(text, i)], text[i])

\* A step from its parts.
LEMMA ReadStepIs ==
  ASSUME NEW read, NEW text \in Seq(Marked), NEW i \in 1..Len(text)
  PROVE  ReadsOn(ReadStep(read, text, i), read, text, i)
<1>1. ~(i > Len(text))
  OBVIOUS
<1> DEFINE tag == TagAt(text, i)
           S == Ends(text, i)
           j == Min(S) + 1
           colon == HasCommand(text, i)
           cmd == Command(text, i)
           k == i + Size(text, i)
           r == ReadStep(read, text, i)
<1>2. r = IF i > Len(text) \/ (tag /\ S = {}) THEN Nothing
          ELSE IF tag THEN IF colon THEN [read[j] EXCEPT !.commands = @ \cup {cmd}] ELSE read[j]
          ELSE [read[k] EXCEPT !.shown = <<text[i]>> \o @]
  BY DEF ReadStep, Nothing, TagAt, Ends, Colons, Size, Command, HasCommand
<1> HIDE DEF tag, S, j, colon, cmd, k, r
<1>3. r = IF tag /\ S = {} THEN Nothing
          ELSE IF tag THEN IF colon THEN WithCommand(read[j], cmd) ELSE read[j]
          ELSE Showing(read[k], text[i])
  BY <1>1, <1>2 DEF WithCommand, Showing
<1>4. tag /\ S = {} => r = Nothing
  BY <1>3
<1>5. tag /\ S # {} /\ colon => r = WithCommand(read[j], cmd)
  BY <1>3
<1>6. tag /\ S # {} /\ ~colon => r = read[j]
  BY <1>3
<1>7. ~tag => r = Showing(read[k], text[i])
  BY <1>3
<1> QED BY <1>4, <1>5, <1>6, <1>7 DEF tag, S, j, colon, cmd, k, r, ReadsOn

\* A step at the end.
LEMMA ReadStepAtEnd ==
  ASSUME NEW read, NEW text \in Seq(Marked), NEW i, i = Len(text) + 1
  PROVE  ReadStep(read, text, i) = Nothing
<1>1. i > Len(text)
  <2>1. Len(text) \in Nat
    OBVIOUS
  <2> QED BY <2>1
<1> QED BY <1>1 DEF ReadStep, Nothing

\* A step looks only at what comes after.
LEMMA ReadStepSame ==
  ASSUME NEW g, NEW h, NEW text \in Seq(Marked), NEW i \in 1..Len(text) + 1,
         \A j \in i + 1..Len(text) + 1 : g[j] = h[j]
  PROVE  ReadStep(g, text, i) = ReadStep(h, text, i)
<1>1. CASE i = Len(text) + 1
  BY <1>1, ReadStepAtEnd
<1>2. CASE i # Len(text) + 1
  <2>1. i \in 1..Len(text)
    BY <1>2
  <2> DEFINE S == Ends(text, i)
             j == Min(S) + 1
             k == i + Size(text, i)
  <2>2. (S # {} => g[j] = h[j]) /\ g[k] = h[k]
    <3>1. (S # {} => j \in i + 1..Len(text) + 1) /\ k \in i + 1..Len(text) + 1
      BY <2>1, ReadParts
    <3> HIDE DEF S, j, k
    <3> QED BY <3>1
  <2> DEFINE p == ReadStep(g, text, i)
             q == ReadStep(h, text, i)
  <2>3. ReadsOn(p, g, text, i) /\ ReadsOn(q, h, text, i)
    BY <2>1, ReadStepIs
  <2> HIDE DEF p, q
  <2>4. CASE TagAt(text, i) /\ S = {}
    <3>1. p = Nothing /\ q = Nothing
      BY <2>3, <2>4 DEF ReadsOn
    <3> QED BY <3>1 DEF p, q
  <2>5. CASE TagAt(text, i) /\ S # {}
    <3>1. g[j] = h[j]
      BY <2>2, <2>5
    <3>2. p = q
      <4>1. CASE HasCommand(text, i)
        <5>1. p = WithCommand(g[j], Command(text, i)) /\ q = WithCommand(h[j], Command(text, i))
          BY <2>3, <2>5, <4>1 DEF ReadsOn
        <5> HIDE DEF S, j
        <5> QED BY <3>1, <5>1
      <4>2. CASE ~HasCommand(text, i)
        <5>1. p = g[j] /\ q = h[j]
          BY <2>3, <2>5, <4>2 DEF ReadsOn
        <5> HIDE DEF S, j
        <5> QED BY <3>1, <5>1
      <4> QED BY <4>1, <4>2
    <3> QED BY <3>2 DEF p, q
  <2>6. CASE ~TagAt(text, i)
    <3>1. p = Showing(g[k], text[i]) /\ q = Showing(h[k], text[i])
      BY <2>3, <2>6 DEF ReadsOn
    <3> HIDE DEF S, k
    <3>2. p = q
      BY <2>2, <3>1
    <3> QED BY <3>2 DEF p, q
  <2> QED BY <2>4, <2>5, <2>6
<1> QED BY <1>1, <1>2

\* It reads so.
LEMMA ReadIsRecursive ==
  ASSUME NEW text \in Seq(Marked)
  PROVE  \E read \in [1..Len(text) + 1 -> Readings] : Reads(read, text) /\ LemonbarReads(text) = read[1]
<1> DEFINE n == Len(text) + 1
           W == Readings
           step == [i \in 1..n |-> [t \in [i + 1..n -> W] |-> ReadStep(t, text, i)]]
           Is(g) == g = [i \in 1..n |-> ReadStep(g, text, i)]
           g == CHOOSE g : Is(g)
<1>1. n \in Nat
  OBVIOUS
<1>2. ASSUME NEW i \in 1..n, NEW t \in [i + 1..n -> W]
      PROVE  ReadStep(t, text, i) \in W
  <2>1. CASE i = Len(text) + 1
    <3>1. ReadStep(t, text, i) = Nothing
      BY <2>1, ReadStepAtEnd
    <3> QED BY <3>1 DEF Nothing, Readings
  <2>2. CASE i # Len(text) + 1
    <3>1. i \in 1..Len(text)
      BY <2>2
    <3> DEFINE S == Ends(text, i)
               j == Min(S) + 1
               colon == HasCommand(text, i)
               cmd == Command(text, i)
               k == i + Size(text, i)
               r == ReadStep(t, text, i)
               u == text[i]
    <3>2. /\ (S # {} => j \in i + 1..n) /\ k \in i + 1..n
          /\ (S # {} /\ colon => cmd \in Seq(Marked)) /\ u \in Marked
      BY <3>1, ReadParts DEF HasCommand
    <3>3. ReadsOn(r, t, text, i)
      BY <3>1, ReadStepIs
    <3> HIDE DEF n, r
    <3>4. (S # {} => t[j] \in Readings) /\ t[k] \in Readings
      <4> HIDE DEF S, j, k
      <4> QED BY <3>2
    <3>5. CASE TagAt(text, i) /\ S = {}
      <4>1. r = Nothing
        BY <3>3, <3>5 DEF ReadsOn
      <4> QED BY <4>1 DEF Nothing, Readings, r
    <3>6. CASE TagAt(text, i) /\ S # {} /\ colon
      <4> DEFINE y == t[j]
      <4>1. r = WithCommand(y, cmd)
        BY <3>3, <3>6 DEF ReadsOn
      <4>2. y \in Readings /\ cmd \in Seq(Marked)
        <5> HIDE DEF S, j, cmd, colon
        <5> QED BY <3>2, <3>4, <3>6
      <4> HIDE DEF y, cmd, S, colon
      <4>3. y.commands \cup {cmd} \in SUBSET Seq(Marked)
        BY <4>2 DEF Readings
      <4>4. WithCommand(y, cmd) \in Readings
        BY <4>2, <4>3 DEF Readings, WithCommand
      <4> QED BY <4>1, <4>4 DEF r
    <3>7. CASE TagAt(text, i) /\ S # {} /\ ~colon
      <4>1. r = t[j]
        BY <3>3, <3>7 DEF ReadsOn
      <4> HIDE DEF S, j
      <4> QED BY <3>4, <3>7, <4>1 DEF r
    <3>8. CASE ~TagAt(text, i)
      <4> DEFINE y == t[k]
                 a == <<u>>
      <4>1. r = Showing(y, u)
        BY <3>3, <3>8 DEF ReadsOn
      <4>2. y \in Readings /\ a \in Seq(Marked)
        BY <3>2, <3>4
      <4> HIDE DEF y, a, S, k, u
      <4> DEFINE p == y.shown
      <4>3. p \in Seq(Marked)
        BY <4>2 DEF Readings
      <4> HIDE DEF p
      <4>4. a \o p \in Seq(Marked)
        BY <4>2, <4>3
      <4>5. [y EXCEPT !.shown = a \o @] \in Readings
        BY <4>2, <4>4 DEF Readings, p
      <4> QED BY <4>1, <4>5 DEF r, a, Showing
    <3> QED BY <3>5, <3>6, <3>7, <3>8
  <2> QED BY <2>1, <2>2
<1>3. ASSUME NEW i \in 1..n, NEW h
      PROVE  ReadStep([j \in i + 1..n |-> h[j]], text, i) = ReadStep(h, text, i)
  <2> DEFINE u == [j \in i + 1..n |-> h[j]]
  <2>1. \A j \in i + 1..n : u[j] = h[j]
    OBVIOUS
  <2> HIDE DEF u
  <2>2. ReadStep(u, text, i) = ReadStep(h, text, i)
    BY <2>1, ReadStepSame
  <2> QED BY <2>2 DEF u
<1>4. \E h : Is(h) /\ h \in [1..n -> W]
  <2>1. \A i \in 1..n : \A t \in [i + 1..n -> W] : step[i][t] = ReadStep(t, text, i)
    <3> HIDE DEF n, W
    <3> QED OBVIOUS
  <2>2. \A i \in 1..n : \A t \in [i + 1..n -> W] : step[i][t] \in W
    <3> HIDE DEF n, W, step
    <3> QED BY <1>2, <2>1, Zenon
  <2> HIDE DEF n, W, step
  <2>3. PICK h \in [1..n -> W] : BackwardSteps(h, n, step)
    BY <1>1, <2>2, BackwardExists
  <2>4. ASSUME NEW i \in 1..n PROVE h[i] = ReadStep(h, text, i)
    <3> DEFINE t == [j \in i + 1..n |-> h[j]]
    <3>1. t \in [i + 1..n -> W]
      BY <1>1
    <3>2. h[i] = step[i][t]
      BY <2>3 DEF BackwardSteps
    <3>3. ReadStep(t, text, i) = ReadStep(h, text, i)
      BY <1>3
    <3> HIDE DEF t
    <3> QED BY <2>1, <3>1, <3>2, <3>3
  <2>5. Is(h)
    BY <2>4
  <2> QED BY <2>5
<1>5. Is(g)
  <2> HIDE DEF Is
  <2> QED BY <1>4, Zenon
<1> HIDE DEF g
<1>6. \A i \in 1..n : g[i] = ReadStep(g, text, i)
  <2> HIDE DEF n, W
  <2> QED BY <1>5
<1>7. g \in [1..n -> W]
  <2>1. ASSUME NEW i \in 1..n, \A j \in i + 1..n : g[j] \in W PROVE g[i] \in W
    <3> DEFINE t == [j \in i + 1..n |-> g[j]]
    <3>1. t \in [i + 1..n -> W]
      <4> HIDE DEF n, W
      <4> QED BY <2>1
    <3>2. ReadStep(t, text, i) \in W
      <4> HIDE DEF n, W, t
      <4> QED BY <1>2, <3>1
    <3>3. ReadStep(t, text, i) = ReadStep(g, text, i)
      BY <1>3
    <3> HIDE DEF n, W, t
    <3> QED BY <1>6, <3>2, <3>3
  <2> HIDE DEF n, W
  <2>2. \A i \in 1..n : g[i] \in W
    BY <1>1, <2>1, AllBackward
  <2>3. g = [i \in 1..n |-> g[i]]
    BY <1>5
  <2> QED BY <2>2, <2>3
<1>8. Reads(g, text)
  <2> HIDE DEF W
  <2> QED BY <1>6 DEF Reads
<1>9. LemonbarReads(text) = g[1]
  BY DEF LemonbarReads, ReadStep, g
<1> QED BY <1>7, <1>8, <1>9

\* What is escaped is read as it was, and has no commands.
LEMMA EscapedIsRead ==
  ASSUME NEW line \in Seq(Units)
  PROVE  LemonbarReads(Escape(line)) = [shown |-> line, commands |-> {}]
<1> DEFINE m == Len(line)
           px == [k \in 1..m |-> EscapeUnit(line[k])]
<1>1. m \in Nat
  OBVIOUS
<1>2. PICK x \in [0..m -> Seq(Units)] : GrowsBy(x, m, px, Units) /\ Escape(line) = x[m]
  BY EscapeIsRecursive
<1> DEFINE text == x[m]
           l == Len(text)
<1>3. text \in Seq(Marked) /\ l \in Nat
  <2>1. text \in Seq(Units) /\ Units \subseteq Marked
    BY <1>1 DEF Marked
  <2> HIDE DEF text
  <2> QED BY <2>1
<1>4. PICK read \in [1..l + 1 -> Readings] : Reads(read, text) /\ LemonbarReads(text) = read[1]
  <2> HIDE DEF text
  <2> QED BY <1>3, ReadIsRecursive
<1> DEFINE Rest(k) == [shown |-> SubSeq(line, k, m), commands |-> {}]
           W == {k \in 1..m + 1 : read[Len(x[k - 1]) + 1] = Rest(k)}
<1>5. ASSUME NEW k \in 1..m + 1, \A j \in k + 1..m + 1 : j \in W PROVE k \in W
  <2>1. CASE k = m + 1
    <3>1. x[k - 1] = text
      BY <1>1, <2>1
    <3>2. l + 1 \in 1..l + 1
      BY <1>3
    <3>3. read[l + 1] = Nothing
      <4> HIDE DEF text
      <4> QED BY <1>3, <1>4, <3>2, ReadStepAtEnd DEF Reads
    <3>4. SubSeq(line, k, m) = <<>>
      BY <2>1, EndsAre
    <3> QED BY <3>1, <3>3, <3>4 DEF Nothing
  <2>2. CASE k # m + 1
    <3> DEFINE u == line[k]
               p == Len(x[k - 1]) + 1
               q == Len(x[k]) + 1
    <3>1. k \in 1..m /\ u \in Units /\ k + 1 \in k + 1..m + 1
      BY <1>1, <2>2
    <3>2. PieceIn(x, m, px, k)
      <4> HIDE DEF m, px
      <4> QED BY <1>2, <3>1, PieceStands
    <3>3. px[k] = EscapeUnit(u)
      BY <3>1
    <3> DEFINE c == Len(x[k - 1])
    <3>4. /\ c \in Nat /\ q = c + Len(EscapeUnit(u)) + 1 /\ c + Len(EscapeUnit(u)) <= l
          /\ \A j \in 1..Len(EscapeUnit(u)) : text[c + j] = EscapeUnit(u)[j]
      BY <3>2, <3>3 DEF PieceIn
    <3>5. p = c + 1
      OBVIOUS
    <3>6. read[q] = Rest(k + 1)
      <4> DEFINE y == k + 1
      <4>1. y \in W /\ y - 1 = k
        <5> HIDE DEF W, m
        <5> QED BY <1>5, <3>1
      <4> HIDE DEF y
      <4>2. read[Len(x[y - 1]) + 1] = Rest(y)
        BY <4>1
      <4> HIDE DEF Rest
      <4> QED BY <4>1, <4>2 DEF y
    <3> HIDE DEF u, p, q, c, l
    <3>7. p \in 1..l /\ text[p] = u /\ ~TagAt(text, p) /\ p + Size(text, p) = q
      <4>1. CASE u = "%"
        <5>1. Len(EscapeUnit(u)) = 2 /\ EscapeUnit(u)[1] = "%" /\ EscapeUnit(u)[2] = "%"
          BY <4>1 DEF EscapeUnit
        <5>2. text[p] = "%" /\ text[p + 1] = "%" /\ p \in 1..l /\ p + 1 \in 1..l /\ p + 2 = q
          <6>1. text[c + 1] = "%" /\ text[c + 2] = "%" /\ q = c + 2 + 1 /\ c + 2 <= l
            BY <3>4, <5>1
          <6>2. p + 1 = c + 2
            BY <3>4, <3>5
          <6> HIDE DEF text
          <6> QED BY <1>3, <3>4, <3>5, <6>1, <6>2
        <5> DEFINE b == p + 1
        <5>3. text[b] = "%" /\ b <= l /\ p <= l
          BY <1>3, <5>2
        <5> HIDE DEF b, text
        <5>4. ~TagAt(text, p)
          BY <5>3 DEF TagAt, UnitAt, b
        <5>5. Size(text, p) = 2
          BY <5>2, <5>3 DEF Size, UnitAt, b, l
        <5> QED BY <4>1, <5>2, <5>4, <5>5
      <4>2. CASE u # "%"
        <5>1. Len(EscapeUnit(u)) = 1 /\ EscapeUnit(u)[1] = u
          BY <4>2 DEF EscapeUnit
        <5>2. text[p] = u /\ p \in 1..l /\ p + 1 = q
          <6>1. text[c + 1] = u /\ q = c + 1 + 1 /\ c + 1 <= l
            BY <3>4, <5>1
          <6> HIDE DEF text
          <6> QED BY <1>3, <3>4, <3>5, <6>1
        <5> HIDE DEF text
        <5>3. ~UnitAt(text, p, "%")
          BY <4>2, <5>2 DEF UnitAt
        <5> QED BY <5>2, <5>3 DEF TagAt, Size
      <4> QED BY <4>1, <4>2
    <3>8. ReadsOn(read[p], read, text, p)
      <4>1. p \in 1..l + 1
        BY <1>3, <3>7
      <4> HIDE DEF text
      <4>2. read[p] = ReadStep(read, text, p)
        BY <1>4, <4>1 DEF Reads, l
      <4> QED BY <1>3, <3>7, <4>2, ReadStepIs DEF l
    <3> HIDE DEF text
    <3>9. read[p] = Showing(read[q], u)
      BY <3>7, <3>8 DEF ReadsOn
    <3>10. read[p] = [shown |-> <<u>> \o SubSeq(line, k + 1, m), commands |-> {}]
      <4> DEFINE z == SubSeq(line, k + 1, m)
      <4>1. read[q] = [shown |-> z, commands |-> {}]
        BY <3>6
      <4> DEFINE a == <<u>>
                 r == read[q]
      <4> HIDE DEF z
      <4>2. read[p] = [r EXCEPT !.shown = a \o @]
        BY <3>9 DEF Showing
      <4>3. r = [shown |-> z, commands |-> {}]
        BY <4>1
      <4> HIDE DEF a, r
      <4>4. read[p] = [shown |-> a \o z, commands |-> {}]
        BY <4>2, <4>3
      <4> QED BY <4>4 DEF z, a
    <3>11. <<u>> \o SubSeq(line, k + 1, m) = SubSeq(line, k, m)
      BY <3>1, RestOf DEF u
    <3> QED BY <3>10, <3>11 DEF p
  <2> QED BY <2>1, <2>2
<1>6. 1 \in W
  <2>1. m + 1 \in Nat /\ 1 \in 1..m + 1
    BY <1>1
  <2> HIDE DEF W, m
  <2>2. 1..m + 1 \subseteq W
    BY <1>5, <2>1, BackwardInduction
  <2> QED BY <2>1, <2>2
<1>7. x[0] = <<>>
  BY <1>2 DEF GrowsBy
<1>8. Len(x[1 - 1]) + 1 = 1 /\ SubSeq(line, 1, m) = line
  <2>1. 1 - 1 = 0 /\ Len(<<>>) = 0
    OBVIOUS
  <2> QED BY <1>7, <2>1, EndsAre
<1>9. read[1] = [shown |-> line, commands |-> {}]
  BY <1>6, <1>8
<1> QED BY <1>2, <1>4, <1>9

\* Where the next unit of the line is in the text: after newlines alone.
NextIn(raw, line, i, c) ==
  \/ c = Len(line) /\ \A j \in i + 1..Len(raw) : raw[j] = "newline"
  \/ /\ c < Len(line)
     /\ \E j \in i + 1..Len(raw) : /\ raw[j] = line[c + 1] /\ raw[j] # "newline"
                                   /\ \A k \in i + 1..j - 1 : raw[k] = "newline"

\* It is there, after any part of the text.
LEMMA NextOfLine ==
  ASSUME NEW raw \in Seq(Units), NEW h,
         GrowsBy(h, Len(raw), [k \in 1..Len(raw) |-> DropUnit(raw[k])], Line), NEW i \in 0..Len(raw)
  PROVE  Len(h[i]) \in 0..Len(h[Len(raw)]) /\ NextIn(raw, h[Len(raw)], i, Len(h[i]))
<1> DEFINE n == Len(raw)
           pd == [k \in 1..n |-> DropUnit(raw[k])]
           line == h[n]
           m == Len(line)
           P(a) == Len(h[a]) \in 0..m /\ NextIn(raw, line, a, Len(h[a]))
           W == {a \in 1..n + 1 : P(a - 1)}
<1>1. n \in Nat /\ m \in Nat
  BY DEF GrowsBy
<1>2. GrowsBy(h, n, pd, Line)
  OBVIOUS
<1>3. ASSUME NEW a \in 1..n + 1, \A j \in a + 1..n + 1 : j \in W PROVE a \in W
  <2>1. CASE a = n + 1
    <3>1. a - 1 = n /\ n + 1..n = {}
      BY <1>1, <2>1
    <3>2. NextIn(raw, line, n, m)
      BY <3>1 DEF NextIn
    <3> HIDE DEF n
    <3> QED BY <1>1, <3>1, <3>2
  <2>2. CASE a # n + 1
    <3>1. a \in 1..n /\ a + 1 \in a + 1..n + 1 /\ (a + 1) - 1 = a
      BY <1>1, <2>2
    <3>2. PieceIn(h, n, pd, a)
      <4> HIDE DEF n, pd
      <4> QED BY <1>2, <3>1, PieceStands
    <3> DEFINE c == Len(h[a - 1])
               d == Len(h[a])
               u == raw[a]
    <3>3. pd[a] = DropUnit(u)
      BY <3>1
    <3>4. /\ c \in Nat /\ d = c + Len(DropUnit(u)) /\ d <= m
          /\ \A j \in 1..Len(DropUnit(u)) : line[c + j] = DropUnit(u)[j]
      BY <3>2, <3>3 DEF PieceIn
    <3>5. d \in 0..m /\ NextIn(raw, line, a, d)
      <4>1. a + 1 \in W
        BY <1>3, <3>1
      <4> QED BY <3>1, <4>1
    <3> HIDE DEF c, d, u, line, pd
    <3> DEFINE b == a - 1
    <3>6. b + 1 = a /\ b \in Nat
      BY <3>1
    <3>7. c \in 0..m /\ NextIn(raw, line, b, c)
      <4>1. CASE u = "newline"
        <5>1. d = c
          <6>1. Len(DropUnit(u)) = 0
            BY <4>1 DEF DropUnit
          <6> QED BY <3>4, <6>1
        <5> HIDE DEF b
        <5>2. CASE c = m /\ \A j \in a + 1..n : raw[j] = "newline"
          <6>1. \A j \in a..n : raw[j] = "newline"
            <7>1. \A j \in a..n : j = a \/ j \in a + 1..n
              BY <1>1, <3>1
            <7> HIDE DEF n
            <7> QED BY <4>1, <5>2, <7>1 DEF u
          <6> QED BY <3>4, <3>6, <5>1, <5>2, <6>1 DEF NextIn
        <5>3. CASE c < m /\ \E j \in a + 1..n : /\ raw[j] = line[c + 1] /\ raw[j] # "newline"
                                                /\ \A k \in a + 1..j - 1 : raw[k] = "newline"
          <6>1. PICK j \in a + 1..n : /\ raw[j] = line[c + 1] /\ raw[j] # "newline"
                                      /\ \A k \in a + 1..j - 1 : raw[k] = "newline"
            BY <5>3
          <6>2. j \in a..n
            BY <1>1, <3>1
          <6>3. \A k \in a..j - 1 : raw[k] = "newline"
            <7>1. \A k \in a..j - 1 : k = a \/ k \in a + 1..j - 1
              BY <1>1, <3>1, <6>2
            <7> QED BY <4>1, <6>1, <7>1 DEF u
          <6> QED BY <3>4, <3>6, <5>1, <5>3, <6>1, <6>2, <6>3 DEF NextIn
        <5> QED BY <3>5, <5>1, <5>2, <5>3 DEF NextIn
      <4>2. CASE u # "newline"
        <5>1. Len(DropUnit(u)) = 1 /\ DropUnit(u)[1] = u
          BY <4>2 DEF DropUnit
        <5>2. line[c + 1] = u /\ c < m
          BY <1>1, <3>4, <5>1
        <5> HIDE DEF b
        <5>3. a \in a..n /\ a..a - 1 = {}
          BY <1>1, <3>1
        <5>4. a \in b + 1..n /\ raw[a] = line[c + 1] /\ raw[a] # "newline" /\ \A k \in b + 1..a - 1 : raw[k] = "newline"
          BY <3>6, <4>2, <5>2, <5>3 DEF u
        <5> QED BY <1>1, <3>4, <5>2, <5>4 DEF NextIn
      <4> QED BY <4>1, <4>2
    <3> QED BY <3>7 DEF c, b, line
  <2> QED BY <2>1, <2>2
<1>4. i + 1 \in W
  <2>1. n + 1 \in Nat /\ i + 1 \in 1..n + 1
    BY <1>1
  <2> HIDE DEF W, n
  <2>2. 1..n + 1 \subseteq W
    BY <1>3, <2>1, BackwardInduction
  <2> QED BY <2>1, <2>2
<1>5. (i + 1) - 1 = i
  BY <1>1
<1> QED BY <1>4, <1>5

\* Two states of append_sanitized() that are the same.
SameState(p, q) == p.out = q.out /\ (p.tag <=> q.tag) /\ (p.skip <=> q.skip)

\* They stay so, whatever the next unit is, if they see the same of what is after it.
LEMMA SameGoes ==
  ASSUME NEW p, NEW q, NEW p2, NEW q2, NEW u, NEW a, NEW b, NEW w, SameState(p, q), u # "newline",
         Goes(p, p2, u, a, w), Goes(q, q2, u, b, w),
         u = "%" => (a = "%" <=> b = "%") /\ (a = "open_A" <=> b = "open_A")
  PROVE  SameState(p2, q2)
<1>1. CASE p.skip
  <2>1. p2.out = Append(p.out, u) /\ (p2.tag <=> p.tag) /\ ~p2.skip
    BY <1>1 DEF Goes
  <2>2. q2.out = Append(q.out, u) /\ (q2.tag <=> q.tag) /\ ~q2.skip
    BY <1>1 DEF Goes, SameState
  <2> QED BY <2>1, <2>2 DEF SameState
<1>2. CASE ~p.skip /\ u = ":" /\ p.tag
  <2>1. p2.out = p.out \o <<":", Mark(w)>> /\ ~p2.tag /\ ~p2.skip
    BY <1>2 DEF Goes
  <2>2. q2.out = q.out \o <<":", Mark(w)>> /\ ~q2.tag /\ ~q2.skip
    BY <1>2 DEF Goes, SameState
  <2> QED BY <2>1, <2>2 DEF SameState
<1>3. CASE ~p.skip /\ ~(u = ":" /\ p.tag)
  <2>1. /\ p2.out = Append(p.out, u)
        /\ p2.skip <=> u = "%" /\ a = "%"
        /\ p2.tag <=> (u = "%" /\ a = "open_A") \/ (p.tag /\ u # "close")
    BY <1>3 DEF Goes
  <2>2. /\ q2.out = Append(q.out, u)
        /\ q2.skip <=> u = "%" /\ b = "%"
        /\ q2.tag <=> (u = "%" /\ b = "open_A") \/ (q.tag /\ u # "close")
    BY <1>3 DEF Goes, SameState
  <2>3. p2.out = q2.out
    BY <2>1, <2>2 DEF SameState
  <2>4. p2.skip <=> q2.skip
    BY <2>1, <2>2
  <2>5. p2.tag <=> q2.tag
    BY <2>1, <2>2 DEF SameState
  <2> QED BY <2>3, <2>4, <2>5 DEF SameState
<1> QED BY <1>1, <1>2, <1>3

\* Newlines make no difference, but within the opening of a tag or a "%%".
LEMMA NewlinesDoNothing ==
  ASSUME NEW raw \in Seq(Units), NEW w \in 0..2, ~Split(raw)
  PROVE  AppendSanitized(w, raw) = AppendSanitized(w, NoNewlines(raw))
<1> DEFINE n == Len(raw)
           pd == [k \in 1..n |-> DropUnit(raw[k])]
<1>1. n \in Nat
  OBVIOUS
<1>2. PICK h \in [0..n -> Seq(Line)] : GrowsBy(h, n, pd, Line) /\ NoNewlines(raw) = h[n]
  BY DropIsRecursive
<1> DEFINE line == h[n]
           m == Len(line)
<1>3. line \in Seq(Units) /\ m \in Nat
  BY <1>1 DEF Line
<1>4. PICK a \in [0..n -> SanitizeStates] : Sanitizes(a, raw, w) /\ AppendSanitized(w, raw) = a[n].out
  BY SanitizeIsRecursive
<1>5. PICK b \in [0..m -> SanitizeStates] : Sanitizes(b, line, w) /\ AppendSanitized(w, line) = b[m].out
  <2> HIDE DEF line
  <2> QED BY <1>3, SanitizeIsRecursive
<1>6. h[0] = <<>> /\ a[0] = SanitizeStart /\ b[0] = SanitizeStart
  BY <1>2, <1>4, <1>5 DEF GrowsBy, Sanitizes
<1> DEFINE P(i) == SameState(a[i], b[Len(h[i])]) /\ (a[i].skip => i < n /\ raw[i + 1] = "%")
           T == {i \in 0..n : P(i)}
<1>7. 0 \in T
  <2>1. Len(h[0]) = 0 /\ ~a[0].skip
    BY <1>6 DEF SanitizeStart
  <2> QED BY <1>1, <1>6, <2>1 DEF SameState
<1>8. ASSUME NEW i \in 0..n - 1, i \in T PROVE i + 1 \in T
  <2> DEFINE k == i + 1
             u == raw[k]
             c == Len(h[i])
             d == Len(h[k])
             x == NextUnit(raw, k)
  <2>1. k \in 1..n /\ k - 1 = i /\ u \in Units /\ k \in 0..n /\ i \in 0..n /\ k \in Nat
    BY <1>1
  <2>2. PieceIn(h, n, pd, k)
    <3> HIDE DEF k, n, pd
    <3> QED BY <1>2, <2>1, PieceStands
  <2>3. pd[k] = DropUnit(u)
    BY <2>1
  <2>4. /\ c \in Nat /\ d = c + Len(DropUnit(u)) /\ d <= m
        /\ \A j \in 1..Len(DropUnit(u)) : line[c + j] = DropUnit(u)[j]
    BY <2>1, <2>2, <2>3 DEF PieceIn
  <2>5. SameState(a[i], b[c]) /\ (a[i].skip => u = "%")
    <3>1. P(i)
      BY <1>8
    <3> QED BY <3>1
  <2>6. Goes(a[i], a[k], u, x, w)
    <3>1. Goes(a[k - 1], a[k], raw[k], NextUnit(raw, k), w)
      <4> HIDE DEF k
      <4> QED BY <1>4, <2>1, SanitizedNext
    <3> QED BY <2>1, <3>1
  <2>7. NextIn(raw, line, k, d)
    <3> HIDE DEF k
    <3> QED BY <1>2, <2>1, NextOfLine
  <2> SUFFICES P(k)
    BY <2>1
  <2>8. CASE u = "newline"
    <3>1. d = c
      <4>1. Len(DropUnit(u)) = 0
        BY <2>8 DEF DropUnit
      <4> HIDE DEF u, c, d
      <4> QED BY <2>4, <4>1
    <3>2. ~a[i].skip
      BY <2>5, <2>8
    <3> HIDE DEF u, c, d, k, x
    <3>3. a[k] = a[i]
      BY <2>6, <2>8, <3>2 DEF Goes
    <3> QED BY <2>5, <3>1, <3>2, <3>3 DEF c, d
  <2>9. CASE u # "newline"
    <3> DEFINE y == NextUnit(line, d)
    <3>1. d = c + 1 /\ line[d] = u /\ d \in 1..m /\ d - 1 = c
      <4>1. Len(DropUnit(u)) = 1 /\ DropUnit(u)[1] = u
        BY <2>9 DEF DropUnit
      <4> HIDE DEF u, c, d, line
      <4>2. d = c + 1 /\ line[c + 1] = u
        BY <2>4, <4>1
      <4> QED BY <1>3, <2>4, <4>2
    <3>2. Goes(b[c], b[d], u, y, w)
      <4>1. Goes(b[d - 1], b[d], line[d], NextUnit(line, d), w)
        <5> HIDE DEF d, line
        <5> QED BY <1>3, <1>5, <3>1, SanitizedNext
      <4> HIDE DEF c, d, line, u
      <4> QED BY <3>1, <4>1
    <3>3. u = "%" => (x = "%" <=> y = "%") /\ (x = "open_A" <=> y = "open_A")
      <4> SUFFICES ASSUME u = "%" PROVE (x = "%" <=> y = "%") /\ (x = "open_A" <=> y = "open_A")
        OBVIOUS
      <4> HIDE DEF line, c, d, k
      <4>1. CASE d = m /\ \A j \in k + 1..n : raw[j] = "newline"
        <5>1. y = "end"
          <6>1. ~(d < m)
            BY <1>3, <3>1, <4>1
          <6> QED BY <6>1 DEF NextUnit
        <5>2. x = "newline" \/ x = "end"
          <6>1. k < n => k + 1 \in k + 1..n
            BY <1>1, <2>1
          <6> QED BY <4>1, <6>1 DEF NextUnit
        <5> QED BY <5>1, <5>2
      <4>2. CASE d < m /\ \E j \in k + 1..n : /\ raw[j] = line[d + 1] /\ raw[j] # "newline"
                                              /\ \A e \in k + 1..j - 1 : raw[e] = "newline"
        <5>1. PICK j \in k + 1..n : /\ raw[j] = line[d + 1] /\ raw[j] # "newline"
                                    /\ \A e \in k + 1..j - 1 : raw[e] = "newline"
          BY <4>2
        <5>2. y = raw[j]
          BY <4>2, <5>1 DEF NextUnit
        <5>3. k < n /\ x = raw[k + 1]
          <6>1. k < n
            BY <1>1, <2>1, <5>1
          <6> QED BY <6>1 DEF NextUnit
        <5>4. CASE j = k + 1
          BY <5>2, <5>3, <5>4
        <5>5. CASE j # k + 1
          <6>1. k + 1 \in k + 1..j - 1 /\ k + 1 < j /\ j \in 1..n /\ k \in 1..n
            BY <1>1, <2>1, <5>1, <5>5
          <6>2. x = "newline"
            BY <5>1, <5>3, <6>1
          <6>3. raw[j] \notin {"open_A", "%"}
            <7> SUFFICES ASSUME raw[j] \in {"open_A", "%"} PROVE FALSE
              OBVIOUS
            <7> HIDE DEF n
            <7>1. raw[k] = "%"
              BY DEF u
            <7>2. Split(raw)
              BY <5>1, <6>1, <7>1 DEF Split, n
            <7> QED BY <7>2
          <6> QED BY <5>2, <6>2, <6>3
        <5> QED BY <5>4, <5>5
      <4> QED BY <2>7, <4>1, <4>2 DEF NextIn
    <3> HIDE DEF y, x, c, d, k, line, u
    <3>4. SameState(a[k], b[d])
      BY <2>5, <2>6, <2>9, <3>2, <3>3, SameGoes
    <3>5. a[k].skip => u = "%" /\ x = "%"
      <4>1. CASE a[i].skip
        BY <2>6, <4>1 DEF Goes
      <4>2. CASE ~a[i].skip /\ u = ":" /\ a[i].tag
        BY <2>6, <2>9, <4>2 DEF Goes
      <4>3. CASE ~a[i].skip /\ ~(u = ":" /\ a[i].tag)
        BY <2>6, <2>9, <4>3 DEF Goes
      <4> QED BY <4>1, <4>2, <4>3
    <3>6. x = "%" => k < n /\ raw[k + 1] = "%"
      BY DEF x, NextUnit
    <3> QED BY <3>4, <3>5, <3>6 DEF d
  <2> QED BY <2>8, <2>9
<1>9. n \in T
  <2> HIDE DEF T, n
  <2>1. 0..n \subseteq T
    BY <1>1, <1>7, <1>8, IntervalInduction
  <2> QED BY <1>1, <2>1
<1>10. a[n].out = b[m].out
  BY <1>9 DEF SameState
<1> QED BY <1>2, <1>4, <1>5, <1>10

\* The unit is the colon of a tag's command.
Colon(f, v, k) == ~f[k - 1].skip /\ v[k] = ":" /\ f[k - 1].tag

\* The unit k is written where what is before it ends, and a mark after it if it is such a colon.
UnitWritten(f, x, v, text, w, k) ==
  /\ x[k - 1] \in Nat /\ text[x[k - 1] + 1] = v[k]
  /\ Colon(f, v, k) => x[k] = x[k - 1] + 2 /\ text[x[k - 1] + 2] = Mark(w)
  /\ ~Colon(f, v, k) => x[k] = x[k - 1] + 1

\* append_sanitized() wrote the text: its states, and how much of the text there is in each.
Written(f, x, v, text, w) ==
  /\ f \in [0..Len(v) -> SanitizeStates] /\ Sanitizes(f, v, w)
  /\ x \in [0..Len(v) -> Nat] /\ x[0] = 0 /\ x[Len(v)] = Len(text)
  /\ \A k \in 1..Len(v) : UnitWritten(f, x, v, text, w, k)

\* A mark is a unit that only append_sanitized() writes, or that looks like it.
LEMMA MarkIs ==
  ASSUME NEW w \in 0..2
  PROVE  Mark(w) \in Marked /\ Mark(w) \notin {"%", "open_A", "close", ":"}
<1>1. w = 0 \/ w = 1 \/ w = 2
  OBVIOUS
<1>2. Mark(w) \in {"0_", "1_", "2_"}
  BY <1>1 DEF Mark
<1> QED BY <1>2 DEF Marked, Units

\* It writes a line so.
LEMMA LineIsWritten ==
  ASSUME NEW v \in Seq(Line), NEW w \in 0..2
  PROVE  /\ AppendSanitized(w, v) \in Seq(Marked)
         /\ \E f, x : Written(f, x, v, AppendSanitized(w, v), w)
<1> DEFINE n == Len(v)
<1>1. n \in Nat /\ v \in Seq(Units) /\ \A k \in 1..n : v[k] \in Line
  BY DEF Line
<1>2. PICK f \in [0..n -> SanitizeStates] : Sanitizes(f, v, w) /\ AppendSanitized(w, v) = f[n].out
  BY <1>1, SanitizeIsRecursive
<1> DEFINE h == [k \in 0..n |-> f[k].out]
           e == [k \in 1..n |-> IF Colon(f, v, k) THEN <<":", Mark(w)>> ELSE <<v[k]>>]
           x == [k \in 0..n |-> Len(h[k])]
           text == h[n]
<1>3. Line \subseteq Marked /\ ":" \in Marked /\ Mark(w) \in Marked
  BY MarkIs DEF Line, Marked, Units
<1>4. ASSUME NEW k \in 0..n PROVE h[k] = f[k].out /\ h[k] \in Seq(Marked)
  <2>1. f[k] \in SanitizeStates
    OBVIOUS
  <2>2. h[k] = f[k].out
    OBVIOUS
  <2> QED BY <2>1, <2>2 DEF SanitizeStates
<1>5. ASSUME NEW k \in 1..n
      PROVE  /\ e[k] \in Seq(Marked) /\ h[k] = h[k - 1] \o e[k]
             /\ Colon(f, v, k) => e[k] = <<":", Mark(w)>>
             /\ ~Colon(f, v, k) => e[k] = <<v[k]>>
  <2> DEFINE a == h[k - 1]
             b == h[k]
             c == e[k]
             u == v[k]
             d == Mark(w)
  <2>1. k - 1 \in 0..n /\ k \in 0..n /\ u \in Line
    BY <1>1
  <2>2. a = f[k - 1].out /\ b = f[k].out /\ a \in Seq(Marked)
    BY <1>4, <2>1
  <2>3. Goes(f[k - 1], f[k], u, NextUnit(v, k), w)
    BY <1>1, <1>2, SanitizedNext
  <2>4. (Colon(f, v, k) => c = <<":", d>>) /\ (~Colon(f, v, k) => c = <<u>>)
    OBVIOUS
  <2>5. u \in Marked /\ d \in Marked /\ u # "newline"
    BY <1>3, <2>1 DEF Line
  <2> HIDE DEF a, b, c, u, d
  <2>6. CASE Colon(f, v, k)
    <3>1. b = a \o <<":", d>>
      BY <2>2, <2>3, <2>6 DEF Goes, Colon, u, d
    <3>2. <<":", d>> \in Seq(Marked)
      BY <1>3, <2>5
    <3> QED BY <2>4, <2>6, <3>1, <3>2 DEF a, b, c, u, d
  <2>7. CASE ~Colon(f, v, k)
    <3>1. b = Append(a, u)
      BY <2>2, <2>3, <2>5, <2>7 DEF Goes, Colon, u
    <3>2. <<u>> \in Seq(Marked) /\ a \o <<u>> = Append(a, u)
      BY <2>2, <2>5, GrowsByTwo
    <3> QED BY <2>4, <2>7, <3>1, <3>2 DEF a, b, c, u, d
  <2> QED BY <2>6, <2>7
<1>6. GrowsBy(h, n, e, Marked)
  <2>1. h \in [0..n -> Seq(Marked)]
    <3> HIDE DEF n
    <3> QED BY <1>4
  <2>2. e \in [1..n -> Seq(Marked)]
    <3>1. e = [k \in 1..n |-> e[k]]
      OBVIOUS
    <3> HIDE DEF e, n
    <3> QED BY <1>5, <3>1
  <2>3. h[0] = <<>>
    <3>1. 0 \in 0..n /\ f[0] = SanitizeStart
      BY <1>1, <1>2 DEF Sanitizes
    <3> QED BY <1>4, <3>1 DEF SanitizeStart
  <2> HIDE DEF h, e, n
  <2> QED BY <1>1, <1>5, <2>1, <2>2, <2>3 DEF GrowsBy
<1>7. ASSUME NEW k \in 1..n PROVE UnitWritten(f, x, v, text, w, k)
  <2>1. PieceIn(h, n, e, k)
    <3> HIDE DEF h, e, n
    <3> QED BY <1>6, PieceStands
  <2>2. x[k - 1] = Len(h[k - 1]) /\ x[k] = Len(h[k])
    <3>1. k - 1 \in 0..n /\ k \in 0..n
      BY <1>1
    <3> HIDE DEF h, n
    <3> QED BY <3>1
  <2> DEFINE c == Len(h[k - 1])
             d == Mark(w)
  <2> HIDE DEF x, h, e, d
  <2>3. c \in Nat /\ x[k] = c + Len(e[k]) /\ (\A j \in 1..Len(e[k]) : text[c + j] = e[k][j]) /\ x[k - 1] = c
    BY <2>1, <2>2 DEF PieceIn
  <2> HIDE DEF c, text
  <2>4. CASE Colon(f, v, k)
    <3>1. e[k] = <<":", d>>
      BY <1>5, <2>4 DEF d
    <3>2. Len(e[k]) = 2 /\ e[k][1] = ":" /\ e[k][2] = d
      BY <3>1
    <3>3. v[k] = ":"
      BY <2>4 DEF Colon
    <3>4. x[k] = c + 2 /\ text[c + 1] = ":" /\ text[c + 2] = d
      BY <2>3, <3>2
    <3> QED BY <2>3, <2>4, <3>3, <3>4 DEF UnitWritten, d
  <2>5. CASE ~Colon(f, v, k)
    <3>1. e[k] = <<v[k]>>
      BY <1>5, <2>5
    <3>2. Len(e[k]) = 1 /\ e[k][1] = v[k]
      BY <3>1
    <3>3. x[k] = c + 1 /\ text[c + 1] = v[k]
      BY <2>3, <3>2
    <3> QED BY <2>3, <2>5, <3>3 DEF UnitWritten
  <2> QED BY <2>4, <2>5
<1>8. n \in 0..n /\ 0 \in 0..n
  BY <1>1
<1>9. text \in Seq(Marked) /\ AppendSanitized(w, v) = text
  <2> HIDE DEF h, n
  <2> QED BY <1>2, <1>4, <1>8
<1>10. x \in [0..n -> Nat] /\ x[0] = 0 /\ x[n] = Len(text)
  <2>1. \A k \in 0..n : Len(h[k]) \in Nat
    <3> HIDE DEF h, n
    <3> QED BY <1>4
  <2>2. h[0] = <<>>
    <3> HIDE DEF h, n, e
    <3> QED BY <1>6 DEF GrowsBy
  <2> HIDE DEF h, n
  <2>3. Len(h[0]) = 0
    BY <2>2
  <2> QED BY <1>8, <2>1, <2>3
<1>11. Written(f, x, v, text, w)
  <2> HIDE DEF x, text
  <2> QED BY <1>2, <1>7, <1>10 DEF Written
<1> QED BY <1>9, <1>11

\* The texts get longer.
LEMMA WrittenGrows ==
  ASSUME NEW v \in Seq(Line), NEW w \in 0..2, NEW text \in Seq(Marked), NEW f, NEW x, Written(f, x, v, text, w),
         NEW j \in 0..Len(v), NEW k \in j..Len(v)
  PROVE  x[j] \in Nat /\ x[k] \in Nat /\ (j < k => x[j] < x[k]) /\ x[j] <= x[k] /\ x[k] <= Len(text)
<1> DEFINE n == Len(v)
<1>1. n \in Nat /\ Len(text) \in Nat /\ j \in Nat /\ k \in 0..n
  OBVIOUS
<1>2. ASSUME NEW i \in 1..n PROVE x[i] \in Nat /\ x[i - 1] \in Nat /\ x[i - 1] < x[i]
  <2>1. UnitWritten(f, x, v, text, w, i)
    BY DEF Written
  <2> DEFINE a == x[i - 1]
             b == x[i]
  <2>2. a \in Nat /\ (b = a + 2 \/ b = a + 1)
    BY <2>1 DEF UnitWritten
  <2> HIDE DEF a, b
  <2>3. b \in Nat /\ a < b
    BY <2>2
  <2> QED BY <2>2, <2>3 DEF a, b
<1>3. x \in [0..n -> Nat] /\ x[n] = Len(text)
  BY DEF Written
<1>4. ASSUME NEW i \in 0..n PROVE \A m \in i..n : x[i] <= x[m] /\ (i < m => x[i] < x[m])
  <2> DEFINE T == {d \in 0..n - i : x[i] <= x[i + d] /\ (d > 0 => x[i] < x[i + d])}
             y == n - i
  <2>1. y \in Nat
    BY <1>1
  <2>2. 0 \in T
    <3>1. i + 0 = i /\ x[i] \in Nat
      BY <1>1, <1>3
    <3> QED BY <2>1, <3>1
  <2>3. ASSUME NEW d \in 0..y - 1, d \in T PROVE d + 1 \in T
    <3> DEFINE m == i + d + 1
               a == x[i]
               b == x[m - 1]
               c == x[m]
    <3>1. m \in 1..n /\ m - 1 = i + d /\ m = i + (d + 1) /\ d + 1 \in 0..y
      BY <1>1
    <3>2. a <= b /\ a \in Nat
      BY <1>3, <2>3, <3>1
    <3>3. b < c /\ b \in Nat /\ c \in Nat
      BY <1>2, <3>1
    <3> HIDE DEF a, b, c
    <3>4. a <= c /\ a < c
      BY <3>2, <3>3
    <3> QED BY <3>1, <3>4 DEF a, c
  <2>4. 0..y \subseteq T
    <3> HIDE DEF T, y
    <3> QED BY <2>1, <2>2, <2>3, IntervalInduction
  <2> TAKE m \in i..n
  <2> DEFINE d == m - i
  <2>5. d \in 0..y /\ i + d = m /\ (i < m => d > 0)
    BY <1>1
  <2> HIDE DEF d
  <2>6. d \in T
    <3> HIDE DEF T
    <3> QED BY <2>4, <2>5
  <2> QED BY <2>5, <2>6
<1> HIDE DEF n
<1>5. k \in j..n /\ n \in k..n
  BY <1>1 DEF n
<1>6. x[j] <= x[k] /\ (j < k => x[j] < x[k])
  BY <1>4, <1>5 DEF n
<1>7. x[k] <= x[n]
  BY <1>1, <1>4, <1>5
<1>8. j \in 0..n
  BY DEF n
<1> QED BY <1>1, <1>3, <1>6, <1>7, <1>8

\* What comes next in the text is what comes next in the line.
LEMMA NextWritten ==
  ASSUME NEW v \in Seq(Line), NEW w \in 0..2, NEW text \in Seq(Marked), NEW f, NEW x, Written(f, x, v, text, w),
         NEW k \in 0..Len(v) - 1
  PROVE  x[k] + 1 \in 1..Len(text) /\ x[k] + 1 <= Len(text) /\ text[x[k] + 1] = v[k + 1]
<1> DEFINE n == Len(v)
           l == Len(text)
           y == k + 1
<1>1. n \in Nat /\ l \in Nat /\ k \in Nat /\ k < n
  OBVIOUS
<1>2. y \in 1..n /\ y - 1 = k /\ y <= n /\ k \in 0..n /\ y \in k..n
  BY <1>1
<1> HIDE DEF y
<1>3. UnitWritten(f, x, v, text, w, y)
  BY <1>2 DEF Written
<1>4. text[x[k] + 1] = v[y] /\ x[k] \in Nat
  BY <1>2, <1>3 DEF UnitWritten
<1>5. x[k] < x[y] /\ x[y] <= l /\ x[y] \in Nat
  <2>1. k < y
    BY <1>1, <1>2
  <2> QED BY <1>2, <2>1, WrittenGrows
<1>6. x[k] + 1 <= l /\ x[k] + 1 \in 1..l
  BY <1>1, <1>4, <1>5
<1> QED BY <1>4, <1>6 DEF y

\* And the end of the one is the end of the other.
LEMMA SameUnit ==
  ASSUME NEW v \in Seq(Line), NEW w \in 0..2, NEW text \in Seq(Marked), NEW f, NEW x, Written(f, x, v, text, w),
         NEW k \in 0..Len(v), NEW u
  PROVE  UnitAt(text, x[k] + 1, u) <=> UnitAt(v, k + 1, u)
<1> DEFINE n == Len(v)
           l == Len(text)
<1>1. n \in Nat /\ l \in Nat /\ k \in Nat /\ k <= n /\ x[n] = l
  BY DEF Written
<1>2. CASE k = n
  <2>1. ~(x[k] + 1 <= l) /\ ~(k + 1 <= n)
    BY <1>1, <1>2
  <2> QED BY <2>1 DEF UnitAt
<1>3. CASE k < n
  <2>1. k \in 0..n - 1 /\ k + 1 <= n
    BY <1>1, <1>3
  <2>2. x[k] + 1 <= l /\ text[x[k] + 1] = v[k + 1]
    BY <2>1, NextWritten
  <2> QED BY <2>1, <2>2 DEF UnitAt
<1> QED BY <1>1, <1>2, <1>3

\* Where something is in the text, from where it is in the line.
SameWhere(S, T, x) == (\A k \in S : x[k - 1] + 1 \in T) /\ \A p \in T : \E k \in S : p = x[k - 1] + 1

\* The ends of tags, and the colons, of a part of the text are those of the line.
LEMMA WhereWritten ==
  ASSUME NEW v \in Seq(Line), NEW w \in 0..2, NEW text \in Seq(Marked), NEW f, NEW x, Written(f, x, v, text, w),
         NEW i \in 1..Len(v), NEW m \in i..Len(v), NEW u \in {"close", ":"}
  PROVE  SameWhere(Where(v, u, i, m), Where(text, u, x[i - 1] + 1, x[m]), x)
<1> DEFINE n == Len(v)
           y == i - 1
<1>1. n \in Nat /\ i \in 1..n /\ m \in 1..n /\ m \in Nat /\ i <= m /\ y \in 0..n /\ y \in Nat /\ i = y + 1 /\ y < m
  OBVIOUS
<1>2. x \in [0..n -> Nat]
  BY DEF Written
<1>3. ASSUME NEW a \in 0..n, NEW b \in a..n
      PROVE  x[a] \in Nat /\ x[b] \in Nat /\ x[a] <= x[b] /\ (a < b => x[a] < x[b])
  BY WrittenGrows
<1> HIDE DEF n, y
<1>4. ASSUME NEW k \in Where(v, u, i, m) PROVE x[k - 1] + 1 \in Where(text, u, x[y] + 1, x[m])
  <2> DEFINE z == k - 1
  <2>1. k \in i..m /\ v[k] = u
    BY DEF Where
  <2>2. z \in 0..n /\ z \in y..n /\ k \in z..n /\ m \in k..n /\ z < k /\ k \in 0..n /\ z + 1 = k
    BY <1>1, <2>1
  <2> HIDE DEF z
  <2>3. x[y] <= x[z] /\ x[z] < x[k] /\ x[k] <= x[m] /\ x[y] \in Nat /\ x[z] \in Nat /\ x[k] \in Nat /\ x[m] \in Nat
    BY <1>1, <1>3, <2>2
  <2>4. x[z] + 1 \in x[y] + 1..x[m]
    BY <2>3
  <2>5. z < n
    BY <1>1, <2>1, <2>2
  <2>6. text[x[z] + 1] = v[z + 1]
    <3>1. z \in 0..Len(v) - 1
      BY <1>1, <2>2, <2>5 DEF n
    <3> QED BY <3>1, NextWritten
  <2> QED BY <2>1, <2>2, <2>4, <2>6 DEF Where, z
<1>5. ASSUME NEW p \in Where(text, u, x[y] + 1, x[m]) PROVE \E k \in Where(v, u, i, m) : p = x[k - 1] + 1
  <2> DEFINE S == {k \in 0..m : x[k] < p}
  <2>1. text[p] = u /\ p \in x[y] + 1..x[m] /\ x[y] \in Nat /\ x[m] \in Nat
    <3>1. y \in 0..n /\ m \in y..n
      BY <1>1
    <3> QED BY <1>3, <3>1 DEF Where
  <2>2. p \in Nat /\ x[y] < p /\ p <= x[m]
    BY <2>1
  <2>3. y \in S
    BY <1>1, <2>2
  <2>4. PICK k \in S : \A a \in S : a <= k
    <3>1. S \subseteq 0..m
      OBVIOUS
    <3> HIDE DEF S
    <3> QED BY <1>1, <2>3, <3>1, GreatestUpTo
  <2>5. k \in 0..m /\ x[k] < p /\ y <= k
    BY <2>3, <2>4
  <2>6. k # m
    BY <2>1, <2>2, <2>5
  <2> DEFINE z == k + 1
  <2>7. z \in i..m /\ z \in 1..n /\ z - 1 = k /\ z > k /\ k \in 0..n /\ z \in 0..m
    BY <1>1, <2>5, <2>6
  <2>8. ~(x[z] < p)
    BY <2>4, <2>7
  <2> HIDE DEF z, S
  <2>9. UnitWritten(f, x, v, text, w, z)
    BY <2>7 DEF Written, n
  <2> DEFINE a == x[k]
             b == x[z]
  <2>10. /\ a \in Nat /\ text[a + 1] = v[z]
         /\ Colon(f, v, z) => b = a + 2 /\ text[a + 2] = Mark(w)
         /\ ~Colon(f, v, z) => b = a + 1
    BY <2>7, <2>9 DEF UnitWritten
  <2>11. a < p /\ ~(b < p)
    BY <2>5, <2>8
  <2> HIDE DEF a, b
  <2>12. p = a + 1
    <3>1. CASE Colon(f, v, z)
      <4>1. p = a + 1 \/ p = a + 2
        BY <2>2, <2>10, <2>11, <3>1
      <4>2. p # a + 2
        <5>1. text[a + 2] # u
          BY <2>10, <3>1, MarkIs
        <5> QED BY <2>1, <5>1
      <4> QED BY <4>1, <4>2
    <3>2. CASE ~Colon(f, v, z)
      BY <2>2, <2>10, <2>11, <3>2
    <3> QED BY <3>1, <3>2
  <2>13. v[z] = u
    BY <2>1, <2>10, <2>12
  <2>14. z \in Where(v, u, i, m)
    BY <2>7, <2>13 DEF Where
  <2> QED BY <2>7, <2>12, <2>14 DEF a
<1> QED BY <1>4, <1>5 DEF y, SameWhere

\* Where the first is, of some there are.
SameFirst(v, text, x, u, i, m) ==
  /\ Where(text, u, x[i - 1] + 1, x[m]) = {} <=> Where(v, u, i, m) = {}
  /\ Where(v, u, i, m) # {} =>
       /\ Min(Where(v, u, i, m)) \in i..m /\ v[Min(Where(v, u, i, m))] = u
       /\ \A k \in i..Min(Where(v, u, i, m)) - 1 : v[k] # u
       /\ Min(Where(text, u, x[i - 1] + 1, x[m])) = x[Min(Where(v, u, i, m)) - 1] + 1

\* The first of them is there.
LEMMA FirstWritten ==
  ASSUME NEW v \in Seq(Line), NEW w \in 0..2, NEW text \in Seq(Marked), NEW f, NEW x, Written(f, x, v, text, w),
         NEW i \in 1..Len(v), NEW m \in i..Len(v), NEW u \in {"close", ":"}
  PROVE  SameFirst(v, text, x, u, i, m)
<1> DEFINE S == Where(v, u, i, m)
           T == Where(text, u, x[i - 1] + 1, x[m])
           e == Min(S)
           n == Len(v)
<1>1. /\ \A k \in S : x[k - 1] + 1 \in T
      /\ \A p \in T : \E k \in S : p = x[k - 1] + 1
  <2>1. SameWhere(S, T, x)
    BY WhereWritten
  <2> QED BY <2>1 DEF SameWhere
<1>2. n \in Nat /\ i \in Nat /\ m \in Nat /\ i \in 1..n /\ m \in i..n
  OBVIOUS
<1>3. S \subseteq i..m /\ \A k \in i..m : v[k] = u => k \in S
  BY DEF Where
<1>4. \A k \in S : v[k] = u
  BY DEF Where
<1>5. T \subseteq Int
  <2>1. ASSUME NEW k \in S PROVE x[k - 1] + 1 \in Int
    <3>1. k - 1 \in 0..n
      BY <1>2, <1>3
    <3>2. x[k - 1] \in Nat
      BY <3>1 DEF Written
    <3> QED BY <3>2
  <2> HIDE DEF S, T
  <2> QED BY <1>1, <2>1
<1> HIDE DEF S, T, e
<1>6. T = {} <=> S = {}
  BY <1>1
<1>7. ASSUME S # {}
      PROVE  e \in i..m /\ v[e] = u /\ (\A k \in i..e - 1 : v[k] # u) /\ Min(T) = x[e - 1] + 1
  <2>1. e \in S /\ \A k \in S : e <= k
    BY <1>2, <1>3, <1>7, MinOfSome DEF e
  <2>2. e \in i..m /\ v[e] = u
    BY <1>3, <1>4, <2>1
  <2>3. ASSUME NEW k \in i..e - 1 PROVE v[k] # u
    <3>1. k \in i..m /\ ~(e <= k)
      BY <1>2, <2>2
    <3> QED BY <1>3, <2>1, <3>1
  <2>4. ASSUME NEW p \in T PROVE x[e - 1] + 1 <= p
    <3>1. PICK k \in S : p = x[k - 1] + 1
      BY <1>1
    <3>2. k \in i..m /\ e <= k
      BY <1>3, <2>1
    <3> DEFINE a == e - 1
               b == k - 1
    <3>3. a \in 0..n /\ b \in a..n
      BY <1>2, <2>2, <3>2
    <3> HIDE DEF a, b
    <3>4. x[a] \in Nat /\ x[b] \in Nat /\ x[a] <= x[b]
      BY <3>3, WrittenGrows
    <3> QED BY <3>1, <3>4 DEF a, b
  <2>5. x[e - 1] + 1 \in T
    BY <1>1, <2>1
  <2>6. Min(T) = x[e - 1] + 1
    <3> DEFINE y == x[e - 1] + 1
    <3> HIDE DEF y
    <3>1. y \in T /\ \A p \in T : y <= p
      BY <2>4, <2>5 DEF y
    <3> QED BY <1>5, <3>1, MinIs DEF y
  <2> QED BY <2>2, <2>3, <2>6
<1> QED BY <1>6, <1>7 DEF S, T, e, SameFirst

\* The state after a unit of the line.
LEMMA StateAfter ==
  ASSUME NEW v \in Seq(Line), NEW w \in 0..2, NEW text, NEW f, NEW x, Written(f, x, v, text, w),
         NEW k \in 1..Len(v)
  PROVE  /\ Goes(f[k - 1], f[k], v[k], NextUnit(v, k), w) /\ v[k] # "newline"
         /\ f[k].skip => k < Len(v) /\ v[k + 1] = "%"
<1> DEFINE n == Len(v)
           a == f[k - 1]
           b == f[k]
           u == v[k]
           y == NextUnit(v, k)
<1>1. v \in Seq(Units) /\ u # "newline"
  BY DEF Line
<1>2. Goes(a, b, u, y, w)
  BY <1>1, SanitizedNext DEF Written
<1>3. y = "%" => k < n /\ v[k + 1] = "%"
  BY DEF NextUnit
<1> HIDE DEF a, b, u, y, n
<1>4. b.skip => y = "%"
  <2>1. CASE a.skip
    BY <1>2, <2>1 DEF Goes
  <2>2. CASE ~a.skip /\ u = ":" /\ a.tag
    BY <1>2, <2>2 DEF Goes
  <2>3. CASE ~a.skip /\ ~(u = ":" /\ a.tag)
    BY <1>1, <1>2, <2>3 DEF Goes
  <2> QED BY <2>1, <2>2, <2>3
<1> QED BY <1>1, <1>2, <1>3, <1>4 DEF a, b, u, y, n

\* No colon is there.
NoColon(v, a, b) == \A k \in a..b : v[k] # ":"

\* The command after the colon j, up to the colon c.
CommandIs(v, text, w, x, j, c) == SubSeq(text, x[j], x[c - 1]) = <<Mark(w)>> \o SubSeq(v, j + 1, c - 1)

\* The text of a tag's command is marked, and is else what it is in the line.
LEMMA CommandWritten ==
  ASSUME NEW v \in Seq(Line), NEW w \in 0..2, NEW text \in Seq(Marked), NEW f, NEW x, Written(f, x, v, text, w),
         NEW j \in 1..Len(v), Colon(f, v, j), NEW c \in j + 1..Len(v), NoColon(v, j + 1, c - 1)
  PROVE  CommandIs(v, text, w, x, j, c)
<1> DEFINE n == Len(v)
           y == c - 1
           l == y - j
<1>1. n \in Nat /\ j \in Nat /\ c \in Nat /\ y \in j..n /\ l \in Nat /\ y < n /\ j \in 1..n /\ y \in 0..n /\ j \in 0..n
  OBVIOUS
<1> HIDE DEF y, n
<1>2. ASSUME NEW k \in j + 1..y PROVE x[k] = x[k - 1] + 1
  <2>1. k \in 1..n /\ v[k] # ":"
    BY <1>1 DEF y, NoColon
  <2>2. UnitWritten(f, x, v, text, w, k)
    BY <2>1 DEF Written, n
  <2> QED BY <2>1, <2>2 DEF UnitWritten, Colon
<1>3. x[j] \in Nat /\ x[y] \in Nat /\ x[j] >= 1 /\ text[x[j]] = Mark(w) /\ x[y] <= Len(text)
  <2>1. UnitWritten(f, x, v, text, w, j)
    BY DEF Written
  <2>2. x[j - 1] \in Nat /\ x[j] = x[j - 1] + 2 /\ text[x[j - 1] + 2] = Mark(w)
    BY <2>1 DEF UnitWritten
  <2>3. x[y] \in Nat /\ x[y] <= Len(text)
    BY <1>1, WrittenGrows DEF n
  <2>4. x[j] \in Nat /\ x[j] >= 1
    BY <2>2
  <2>5. text[x[j]] = Mark(w)
    BY <2>2
  <2> QED BY <2>3, <2>4, <2>5
<1> DEFINE a == x[j]
           T == {d \in 0..l : x[j + d] = a + d}
<1>4. 0..l \subseteq T
  <2>1. 0 \in T
    BY <1>1, <1>3
  <2>2. ASSUME NEW d \in 0..l - 1, d \in T PROVE d + 1 \in T
    <3> DEFINE z == j + d + 1
    <3>1. z \in j + 1..y /\ z - 1 = j + d /\ j + (d + 1) = z /\ d + 1 \in 0..l
      BY <1>1
    <3> HIDE DEF z
    <3>2. x[z] = x[z - 1] + 1
      BY <1>2, <3>1
    <3>3. x[z] = a + d + 1
      BY <2>2, <3>1, <3>2
    <3>5. a \in Nat /\ d \in Nat
      BY <1>3
    <3> HIDE DEF a
    <3>4. x[z] = a + (d + 1)
      BY <3>3, <3>5
    <3> QED BY <3>1, <3>4
  <2> HIDE DEF T, l
  <2> QED BY <1>1, <2>1, <2>2, IntervalInduction
<1>5. x[y] = a + l
  <2>1. l \in 0..l /\ j + l = y
    BY <1>1
  <2> HIDE DEF l, a
  <2> QED BY <1>4, <2>1
<1> HIDE DEF a
<1> DEFINE p == SubSeq(text, a, a + l)
           q == SubSeq(v, j + 1, y)
           m == <<Mark(w)>>
           s == m \o q
<1>6. p \in Seq(Marked) /\ Len(p) = l + 1 /\ \A k \in 1..l + 1 : p[k] = text[a + k - 1]
  <2> DEFINE b == a + l
  <2>1. a \in 1..Len(text) + 1 /\ b \in a - 1..Len(text) /\ b - a + 1 = l + 1
    <3>1. l \in Nat
      BY <1>1
    <3>2. a \in Nat /\ a >= 1
      BY <1>3 DEF a
    <3>3. b = x[y] /\ b <= Len(text)
      BY <1>3, <1>5
    <3>4. Len(text) \in Nat
      OBVIOUS
    <3> HIDE DEF l
    <3>5. b \in Nat /\ b >= a
      BY <3>1, <3>2
    <3>6. b - a + 1 = l + 1
      BY <3>1, <3>2
    <3> DEFINE t == Len(text)
    <3>7. b <= t /\ t \in Nat
      BY <3>3, <3>4
    <3> HIDE DEF b, t
    <3>8. a \in 1..t + 1 /\ b \in a - 1..t
      BY <3>2, <3>5, <3>7
    <3> QED BY <3>6, <3>8 DEF t
  <2>2. a + l = b /\ a \in Nat
    BY <1>3 DEF a
  <2> HIDE DEF b, l, p
  <2>3. /\ SubSeq(text, a, b) \in Seq(Marked) /\ Len(SubSeq(text, a, b)) = l + 1
        /\ \A k \in 1..l + 1 : SubSeq(text, a, b)[k] = text[a + k - 1]
    BY <2>1, PartIs
  <2>4. p = SubSeq(text, a, b)
    BY <2>2 DEF p
  <2> QED BY <2>3, <2>4
<1>7. q \in Seq(Marked) /\ Len(q) = l /\ \A k \in 1..l : q[k] = v[j + k]
  <2> DEFINE b == j + 1
  <2>1. b \in 1..n + 1 /\ y \in b - 1..n /\ y - b + 1 = l /\ b \in Nat
    BY <1>1
  <2>2. v \in Seq(Marked)
    BY DEF Line, Marked
  <2> HIDE DEF b, l
  <2>3. /\ SubSeq(v, b, y) \in Seq(Marked) /\ Len(SubSeq(v, b, y)) = l
        /\ \A k \in 1..l : SubSeq(v, b, y)[k] = v[b + k - 1]
    BY <2>1, <2>2, PartIs DEF n
  <2>4. \A k \in 1..l : b + k - 1 = j + k
    BY <1>1 DEF b
  <2> QED BY <2>3, <2>4 DEF b
<1>8. m \in Seq(Marked) /\ Len(m) = 1 /\ m[1] = Mark(w)
  BY MarkIs
<1> HIDE DEF m, p, q, l
<1>9. s \in Seq(Marked) /\ Len(s) = 1 + l /\ \A k \in 1..1 + l : s[k] = IF k <= 1 THEN m[k] ELSE q[k - 1]
  <2> DEFINE r == Len(m)
             t == Len(q)
  <2> HIDE DEF r, t
  <2>1. s \in Seq(Marked) /\ Len(s) = r + t /\ \A k \in 1..r + t : s[k] = IF k <= r THEN m[k] ELSE q[k - r]
    BY <1>7, <1>8, ConcatProperties DEF r, t
  <2> HIDE DEF s
  <2> QED BY <1>7, <1>8, <2>1 DEF r, t
<1>10. ASSUME NEW k \in 1..l + 1 PROVE p[k] = s[k]
  <2>1. CASE k = 1
    <3>1. a + k - 1 = a /\ k <= 1
      BY <1>3, <2>1 DEF a
    <3>2. p[k] = Mark(w)
      BY <1>3, <1>6, <3>1 DEF a
    <3>3. s[k] = m[k]
      <4>1. k \in 1..1 + l
        BY <1>1
      <4> HIDE DEF s
      <4> QED BY <1>9, <3>1, <4>1
    <3> QED BY <1>8, <2>1, <3>2, <3>3
  <2>2. CASE k # 1
    <3> DEFINE i == k - 1
               d == k - 2
               z == j + d
    <3>0. l \in Nat /\ a \in Nat /\ k \in Nat /\ j \in Nat /\ k \in 1..l + 1 /\ n \in Nat /\ j + l < n
      <4>1. j + l = y
        BY <1>1 DEF l
      <4> QED BY <1>1, <1>3, <4>1 DEF a
    <3>7. i \in 1..l /\ ~(k <= 1) /\ d \in 0..l /\ k \in 1..1 + l
      BY <2>2, <3>0
    <3>8. z + 1 = j + i /\ a + k - 1 = (a + d) + 1
      BY <3>0
    <3>9. z \in 0..n - 1
      BY <3>0, <3>7
    <3>1. i \in 1..l /\ ~(k <= 1) /\ d \in 0..l /\ k \in 1..1 + l /\ z + 1 = j + i /\ z \in 0..n - 1 /\ a + k - 1 = (a + d) + 1
      BY <3>7, <3>8, <3>9
    <3>2. x[z] = a + d
      BY <1>4, <3>1
    <3> HIDE DEF d, z, s
    <3>3. s[k] = v[j + i]
      <4>1. s[k] = q[k - 1]
        BY <1>9, <3>1
      <4> QED BY <1>7, <3>1, <4>1
    <3> HIDE DEF i
    <3>4. text[x[z] + 1] = v[z + 1]
      BY <3>1, NextWritten DEF n
    <3>5. p[k] = text[a + k - 1]
      BY <1>6
    <3> QED BY <3>1, <3>2, <3>3, <3>4, <3>5
  <2> QED BY <2>1, <2>2
<1>11. p = s
  <2>1. Len(s) = l + 1 /\ s \in Seq(Marked)
    BY <1>1, <1>9
  <2> HIDE DEF s
  <2> QED BY <1>6, <1>10, <2>1, SeqEqual
<1> QED BY <1>5, <1>11 DEF p, q, m, a, y, CommandIs

\* What is read from a unit that is not in a tag: nothing of a mark, if it is not of a tag either.
LEMMA PlainIsRead ==
  ASSUME NEW v \in Seq(Line), NEW w \in 0..2, NEW text \in Seq(Marked), NEW f, NEW x, Written(f, x, v, text, w),
         NEW i \in 1..Len(v), ~f[i - 1].skip, ~f[i - 1].tag, ~TagAt(v, i)
  PROVE  \E j \in i + 1..Len(v) + 1 :
           /\ j = i + Size(v, i) /\ ~f[j - 1].skip /\ ~f[j - 1].tag
           /\ x[i - 1] + 1 \in 1..Len(text) /\ ~TagAt(text, x[i - 1] + 1) /\ text[x[i - 1] + 1] = v[i]
           /\ x[i - 1] + 1 + Size(text, x[i - 1] + 1) = x[j - 1] + 1
<1> DEFINE n == Len(v)
           y == i - 1
           p == x[y] + 1
<1>1. n \in Nat /\ i \in Nat /\ y \in 0..n /\ y \in 0..n - 1 /\ i \in 0..n /\ y + 1 = i /\ i <= n
  OBVIOUS
<1>2. p \in 1..Len(text) /\ p <= Len(text) /\ text[p] = v[i]
  <2> HIDE DEF y
  <2> QED BY <1>1, NextWritten
<1>3. x[i] = p /\ x[i] \in Nat /\ p + 1 = x[i] + 1
  <2>1. UnitWritten(f, x, v, text, w, i)
    BY DEF Written
  <2>2. ~Colon(f, v, i)
    BY DEF Colon
  <2>3. x[i] = p /\ x[i - 1] \in Nat
    BY <2>1, <2>2 DEF UnitWritten
  <2> QED BY <2>3
<1>4. ASSUME NEW u PROVE UnitAt(text, p + 1, u) <=> UnitAt(v, i + 1, u)
  <2>1. UnitAt(text, x[i] + 1, u) <=> UnitAt(v, i + 1, u)
    BY <1>1, SameUnit
  <2> QED BY <1>3, <2>1
<1>5. ASSUME NEW u PROVE UnitAt(text, p, u) <=> UnitAt(v, i, u)
  <2> HIDE DEF p
  <2> QED BY <1>1, <1>2 DEF UnitAt
<1>6. ~TagAt(text, p) /\ Size(text, p) = Size(v, i)
  <2> HIDE DEF p
  <2> QED BY <1>4, <1>5 DEF TagAt, Size
<1>7. Goes(f[y], f[i], v[i], NextUnit(v, i), w) /\ v[i] # "newline"
  BY StateAfter
<1>8. v[i] = "%" => NextUnit(v, i) # "open_A"
  <2> SUFFICES ASSUME v[i] = "%", NextUnit(v, i) = "open_A" PROVE FALSE
    OBVIOUS
  <2>1. i < n /\ v[i + 1] = "open_A"
    BY DEF NextUnit
  <2>2. i + 1 <= n
    BY <1>1, <2>1
  <2> QED BY <1>1, <2>1, <2>2 DEF TagAt, UnitAt
<1>9. ~f[i].tag
  BY <1>7, <1>8 DEF Goes
<1>10. CASE Size(v, i) = 1
  <2>1. ~f[i].skip
    <3> SUFFICES ASSUME f[i].skip PROVE FALSE
      OBVIOUS
    <3>1. i < n /\ v[i + 1] = "%"
      BY StateAfter
    <3>2. v[i] = "%"
      BY <1>7 DEF Goes
    <3>3. UnitAt(v, i, "%") /\ UnitAt(v, i + 1, "%")
      BY <1>1, <3>1, <3>2 DEF UnitAt
    <3> QED BY <1>10, <3>3 DEF Size
  <2> DEFINE j == i + 1
  <2>2. j \in i + 1..n + 1 /\ j - 1 = i
    BY <1>1
  <2> HIDE DEF j, y
  <2>3. j = i + Size(v, i) /\ p + Size(text, p) = x[j - 1] + 1
    BY <1>3, <1>6, <1>10, <2>2 DEF j
  <2>4. ~f[j - 1].skip /\ ~f[j - 1].tag
    BY <1>9, <2>1, <2>2
  <2> QED BY <1>2, <1>6, <2>2, <2>3, <2>4 DEF y
<1>11. CASE Size(v, i) # 1
  <2>1. Size(v, i) = 2 /\ v[i] = "%" /\ i + 1 <= n /\ v[i + 1] = "%"
    BY <1>11 DEF Size, UnitAt
  <2>2. NextUnit(v, i) = "%"
    BY <1>1, <2>1 DEF NextUnit
  <2>3. f[i].skip
    BY <1>7, <2>1, <2>2 DEF Goes
  <2> DEFINE k == i + 1
             j == i + 2
  <2>4. k \in 1..n /\ k - 1 = i /\ j - 1 = k /\ j \in i + 1..n + 1
    BY <1>1, <2>1
  <2> HIDE DEF k
  <2>5. ~f[k].skip /\ ~f[k].tag
    <3>1. Goes(f[k - 1], f[k], v[k], NextUnit(v, k), w)
      BY <2>4, StateAfter
    <3> QED BY <1>9, <2>3, <2>4, <3>1 DEF Goes
  <2>6. x[k] = p + 1
    <3>1. UnitWritten(f, x, v, text, w, k)
      BY <2>4 DEF Written
    <3>2. ~Colon(f, v, k)
      BY <2>3, <2>4 DEF Colon
    <3> HIDE DEF p
    <3> QED BY <1>3, <2>4, <3>1, <3>2 DEF UnitWritten
  <2>7. j = i + Size(v, i) /\ p + Size(text, p) = x[j - 1] + 1
    <3> HIDE DEF p
    <3>1. p \in Nat
      BY <1>3
    <3>2. p + 2 = (p + 1) + 1
      BY <3>1
    <3> QED BY <1>6, <2>1, <2>4, <2>6, <3>2
  <2> HIDE DEF j
  <2> QED BY <1>2, <1>6, <2>4, <2>5, <2>7
<1> QED BY <1>10, <1>11

\* What is read of a tag: its end, after which the state is as before it, and its command, marked.
TagRead(f, x, v, text, w, i, p) ==
  /\ TagAt(text, p) /\ (Ends(text, p) = {} <=> Ends(v, i) = {})
  /\ Ends(v, i) # {} =>
       \E e \in i..Len(v) :
         /\ e = Min(Ends(v, i)) /\ Min(Ends(text, p)) + 1 = x[e] + 1 /\ ~f[e].skip /\ ~f[e].tag
         /\ HasCommand(text, p) <=> HasCommand(v, i)
         /\ HasCommand(v, i) => Command(text, p) = <<Mark(w)>> \o Command(v, i)

\* A tag is read so.
LEMMA TagIsRead ==
  ASSUME NEW v \in Seq(Line), NEW w \in 0..2, NEW text \in Seq(Marked), NEW f, NEW x, Written(f, x, v, text, w),
         NEW i \in 1..Len(v), ~f[i - 1].skip, ~f[i - 1].tag, TagAt(v, i)
  PROVE  TagRead(f, x, v, text, w, i, x[i - 1] + 1) /\ x[i - 1] + 1 \in 1..Len(text)
<1> DEFINE n == Len(v)
           y == i - 1
           k == i + 1
           j == i + 2
           p == x[y] + 1
<1>1. /\ n \in Nat /\ i \in Nat /\ i \in 1..n /\ i \in 0..n /\ y \in 0..n - 1 /\ y \in 0..n /\ y + 1 = i
      /\ k \in 1..n /\ k - 1 = i /\ k \in 0..n /\ v[i] = "%" /\ v[k] = "open_A" /\ i < n /\ n \in i..n
  BY DEF TagAt, UnitAt
<1>2. p \in 1..Len(text) /\ text[p] = v[i] /\ p <= Len(text) /\ p \in Nat
  <2> HIDE DEF y
  <2>1. p \in 1..Len(text) /\ text[p] = v[i] /\ p <= Len(text)
    BY <1>1, NextWritten
  <2> HIDE DEF p
  <2> QED BY <2>1
<1>3. x[i] = p
  <2>1. UnitWritten(f, x, v, text, w, i)
    BY DEF Written
  <2> QED BY <1>1, <2>1 DEF UnitWritten, Colon
<1> HIDE DEF p
<1>4. x[k] = p + 1
  <2>1. UnitWritten(f, x, v, text, w, k)
    BY <1>1 DEF Written
  <2> HIDE DEF k
  <2> QED BY <1>1, <1>3, <2>1 DEF UnitWritten, Colon
<1>5. NextUnit(v, i) = "open_A"
  BY <1>1 DEF NextUnit
<1>6. f[i].tag /\ ~f[i].skip
  <2>1. Goes(f[y], f[i], v[i], NextUnit(v, i), w)
    BY StateAfter
  <2> QED BY <1>1, <1>5, <2>1 DEF Goes
<1>7. f[k].tag /\ ~f[k].skip
  <2> HIDE DEF k
  <2>1. Goes(f[k - 1], f[k], v[k], NextUnit(v, k), w)
    BY <1>1, StateAfter
  <2> QED BY <1>1, <1>6, <2>1 DEF Goes
<1>8. TagAt(text, p)
  <2>1. UnitAt(text, x[i] + 1, "open_A") <=> UnitAt(v, i + 1, "open_A")
    BY <1>1, SameUnit
  <2>2. UnitAt(v, i + 1, "open_A")
    BY DEF TagAt
  <2> QED BY <1>1, <1>2, <1>3, <2>1, <2>2 DEF TagAt, UnitAt
<1> DEFINE S == Ends(v, i)
           e == Min(S)
<1>9. /\ Ends(text, p) = {} <=> S = {}
      /\ S # {} => e \in i..n /\ v[e] = "close" /\ Min(Ends(text, p)) = x[e - 1] + 1
  <2>1. x[n] = Len(text)
    BY DEF Written
  <2>2. /\ Where(text, "close", x[i - 1] + 1, x[n]) = {} <=> Where(v, "close", i, n) = {}
        /\ Where(v, "close", i, n) # {} =>
              /\ Min(Where(v, "close", i, n)) \in i..n /\ v[Min(Where(v, "close", i, n))] = "close"
              /\ Min(Where(text, "close", x[i - 1] + 1, x[n])) = x[Min(Where(v, "close", i, n)) - 1] + 1
    <3> HIDE DEF n
    <3>1. i \in 1..Len(v) /\ n \in i..Len(v)
      BY <1>1 DEF n
    <3>2. SameFirst(v, text, x, "close", i, n)
      BY <3>1, FirstWritten
    <3> QED BY <3>2 DEF SameFirst
  <2> QED BY <2>1, <2>2 DEF Ends, p
<1> HIDE DEF S, e, y
<1>10. ASSUME S # {}
       PROVE  /\ e \in j..n /\ Min(Ends(text, p)) = x[e] /\ ~f[e].skip /\ ~f[e].tag
              /\ HasCommand(text, p) <=> HasCommand(v, i)
              /\ HasCommand(v, i) => Command(text, p) = <<Mark(w)>> \o Command(v, i)
  <2>1. e \in i..n /\ v[e] = "close" /\ Min(Ends(text, p)) = x[e - 1] + 1
    BY <1>9, <1>10
  <2>2. e \in j..n /\ e \in 1..n
    <3>1. e # i /\ e # k
      BY <1>1, <2>1
    <3> QED BY <1>1, <2>1, <3>1
  <2>3. x[e] = x[e - 1] + 1
    <3>1. UnitWritten(f, x, v, text, w, e)
      BY <2>2 DEF Written
    <3> QED BY <2>1, <3>1 DEF UnitWritten, Colon
  <2>4. ~f[e].skip /\ ~f[e].tag
    <3>1. Goes(f[e - 1], f[e], v[e], NextUnit(v, e), w)
      BY <2>2, StateAfter
    <3>2. ~f[e - 1].skip
      <4> SUFFICES ASSUME f[e - 1].skip PROVE FALSE
        OBVIOUS
      <4> DEFINE z == e - 1
      <4>1. z \in 1..n /\ z + 1 = e
        BY <1>1, <2>2
      <4> HIDE DEF z
      <4>2. f[z].skip => z < Len(v) /\ v[z + 1] = "%"
        BY <4>1, StateAfter
      <4>3. f[z].skip
        BY DEF z
      <4> QED BY <2>1, <4>1, <4>2, <4>3
    <3> QED BY <2>1, <3>1, <3>2 DEF Goes
  <2>5. j \in 1..n /\ j <= n /\ j - 1 = k /\ k \in 0..n - 1 /\ k + 1 = j /\ j \in Nat
    BY <1>1, <2>2
  <2>6. UnitAt(text, p + 2, ":") <=> v[j] = ":"
    <3>1. UnitAt(text, x[k] + 1, ":") <=> UnitAt(v, k + 1, ":")
      BY <1>1, SameUnit
    <3>2. x[k] + 1 = p + 2
      BY <1>2, <1>4
    <3> HIDE DEF j, k
    <3> QED BY <2>5, <3>1, <3>2 DEF UnitAt
  <2>7. UnitAt(v, i + 2, ":") <=> v[j] = ":"
    BY <2>5 DEF UnitAt
  <2> DEFINE C == Colons(v, i)
             D == Colons(text, p)
  <2>8. CASE v[j] # ":"
    <3>1. ~HasCommand(text, p) /\ ~HasCommand(v, i)
      BY <2>6, <2>7, <2>8 DEF HasCommand
    <3> QED BY <2>1, <2>2, <2>3, <2>4, <3>1
  <2>9. CASE v[j] = ":"
    <3> DEFINE a == j + 1
    <3>1. a \in 1..n /\ e \in a..n /\ a - 1 = j /\ a = i + 3
      <4>1. e # j
        BY <2>1, <2>9
      <4> QED BY <1>1, <2>2, <2>5, <4>1
    <3>2. Colon(f, v, j)
      <4> HIDE DEF j, k
      <4> QED BY <1>7, <2>5, <2>9 DEF Colon
    <3>3. x[j] = p + 3 /\ text[p + 3] = Mark(w)
      <4> DEFINE z == x[j - 1]
      <4>1. UnitWritten(f, x, v, text, w, j)
        BY <2>5 DEF Written
      <4>2. x[j] = z + 2 /\ text[z + 2] = Mark(w)
        BY <3>2, <4>1 DEF UnitWritten
      <4>3. z = p + 1
        BY <1>4, <2>5
      <4> HIDE DEF z
      <4>4. z + 2 = p + 3
        BY <1>2, <4>3
      <4> QED BY <4>2, <4>4
    <3>4. C = Where(v, ":", a, e)
      BY <3>1 DEF Colons, S, e
    <3>5. D = Where(text, ":", x[j] + 1, x[e])
      <4>1. D = Where(text, ":", p + 3, x[e])
        BY <2>1, <2>3 DEF Colons
      <4> DEFINE b == x[e]
                 d == p + 3
      <4>2. b \in Nat /\ d \in Nat /\ text[d] # ":"
        <5>1. e \in 0..n
          BY <1>1, <2>2
        <5>2. b \in Nat
          BY <5>1 DEF Written
        <5> QED BY <1>2, <3>3, <5>2, MarkIs
      <4> HIDE DEF b, d
      <4>3. Where(text, ":", d, b) = Where(text, ":", d + 1, b)
        <5>1. ASSUME NEW c PROVE c \in Where(text, ":", d, b) <=> c \in Where(text, ":", d + 1, b)
          <6>1. c \in d..b /\ c # d <=> c \in d + 1..b
            BY <4>2
          <6> QED BY <4>2, <6>1 DEF Where
        <5> QED BY <5>1
      <4> QED BY <3>3, <4>1, <4>3 DEF b, d
    <3> HIDE DEF C, D, a, j
    <3> DEFINE c == Min(C)
    <3>6. /\ D = {} <=> C = {}
          /\ C # {} => c \in a..e /\ (\A z \in a..c - 1 : v[z] # ":") /\ Min(D) = x[c - 1] + 1
      <4>1. /\ Where(text, ":", x[a - 1] + 1, x[e]) = {} <=> Where(v, ":", a, e) = {}
            /\ Where(v, ":", a, e) # {} =>
                 /\ Min(Where(v, ":", a, e)) \in a..e
                 /\ \A z \in a..Min(Where(v, ":", a, e)) - 1 : v[z] # ":"
                 /\ Min(Where(text, ":", x[a - 1] + 1, x[e])) = x[Min(Where(v, ":", a, e)) - 1] + 1
        <5>1. a \in 1..Len(v) /\ e \in a..Len(v)
          BY <2>2, <3>1 DEF n
        <5>2. SameFirst(v, text, x, ":", a, e)
          BY <5>1, FirstWritten
        <5> QED BY <5>2 DEF SameFirst
      <4> QED BY <3>1, <3>4, <3>5, <4>1
    <3>7. HasCommand(text, p) <=> HasCommand(v, i)
      BY <2>6, <2>7, <3>6 DEF HasCommand, C, D
    <3>8. ASSUME HasCommand(v, i) PROVE Command(text, p) = <<Mark(w)>> \o Command(v, i)
      <4>1. C # {}
        BY <3>8 DEF HasCommand, C
      <4>2. c \in a..e /\ (\A z \in a..c - 1 : v[z] # ":") /\ Min(D) = x[c - 1] + 1
        BY <3>6, <4>1
      <4> HIDE DEF c
      <4>3. j \in 1..Len(v) /\ c \in j + 1..Len(v) /\ NoColon(v, j + 1, c - 1)
        <5>1. c \in a..n
          BY <2>5, <3>1, <4>2
        <5> QED BY <2>5, <4>2, <5>1 DEF a, NoColon
      <4>4. SubSeq(text, x[j], x[c - 1]) = <<Mark(w)>> \o SubSeq(v, j + 1, c - 1)
        <5>1. CommandIs(v, text, w, x, j, c)
          BY <3>2, <4>3, CommandWritten
        <5> QED BY <5>1 DEF CommandIs
      <4>5. Min(D) - 1 = x[c - 1]
        <5> DEFINE z == c - 1
        <5>1. z \in 0..n
          BY <2>5, <4>3
        <5> HIDE DEF z
        <5>2. x[z] \in Nat
          BY <5>1 DEF Written
        <5> QED BY <4>2, <5>2 DEF z
      <4>6. Command(text, p) = SubSeq(text, x[j], x[c - 1])
        BY <3>3, <4>5 DEF Command, D
      <4>7. Command(v, i) = SubSeq(v, j + 1, c - 1)
        <5>1. i + 3 = j + 1
          BY <3>1 DEF a
        <5> QED BY <5>1 DEF Command, C, c
      <4> QED BY <4>4, <4>6, <4>7
    <3> QED BY <2>1, <2>2, <2>3, <2>4, <3>7, <3>8 DEF j
  <2> QED BY <2>8, <2>9
<1>11. ASSUME S # {}
       PROVE  /\ e \in i..n /\ Min(Ends(text, p)) + 1 = x[e] + 1 /\ ~f[e].skip /\ ~f[e].tag
              /\ HasCommand(text, p) <=> HasCommand(v, i)
              /\ HasCommand(v, i) => Command(text, p) = <<Mark(w)>> \o Command(v, i)
  <2>1. e \in i..n
    BY <1>9, <1>11
  <2> QED BY <1>10, <1>11, <2>1
<1> QED BY <1>2, <1>8, <1>9, <1>11 DEF TagRead, S, e, p, y

\* Commands, marked; and two readings that are the same but for that.
Prefixed(w, C) == {<<Mark(w)>> \o c : c \in C}
SameReading(r, s, w) == r.shown = s.shown /\ r.commands = Prefixed(w, s.commands)

\* They stay so.
LEMMA ReadingsGoOn ==
  ASSUME NEW r \in Readings, NEW s \in Readings, NEW w, SameReading(r, s, w), NEW u, NEW c
  PROVE  /\ SameReading(Showing(r, u), Showing(s, u), w)
         /\ SameReading(WithCommand(r, <<Mark(w)>> \o c), WithCommand(s, c), w)
<1> DEFINE a == <<u>>
           d == <<Mark(w)>> \o c
<1> HIDE DEF a
<1>1. r.shown = s.shown /\ r.commands = Prefixed(w, s.commands)
  BY DEF SameReading
<1>2. SameReading([r EXCEPT !.shown = a \o @], [s EXCEPT !.shown = a \o @], w)
  <2> DEFINE p == [r EXCEPT !.shown = a \o @]
             q == [s EXCEPT !.shown = a \o @]
  <2>1. p.shown = a \o r.shown /\ p.commands = r.commands /\ q.shown = a \o s.shown /\ q.commands = s.commands
    BY DEF Readings
  <2> HIDE DEF p, q
  <2>2. SameReading(p, q, w)
    BY <1>1, <2>1 DEF SameReading
  <2> QED BY <2>2 DEF p, q
<1>3. Prefixed(w, s.commands \cup {c}) = Prefixed(w, s.commands) \cup {d}
  <2> DEFINE m == <<Mark(w)>>
  <2> HIDE DEF m
  <2>1. {m \o b : b \in s.commands \cup {c}} = {m \o b : b \in s.commands} \cup {m \o c}
    BY Zenon
  <2> QED BY <2>1 DEF Prefixed, m
<1> HIDE DEF d
<1>4. SameReading([r EXCEPT !.commands = @ \cup {d}], [s EXCEPT !.commands = @ \cup {c}], w)
  <2> DEFINE p == [r EXCEPT !.commands = @ \cup {d}]
             q == [s EXCEPT !.commands = @ \cup {c}]
  <2>1. p.shown = r.shown /\ p.commands = r.commands \cup {d} /\ q.shown = s.shown /\ q.commands = s.commands \cup {c}
    BY DEF Readings
  <2> HIDE DEF p, q
  <2>2. SameReading(p, q, w)
    BY <1>1, <1>3, <2>1 DEF SameReading
  <2> QED BY <2>2 DEF p, q
<1> QED BY <1>2, <1>4 DEF Showing, WithCommand, a, d

\* What append_sanitized() makes of a line is read as the line is, with its commands marked.
LEMMA LineIsRead ==
  ASSUME NEW v \in Seq(Line), NEW w \in 0..2
  PROVE  /\ SameReading(LemonbarReads(AppendSanitized(w, v)), LemonbarReads(v), w)
         /\ LemonbarReads(v) \in Readings
<1> DEFINE n == Len(v)
           text == AppendSanitized(w, v)
           l == Len(text)
<1>1. text \in Seq(Marked) /\ \E f, x : Written(f, x, v, text, w)
  BY LineIsWritten
<1>2. PICK f, x : Written(f, x, v, text, w)
  BY <1>1
<1> HIDE DEF text
<1>3. n \in Nat /\ l \in Nat /\ v \in Seq(Marked) /\ \A k \in 1..n : v[k] \in Marked
  BY <1>1 DEF Line, Marked
<1>4. PICK r \in [1..l + 1 -> Readings] : Reads(r, text) /\ LemonbarReads(text) = r[1]
  BY <1>1, ReadIsRecursive
<1>5. PICK s \in [1..n + 1 -> Readings] : Reads(s, v) /\ LemonbarReads(v) = s[1]
  BY <1>3, ReadIsRecursive
<1>6. x \in [0..n -> Nat] /\ x[0] = 0 /\ x[n] = l /\ f[0] = SanitizeStart
  BY <1>2 DEF Written, Sanitizes
<1>7. ASSUME NEW i \in 1..l PROVE ReadsOn(r[i], r, text, i)
  <2>1. r[i] = ReadStep(r, text, i)
    <3>1. i \in 1..l + 1
      BY <1>3
    <3> QED BY <1>4, <3>1 DEF Reads
  <2> QED BY <1>1, <2>1, ReadStepIs
<1>8. ASSUME NEW i \in 1..n PROVE ReadsOn(s[i], s, v, i)
  <2>1. s[i] = ReadStep(s, v, i)
    <3>1. i \in 1..n + 1
      BY <1>3
    <3> QED BY <1>5, <3>1 DEF Reads
  <2> QED BY <1>3, <2>1, ReadStepIs
<1>9. r[l + 1] = Nothing /\ s[n + 1] = Nothing
  <2>1. l + 1 \in 1..l + 1 /\ n + 1 \in 1..n + 1
    BY <1>3
  <2>2. r[l + 1] = ReadStep(r, text, l + 1) /\ s[n + 1] = ReadStep(s, v, n + 1)
    BY <1>4, <1>5, <2>1 DEF Reads
  <2>3. ReadStep(r, text, l + 1) = Nothing
    BY <1>1, ReadStepAtEnd
  <2>4. ReadStep(s, v, n + 1) = Nothing
    BY <1>3, ReadStepAtEnd
  <2> QED BY <2>2, <2>3, <2>4
<1>10. SameReading(Nothing, Nothing, w)
  <2>1. Prefixed(w, {}) = {}
    BY DEF Prefixed
  <2> QED BY <2>1 DEF SameReading, Nothing
<1>11. ASSUME NEW i \in 1..n, NEW k \in 1..n + 1
       PROVE  r[x[k - 1] + 1] \in Readings /\ s[k] \in Readings
  <2> DEFINE y == k - 1
  <2>1. y \in 0..n /\ n \in y..n
    BY <1>3
  <2> HIDE DEF y
  <2>2. x[y] \in Nat /\ x[y] <= l
    BY <1>1, <1>2, <2>1, WrittenGrows
  <2>3. x[y] + 1 \in 1..l + 1
    BY <1>3, <2>2
  <2> QED BY <1>4, <1>5, <2>3 DEF y
<1> DEFINE W == {i \in 1..n + 1 : ~f[i - 1].skip /\ ~f[i - 1].tag => SameReading(r[x[i - 1] + 1], s[i], w)}
<1>12. ASSUME NEW i \in 1..n + 1, \A j \in i + 1..n + 1 : j \in W PROVE i \in W
  <2> SUFFICES ASSUME ~f[i - 1].skip, ~f[i - 1].tag PROVE SameReading(r[x[i - 1] + 1], s[i], w)
    OBVIOUS
  <2> DEFINE p == x[i - 1] + 1
  <2>1. CASE i = n + 1
    <3>1. i - 1 = n
      BY <1>3, <2>1
    <3>2. p = l + 1
      BY <1>6, <3>1
    <3> QED BY <1>9, <1>10, <2>1, <3>2
  <2>2. CASE i # n + 1
    <3>1. i \in 1..n
      BY <1>3, <2>2
    <3>2. CASE TagAt(v, i)
      <4>1. TagRead(f, x, v, text, w, i, p) /\ p \in 1..l
        <5> HIDE DEF n, l
        <5> QED BY <1>1, <1>2, <3>1, <3>2, TagIsRead DEF n, l
      <4>2. ReadsOn(r[p], r, text, p) /\ ReadsOn(s[i], s, v, i)
        <5> HIDE DEF p
        <5> QED BY <1>7, <1>8, <3>1, <4>1
      <4> DEFINE a == r[p]
                 b == s[i]
      <4> HIDE DEF p, W
      <4>3. CASE Ends(v, i) = {}
        <5>1. a = Nothing /\ b = Nothing
          BY <3>2, <4>1, <4>2, <4>3 DEF TagRead, ReadsOn
        <5> QED BY <1>10, <5>1 DEF p
      <4>4. CASE Ends(v, i) # {}
        <5>1. PICK e \in i..n :
                /\ e = Min(Ends(v, i)) /\ Min(Ends(text, p)) + 1 = x[e] + 1 /\ ~f[e].skip /\ ~f[e].tag
                /\ HasCommand(text, p) <=> HasCommand(v, i)
                /\ HasCommand(v, i) => Command(text, p) = <<Mark(w)>> \o Command(v, i)
          BY <4>1, <4>4 DEF TagRead
        <5> DEFINE j == e + 1
        <5>2. j \in i + 1..n + 1 /\ j \in 1..n + 1 /\ j - 1 = e
          BY <1>3, <3>1
        <5> HIDE DEF j
        <5>3. j \in W
          BY <1>12, <5>2
        <5>4. SameReading(r[x[e] + 1], s[j], w)
          BY <5>1, <5>2, <5>3 DEF W
        <5>5. r[x[e] + 1] \in Readings /\ s[j] \in Readings
          BY <1>11, <3>1, <5>2
        <5> DEFINE y == r[x[e] + 1]
                   z == s[j]
        <5>6. CASE HasCommand(v, i)
          <6> DEFINE c == Command(v, i)
          <6>1. a = WithCommand(y, Command(text, p))
            BY <4>1, <4>2, <4>4, <5>1, <5>6 DEF TagRead, ReadsOn
          <6>2. b = WithCommand(z, c)
            BY <3>2, <4>2, <4>4, <5>1, <5>6 DEF ReadsOn, j
          <6>3. Command(text, p) = <<Mark(w)>> \o c
            BY <5>1, <5>6
          <6> HIDE DEF y, z, c
          <6>4. SameReading(WithCommand(y, <<Mark(w)>> \o c), WithCommand(z, c), w)
            BY <5>4, <5>5, ReadingsGoOn DEF y, z
          <6> QED BY <6>1, <6>2, <6>3, <6>4 DEF p
        <5>7. CASE ~HasCommand(v, i)
          <6>1. a = y
            BY <4>1, <4>2, <4>4, <5>1, <5>7 DEF TagRead, ReadsOn
          <6>2. b = z
            BY <3>2, <4>2, <4>4, <5>1, <5>7 DEF ReadsOn, j
          <6> QED BY <5>4, <6>1, <6>2 DEF p
        <5> QED BY <5>6, <5>7
      <4> QED BY <4>3, <4>4
    <3>3. CASE ~TagAt(v, i)
      <4>1. PICK j \in i + 1..n + 1 :
              /\ j = i + Size(v, i) /\ ~f[j - 1].skip /\ ~f[j - 1].tag
              /\ p \in 1..l /\ ~TagAt(text, p) /\ text[p] = v[i] /\ p + Size(text, p) = x[j - 1] + 1
        BY <1>1, <1>2, <3>1, <3>3, PlainIsRead
      <4>2. ReadsOn(r[p], r, text, p) /\ ReadsOn(s[i], s, v, i)
        <5> HIDE DEF p
        <5> QED BY <1>7, <1>8, <3>1, <4>1
      <4> DEFINE a == r[p]
                 b == s[i]
                 y == r[x[j - 1] + 1]
                 z == s[j]
      <4> HIDE DEF p, W
      <4>3. a = Showing(y, v[i])
        BY <4>1, <4>2 DEF ReadsOn
      <4>4. b = Showing(z, v[i])
        BY <3>3, <4>1, <4>2 DEF ReadsOn
      <4>5. SameReading(y, z, w)
        <5>1. j \in W
          BY <1>12
        <5> QED BY <4>1, <5>1 DEF W
      <4>6. y \in Readings /\ z \in Readings
        <5>1. j \in 1..n + 1
          BY <1>3, <3>1
        <5> QED BY <1>11, <3>1, <5>1
      <4> HIDE DEF y, z
      <4>7. SameReading(Showing(y, v[i]), Showing(z, v[i]), w)
        BY <4>5, <4>6, ReadingsGoOn
      <4> QED BY <4>3, <4>4, <4>7 DEF p
    <3> QED BY <3>2, <3>3
  <2> QED BY <2>1, <2>2
<1>13. 1 \in W
  <2>1. n + 1 \in Nat /\ 1 \in 1..n + 1
    BY <1>3
  <2> HIDE DEF W, n
  <2>2. 1..n + 1 \subseteq W
    BY <1>12, <2>1, BackwardInduction
  <2> QED BY <2>1, <2>2
<1>14. SameReading(r[1], s[1], w)
  <2>1. 1 - 1 = 0 /\ x[1 - 1] + 1 = 1
    BY <1>6
  <2>2. ~f[0].skip /\ ~f[0].tag
    BY <1>6 DEF SanitizeStart
  <2> QED BY <1>13, <2>1, <2>2
<1>15. s[1] \in Readings
  BY <1>3
<1> QED BY <1>4, <1>5, <1>14, <1>15 DEF text

\* A command that has a mark is its widget's.
LEMMA MarkIsParsed ==
  ASSUME NEW w \in 0..2, NEW c \in Seq(Marked)
  PROVE  ParseCommand(<<Mark(w)>> \o c) = [widget |-> w, what |-> c]
<1> DEFINE m == <<Mark(w)>>
           d == m \o c
           a == Mark(w)
<1>1. m \in Seq(Marked) /\ Len(m) = 1 /\ m[1] = a
  BY MarkIs
<1>2. d \in Seq(Marked) /\ d # <<>> /\ Head(d) = a /\ Tail(d) = c
  <2> HIDE DEF m
  <2> DEFINE l == Len(c)
  <2>1. l \in Nat
    OBVIOUS
  <2>2. d \in Seq(Marked) /\ Len(d) = 1 + l /\ \A k \in 1..1 + l : d[k] = IF k <= 1 THEN m[k] ELSE c[k - 1]
    <3> DEFINE r == Len(m)
    <3> HIDE DEF r, l
    <3>1. d \in Seq(Marked) /\ Len(d) = r + l /\ \A k \in 1..r + l : d[k] = IF k <= r THEN m[k] ELSE c[k - r]
      BY <1>1, ConcatProperties DEF r, l
    <3> HIDE DEF d
    <3> QED BY <1>1, <3>1 DEF r
  <2> HIDE DEF d
  <2>3. d # <<>> /\ Head(d) = d[1] /\ d[1] = m[1]
    BY <2>1, <2>2
  <2>4. Tail(d) \in Seq(Marked) /\ Len(Tail(d)) = l /\ \A k \in 1..l : Tail(d)[k] = d[k + 1]
    BY <2>1, <2>2, <2>3
  <2>5. ASSUME NEW k \in 1..l PROVE Tail(d)[k] = c[k]
    <3> DEFINE z == k + 1
    <3>1. z \in 1..1 + l /\ ~(z <= 1) /\ z - 1 = k
      BY <2>1
    <3> HIDE DEF z, l
    <3>2. d[z] = c[z - 1]
      BY <2>2, <3>1
    <3> QED BY <2>4, <3>1, <3>2 DEF z
  <2>6. Tail(d) = c
    <3> DEFINE t == Tail(d)
    <3> HIDE DEF t
    <3>1. t \in Seq(Marked) /\ Len(t) = Len(c) /\ \A k \in 1..Len(c) : t[k] = c[k]
      BY <2>4, <2>5 DEF t, l
    <3>2. t = c
      BY <3>1, SeqEqual
    <3> QED BY <3>2 DEF t
  <2> QED BY <1>1, <2>2, <2>3, <2>6
<1>3. \A z \in 0..2 : a = Mark(z) => z = w
  <2>1. (w = 0 \/ w = 1 \/ w = 2) /\ Mark(0) = "0_" /\ Mark(1) = "1_" /\ Mark(2) = "2_"
    BY DEF Mark
  <2>2. \A z \in 0..2 : z = 0 \/ z = 1 \/ z = 2
    OBVIOUS
  <2> QED BY <2>1, <2>2
<1> HIDE DEF d, a, m
<1>4. (CHOOSE z \in 0..2 : Head(d) = Mark(z)) = w
  BY <1>2, <1>3 DEF a
<1>5. ParseCommand(d) = [widget |-> CHOOSE z \in 0..2 : Head(d) = Mark(z), what |-> Tail(d)]
  BY <1>2 DEF ParseCommand, a
<1> QED BY <1>2, <1>4, <1>5 DEF d, m

\* What is drawn on the bar is what the widget wrote, escaped or not, after append_sanitized().
BeDrawn ==
  \/ beBar = [by |-> -1, raw |-> <<>>, escaped |-> FALSE, text |-> <<>>]
  \/ /\ beBar.by \in 0..2 /\ beBar.raw \in Seq(Units) /\ beBar.escaped \in BOOLEAN
     /\ beBar.text = AppendSanitized(beBar.by, IF beBar.escaped THEN Escape(beBar.raw) ELSE beBar.raw)

\* It stays so: only set() draws.
LEMMA OnlySetDraws ==
  ASSUME BeDrawn, [BeNext]_bevars
  PROVE  BeDrawn'
<1>1. CASE LemonbarSet
  <2>1. PICK w \in BeTargets, escaped \in BOOLEAN, raw \in BoundedSeq(Units, BeMaxText) :
          beBar' = [by |-> w, raw |-> raw, escaped |-> escaped,
                    text |-> AppendSanitized(w, IF escaped THEN Escape(raw) ELSE raw)]
    BY <1>1 DEF LemonbarSet
  <2> DEFINE t == AppendSanitized(w, IF escaped THEN Escape(raw) ELSE raw)
  <2>2. w \in 0..2
    BY BeAssumption DEF BeTargets
  <2>3. raw \in Seq(Units)
    BY DEF BoundedSeq, SeqOf
  <2>4. t = AppendSanitized(w, IF escaped THEN Escape(raw) ELSE raw)
    OBVIOUS
  <2>5. beBar' = [by |-> w, raw |-> raw, escaped |-> escaped, text |-> t]
    BY <2>1
  <2> HIDE DEF t
  <2>6. beBar'.by = w /\ beBar'.raw = raw /\ beBar'.escaped = escaped /\ beBar'.text = t
    BY <2>5
  <2> QED BY <2>2, <2>3, <2>4, <2>6 DEF BeDrawn
<1>2. CASE UNCHANGED beBar
  BY <1>2 DEF BeDrawn
<1>3. LemonbarSet \/ UNCHANGED beBar
  <2>1. ASSUME NEW t, NEW g, Parse(t, g) PROVE UNCHANGED beBar
    BY <2>1, Zenon DEF Parse
  <2>2. ParseOpen \/ ParseScalar \/ ParseKey \/ ParseClose => UNCHANGED beBar
    BY <2>1, Zenon DEF ParseOpen, ParseScalar, ParseKey, ParseClose
  <2>3. InputEnds \/ LemonbarLine \/ StdoutLine \/ StdoutCall => UNCHANGED beBar
    BY Zenon DEF InputEnds, LemonbarLine, StdoutLine, StdoutCall
  <2> QED BY <2>2, <2>3, Zenon DEF BeNext, bevars
<1> QED BY <1>1, <1>2, <1>3

\* The commands of the text are the widget's, and what they are in the line.
LEMMA CommandsAre ==
  ASSUME NEW w \in 0..2, NEW C \in SUBSET Seq(Marked)
  PROVE  {ParseCommand(d) : d \in Prefixed(w, C)} = {[widget |-> w, what |-> c] : c \in C}
<1>1. ASSUME NEW c \in C PROVE ParseCommand(<<Mark(w)>> \o c) = [widget |-> w, what |-> c]
  BY MarkIsParsed
<1> DEFINE m == <<Mark(w)>>
<1> HIDE DEF m
<1>2. {ParseCommand(d) : d \in {m \o c : c \in C}} = {ParseCommand(m \o c) : c \in C}
  BY Zenon
<1>3. {ParseCommand(m \o c) : c \in C} = {[widget |-> w, what |-> c] : c \in C}
  <2>1. \A c \in C : ParseCommand(m \o c) = [widget |-> w, what |-> c]
    BY <1>1 DEF m
  <2> QED BY <2>1, Zenon
<1> QED BY <1>2, <1>3 DEF Prefixed, m

\* What is drawn is read back so.
LEMMA DrawnIsRead ==
  ASSUME BeDrawn PROVE TagsComeBack
<1> DEFINE raw == beBar.raw
           line == NoNewlines(raw)
           text == beBar.text
           meant == LemonbarReads(IF beBar.escaped THEN Escape(line) ELSE line)
           read == LemonbarReads(text)
           Holds == /\ read.shown = meant.shown
                    /\ {ParseCommand(c) : c \in read.commands} = {[widget |-> beBar.by, what |-> c] : c \in meant.commands}
                    /\ beBar.escaped => read = [shown |-> line, commands |-> {}]
<1>1. ASSUME NEW src \in Seq(Units)
      PROVE  NoNewlines(src) \in Seq(Line) /\ (src = <<>> => NoNewlines(src) = <<>>)
  <2>1. PICK h \in [0..Len(src) -> Seq(Line)] :
          GrowsBy(h, Len(src), [k \in 1..Len(src) |-> DropUnit(src[k])], Line) /\ NoNewlines(src) = h[Len(src)]
    BY DropIsRecursive
  <2>2. Len(src) \in 0..Len(src) /\ (src = <<>> => Len(src) = 0) /\ h[0] = <<>>
    BY <2>1 DEF GrowsBy
  <2> QED BY <2>1, <2>2
<1>2. CASE beBar = [by |-> -1, raw |-> <<>>, escaped |-> FALSE, text |-> <<>>]
  <2>1. <<>> \in Seq(Units) /\ raw = <<>> /\ text = <<>> /\ beBar.by = -1 /\ ~beBar.escaped
    BY <1>2
  <2>2. line = <<>>
    BY <1>1, <2>1
  <2>3. LemonbarReads(<<>>).commands = {}
    <3>1. <<>> \in Seq(Marked) /\ Len(<<>>) + 1 = 1 /\ 1 \in 1..Len(<<>>) + 1 /\ 1 = Len(<<>>) + 1
      OBVIOUS
    <3> DEFINE z == <<>>
    <3>2. z \in Seq(Marked) /\ 1 \in 1..Len(z) + 1 /\ 1 = Len(z) + 1
      BY <3>1
    <3> HIDE DEF z
    <3>3. PICK r \in [1..Len(z) + 1 -> Readings] : Reads(r, z) /\ LemonbarReads(z) = r[1]
      BY <3>2, ReadIsRecursive
    <3>4. r[1] = ReadStep(r, z, 1)
      BY <3>2, <3>3 DEF Reads
    <3>5. ReadStep(r, z, 1) = Nothing
      BY <3>2, ReadStepAtEnd
    <3> QED BY <3>3, <3>4, <3>5 DEF Nothing, z
  <2>4. read = LemonbarReads(<<>>) /\ meant = LemonbarReads(<<>>)
    BY <2>1, <2>2
  <2> HIDE DEF read, meant, line, text
  <2>5. {ParseCommand(c) : c \in read.commands} = {} /\ {[widget |-> beBar.by, what |-> c] : c \in meant.commands} = {}
    BY <2>3, <2>4
  <2>6. Holds
    BY <2>1, <2>4, <2>5
  <2> QED BY <2>6 DEF TagsComeBack, read, meant, line, text
<1>3. ASSUME beBar.by \in 0..2, raw \in Seq(Units), beBar.escaped, text = AppendSanitized(beBar.by, Escape(raw))
      PROVE  Holds
  <2>1. line \in Seq(Line) /\ line \in Seq(Units)
    <3>1. line \in Seq(Line)
      BY <1>1, <1>3
    <3> HIDE DEF line
    <3> QED BY <3>1 DEF Line
  <2>2. text = Escape(line)
    BY <1>3, EscapedHasNoTags
  <2>3. LemonbarReads(Escape(line)) = [shown |-> line, commands |-> {}]
    <3> HIDE DEF line
    <3> QED BY <2>1, EscapedIsRead
  <2>4. read = [shown |-> line, commands |-> {}] /\ meant = [shown |-> line, commands |-> {}]
    BY <1>3, <2>2, <2>3
  <2> HIDE DEF read, meant, line, text
  <2>5. read.commands = {} /\ meant.commands = {} /\ read.shown = meant.shown
    BY <2>4
  <2>6. {ParseCommand(c) : c \in read.commands} = {} /\ {[widget |-> beBar.by, what |-> c] : c \in meant.commands} = {}
    BY <2>5
  <2> QED BY <2>4, <2>5, <2>6
<1>4. ASSUME beBar.by \in 0..2, raw \in Seq(Units), ~beBar.escaped, text = AppendSanitized(beBar.by, raw), ~Split(raw)
      PROVE  Holds
  <2> DEFINE w == beBar.by
  <2>1. line \in Seq(Line)
    BY <1>1, <1>4
  <2>2. text = AppendSanitized(w, line)
    BY <1>4, NewlinesDoNothing
  <2>3. SameReading(LemonbarReads(AppendSanitized(w, line)), LemonbarReads(line), w) /\ LemonbarReads(line) \in Readings
    <3> HIDE DEF line, w
    <3>1. w \in 0..2
      BY <1>4 DEF w
    <3> QED BY <2>1, <3>1, LineIsRead
  <2>4. meant = LemonbarReads(line)
    BY <1>4
  <2>5. SameReading(read, meant, w) /\ meant \in Readings
    BY <2>2, <2>3, <2>4
  <2> HIDE DEF read, meant, line, text
  <2> DEFINE C == meant.commands
  <2>6. read.shown = meant.shown /\ read.commands = Prefixed(w, C) /\ C \in SUBSET Seq(Marked)
    BY <2>5 DEF SameReading, Readings
  <2> HIDE DEF C
  <2>7. {ParseCommand(d) : d \in Prefixed(w, C)} = {[widget |-> w, what |-> c] : c \in C}
    BY <1>4, <2>6, CommandsAre
  <2> QED BY <1>4, <2>6, <2>7 DEF C
<1>5. CASE /\ beBar.by \in 0..2 /\ raw \in Seq(Units) /\ beBar.escaped \in BOOLEAN
           /\ text = AppendSanitized(beBar.by, IF beBar.escaped THEN Escape(raw) ELSE raw)
  <2>1. ~Split(raw) => Holds
    <3>1. CASE beBar.escaped
      <4>1. text = AppendSanitized(beBar.by, Escape(raw))
        BY <1>5, <3>1
      <4> HIDE DEF Holds, text, raw
      <4> QED BY <1>3, <1>5, <3>1, <4>1
    <3>2. CASE ~beBar.escaped
      <4>1. text = AppendSanitized(beBar.by, raw)
        BY <1>5, <3>2
      <4> HIDE DEF Holds, text, raw
      <4> QED BY <1>4, <1>5, <3>2, <4>1
    <3> QED BY <3>1, <3>2
  <2> QED BY <2>1 DEF TagsComeBack
<1> QED BY <1>2, <1>5 DEF BeDrawn

\* For every number of widgets and every length of their markup: what a widget draws on lemonbar is
\* shown as it wrote it, and the commands of its tags come back to it alone; what is escaped has none.
THEOREM TagsAreRead == BeSpec => []TagsComeBack
<1>1. BeInit => BeDrawn
  BY DEF BeInit, BeStart, BeDrawn
<1>2. BeDrawn /\ [BeNext]_bevars => BeDrawn'
  BY OnlySetDraws
<1>3. BeDrawn => TagsComeBack
  BY DrawnIsRead
<1> QED BY <1>1, <1>2, <1>3, PTL DEF BeSpec

-----------------------------------------------------------------------------
(* urlencode() and urldecode().                                            *)

\* What urlencode() has of the first characters, one more each time.
UrlCharSet == ToSet(UrlChars)
Encodes(f, src, plus) ==
  f[0] = <<>> /\ \A k \in 1..Len(src) : f[k] = f[k - 1] \o UrlencodeChar(src[k], plus)

\* The characters, one by one.
LEMMA UrlCharSetIs == UrlCharSet = {"0", "1", "2", "%", "+", "space", "letter", "/", "newline"}
<1>1. DOMAIN UrlChars = 1..9
  BY DEF UrlChars
<1>2. \A i \in 1..9 : i = 1 \/ i = 2 \/ i = 3 \/ i = 4 \/ i = 5 \/ i = 6 \/ i = 7 \/ i = 8 \/ i = 9
  OBVIOUS
<1>3. /\ UrlChars[1] = "0" /\ UrlChars[2] = "1" /\ UrlChars[3] = "2" /\ UrlChars[4] = "%"
      /\ UrlChars[5] = "+" /\ UrlChars[6] = "space" /\ UrlChars[7] = "letter" /\ UrlChars[8] = "/"
      /\ UrlChars[9] = "newline"
  BY DEF UrlChars
<1>4. UrlCharSet = {UrlChars[i] : i \in 1..9}
  BY <1>1 DEF UrlCharSet, ToSet
<1> HIDE DEF UrlCharSet
<1>5. \A c : c \in {UrlChars[i] : i \in 1..9} <=>
        c \in {"0", "1", "2", "%", "+", "space", "letter", "/", "newline"}
  <2> TAKE c
  <2>1. c \in {UrlChars[i] : i \in 1..9} =>
          c \in {"0", "1", "2", "%", "+", "space", "letter", "/", "newline"}
    <3> SUFFICES ASSUME NEW i \in 1..9, c = UrlChars[i]
                 PROVE  c \in {"0", "1", "2", "%", "+", "space", "letter", "/", "newline"}
      OBVIOUS
    <3> DEFINE Names == {"0", "1", "2", "%", "+", "space", "letter", "/", "newline"}
    <3>1. /\ UrlChars[1] \in Names /\ UrlChars[2] \in Names /\ UrlChars[3] \in Names
          /\ UrlChars[4] \in Names /\ UrlChars[5] \in Names /\ UrlChars[6] \in Names
          /\ UrlChars[7] \in Names /\ UrlChars[8] \in Names /\ UrlChars[9] \in Names
      BY <1>3
    <3> HIDE DEF Names
    <3>2. UrlChars[i] \in Names
      BY <1>2, <3>1
    <3> QED BY <3>2 DEF Names
  <2>2. c \in {"0", "1", "2", "%", "+", "space", "letter", "/", "newline"} =>
          c \in {UrlChars[i] : i \in 1..9}
    <3>1. /\ 1 \in 1..9 /\ 2 \in 1..9 /\ 3 \in 1..9 /\ 4 \in 1..9 /\ 5 \in 1..9 /\ 6 \in 1..9
          /\ 7 \in 1..9 /\ 8 \in 1..9 /\ 9 \in 1..9
      OBVIOUS
    <3> QED BY <1>3, <3>1
  <2> QED BY <2>1, <2>2
<1> QED BY <1>4, <1>5

\* The digits, and what each is worth.
LEMMA DigitsAre ==
  /\ \A q \in 0..2 : IsDigit(Digits[q + 1]) /\ Value(Digits[q + 1]) = q
  /\ \A c : IsDigit(c) <=> c \in {"0", "1", "2"}
<1>1. DOMAIN Digits = 1..3 /\ Digits[1] = "0" /\ Digits[2] = "1" /\ Digits[3] = "2"
  BY DEF Digits
<1>2. ToSet(Digits) = {Digits[i] : i \in 1..3}
  BY <1>1 DEF ToSet
<1>3. \A c : c \in {Digits[i] : i \in 1..3} <=> c \in {"0", "1", "2"}
  <2>1. \A i \in 1..3 : i = 1 \/ i = 2 \/ i = 3
    OBVIOUS
  <2>2. 1 \in 1..3 /\ 2 \in 1..3 /\ 3 \in 1..3
    OBVIOUS
  <2>3. \A i \in 1..3 : Digits[i] \in {"0", "1", "2"}
    BY <1>1, <2>1
  <2>4. \A c : c \in {"0", "1", "2"} => c \in {Digits[i] : i \in 1..3}
    BY <1>1, <2>2
  <2> QED BY <2>3, <2>4
<1>4. \A c : IsDigit(c) <=> c \in {"0", "1", "2"}
  BY <1>2, <1>3 DEF IsDigit
<1>5. \A q \in 0..2 : IsDigit(Digits[q + 1])
  <2>1. \A q \in 0..2 : q + 1 \in 1..3
    OBVIOUS
  <2> QED BY <1>2, <2>1 DEF IsDigit
<1>6. ASSUME NEW q \in 0..2 PROVE Value(Digits[q + 1]) = q
  <2> DEFINE k == CHOOSE k \in 1..CdBase : Digits[k] = Digits[q + 1]
  <2>1. CdBase = 3 /\ q + 1 \in 1..3
    BY DEF CdBase
  <2>2. k \in 1..3 /\ Digits[k] = Digits[q + 1]
    BY <2>1
  <2>3. \A i, j \in 1..3 : Digits[i] = Digits[j] => i = j
    <3>1. \A i \in 1..3 : i = 1 \/ i = 2 \/ i = 3
      OBVIOUS
    <3>2. "0" # "1" /\ "0" # "2" /\ "1" # "2"
      OBVIOUS
    <3> HIDE DEF k
    <3> QED BY <1>1, <3>1, <3>2
  <2>4. k = q + 1
    <3> HIDE DEF k
    <3> QED BY <2>1, <2>2, <2>3
  <2> HIDE DEF k
  <2>5. k - 1 = q
    BY <2>1, <2>4
  <2> QED BY <2>5 DEF Value, k
<1> QED BY <1>4, <1>5, <1>6

\* A character's code, in two digits, is read back as the character.
High(c) == Digits[(CodeOf(c) \div CdBase) + 1]
Low(c) == Digits[(CodeOf(c) % CdBase) + 1]

\* The digits of a code are its character.
LEMMA CodeComesBack ==
  ASSUME NEW c \in UrlCharSet
  PROVE  /\ IsDigit(High(c)) /\ IsDigit(Low(c))
         /\ UrlChars[Value(High(c)) * CdBase + Value(Low(c)) + 1] = c
<1> DEFINE k == CHOOSE k \in DOMAIN UrlChars : UrlChars[k] = c
<1>1. DOMAIN UrlChars = 1..9
  BY DEF UrlChars
<1>2. k \in 1..9 /\ UrlChars[k] = c
  <2>1. \E i \in 1..9 : UrlChars[i] = c
    BY <1>1 DEF UrlCharSet, ToSet
  <2> QED BY <1>1, <2>1
<1>3. CodeOf(c) = k - 1
  BY DEF CodeOf
<1> HIDE DEF k
<1> DEFINE q == CodeOf(c) \div 3
           r == CodeOf(c) % 3
<1>4. q \in 0..2 /\ r \in 0..2 /\ q * 3 + r + 1 = k
  <2>1. CodeOf(c) \in 0..8 /\ CodeOf(c) + 1 = k
    BY <1>2, <1>3
  <2> DEFINE x == CodeOf(c)
  <2> HIDE DEF x
  <2>2. x \in 0..8
    BY <2>1 DEF x
  <2>3. x \div 3 \in 0..2 /\ x % 3 \in 0..2 /\ (x \div 3) * 3 + (x % 3) = x
    BY <2>2
  <2>4. x + 1 = k /\ x \in Nat
    BY <2>1 DEF x
  <2>5. q = x \div 3 /\ r = x % 3
    BY DEF x
  <2> HIDE DEF q, r
  <2> QED BY <2>3, <2>4, <2>5
<1>5. High(c) = Digits[q + 1] /\ Low(c) = Digits[r + 1]
  BY DEF High, Low, CdBase
<1> HIDE DEF q, r
<1>6. /\ IsDigit(Digits[q + 1]) /\ IsDigit(Digits[r + 1])
      /\ Value(Digits[q + 1]) = q /\ Value(Digits[r + 1]) = r
  BY <1>4, DigitsAre
<1> QED BY <1>2, <1>4, <1>5, <1>6 DEF CdBase

\* What a character becomes.
Escapes(c, plus) == ~(plus /\ c = "space") /\ ShouldBeEscaped(c)

\* What it is written as: its code after a "%", or one that is neither "%" nor "+", but for a space.
LEMMA CharIs ==
  ASSUME NEW c \in UrlCharSet, NEW plus \in BOOLEAN
  PROVE  /\ UrlencodeChar(c, plus) \in Seq(UrlCharSet)
         /\ Escapes(c, plus) => UrlencodeChar(c, plus) = <<"%", High(c), Low(c)>>
         /\ ~Escapes(c, plus) => /\ UrlencodeChar(c, plus) = <<IF plus /\ c = "space" THEN "+" ELSE c>>
                                 /\ c \notin {"%", "+"} 
<1>1. UrlencodeChar(c, plus) = IF Escapes(c, plus) THEN <<"%", High(c), Low(c)>>
                               ELSE <<IF plus /\ c = "space" THEN "+" ELSE c>>
  BY DEF UrlencodeChar, Escapes, High, Low
<1>2. High(c) \in UrlCharSet /\ Low(c) \in UrlCharSet /\ "%" \in UrlCharSet /\ "+" \in UrlCharSet
  BY CodeComesBack, DigitsAre, UrlCharSetIs
<1>3. <<"%", High(c), Low(c)>> \in Seq(UrlCharSet) /\ <<"+">> \in Seq(UrlCharSet) /\ <<c>> \in Seq(UrlCharSet)
  BY <1>2
<1>4. ~Escapes(c, plus) => c \notin {"%", "+"}
  BY DigitsAre DEF Escapes, ShouldBeEscaped
<1> QED BY <1>1, <1>3, <1>4

\* urlencode() goes from character to character.
LEMMA UrlencodeIsRecursive ==
  ASSUME NEW src \in Seq(UrlCharSet), NEW plus \in BOOLEAN
  PROVE  \E f \in [0..Len(src) -> Seq(UrlCharSet)] :
           Encodes(f, src, plus) /\ Urlencode(src, plus) = f[Len(src)]
<1> DEFINE n == Len(src)
           V == Seq(UrlCharSet)
           step == [k \in 1..n |-> [v \in V |-> v \o UrlencodeChar(src[k], plus)]]
           Is(g) == g = [s \in SUBSET (1..n) |->
                           IF s = {} THEN <<>> ELSE g[s \ {Max(s)}] \o UrlencodeChar(src[Max(s)], plus)]
           g == CHOOSE g : Is(g)
           f == [k \in 0..n |-> g[1..k]]
<1>1. n \in Nat /\ DOMAIN src = 1..n /\ \A k \in 1..n : UrlencodeChar(src[k], plus) \in V
  <2>1. \A k \in 1..n : src[k] \in UrlCharSet
    OBVIOUS
  <2>2. ASSUME NEW k \in 1..n PROVE UrlencodeChar(src[k], plus) \in V
    <3> DEFINE c == src[k]
    <3>1. c \in UrlCharSet
      BY <2>1
    <3> HIDE DEF c
    <3>2. UrlencodeChar(c, plus) \in Seq(UrlCharSet)
      BY <3>1, CharIs
    <3> QED BY <3>2 DEF c
  <2> QED BY <2>2
<1>2. \E h : Is(h)
  <2>1. <<>> \in V /\ step \in [1..n -> [V -> V]]
    <3>1. \A k \in 1..n, v \in V : v \o UrlencodeChar(src[k], plus) \in V
      BY <1>1
    <3> HIDE DEF V
    <3>2. \A k \in 1..n : [v \in V |-> v \o UrlencodeChar(src[k], plus)] \in [V -> V]
      BY <3>1
    <3>3. <<>> \in V
      BY DEF V
    <3> QED BY <3>2, <3>3
  <2>2. PICK h \in [SUBSET (1..n) -> V] : FoldsSets(h, n, <<>>, step)
    <3> HIDE DEF V, n, step
    <3> QED BY <1>1, <2>1, FoldExists
  <2>3. ASSUME NEW s \in SUBSET (1..n), s # {}
        PROVE  h[s] = h[s \ {Max(s)}] \o UrlencodeChar(src[Max(s)], plus)
    <3>1. Max(s) \in 1..n /\ s \ {Max(s)} \in SUBSET (1..n)
      BY <1>1, <2>3, MaxOfSome
    <3>2. h[s \ {Max(s)}] \in V
      BY <3>1
    <3>3. h[s] = step[Max(s)][h[s \ {Max(s)}]]
      BY <2>2, <2>3 DEF FoldsSets
    <3> HIDE DEF V
    <3> QED BY <3>1, <3>2, <3>3
  <2>4. h[{}] = <<>>
    BY <2>2 DEF FoldsSets
  <2>5. Is(h)
    <3> HIDE DEF V, n
    <3>1. \A s \in SUBSET (1..n) : h[s] = IF s = {} THEN <<>> ELSE h[s \ {Max(s)}] \o UrlencodeChar(src[Max(s)], plus)
      BY <2>3, <2>4
    <3> QED BY <3>1
  <2> QED BY <2>5
<1>3. Is(g)
  <2> HIDE DEF Is
  <2> QED BY <1>2
<1>4. Urlencode(src, plus) = g[1..n]
  BY <1>1 DEF Urlencode, FoldLeft, MapThenFoldSet
<1> HIDE DEF g
<1>5. f[0] = <<>>
  <2>1. 1..0 = {} /\ {} \in SUBSET (1..n) /\ 0 \in 0..n
    BY <1>1
  <2>2. g[{}] = <<>>
    BY <1>3, <2>1
  <2> QED BY <2>1, <2>2
<1>6. ASSUME NEW k \in 1..n PROVE f[k] = f[k - 1] \o UrlencodeChar(src[k], plus)
  <2>1. 1..k \in SUBSET (1..n) /\ k \in 0..n /\ k - 1 \in 0..n /\ k \in Nat /\ k >= 1
    BY <1>1
  <2>2. Max(1..k) = k /\ (1..k) \ {Max(1..k)} = 1..k - 1 /\ 1..k # {}
    BY <2>1, MaxOfInterval
  <2>3. g[1..k] = g[(1..k) \ {Max(1..k)}] \o UrlencodeChar(src[Max(1..k)], plus)
    BY <1>3, <2>1, <2>2
  <2>4. g[1..k] = g[1..k - 1] \o UrlencodeChar(src[k], plus)
    BY <2>2, <2>3
  <2> QED BY <2>1, <2>4
<1> HIDE DEF f
<1>7. \A k \in 0..n : f[k] \in V
  <2>1. f[0] \in V
    BY <1>5
  <2>2. \A k \in 1..n : f[k - 1] \in V => f[k] \in V
    <3>1. \A k \in 1..n : f[k - 1] \in V => f[k - 1] \o UrlencodeChar(src[k], plus) \in V
      <4> HIDE DEF n
      <4> QED BY <1>1
    <3> HIDE DEF V, n
    <3> QED BY <1>6, <3>1
  <2> HIDE DEF V, n
  <2> QED BY <1>1, <2>1, <2>2, AllAlong
<1>8. f \in [0..n -> V] /\ Urlencode(src, plus) = f[n]
  <2>1. n \in 0..n /\ f = [k \in 0..n |-> g[1..k]]
    BY <1>1 DEF f
  <2> HIDE DEF V, n
  <2> QED BY <1>4, <1>7, <2>1
<1>9. Encodes(f, src, plus)
  BY <1>5, <1>6 DEF Encodes
<1> QED BY <1>8, <1>9

\* A sum modulo 2^n: what is less than its last summand did not fit.
LEMMA SumOfSizes ==
  ASSUME NEW m \in Nat, NEW r \in 0..m, NEW c \in Nat
  PROVE  /\ (r + c) % (m + 1) \in 0..m
         /\ r + c <= m => (r + c) % (m + 1) = r + c
         /\ r + c > m => (r + c) % (m + 1) < c
<1> DEFINE x == r + c
           d == m + 1
           q == x \div d
           y == x % d
<1>1. x \in Nat /\ d \in Nat /\ d > 0
  OBVIOUS
<1>2. y \in 0..m /\ q \in Int /\ x = d * q + y
  <2> HIDE DEF x
  <2>1. \A a \in Int, b \in Int : b > 0 => a % b \in 0..b - 1 /\ a \div b \in Int /\ a = b * (a \div b) + (a % b)
    OBVIOUS
  <2> QED BY <1>1, <2>1
<1> HIDE DEF x, q, y, d
<1>3. x <= m => q = 0
  <2>1. q >= 1 => d * q >= d
    BY <1>1, <1>2
  <2>2. q <= -1 => d * q <= -d
    BY <1>1, <1>2
  <2> QED BY <1>1, <1>2, <2>1, <2>2 DEF d
<1>4. x > m => q >= 1
  <2>1. q <= 0 => d * q <= 0
    BY <1>1, <1>2
  <2> QED BY <1>1, <1>2, <2>1
<1>5. x <= m => y = x
  BY <1>1, <1>2, <1>3
<1>6. ASSUME x > m PROVE y < c
  <2>1. d * q >= d
    BY <1>1, <1>2, <1>4, <1>6
  <2>2. d * q \in Int
    BY <1>1, <1>2
  <2> QED BY <1>1, <1>2, <2>1, <2>2 DEF x, d
<1> QED BY <1>2, <1>5, <1>6 DEF x, y, d

\* One step of urlencode_size(), and all of them.
SizeStep(res, summand) ==
  IF res = -1 \/ (res + summand) % (CdSizeMax + 1) < summand THEN -1
  ELSE (res + summand) % (CdSizeMax + 1)
SizesUp(f, src, plus) ==
  f[0] = 0 /\ \A k \in 1..Len(src) : f[k] = SizeStep(f[k - 1], Len(UrlencodeChar(src[k], plus)))

\* The bounds are numbers.
LEMMA CdNat == CdMaxText \in Nat /\ CdIntMax \in Nat /\ CdSizeMax \in Nat /\ CdMaxDepth \in Nat
BY CdAssumption

\* urlencode_size() goes from character to character.
LEMMA SizeIsRecursive ==
  ASSUME NEW src \in Seq(UrlCharSet), NEW plus \in BOOLEAN
  PROVE  \E f \in [0..Len(src) -> {-1} \cup 0..CdSizeMax] :
           SizesUp(f, src, plus) /\ UrlencodeSize(src, plus) = f[Len(src)]
<1> DEFINE n == Len(src)
           V == {-1} \cup 0..CdSizeMax
           step == [k \in 1..n |-> [v \in V |-> SizeStep(v, Len(UrlencodeChar(src[k], plus)))]]
           Is(g) == g = [s \in SUBSET (1..n) |->
                           IF s = {} THEN 0 ELSE SizeStep(g[s \ {Max(s)}], Len(UrlencodeChar(src[Max(s)], plus)))]
           g == CHOOSE g : Is(g)
           f == [k \in 0..n |-> g[1..k]]
<1>1. n \in Nat
  OBVIOUS
<1>2. 0 \in V /\ \A k \in 1..n, v \in V : SizeStep(v, Len(UrlencodeChar(src[k], plus))) \in V
  <2>1. \A k \in 1..n : src[k] \in UrlCharSet
    OBVIOUS
  <2>2. ASSUME NEW k \in 1..n, NEW v \in V PROVE SizeStep(v, Len(UrlencodeChar(src[k], plus))) \in V
    <3> DEFINE c == src[k]
               l == Len(UrlencodeChar(c, plus))
    <3>1. c \in UrlCharSet
      BY <2>1
    <3> HIDE DEF c
    <3>2. l \in Nat
      <4>1. UrlencodeChar(c, plus) \in Seq(UrlCharSet)
        BY <3>1, CharIs
      <4> QED BY <4>1
    <3> HIDE DEF l
    <3>3. v # -1 => v \in 0..CdSizeMax
      OBVIOUS
    <3>4. v # -1 => (v + l) % (CdSizeMax + 1) \in 0..CdSizeMax
      BY <3>2, <3>3, CdNat, SumOfSizes
    <3>5. SizeStep(v, l) \in V
      BY <3>4 DEF SizeStep
    <3> QED BY <3>5 DEF l, c
  <2>3. 0 \in V
    BY CdNat
  <2> QED BY <2>2, <2>3
<1>3. \E h : Is(h)
  <2>1. step \in [1..n -> [V -> V]]
    <3> HIDE DEF V, n
    <3>1. \A k \in 1..n : [v \in V |-> SizeStep(v, Len(UrlencodeChar(src[k], plus)))] \in [V -> V]
      BY <1>2
    <3> QED BY <3>1
  <2>2. PICK h \in [SUBSET (1..n) -> V] : FoldsSets(h, n, 0, step)
    <3> HIDE DEF V, n, step
    <3> QED BY <1>1, <1>2, <2>1, FoldExists
  <2>3. ASSUME NEW s \in SUBSET (1..n), s # {}
        PROVE  h[s] = SizeStep(h[s \ {Max(s)}], Len(UrlencodeChar(src[Max(s)], plus)))
    <3>1. Max(s) \in 1..n /\ s \ {Max(s)} \in SUBSET (1..n)
      <4> HIDE DEF n
      <4> QED BY <1>1, <2>3, MaxOfSome
    <3>2. h[s \ {Max(s)}] \in V
      <4> HIDE DEF n, V
      <4> QED BY <3>1
    <3>3. h[s] = step[Max(s)][h[s \ {Max(s)}]]
      <4> HIDE DEF n, V, step
      <4> QED BY <2>2, <2>3 DEF FoldsSets
    <3> DEFINE m == Max(s)
               t == s \ {m}
               u == h[t]
    <3> HIDE DEF V, n, m
    <3>4. h[s] = step[m][u] /\ u \in V /\ m \in 1..n
      BY <3>1, <3>2, <3>3 DEF m
    <3> HIDE DEF u
    <3>5. step[m][u] = SizeStep(u, Len(UrlencodeChar(src[m], plus)))
      BY <3>4
    <3> HIDE DEF step
    <3>6. h[s] = SizeStep(u, Len(UrlencodeChar(src[m], plus)))
      BY <3>4, <3>5
    <3> QED BY <3>6 DEF u, m
  <2>4. h[{}] = 0
    <3> HIDE DEF V, n, step
    <3> QED BY <2>2 DEF FoldsSets
  <2>5. Is(h)
    <3> HIDE DEF V, n, step
    <3>1. \A s \in SUBSET (1..n) : h[s] = IF s = {} THEN 0 ELSE SizeStep(h[s \ {Max(s)}], Len(UrlencodeChar(src[Max(s)], plus)))
      BY <2>3, <2>4
    <3>2. h = [s \in SUBSET (1..n) |-> h[s]]
      BY <2>2
    <3> QED BY <3>1, <3>2, Zenon
  <2> QED BY <2>5
<1>4. Is(g)
  <2> HIDE DEF Is
  <2> QED BY <1>3
<1>5. UrlencodeSize(src, plus) = g[1..n]
  <2>1. DOMAIN src = 1..n
    OBVIOUS
  <2> QED BY <2>1 DEF UrlencodeSize, SizeStep, FoldLeft, MapThenFoldSet
<1> HIDE DEF g
<1>6. f[0] = 0
  <2> HIDE DEF n
  <2>1. 1..0 = {} /\ {} \in SUBSET (1..n) /\ 0 \in 0..n
    BY <1>1
  <2>2. g[{}] = 0
    BY <1>4, <2>1, Zenon
  <2> QED BY <2>1, <2>2
<1>7. ASSUME NEW k \in 1..n PROVE f[k] = SizeStep(f[k - 1], Len(UrlencodeChar(src[k], plus)))
  <2> HIDE DEF n
  <2>1. 1..k \in SUBSET (1..n) /\ k \in 0..n /\ k - 1 \in 0..n /\ k \in Nat /\ k >= 1
    BY <1>1
  <2>2. Max(1..k) = k /\ (1..k) \ {Max(1..k)} = 1..k - 1 /\ 1..k # {}
    BY <2>1, MaxOfInterval
  <2>3. g[1..k] = SizeStep(g[(1..k) \ {Max(1..k)}], Len(UrlencodeChar(src[Max(1..k)], plus)))
    BY <1>4, <2>1, <2>2, Zenon
  <2>4. g[1..k] = SizeStep(g[1..k - 1], Len(UrlencodeChar(src[k], plus)))
    BY <2>2, <2>3, Zenon
  <2>5. f[k] = g[1..k] /\ f[k - 1] = g[1..k - 1]
    BY <2>1
  <2> QED BY <2>4, <2>5, Zenon
<1> HIDE DEF f
<1>8. \A k \in 0..n : f[k] \in V
  <2> HIDE DEF n, V
  <2>1. f[0] \in V
    BY <1>2, <1>6
  <2>2. \A k \in 1..n : f[k - 1] \in V => f[k] \in V
    BY <1>2, <1>7, Zenon
  <2> QED BY <1>1, <2>1, <2>2, AllAlong
<1>9. f \in [0..n -> V] /\ UrlencodeSize(src, plus) = f[n]
  <2> HIDE DEF n, V
  <2>1. n \in 0..n /\ f = [k \in 0..n |-> g[1..k]]
    BY <1>1 DEF f
  <2> QED BY <1>5, <1>8, <2>1
<1>10. SizesUp(f, src, plus)
  BY <1>6, <1>7 DEF SizesUp
<1> QED BY <1>9, <1>10

\* What urldecode() makes of the text from the character i on.
DecodeStep(from, src, i) ==
  IF i > Len(src) THEN <<>>
  ELSE IF src[i] # "%" THEN <<IF src[i] = "+" THEN "space" ELSE src[i]>> \o from[i + 1]
  ELSE IF i + 2 > Len(src) \/ ~IsDigit(src[i + 1]) \/ ~IsDigit(src[i + 2]) THEN <<"nil">>
  ELSE <<UrlChars[Value(src[i + 1]) * CdBase + Value(src[i + 2]) + 1]>> \o from[i + 3]
Decodes(from, src) == \A i \in 1..Len(src) + 1 : from[i] = DecodeStep(from, src, i)

\* Two digits are a character's code.
LEMMA AnyCode ==
  ASSUME NEW a, NEW b, IsDigit(a), IsDigit(b)
  PROVE  UrlChars[Value(a) * CdBase + Value(b) + 1] \in UrlCharSet
<1>1. a \in {"0", "1", "2"} /\ b \in {"0", "1", "2"}
  BY DigitsAre
<1>2. Digits[0 + 1] = "0" /\ Digits[1 + 1] = "1" /\ Digits[2 + 1] = "2"
  BY DEF Digits
<1>3. 0 \in 0..2 /\ 1 \in 0..2 /\ 2 \in 0..2
  OBVIOUS
<1>4. Value("0") = 0 /\ Value("1") = 1 /\ Value("2") = 2
  BY <1>2, <1>3, DigitsAre
<1>5. Value(a) \in 0..2 /\ Value(b) \in 0..2
  BY <1>1, <1>3, <1>4
<1>6. Value(a) * CdBase + Value(b) + 1 \in 1..9
  BY <1>5 DEF CdBase
<1>7. DOMAIN UrlChars = 1..9
  BY DEF UrlChars
<1> QED BY <1>6, <1>7 DEF UrlCharSet, ToSet

\* urldecode() reads so.
LEMMA UrldecodeIsRecursive ==
  ASSUME NEW src \in Seq(UrlCharSet)
  PROVE  \E from \in [1..Len(src) + 1 -> Seq(UrlCharSet \cup {"nil"})] :
           /\ Decodes(from, src)
           /\ Urldecode(src) = IF "nil" \in ToSet(from[1]) THEN <<"nil">> ELSE from[1]
<1> DEFINE n == Len(src) + 1
           W == Seq(UrlCharSet \cup {"nil"})
           step == [i \in 1..n |-> [t \in [i + 1..n -> W] |-> DecodeStep(t, src, i)]]
           Is(g) == g = [i \in 1..n |-> DecodeStep(g, src, i)]
           g == CHOOSE g : Is(g)
<1>1. n \in Nat
  OBVIOUS
<1>2. ASSUME NEW i \in 1..n, NEW t \in [i + 1..n -> W]
      PROVE  DecodeStep(t, src, i) \in W
  <2> DEFINE m == Len(src)
  <2>1. m \in Nat /\ i \in 1..m + 1 /\ \A k \in 1..m : src[k] \in UrlCharSet
    OBVIOUS
  <2> DEFINE A == UrlCharSet \cup {"nil"}
  <2>2. <<>> \in W /\ <<"nil">> \in W /\ \A a \in A, s \in W : <<a>> \o s \in W
    <3> HIDE DEF A
    <3>1. \A a \in A : <<a>> \in Seq(A)
      OBVIOUS
    <3>2. \A a \in A, s \in Seq(A) : <<a>> \o s \in Seq(A)
      BY <3>1
    <3>3. <<>> \in Seq(A) /\ "nil" \in A
      BY DEF A
    <3> QED BY <3>1, <3>2, <3>3 DEF A
  <2> HIDE DEF W, m
  <2>3. CASE i > m
    BY <2>2, <2>3 DEF DecodeStep, m
  <2>4. CASE i <= m /\ src[i] # "%"
    <3>1. t[i + 1] \in W
      BY <2>1, <2>4 DEF m
    <3>2. (IF src[i] = "+" THEN "space" ELSE src[i]) \in A
      <4>1. src[i] \in UrlCharSet /\ "space" \in UrlCharSet
        BY <2>1, <2>4, UrlCharSetIs
      <4> QED BY <4>1
    <3>3. DecodeStep(t, src, i) = <<IF src[i] = "+" THEN "space" ELSE src[i]>> \o t[i + 1]
      BY <2>1, <2>4 DEF DecodeStep, m
    <3> HIDE DEF A
    <3> QED BY <2>2, <3>1, <3>2, <3>3
  <2>5. CASE i <= m /\ src[i] = "%" /\ (i + 2 > m \/ ~IsDigit(src[i + 1]) \/ ~IsDigit(src[i + 2]))
    <3>1. DecodeStep(t, src, i) = <<"nil">>
      BY <2>1, <2>5 DEF DecodeStep, m
    <3> QED BY <2>2, <3>1
  <2>6. CASE i <= m /\ src[i] = "%" /\ ~(i + 2 > m \/ ~IsDigit(src[i + 1]) \/ ~IsDigit(src[i + 2]))
    <3>1. t[i + 3] \in W
      BY <2>1, <2>6 DEF m
    <3>2. UrlChars[Value(src[i + 1]) * CdBase + Value(src[i + 2]) + 1] \in A
      BY <2>6, AnyCode
    <3>3. DecodeStep(t, src, i) = <<UrlChars[Value(src[i + 1]) * CdBase + Value(src[i + 2]) + 1]>> \o t[i + 3]
      <4>1. /\ ~(i > Len(src)) /\ ~(src[i] # "%")
            /\ ~(i + 2 > Len(src) \/ ~IsDigit(src[i + 1]) \/ ~IsDigit(src[i + 2]))
        BY <2>1, <2>6 DEF m
      <4> QED BY <4>1, Zenon DEF DecodeStep
    <3> HIDE DEF A
    <3> QED BY <2>2, <3>1, <3>2, <3>3
  <2> QED BY <2>1, <2>3, <2>4, <2>5, <2>6
<1>3. ASSUME NEW i \in 1..n, NEW h
      PROVE  DecodeStep([j \in i + 1..n |-> h[j]], src, i) = DecodeStep(h, src, i)
  <2> DEFINE u == [j \in i + 1..n |-> h[j]]
  <2>1. n \in Nat /\ (i <= Len(src) => u[i + 1] = h[i + 1]) /\ (~(i + 2 > Len(src)) => u[i + 3] = h[i + 3])
    OBVIOUS
  <2> HIDE DEF u, n
  <2>2. DecodeStep(u, src, i) = DecodeStep(h, src, i)
    <3>1. Len(src) \in Nat /\ i \in Nat
      BY <2>1
    <3>2. ~(i > Len(src)) => i <= Len(src)
      BY <3>1
    <3> QED BY <2>1, <3>2, Zenon DEF DecodeStep
  <2> QED BY <2>2 DEF u
<1>4. \E h : Is(h) /\ h \in [1..n -> W]
  <2>1. \A i \in 1..n : \A t \in [i + 1..n -> W] : step[i][t] = DecodeStep(t, src, i)
    <3> HIDE DEF n, W
    <3> QED OBVIOUS
  <2>2. \A i \in 1..n : \A t \in [i + 1..n -> W] : step[i][t] \in W
    <3> HIDE DEF n, W, step
    <3> QED BY <1>2, <2>1, Zenon
  <2> HIDE DEF n, W, step
  <2>3. PICK h \in [1..n -> W] : BackwardSteps(h, n, step)
    BY <1>1, <2>2, BackwardExists
  <2>4. ASSUME NEW i \in 1..n PROVE h[i] = DecodeStep(h, src, i)
    <3> DEFINE t == [j \in i + 1..n |-> h[j]]
    <3>1. t \in [i + 1..n -> W]
      BY <1>1
    <3>2. h[i] = step[i][t]
      BY <2>3 DEF BackwardSteps
    <3>3. DecodeStep(t, src, i) = DecodeStep(h, src, i)
      BY <1>3
    <3> HIDE DEF t
    <3> QED BY <2>1, <3>1, <3>2, <3>3
  <2>5. Is(h)
    BY <2>4
  <2> QED BY <2>5
<1>5. Is(g)
  <2> HIDE DEF Is
  <2> QED BY <1>4, Zenon
<1> HIDE DEF g
<1>6. \A i \in 1..n : g[i] = DecodeStep(g, src, i)
  <2> HIDE DEF n, W
  <2> QED BY <1>5
<1>7. g \in [1..n -> W]
  <2>1. ASSUME NEW i \in 1..n, \A j \in i + 1..n : g[j] \in W PROVE g[i] \in W
    <3> DEFINE t == [j \in i + 1..n |-> g[j]]
    <3>1. t \in [i + 1..n -> W]
      <4> HIDE DEF n, W
      <4> QED BY <2>1
    <3>2. DecodeStep(t, src, i) \in W
      <4> HIDE DEF n, W, t
      <4> QED BY <1>2, <3>1
    <3>3. DecodeStep(t, src, i) = DecodeStep(g, src, i)
      BY <1>3
    <3> HIDE DEF n, W, t
    <3> QED BY <1>6, <3>2, <3>3
  <2> HIDE DEF n, W
  <2>2. \A i \in 1..n : g[i] \in W
    BY <1>1, <2>1, AllBackward
  <2>3. g = [i \in 1..n |-> g[i]]
    BY <1>5
  <2> QED BY <2>2, <2>3
<1>8. Decodes(g, src)
  <2> HIDE DEF W
  <2> QED BY <1>6 DEF Decodes
<1>9. Urldecode(src) = IF "nil" \in ToSet(g[1]) THEN <<"nil">> ELSE g[1]
  BY DEF Urldecode, DecodeStep, g
<1> QED BY <1>7, <1>8, <1>9

\* What urldecode_size() counts from the character i on.
DecodeSizeStep(size, src, i) ==
  IF i > Len(src) THEN 0 ELSE 1 + size[IF src[i] = "%" THEN i + 3 ELSE i + 1]
DecodeSizes(size, src) == \A i \in 1..Len(src) + 3 : size[i] = DecodeSizeStep(size, src, i)

\* urldecode_size() counts so.
LEMMA UrldecodeSizeIsRecursive ==
  ASSUME NEW src \in Seq(UrlCharSet)
  PROVE  \E size \in [1..Len(src) + 3 -> Nat] :
           DecodeSizes(size, src) /\ UrldecodeSize(src) = size[1]
<1> DEFINE n == Len(src) + 3
           W == Nat
           step == [i \in 1..n |-> [t \in [i + 1..n -> W] |-> DecodeSizeStep(t, src, i)]]
           Is(g) == g = [i \in 1..n |-> DecodeSizeStep(g, src, i)]
           g == CHOOSE g : Is(g)
<1>1. n \in Nat
  OBVIOUS
<1>2. ASSUME NEW i \in 1..n, NEW t \in [i + 1..n -> W]
      PROVE  DecodeSizeStep(t, src, i) \in W
  <2> DEFINE j == IF src[i] = "%" THEN i + 3 ELSE i + 1
  <2>1. ~(i > Len(src)) => j \in i + 1..n
    OBVIOUS
  <2> HIDE DEF j
  <2>2. ~(i > Len(src)) => 1 + t[j] \in Nat
    <3> HIDE DEF n
    <3> QED BY <2>1
  <2>3. DecodeSizeStep(t, src, i) = IF i > Len(src) THEN 0 ELSE 1 + t[j]
    BY DEF DecodeSizeStep, j
  <2> QED BY <2>2, <2>3
<1>3. ASSUME NEW i \in 1..n, NEW h
      PROVE  DecodeSizeStep([j \in i + 1..n |-> h[j]], src, i) = DecodeSizeStep(h, src, i)
  <2> DEFINE u == [j \in i + 1..n |-> h[j]]
             j == IF src[i] = "%" THEN i + 3 ELSE i + 1
  <2>1. ~(i > Len(src)) => j \in i + 1..n
    OBVIOUS
  <2> HIDE DEF j
  <2>2. ~(i > Len(src)) => u[j] = h[j]
    BY <2>1
  <2> HIDE DEF u
  <2>3. DecodeSizeStep(u, src, i) = DecodeSizeStep(h, src, i)
    BY <2>2 DEF DecodeSizeStep, j
  <2> QED BY <2>3 DEF u
<1>4. \E h : Is(h) /\ h \in [1..n -> W]
  <2>1. \A i \in 1..n : \A t \in [i + 1..n -> W] : step[i][t] = DecodeSizeStep(t, src, i)
    <3> HIDE DEF n, W
    <3> QED OBVIOUS
  <2>2. \A i \in 1..n : \A t \in [i + 1..n -> W] : step[i][t] \in W
    <3> HIDE DEF n, W, step
    <3> QED BY <1>2, <2>1, Zenon
  <2> HIDE DEF n, W, step
  <2>3. PICK h \in [1..n -> W] : BackwardSteps(h, n, step)
    BY <1>1, <2>2, BackwardExists
  <2>4. ASSUME NEW i \in 1..n PROVE h[i] = DecodeSizeStep(h, src, i)
    <3> DEFINE t == [j \in i + 1..n |-> h[j]]
    <3>1. t \in [i + 1..n -> W]
      BY <1>1
    <3>2. h[i] = step[i][t]
      BY <2>3 DEF BackwardSteps
    <3>3. DecodeSizeStep(t, src, i) = DecodeSizeStep(h, src, i)
      BY <1>3
    <3> HIDE DEF t
    <3> QED BY <2>1, <3>1, <3>2, <3>3
  <2>5. Is(h)
    BY <2>4
  <2> QED BY <2>5
<1>5. Is(g)
  <2> HIDE DEF Is
  <2> QED BY <1>4, Zenon
<1> HIDE DEF g
<1>6. \A i \in 1..n : g[i] = DecodeSizeStep(g, src, i)
  <2> HIDE DEF n, W
  <2> QED BY <1>5
<1>7. g \in [1..n -> W]
  <2>1. ASSUME NEW i \in 1..n, \A j \in i + 1..n : g[j] \in W PROVE g[i] \in W
    <3> DEFINE t == [j \in i + 1..n |-> g[j]]
    <3>1. t \in [i + 1..n -> W]
      <4> HIDE DEF n, W
      <4> QED BY <2>1
    <3>2. DecodeSizeStep(t, src, i) \in W
      <4> HIDE DEF n, W, t
      <4> QED BY <1>2, <3>1
    <3>3. DecodeSizeStep(t, src, i) = DecodeSizeStep(g, src, i)
      BY <1>3
    <3> HIDE DEF n, W, t
    <3> QED BY <1>6, <3>2, <3>3
  <2> HIDE DEF n, W
  <2>2. \A i \in 1..n : g[i] \in W
    BY <1>1, <2>1, AllBackward
  <2>3. g = [i \in 1..n |-> g[i]]
    BY <1>5
  <2> QED BY <2>2, <2>3
<1>8. DecodeSizes(g, src)
  <2> HIDE DEF W
  <2> QED BY <1>6 DEF DecodeSizes
<1>9. UrldecodeSize(src) = g[1]
  BY DEF UrldecodeSize, DecodeSizeStep, g
<1> QED BY <1>7, <1>8, <1>9

\* Where a character c is in the text, whose beginning is g before it and h after it, and what
\* stands there for it.
Stands(text, g, h, c, plus) ==
  /\ Len(g) \in Nat /\ Len(h) <= Len(text) /\ c \in UrlCharSet
  /\ Escapes(c, plus) => /\ Len(h) = Len(g) + 3
                         /\ text[Len(g) + 1] = "%" /\ text[Len(g) + 2] = High(c) /\ text[Len(g) + 3] = Low(c)
  /\ ~Escapes(c, plus) => /\ Len(h) = Len(g) + 1
                          /\ text[Len(g) + 1] = IF plus /\ c = "space" THEN "+" ELSE c

\* It stands there in the encoded text.
LEMMA EncodedChar ==
  ASSUME NEW src \in Seq(UrlCharSet), NEW plus \in BOOLEAN,
         NEW f \in [0..Len(src) -> Seq(UrlCharSet)], Encodes(f, src, plus), NEW k \in 1..Len(src)
  PROVE  Stands(f[Len(src)], f[k - 1], f[k], src[k], plus)
<1> DEFINE n == Len(src)
           e == [j \in 1..n |-> UrlencodeChar(src[j], plus)]
           a == f[k - 1]
           b == f[k]
           c == src[k]
           p == Len(a)
           text == f[n]
           x == UrlencodeChar(c, plus)
<1>1. n \in Nat /\ k \in 1..n /\ k \in 0..n /\ k - 1 \in 0..n /\ c \in UrlCharSet
  OBVIOUS
<1>2. e \in [1..n -> Seq(UrlCharSet)]
  <2>1. ASSUME NEW j \in 1..n PROVE UrlencodeChar(src[j], plus) \in Seq(UrlCharSet)
    <3> DEFINE d == src[j]
    <3>1. d \in UrlCharSet
      OBVIOUS
    <3> HIDE DEF d
    <3>2. UrlencodeChar(d, plus) \in Seq(UrlCharSet)
      BY <3>1, CharIs
    <3> QED BY <3>2 DEF d
  <2> HIDE DEF n
  <2> QED BY <2>1
<1>3. \A j \in 1..n : f[j] = f[j - 1] \o e[j]
  BY DEF Encodes
<1>4. SameStart(b, text)
  <2>1. \A j \in 0..n : SameStart(f[j], f[n])
    <3>1. f \in [0..n -> Seq(UrlCharSet)]
      OBVIOUS
    <3> HIDE DEF n, e
    <3> QED BY <1>1, <1>2, <1>3, <3>1, StartsAlong
  <2>2. text = f[n]
    OBVIOUS
  <2> HIDE DEF n
  <2> QED BY <1>1, <2>1, <2>2
<1>5. a \in Seq(UrlCharSet) /\ b \in Seq(UrlCharSet) /\ b = a \o x /\ p = Len(a) /\ text \in Seq(UrlCharSet)
  <2>1. e[k] = x
    OBVIOUS
  <2>2. n \in 0..n
    BY <1>1
  <2> HIDE DEF e, x
  <2> QED BY <1>1, <1>3, <2>1, <2>2
<1> HIDE DEF n, e, a, b, c, p, text
<1>6. p \in Nat /\ Len(b) <= Len(text) /\ \A j \in 1..Len(b) : text[j] = b[j]
  BY <1>4, <1>5 DEF SameStart
<1>7. /\ x \in Seq(UrlCharSet)
      /\ Escapes(c, plus) => x = <<"%", High(c), Low(c)>>
      /\ ~Escapes(c, plus) => x = <<IF plus /\ c = "space" THEN "+" ELSE c>>
  BY <1>1, CharIs
<1> HIDE DEF x
<1>8. Len(b) = p + Len(x) /\ \A j \in 1..Len(x) : b[p + j] = x[j] /\ p + j \in 1..Len(b)
  BY <1>5, <1>6, <1>7
<1>9. ASSUME Escapes(c, plus)
      PROVE  /\ Len(b) = p + 3 /\ text[p + 1] = "%" /\ text[p + 2] = High(c) /\ text[p + 3] = Low(c)
  <2>1. Len(x) = 3 /\ x[1] = "%" /\ x[2] = High(c) /\ x[3] = Low(c)
    BY <1>7, <1>9
  <2>2. 1 \in 1..3 /\ 2 \in 1..3 /\ 3 \in 1..3
    OBVIOUS
  <2>3. \A j \in 1..3 : text[p + j] = x[j]
    BY <1>6, <1>8, <2>1
  <2> QED BY <1>8, <2>1, <2>2, <2>3
<1>10. ASSUME ~Escapes(c, plus)
       PROVE  Len(b) = p + 1 /\ text[p + 1] = IF plus /\ c = "space" THEN "+" ELSE c
  <2>1. Len(x) = 1 /\ x[1] = IF plus /\ c = "space" THEN "+" ELSE c
    BY <1>7, <1>10
  <2>2. 1 \in 1..1
    OBVIOUS
  <2>3. \A j \in 1..1 : text[p + j] = x[j]
    BY <1>6, <1>8, <2>1
  <2> QED BY <1>8, <2>1, <2>2, <2>3
<1> QED BY <1>1, <1>6, <1>9, <1>10 DEF b, c, p, text, n, a, Stands

\* The encoded text is decoded to the text, character by character from the end.
LEMMA EncodedIsDecoded ==
  ASSUME NEW src \in Seq(UrlCharSet), NEW plus \in BOOLEAN,
         NEW f \in [0..Len(src) -> Seq(UrlCharSet)], Encodes(f, src, plus),
         NEW text, text = f[Len(src)], NEW from, Decodes(from, text), NEW size, DecodeSizes(size, text)
  PROVE  from[1] = src /\ size[1] = Len(src)
<1> DEFINE n == Len(src)
           T == {d \in 0..n : /\ from[Len(f[n - d]) + 1] = SubSeq(src, n - d + 1, n)
                              /\ size[Len(f[n - d]) + 1] = d}
<1>1. n \in Nat /\ text \in Seq(UrlCharSet) /\ \A k \in 0..n : f[k] \in Seq(UrlCharSet)
  OBVIOUS
<1>2. 0 \in T
  <2>1. n - 0 = n /\ 0 \in 0..n /\ Len(text) \in Nat
    BY <1>1
  <2>2. Len(text) + 1 \in 1..Len(text) + 1 /\ Len(text) + 1 \in 1..Len(text) + 3 /\ Len(text) + 1 > Len(text)
    BY <2>1
  <2>3. from[Len(text) + 1] = <<>> /\ size[Len(text) + 1] = 0
    BY <2>2 DEF Decodes, DecodeStep, DecodeSizes, DecodeSizeStep
  <2>4. SubSeq(src, n + 1, n) = <<>>
    OBVIOUS
  <2> QED BY <2>1, <2>3, <2>4
<1>3. ASSUME NEW d \in 0..n - 1, d \in T PROVE d + 1 \in T
  <2> DEFINE k == n - d
             c == src[k]
             p == Len(f[k - 1])
             l == Len(text)
  <2>1. k \in 1..n /\ n - (d + 1) = k - 1 /\ d + 1 \in 0..n /\ n - (d + 1) + 1 = k /\ k \in Nat
    OBVIOUS
  <2>2. from[Len(f[k]) + 1] = SubSeq(src, k + 1, n) /\ size[Len(f[k]) + 1] = d
    BY <1>3
  <2> HIDE DEF k
  <2>3. /\ p \in Nat /\ Len(f[k]) <= l /\ c \in UrlCharSet /\ l \in Nat
        /\ Escapes(c, plus) => /\ Len(f[k]) = p + 3
                               /\ text[p + 1] = "%" /\ text[p + 2] = High(c) /\ text[p + 3] = Low(c)
        /\ ~Escapes(c, plus) => /\ Len(f[k]) = p + 1
                                /\ text[p + 1] = IF plus /\ c = "space" THEN "+" ELSE c
    <3>1. k \in 1..Len(src) /\ p = Len(f[k - 1]) /\ c = src[k] /\ text = f[Len(src)]
      BY <2>1
    <3> DEFINE m == Len(src)
               g == f[k - 1]
               h == f[k]
    <3> HIDE DEF n, p, c, T, m, g, h
    <3>2. Stands(f[Len(src)], f[k - 1], f[k], src[k], plus)
      BY <3>1, EncodedChar
    <3>3. p = Len(g) /\ c = src[k] /\ Len(f[k]) = Len(h) /\ Len(text) = l
      BY <3>1 DEF g, h
    <3>4. l \in Nat
      BY <1>1
    <3> HIDE DEF l
    <3> QED BY <3>1, <3>2, <3>3, <3>4 DEF Stands, g, h
  <2>4. /\ SubSeq(src, k, n) = <<c>> \o SubSeq(src, k + 1, n)
    BY <2>1, RestOf
  <2> HIDE DEF p, c, n, l
  <2>5. from[p + 1] = <<c>> \o from[Len(f[k]) + 1] /\ size[p + 1] = 1 + size[Len(f[k]) + 1]
    <3>1. CASE Escapes(c, plus)
      <4>1. /\ p + 1 \in 1..l + 1 /\ p + 1 \in 1..l + 3 /\ ~(p + 1 > l) /\ ~((p + 1) + 2 > l)
            /\ (p + 1) + 1 = p + 2 /\ (p + 1) + 2 = p + 3 /\ (p + 1) + 3 = Len(f[k]) + 1
        BY <2>3, <3>1
      <4>2. text[p + 1] = "%" /\ text[(p + 1) + 1] = High(c) /\ text[(p + 1) + 2] = Low(c)
        BY <2>3, <3>1, <4>1
      <4>3. IsDigit(High(c)) /\ IsDigit(Low(c)) /\ UrlChars[Value(High(c)) * CdBase + Value(Low(c)) + 1] = c
        BY <2>3, CodeComesBack
      <4>4. from[p + 1] = DecodeStep(from, text, p + 1) /\ size[p + 1] = DecodeSizeStep(size, text, p + 1)
        BY <4>1 DEF Decodes, DecodeSizes, l
      <4>5. DecodeStep(from, text, p + 1) = <<c>> \o from[Len(f[k]) + 1]
        <5>1. ~(p + 1 > Len(text)) /\ ~(text[p + 1] # "%") /\ ~((p + 1) + 2 > Len(text))
          BY <4>1, <4>2 DEF l
        <5> DEFINE y == text[(p + 1) + 1]
                   z == text[(p + 1) + 2]
        <5>2. IsDigit(y) /\ IsDigit(z) /\ UrlChars[Value(y) * CdBase + Value(z) + 1] = c
          BY <4>2, <4>3
        <5> HIDE DEF y, z
        <5>3. DecodeStep(from, text, p + 1) = <<UrlChars[Value(y) * CdBase + Value(z) + 1]>> \o from[(p + 1) + 3]
          BY <5>1, <5>2, Zenon DEF DecodeStep, y, z
        <5> QED BY <4>1, <5>2, <5>3
      <4>6. DecodeSizeStep(size, text, p + 1) = 1 + size[Len(f[k]) + 1]
        BY <4>1, <4>2 DEF DecodeSizeStep, l
      <4> QED BY <4>4, <4>5, <4>6
    <3>2. CASE ~Escapes(c, plus)
      <4>1. /\ p + 1 \in 1..l + 1 /\ p + 1 \in 1..l + 3 /\ ~(p + 1 > l) /\ (p + 1) + 1 = Len(f[k]) + 1
        BY <2>3, <3>2
      <4>2. c \notin {"%", "+"} /\ text[p + 1] = IF plus /\ c = "space" THEN "+" ELSE c
        BY <2>3, <3>2, CharIs
      <4>3. text[p + 1] # "%" /\ (IF text[p + 1] = "+" THEN "space" ELSE text[p + 1]) = c
        BY <4>2
      <4>4. from[p + 1] = DecodeStep(from, text, p + 1) /\ size[p + 1] = DecodeSizeStep(size, text, p + 1)
        BY <4>1 DEF Decodes, DecodeSizes, l
      <4>5. DecodeStep(from, text, p + 1) = <<c>> \o from[(p + 1) + 1]
        BY <4>1, <4>3 DEF DecodeStep, l
      <4>6. DecodeSizeStep(size, text, p + 1) = 1 + size[(p + 1) + 1]
        BY <4>1, <4>3 DEF DecodeSizeStep, l
      <4> QED BY <4>1, <4>4, <4>5, <4>6
    <3> QED BY <3>1, <3>2
  <2>6. from[p + 1] = SubSeq(src, k, n) /\ size[p + 1] = d + 1
    BY <2>2, <2>4, <2>5
  <2> QED BY <2>1, <2>6 DEF p
<1>4. n \in T
  <2> HIDE DEF T, n
  <2>1. 0..n \subseteq T
    BY <1>1, <1>2, <1>3, IntervalInduction
  <2> QED BY <1>1, <2>1
<1>5. f[0] = <<>> /\ n - n = 0 /\ Len(<<>>) = 0 /\ n - n + 1 = 1 /\ 0 + 1 = 1
  BY DEF Encodes
<1>6. SubSeq(src, 1, n) = src
  OBVIOUS
<1> HIDE DEF n
<1>7. from[1] = SubSeq(src, 1, n) /\ size[1] = n
  <2>1. Len(f[n - n]) + 1 = 1
    BY <1>5
  <2> QED BY <1>4, <1>5, <2>1
<1> QED BY <1>6, <1>7 DEF n

\* The size is the text's length, or -1 if it does not fit: once it did not it is -1 for good,
\* and the length only grows.
LEMMA SizeIs ==
  ASSUME NEW src \in Seq(UrlCharSet), NEW plus \in BOOLEAN
  PROVE  UrlencodeSize(src, plus) =
           IF Len(Urlencode(src, plus)) > CdSizeMax THEN -1 ELSE Len(Urlencode(src, plus))
<1>1. PICK f \in [0..Len(src) -> Seq(UrlCharSet)] :
        Encodes(f, src, plus) /\ Urlencode(src, plus) = f[Len(src)]
  BY UrlencodeIsRecursive
<1>2. PICK g \in [0..Len(src) -> {-1} \cup 0..CdSizeMax] :
        SizesUp(g, src, plus) /\ UrlencodeSize(src, plus) = g[Len(src)]
  BY SizeIsRecursive
<1> DEFINE n == Len(src)
           T == {k \in 0..n : g[k] = IF Len(f[k]) > CdSizeMax THEN -1 ELSE Len(f[k])}
<1>3. n \in Nat /\ CdSizeMax \in Nat
  BY CdNat
<1>4. 0 \in T
  <2>1. f[0] = <<>> /\ g[0] = 0 /\ 0 \in 0..n
    BY <1>1, <1>2, <1>3 DEF Encodes, SizesUp
  <2> HIDE DEF n
  <2>2. Len(f[0]) = 0
    BY <2>1
  <2> QED BY <1>3, <2>1, <2>2
<1>5. ASSUME NEW k \in 0..n - 1, k \in T PROVE k + 1 \in T
  <2> DEFINE c == src[k + 1]
             x == UrlencodeChar(c, plus)
             a == f[k]
             l == Len(a)
             m == Len(x)
             r == g[k]
  <2>1. k + 1 \in 1..n /\ k \in 0..n /\ k + 1 \in 0..n /\ (k + 1) - 1 = k
    BY <1>3
  <2>2. c \in UrlCharSet
    BY <2>1
  <2>3. f[k + 1] = a \o x /\ g[k + 1] = SizeStep(r, m)
    <3>1. f[k + 1] = f[(k + 1) - 1] \o UrlencodeChar(src[k + 1], plus)
      BY <1>1, <2>1 DEF Encodes
    <3>2. g[k + 1] = SizeStep(g[(k + 1) - 1], Len(UrlencodeChar(src[k + 1], plus)))
      BY <1>2, <2>1 DEF SizesUp
    <3> QED BY <2>1, <3>1, <3>2
  <2> HIDE DEF c
  <2>4. x \in Seq(UrlCharSet)
    BY <2>2, CharIs
  <2>5. a \in Seq(UrlCharSet)
    BY <2>1
  <2>6. r = IF l > CdSizeMax THEN -1 ELSE l
    BY <1>5
  <2> HIDE DEF x, a, r, n
  <2>7. Len(f[k + 1]) = l + m /\ l \in Nat /\ m \in Nat
    BY <2>3, <2>4, <2>5
  <2> HIDE DEF l, m
  <2>8. SizeStep(r, m) = IF l + m > CdSizeMax THEN -1 ELSE l + m
    <3>1. CASE l > CdSizeMax
      <4>1. r = -1 /\ l + m > CdSizeMax
        BY <1>3, <2>6, <2>7, <3>1
      <4> QED BY <4>1 DEF SizeStep
    <3>2. CASE l <= CdSizeMax
      <4>1. r = l /\ l \in 0..CdSizeMax /\ r # -1
        BY <1>3, <2>6, <2>7, <3>2
      <4>2. /\ l + m <= CdSizeMax => (l + m) % (CdSizeMax + 1) = l + m
            /\ l + m > CdSizeMax => (l + m) % (CdSizeMax + 1) < m
        BY <1>3, <2>7, <4>1, SumOfSizes
      <4> DEFINE q == (l + m) % (CdSizeMax + 1)
      <4>3. SizeStep(r, m) = IF q < m THEN -1 ELSE q
        BY <4>1 DEF SizeStep
      <4> HIDE DEF q
      <4>4. /\ l + m <= CdSizeMax => q = l + m
            /\ l + m > CdSizeMax => q < m
        BY <4>2 DEF q
      <4>5. CASE l + m <= CdSizeMax
        <5>1. ~(q < m) /\ ~(l + m > CdSizeMax)
          BY <1>3, <2>7, <4>4, <4>5
        <5> QED BY <4>3, <4>4, <4>5, <5>1
      <4>6. CASE l + m > CdSizeMax
        BY <4>3, <4>4, <4>6
      <4> QED BY <1>3, <2>7, <4>5, <4>6
    <3> QED BY <1>3, <2>7, <3>1, <3>2
  <2> QED BY <2>1, <2>3, <2>7, <2>8
<1>6. n \in T
  <2> HIDE DEF T, n
  <2>1. 0..n \subseteq T
    BY <1>3, <1>4, <1>5, IntervalInduction
  <2> QED BY <1>3, <2>1
<1> QED BY <1>1, <1>2, <1>6

\* urldecode() undoes urlencode(), in the buffer that urldecode_size() asks for.
LEMMA EncodedComesBack ==
  ASSUME NEW src \in Seq(UrlCharSet), NEW plus \in BOOLEAN
  PROVE  Urldecode(Urlencode(src, plus)) = src /\ UrldecodeSize(Urlencode(src, plus)) = Len(src)
<1>1. PICK f \in [0..Len(src) -> Seq(UrlCharSet)] :
        Encodes(f, src, plus) /\ Urlencode(src, plus) = f[Len(src)]
  BY UrlencodeIsRecursive
<1> DEFINE text == Urlencode(src, plus)
<1>2. text \in Seq(UrlCharSet) /\ text = f[Len(src)]
  <2>1. Len(src) \in 0..Len(src)
    OBVIOUS
  <2> QED BY <1>1, <2>1
<1> HIDE DEF text
<1>3. PICK from \in [1..Len(text) + 1 -> Seq(UrlCharSet \cup {"nil"})] :
        /\ Decodes(from, text)
        /\ Urldecode(text) = IF "nil" \in ToSet(from[1]) THEN <<"nil">> ELSE from[1]
  BY <1>2, UrldecodeIsRecursive
<1>4. PICK size \in [1..Len(text) + 3 -> Nat] : DecodeSizes(size, text) /\ UrldecodeSize(text) = size[1]
  BY <1>2, UrldecodeSizeIsRecursive
<1>5. from[1] = src /\ size[1] = Len(src)
  BY <1>1, <1>2, <1>3, <1>4, EncodedIsDecoded
<1>6. "nil" \notin ToSet(src)
  <2>1. "nil" \notin UrlCharSet
    BY UrlCharSetIs
  <2> QED BY <2>1 DEF ToSet
<1> QED BY <1>3, <1>4, <1>5, <1>6 DEF text

\* Each step of urldecode() that finds its digits puts one byte into the buffer.
LEMMA DecodedFills ==
  ASSUME NEW src \in Seq(UrlCharSet)
  PROVE  Urldecode(src) = <<"nil">> \/ UrldecodeSize(src) = Len(Urldecode(src))
<1> DEFINE n == Len(src)
<1>1. PICK from \in [1..n + 1 -> Seq(UrlCharSet \cup {"nil"})] :
        /\ Decodes(from, src)
        /\ Urldecode(src) = IF "nil" \in ToSet(from[1]) THEN <<"nil">> ELSE from[1]
  BY UrldecodeIsRecursive
<1>2. PICK size \in [1..n + 3 -> Nat] : DecodeSizes(size, src) /\ UrldecodeSize(src) = size[1]
  BY UrldecodeSizeIsRecursive
<1> DEFINE C == UrlCharSet \cup {"nil"}
           Fills(i) == "nil" \in ToSet(from[i]) \/ Len(from[i]) = size[i]
           mark == [i \in 1..n + 1 |-> Fills(i)]
<1>3. n \in Nat
  OBVIOUS
<1>4. \A i \in 1..n + 1 : from[i] \in Seq(C) /\ size[i] \in Nat
  BY <1>3
<1>5. ASSUME NEW i \in 1..n + 1, \A j \in i + 1..n + 1 : mark[j] \in {TRUE} PROVE mark[i] \in {TRUE}
  <2>0. i \in 1..n + 3 /\ n + 1 \in Nat
    BY <1>3
  <2>1. from[i] = DecodeStep(from, src, i) /\ size[i] = DecodeSizeStep(size, src, i)
    BY <1>1, <1>2, <2>0 DEF Decodes, DecodeSizes
  <2>2. ASSUME NEW j \in i + 1..n + 1, NEW b \in C, from[i] = <<b>> \o from[j], size[i] = 1 + size[j]
        PROVE  Fills(i)
    <3>1. Fills(j) /\ j \in 1..n + 1
      <4>1. j \in 1..n + 1
        BY <1>3
      <4>2. mark[j] = TRUE
        BY <1>5
      <4> QED BY <4>1, <4>2
    <3> DEFINE x == from[j]
    <3>2. x \in Seq(C) /\ from[i] = <<b>> \o x
      BY <1>4, <2>2, <3>1
    <3> HIDE DEF x, C
    <3>3. Len(<<b>> \o x) = 1 + Len(x) /\ ToSet(x) \subseteq ToSet(<<b>> \o x)
      <4>1. <<b>> \in Seq(C) /\ Len(<<b>>) = 1
        BY <2>2
      <4>2. Len(<<b>> \o x) = 1 + Len(x)
        BY <3>2, <4>1
      <4>3. ASSUME NEW k \in 1..Len(x) PROVE k + 1 \in 1..Len(<<b>> \o x) /\ (<<b>> \o x)[k + 1] = x[k]
        BY <3>2, <4>1, <4>2
      <4>4. ToSet(x) \subseteq ToSet(<<b>> \o x)
        <5>1. DOMAIN x = 1..Len(x) /\ DOMAIN (<<b>> \o x) = 1..Len(<<b>> \o x)
          BY <3>2, <4>1
        <5> DEFINE y == <<b>> \o x
        <5> HIDE DEF y
        <5>2. DOMAIN y = 1..Len(y) /\ \A k \in DOMAIN x : k + 1 \in DOMAIN y /\ y[k + 1] = x[k]
          BY <4>3, <5>1 DEF y
        <5>3. ToSet(x) \subseteq ToSet(y)
          BY <5>2 DEF ToSet
        <5> QED BY <5>3 DEF y
      <4> QED BY <4>2, <4>4
    <3> QED BY <2>2, <3>1, <3>2, <3>3 DEF x
  <2>3. Fills(i)
    <3>1. CASE i > n
      <4>1. from[i] = <<>> /\ size[i] = 0
        BY <2>1, <3>1 DEF DecodeStep, DecodeSizeStep
      <4> QED BY <4>1
    <3>2. CASE ~(i > n) /\ src[i] # "%"
      <4>1. from[i] = <<IF src[i] = "+" THEN "space" ELSE src[i]>> \o from[i + 1] /\ size[i] = 1 + size[i + 1]
        BY <2>1, <3>2 DEF DecodeStep, DecodeSizeStep
      <4>2. i + 1 \in i + 1..n + 1
        BY <1>3, <3>2
      <4>3. (IF src[i] = "+" THEN "space" ELSE src[i]) \in C
        <5>1. src[i] \in UrlCharSet
          BY <1>3, <3>2
        <5>2. "space" \in UrlCharSet
          BY UrlCharSetIs
        <5> QED BY <5>1, <5>2
      <4> HIDE DEF Fills, C
      <4> QED BY <2>2, <4>1, <4>2, <4>3
    <3>3. CASE ~(i > n) /\ src[i] = "%"
      <4>1. CASE i + 2 > n \/ ~IsDigit(src[i + 1]) \/ ~IsDigit(src[i + 2])
        <5>1. from[i] = <<"nil">>
          BY <2>1, <3>3, <4>1 DEF DecodeStep
        <5>2. "nil" \in ToSet(<<"nil">>)
          BY DEF ToSet
        <5> QED BY <5>1, <5>2
      <4>2. CASE ~(i + 2 > n \/ ~IsDigit(src[i + 1]) \/ ~IsDigit(src[i + 2]))
        <5> DEFINE b == UrlChars[Value(src[i + 1]) * CdBase + Value(src[i + 2]) + 1]
        <5>1. from[i] = <<b>> \o from[i + 3] /\ size[i] = 1 + size[i + 3]
          BY <2>1, <3>3, <4>2 DEF DecodeStep, DecodeSizeStep
        <5>2. i + 3 \in i + 1..n + 1
          BY <1>3, <3>3, <4>2
        <5>3. b \in C
          BY <4>2, AnyCode
        <5> HIDE DEF Fills, C, b
        <5> QED BY <2>2, <5>1, <5>2, <5>3
      <4> QED BY <4>1, <4>2
    <3> QED BY <3>1, <3>2, <3>3
  <2> QED BY <2>3
<1>6. mark[1] \in {TRUE}
  <2>1. n + 1 \in Nat /\ 1 \in 1..n + 1
    BY <1>3
  <2> HIDE DEF mark
  <2>2. \A i \in 1..n + 1 : mark[i] \in {TRUE}
    BY <1>5, <2>1, AllBackward
  <2> QED BY <2>1, <2>2
<1>7. Fills(1)
  <2>1. 1 \in 1..n + 1
    BY <1>3
  <2>2. mark[1] = Fills(1)
    BY <2>1
  <2>3. mark[1] = TRUE
    <3> HIDE DEF mark
    <3> QED BY <1>6
  <2> HIDE DEF mark
  <2> QED BY <2>2, <2>3
<1>8. CASE "nil" \in ToSet(from[1])
  BY <1>1, <1>8
<1>9. CASE "nil" \notin ToSet(from[1])
  BY <1>1, <1>2, <1>7, <1>9
<1> QED BY <1>8, <1>9

-----------------------------------------------------------------------------
(* The one step: what has come out is what the function computes.           *)

CdInv ==
  /\ cd \in CdInputs
  /\ cdDone =>
       /\ cd.fn = "urlencode" => cdOut = UrlencodeCall(cd.text, cd.arg = 1)
       /\ cd.fn = "urldecode" => cdOut = UrldecodeCall(cd.text)
       /\ cd.fn = "strtou"    => cdOut = FullStrtouB(cd.text)
       /\ cd.fn = "truncate"  => cdOut = TruncateToWidth(cd.text, cd.arg)
       /\ cd.fn = "valid"     => cdOut = MakeValidAndPrintable(cd.text)
       /\ cd.fn = "wrongly"   => cdOut = ParseLayout(cd.text)
       /\ cd.fn = "somehow"   => cdOut = ParseSymbols(cd.text, CdBadLists[cd.arg])
       /\ cd.fn = "json"      => cdOut = JsonDecode(cd.text)

\* A codec is called with one text of CdInputs, and returns what its function computes from it,
\* as Compute says; the theorems of this module are about these functions.
LEMMA CodecsCompute == CdSpec => []CdInv
<1>1. CdInit => CdInv
  BY DEF CdInit, CdInv
<1>2. CdInv /\ [CdNext]_cdvars => CdInv'
  <2> SUFFICES ASSUME CdInv, [CdNext]_cdvars PROVE CdInv'
    OBVIOUS
  <2>1. CASE Compute
    <3>1. cd' = cd /\ cd \in CdInputs
      BY <2>1 DEF Compute, CdInv
    <3>2. /\ cd.fn = "urlencode" => cdOut' = UrlencodeCall(cd.text, cd.arg = 1)
          /\ cd.fn = "urldecode" => cdOut' = UrldecodeCall(cd.text)
          /\ cd.fn = "strtou"    => cdOut' = FullStrtouB(cd.text)
          /\ cd.fn = "truncate"  => cdOut' = TruncateToWidth(cd.text, cd.arg)
          /\ cd.fn = "valid"     => cdOut' = MakeValidAndPrintable(cd.text)
          /\ cd.fn = "wrongly"   => cdOut' = ParseLayout(cd.text)
          /\ cd.fn = "somehow"   => cdOut' = ParseSymbols(cd.text, CdBadLists[cd.arg])
          /\ cd.fn = "json"      => cdOut' = JsonDecode(cd.text)
      BY <2>1 DEF Compute
    <3> QED BY <3>1, <3>2 DEF CdInv
  <2>2. CASE UNCHANGED cdvars
    BY <2>2 DEF CdInv, cdvars
  <2> QED BY <2>1, <2>2 DEF CdNext
<1> QED BY <1>1, <1>2, PTL DEF CdSpec

\* The texts of a length are sequences of their characters.
LEMMA TextsAre ==
  ASSUME NEW A, NEW m \in Nat, NEW t \in CdTexts(A, m) PROVE t \in Seq(A) /\ Len(t) <= m
<1>1. t \in UNION {[1..k -> A] : k \in 0..m}
  BY DEF CdTexts, BoundedSeq, SeqOf
<1>2. PICK k \in 0..m : t \in [1..k -> A]
  BY <1>1
<1> QED BY <1>2

\* The texts that the functions are called with.
LEMMA InputsAre ==
  ASSUME cd \in CdInputs
  PROVE  /\ cd.fn \in {"urlencode", "urldecode"} => cd.text \in Seq(UrlCharSet)
         /\ cd.fn = "strtou" => cd.text \in Seq(ToSet(Digits) \cup {"letter"})
         /\ cd.fn = "truncate" => cd.text \in Seq(Bytes) /\ cd.arg \in Nat
         /\ cd.fn = "valid" => cd.text \in Seq(Bytes)
         /\ cd.fn \in {"wrongly", "somehow"} => cd.text \in Seq(GroupChars) /\ Len(cd.text) <= CdMaxText + 1
<1>1. CdMaxText \in Nat /\ CdMaxText + 1 \in Nat
  BY CdNat
<1>2. /\ cd.fn \in {"urlencode", "urldecode"} => cd.text \in CdTexts(ToSet(UrlChars), CdMaxText)
      /\ cd.fn = "strtou" => cd.text \in CdTexts(ToSet(Digits) \cup {"letter"}, CdMaxText + 1)
      /\ cd.fn = "truncate" => cd.text \in CdTexts(Bytes, CdMaxText) /\ cd.arg \in 0..CdMaxText
      /\ cd.fn = "valid" => cd.text \in CdTexts(Bytes, CdMaxText + 1)
      /\ cd.fn \in {"wrongly", "somehow"} => cd.text \in CdTexts(GroupChars, CdMaxText + 1)
  BY DEF CdInputs
<1>3. CASE cd.fn \in {"urlencode", "urldecode"}
  BY <1>1, <1>2, <1>3, TextsAre DEF UrlCharSet
<1>4. CASE cd.fn = "strtou"
  BY <1>1, <1>2, <1>4, TextsAre
<1>5. CASE cd.fn = "truncate"
  BY <1>1, <1>2, <1>5, TextsAre
<1>6. CASE cd.fn = "valid"
  BY <1>1, <1>2, <1>6, TextsAre
<1>7. CASE cd.fn \in {"wrongly", "somehow"}
  BY <1>1, <1>2, <1>7, TextsAre
<1> QED BY <1>3, <1>4, <1>5, <1>6, <1>7

\* What urlencode() made of a text urldecode() makes that text of again, in a buffer of
\* the size that urldecode_size() asked for; the size of what urlencode() makes is noticed not to
\* be below SIZE_MAX and never wrapped; and urldecode() fills its buffer, for every text.
THEOREM TextsAreKept == CdSpec => []TextsComeBack
<1>1. CdInv => TextsComeBack
  <2> SUFFICES ASSUME CdInv PROVE TextsComeBack
    OBVIOUS
  <2>1. ASSUME cdDone, cd.fn = "urlencode"
        PROVE  /\ cdOut.size = IF Len(cdOut.text) >= CdSizeMax THEN -1 ELSE Len(cdOut.text)
               /\ Urldecode(cdOut.text) = cd.text
               /\ UrldecodeSize(cdOut.text) = Len(cd.text)
    <3> DEFINE src == cd.text
               plus == cd.arg = 1
    <3>1. src \in Seq(UrlCharSet) /\ plus \in BOOLEAN
      BY <2>1, InputsAre DEF CdInv
    <3>2. cdOut = UrlencodeCall(src, plus)
      BY <2>1 DEF CdInv
    <3> HIDE DEF src, plus
    <3>3. /\ cdOut.size = IF UrlencodeSize(src, plus) = CdSizeMax THEN -1 ELSE UrlencodeSize(src, plus)
          /\ cdOut.text = Urlencode(src, plus)
      BY <3>2 DEF UrlencodeCall
    <3>4. UrlencodeSize(src, plus) =
            IF Len(Urlencode(src, plus)) > CdSizeMax THEN -1 ELSE Len(Urlencode(src, plus))
      BY <3>1, SizeIs
    <3>5. Urldecode(Urlencode(src, plus)) = src /\ UrldecodeSize(Urlencode(src, plus)) = Len(src)
      BY <3>1, EncodedComesBack
    <3>6. Len(Urlencode(src, plus)) \in Nat /\ CdSizeMax \in Nat
      <4>1. Urlencode(src, plus) \in Seq(UrlCharSet)
        <5>1. PICK f \in [0..Len(src) -> Seq(UrlCharSet)] :
                Encodes(f, src, plus) /\ Urlencode(src, plus) = f[Len(src)]
          BY <3>1, UrlencodeIsRecursive
        <5>2. Len(src) \in 0..Len(src)
          BY <3>1
        <5> QED BY <5>1, <5>2
      <4> QED BY <4>1, CdNat
    <3>7. cdOut.size = IF Len(cdOut.text) >= CdSizeMax THEN -1 ELSE Len(cdOut.text)
      <4> DEFINE k == Len(Urlencode(src, plus))
      <4>1. k \in Nat /\ cdOut.size = IF (IF k > CdSizeMax THEN -1 ELSE k) = CdSizeMax THEN -1
                                       ELSE IF k > CdSizeMax THEN -1 ELSE k
        BY <3>3, <3>4, <3>6
      <4>2. Len(cdOut.text) = k
        BY <3>3
      <4> HIDE DEF k
      <4> QED BY <4>1, <4>2, <3>6
    <3> QED BY <3>3, <3>5, <3>7 DEF src
  <2>2. ASSUME cdDone, cd.fn = "urldecode"
        PROVE  cdOut.text = <<"nil">> \/ cdOut.size = Len(cdOut.text)
    <3> DEFINE src == cd.text
    <3>1. src \in Seq(UrlCharSet)
      BY <2>2, InputsAre DEF CdInv
    <3>2. cdOut = UrldecodeCall(src)
      BY <2>2 DEF CdInv
    <3> HIDE DEF src
    <3>3. cdOut.size = UrldecodeSize(src) /\ cdOut.text = Urldecode(src)
      BY <3>2 DEF UrldecodeCall
    <3> QED BY <3>1, <3>3, DecodedFills
  <2> QED BY <2>1, <2>2 DEF TextsComeBack, Computed
<1> QED BY <1>1, CodecsCompute, PTL

-----------------------------------------------------------------------------
(* ls_strtou_b().                                                          *)

\* One step of it, and all of them.
StrtouStep(st, c) ==
  IF st.stop \/ ~IsDigit(c) THEN [st EXCEPT !.stop = TRUE]
  ELSE IF st.ret > CdIntMax \div CdBase \/ st.ret * CdBase > CdIntMax - Value(c)
  THEN [st EXCEPT !.stop = TRUE, !.ret = -1]
  ELSE [st EXCEPT !.ret = @ * CdBase + Value(c), !.end = @ + 1]
StrtouStart == [ret |-> 0, end |-> 0, stop |-> FALSE]
StrtouStates ==
  {st \in [ret : {-1} \cup 0..CdIntMax, end : Nat, stop : BOOLEAN] : st.ret < 0 => st.stop}
StrtouReads(f, s) == f[0] = StrtouStart /\ \A k \in 1..Len(s) : f[k] = StrtouStep(f[k - 1], s[k])

\* What a digit is worth.
LEMMA DigitIs ==
  ASSUME NEW c, IsDigit(c)
  PROVE  Value(c) \in 0..2
<1>1. c \in {"0", "1", "2"}
  BY DigitsAre
<1>2. Digits[0 + 1] = "0" /\ Digits[1 + 1] = "1" /\ Digits[2 + 1] = "2"
  BY DEF Digits
<1>3. Value(Digits[0 + 1]) = 0 /\ Value(Digits[1 + 1]) = 1 /\ Value(Digits[2 + 1]) = 2
  BY DigitsAre
<1> QED BY <1>1, <1>2, <1>3

\* What a step does: it stops at what is not a digit and at what an int cannot hold.
LEMMA StrtouStepIs ==
  ASSUME NEW st \in StrtouStates, NEW c
  PROVE  /\ StrtouStep(st, c) \in StrtouStates
         /\ st.stop => StrtouStep(st, c).stop /\ StrtouStep(st, c).ret = st.ret /\ StrtouStep(st, c).end = st.end
         /\ ~st.stop /\ ~IsDigit(c) => /\ StrtouStep(st, c).stop /\ StrtouStep(st, c).ret = st.ret
                                       /\ StrtouStep(st, c).end = st.end
         /\ ~st.stop /\ IsDigit(c) /\ st.ret * 3 + Value(c) > CdIntMax =>
              StrtouStep(st, c).stop /\ StrtouStep(st, c).ret = -1
         /\ ~st.stop /\ IsDigit(c) /\ st.ret * 3 + Value(c) <= CdIntMax =>
              /\ ~StrtouStep(st, c).stop /\ StrtouStep(st, c).end = st.end + 1
              /\ StrtouStep(st, c).ret = st.ret * 3 + Value(c)
<1>1. CdIntMax \in Nat
  BY CdNat
<1>2. /\ st.ret \in {-1} \cup 0..CdIntMax /\ st.end \in Nat /\ st.stop \in BOOLEAN
      /\ st = [ret |-> st.ret, end |-> st.end, stop |-> st.stop]
      /\ st.ret < 0 => st.stop
  BY DEF StrtouStates
<1>3. CASE st.stop \/ ~IsDigit(c)
  <2>1. StrtouStep(st, c) = [ret |-> st.ret, end |-> st.end, stop |-> TRUE]
    BY <1>3, <1>2 DEF StrtouStep, StrtouStates
  <2> QED BY <1>2, <1>3, <2>1 DEF StrtouStates
<1>4. CASE ~st.stop /\ IsDigit(c)
  <2> DEFINE v == Value(c)
             r == st.ret
             m == CdIntMax
  <2>1. v \in 0..2
    BY <1>4, DigitIs
  <2> HIDE DEF v, r, m
  <2>2. r \in {-1} \cup 0..m /\ m \in Nat
    BY <1>1, <1>2 DEF r, m
  <2>3. /\ r > m \div 3 \/ r * 3 > m - v <=> r * 3 + v > m
    <3>1. m \div 3 \in Nat /\ \A x \in Nat : x > m \div 3 => x * 3 > m
      BY <2>2
    <3> DEFINE d == m \div 3
    <3> HIDE DEF d
    <3>2. d \in Nat /\ (r > d => r * 3 > m)
      BY <2>2, <3>1 DEF d
    <3>3. r * 3 \in Int /\ (r * 3 > m - v <=> r * 3 + v > m)
      BY <2>1, <2>2
    <3>4. r * 3 > m => r * 3 + v > m
      BY <2>1, <2>2, <3>3
    <3>5. r > d \/ r * 3 > m - v <=> r * 3 + v > m
      BY <3>2, <3>3, <3>4
    <3> QED BY <3>5 DEF d
  <2>4. CASE r * 3 + v > m
    <3>1. StrtouStep(st, c) = [ret |-> -1, end |-> st.end, stop |-> TRUE]
      BY <1>2, <1>4, <2>3, <2>4 DEF StrtouStep, StrtouStates, CdBase, r, m, v
    <3> QED BY <1>2, <1>4, <2>1, <2>2, <2>4, <3>1 DEF StrtouStates, r, m, v
  <2>5. CASE ~(r * 3 + v > m)
    <3>1. StrtouStep(st, c) = [ret |-> r * 3 + v, end |-> st.end + 1, stop |-> FALSE]
      BY <1>2, <1>4, <2>3, <2>5 DEF StrtouStep, StrtouStates, CdBase, r, m, v
    <3>2. st.end + 1 \in Nat
      BY <1>2
    <3>3. r \in 0..m
      BY <1>2, <1>4, <2>2 DEF r
    <3>4. r * 3 + v \in 0..m /\ r * 3 + v <= m /\ ~(r * 3 + v < 0)
      BY <2>1, <2>2, <2>5, <3>3
    <3> QED BY <1>2, <1>4, <2>5, <3>1, <3>2, <3>4 DEF StrtouStates, r, m, v
  <2> QED BY <2>4, <2>5
<1> QED BY <1>2, <1>3, <1>4

\* ls_strtou_b() does them.
LEMMA StrtouIsRecursive ==
  ASSUME NEW src \in Seq(ToSet(Digits) \cup {"letter"})
  PROVE  \E f \in [0..Len(src) -> StrtouStates] : StrtouReads(f, src) /\ Strtou(src) = f[Len(src)]
<1> DEFINE n == Len(src)
           V == StrtouStates
           step == [k \in 1..n |-> [v \in V |-> StrtouStep(v, src[k])]]
           Is(g) == g = [s \in SUBSET (1..n) |->
                           IF s = {} THEN StrtouStart ELSE StrtouStep(g[s \ {Max(s)}], src[Max(s)])]
           g == CHOOSE g : Is(g)
           f == [k \in 0..n |-> g[1..k]]
<1>1. n \in Nat
  OBVIOUS
<1>2. StrtouStart \in V /\ \A k \in 1..n, v \in V : StrtouStep(v, src[k]) \in V
  <2>1. StrtouStart \in StrtouStates
    <3>1. 0 \in {-1} \cup 0..CdIntMax
      BY CdNat
    <3> QED BY <3>1 DEF StrtouStart, StrtouStates
  <2> QED BY <2>1, StrtouStepIs
<1>3. \E h : Is(h)
  <2>1. step \in [1..n -> [V -> V]]
    <3> HIDE DEF V, n
    <3>1. \A k \in 1..n : [v \in V |-> StrtouStep(v, src[k])] \in [V -> V]
      BY <1>2
    <3> QED BY <3>1
  <2>2. PICK h \in [SUBSET (1..n) -> V] : FoldsSets(h, n, StrtouStart, step)
    <3> HIDE DEF V, n, step
    <3> QED BY <1>1, <1>2, <2>1, FoldExists
  <2>3. ASSUME NEW s \in SUBSET (1..n), s # {}
        PROVE  h[s] = StrtouStep(h[s \ {Max(s)}], src[Max(s)])
    <3>1. Max(s) \in 1..n /\ s \ {Max(s)} \in SUBSET (1..n)
      <4> HIDE DEF n
      <4> QED BY <1>1, <2>3, MaxOfSome
    <3>2. h[s \ {Max(s)}] \in V
      <4> HIDE DEF n, V
      <4> QED BY <3>1
    <3>3. h[s] = step[Max(s)][h[s \ {Max(s)}]]
      <4> HIDE DEF n, V, step
      <4> QED BY <2>2, <2>3 DEF FoldsSets
    <3> DEFINE m == Max(s)
               t == s \ {m}
               u == h[t]
    <3> HIDE DEF V, n, m
    <3>4. h[s] = step[m][u] /\ u \in V /\ m \in 1..n
      BY <3>1, <3>2, <3>3 DEF m
    <3> HIDE DEF u
    <3>5. step[m][u] = StrtouStep(u, src[m])
      BY <3>4
    <3> HIDE DEF step
    <3>6. h[s] = StrtouStep(u, src[m])
      BY <3>4, <3>5
    <3> QED BY <3>6 DEF u, m
  <2>4. h[{}] = StrtouStart
    <3> HIDE DEF V, n, step
    <3> QED BY <2>2 DEF FoldsSets
  <2>5. Is(h)
    <3> HIDE DEF V, n, step
    <3>1. \A s \in SUBSET (1..n) : h[s] = IF s = {} THEN StrtouStart ELSE StrtouStep(h[s \ {Max(s)}], src[Max(s)])
      BY <2>3, <2>4
    <3>2. h = [s \in SUBSET (1..n) |-> h[s]]
      BY <2>2
    <3> QED BY <3>1, <3>2, Zenon
  <2> QED BY <2>5
<1>4. Is(g)
  <2> HIDE DEF Is
  <2> QED BY <1>3
<1>5. Strtou(src) = g[1..n]
  <2>1. DOMAIN src = 1..n
    OBVIOUS
  <2> QED BY <2>1 DEF Strtou, StrtouStart, StrtouStep, FoldLeft, MapThenFoldSet
<1> HIDE DEF g
<1>6. f[0] = StrtouStart
  <2> HIDE DEF n
  <2>1. 1..0 = {} /\ {} \in SUBSET (1..n) /\ 0 \in 0..n
    BY <1>1
  <2>2. g[{}] = StrtouStart
    BY <1>4, <2>1, Zenon
  <2> QED BY <2>1, <2>2
<1>7. ASSUME NEW k \in 1..n PROVE f[k] = StrtouStep(f[k - 1], src[k])
  <2> HIDE DEF n
  <2>1. 1..k \in SUBSET (1..n) /\ k \in 0..n /\ k - 1 \in 0..n /\ k \in Nat /\ k >= 1
    BY <1>1
  <2>2. Max(1..k) = k /\ (1..k) \ {Max(1..k)} = 1..k - 1 /\ 1..k # {}
    BY <2>1, MaxOfInterval
  <2>3. g[1..k] = StrtouStep(g[(1..k) \ {Max(1..k)}], src[Max(1..k)])
    BY <1>4, <2>1, <2>2, Zenon
  <2>4. g[1..k] = StrtouStep(g[1..k - 1], src[k])
    BY <2>2, <2>3, Zenon
  <2>5. f[k] = g[1..k] /\ f[k - 1] = g[1..k - 1]
    BY <2>1
  <2> QED BY <2>4, <2>5, Zenon
<1> HIDE DEF f
<1>8. \A k \in 0..n : f[k] \in V
  <2> HIDE DEF n, V
  <2>1. f[0] \in V
    BY <1>2, <1>6
  <2>2. \A k \in 1..n : f[k - 1] \in V => f[k] \in V
    BY <1>2, <1>7, Zenon
  <2> QED BY <1>1, <2>1, <2>2, AllAlong
<1>9. f \in [0..n -> V] /\ Strtou(src) = f[n]
  <2> HIDE DEF n, V
  <2>1. n \in 0..n /\ f = [k \in 0..n |-> g[1..k]]
    BY <1>1 DEF f
  <2> QED BY <1>5, <1>8, <2>1
<1>10. StrtouReads(f, src)
  BY <1>6, <1>7 DEF StrtouReads
<1> QED BY <1>9, <1>10

\* What a numeral is worth, digit by digit.
Worths(f, s) == f[0] = 0 /\ \A k \in 1..Len(s) : f[k] = f[k - 1] * 3 + Value(s[k])

\* What a numeral is worth, digit by digit.
LEMMA WorthIsRecursive ==
  ASSUME NEW src \in Seq({"0", "1", "2"})
  PROVE  \E f \in [0..Len(src) -> Nat] : Worths(f, src) /\ Worth(src) = f[Len(src)]
<1> DEFINE n == Len(src)
           V == Nat
           step == [k \in 1..n |-> [v \in V |-> v * CdBase + Value(src[k])]]
           Is(g) == g = [s \in SUBSET (1..n) |->
                           IF s = {} THEN 0 ELSE g[s \ {Max(s)}] * CdBase + Value(src[Max(s)])]
           g == CHOOSE g : Is(g)
           f == [k \in 0..n |-> g[1..k]]
<1>1. n \in Nat
  OBVIOUS
<1>2. 0 \in V /\ \A k \in 1..n, v \in V : v * CdBase + Value(src[k]) \in V
  <2>1. ASSUME NEW k \in 1..n, NEW v \in V PROVE v * CdBase + Value(src[k]) \in V
    <3> DEFINE c == src[k]
               d == Value(c)
    <3>1. c \in {"0", "1", "2"}
      OBVIOUS
    <3> HIDE DEF c
    <3>2. d \in 0..2
      BY <3>1, DigitsAre, DigitIs
    <3> HIDE DEF d
    <3>3. v * CdBase + d \in Nat
      BY <3>2 DEF CdBase
    <3> QED BY <3>3 DEF c, d
  <2> QED BY <2>1
<1>3. \E h : Is(h)
  <2>1. step \in [1..n -> [V -> V]]
    <3> HIDE DEF V, n
    <3>1. \A k \in 1..n : [v \in V |-> v * CdBase + Value(src[k])] \in [V -> V]
      BY <1>2
    <3> QED BY <3>1
  <2>2. PICK h \in [SUBSET (1..n) -> V] : FoldsSets(h, n, 0, step)
    <3> HIDE DEF V, n, step
    <3> QED BY <1>1, <1>2, <2>1, FoldExists
  <2>3. ASSUME NEW s \in SUBSET (1..n), s # {}
        PROVE  h[s] = h[s \ {Max(s)}] * CdBase + Value(src[Max(s)])
    <3>1. Max(s) \in 1..n /\ s \ {Max(s)} \in SUBSET (1..n)
      <4> HIDE DEF n
      <4> QED BY <1>1, <2>3, MaxOfSome
    <3>2. h[s \ {Max(s)}] \in V
      <4> HIDE DEF n, V
      <4> QED BY <3>1
    <3>3. h[s] = step[Max(s)][h[s \ {Max(s)}]]
      <4> HIDE DEF n, V, step
      <4> QED BY <2>2, <2>3 DEF FoldsSets
    <3> DEFINE m == Max(s)
               t == s \ {m}
               u == h[t]
    <3> HIDE DEF V, n, m
    <3>4. h[s] = step[m][u] /\ u \in V /\ m \in 1..n
      BY <3>1, <3>2, <3>3 DEF m
    <3> HIDE DEF u
    <3>5. step[m][u] = u * CdBase + Value(src[m])
      BY <3>4
    <3> HIDE DEF step
    <3>6. h[s] = u * CdBase + Value(src[m])
      BY <3>4, <3>5
    <3> QED BY <3>6 DEF u, m
  <2>4. h[{}] = 0
    <3> HIDE DEF V, n, step
    <3> QED BY <2>2 DEF FoldsSets
  <2>5. Is(h)
    <3> HIDE DEF V, n, step
    <3>1. \A s \in SUBSET (1..n) : h[s] = IF s = {} THEN 0 ELSE h[s \ {Max(s)}] * CdBase + Value(src[Max(s)])
      BY <2>3, <2>4
    <3>2. h = [s \in SUBSET (1..n) |-> h[s]]
      BY <2>2
    <3> QED BY <3>1, <3>2, Zenon
  <2> QED BY <2>5
<1>4. Is(g)
  <2> HIDE DEF Is
  <2> QED BY <1>3
<1>5. Worth(src) = g[1..n]
  <2>1. DOMAIN src = 1..n
    OBVIOUS
  <2> QED BY <2>1 DEF Worth, FoldLeft, MapThenFoldSet
<1> HIDE DEF g
<1>6. f[0] = 0
  <2> HIDE DEF n
  <2>1. 1..0 = {} /\ {} \in SUBSET (1..n) /\ 0 \in 0..n
    BY <1>1
  <2>2. g[{}] = 0
    BY <1>4, <2>1, Zenon
  <2> QED BY <2>1, <2>2
<1>7. ASSUME NEW k \in 1..n PROVE f[k] = f[k - 1] * CdBase + Value(src[k])
  <2> HIDE DEF n
  <2>1. 1..k \in SUBSET (1..n) /\ k \in 0..n /\ k - 1 \in 0..n /\ k \in Nat /\ k >= 1
    BY <1>1
  <2>2. Max(1..k) = k /\ (1..k) \ {Max(1..k)} = 1..k - 1 /\ 1..k # {}
    BY <2>1, MaxOfInterval
  <2>3. g[1..k] = g[(1..k) \ {Max(1..k)}] * CdBase + Value(src[Max(1..k)])
    BY <1>4, <2>1, <2>2, Zenon
  <2>4. g[1..k] = g[1..k - 1] * CdBase + Value(src[k])
    BY <2>2, <2>3, Zenon
  <2>5. f[k] = g[1..k] /\ f[k - 1] = g[1..k - 1]
    BY <2>1
  <2> QED BY <2>4, <2>5, Zenon
<1> HIDE DEF f
<1>8. \A k \in 0..n : f[k] \in V
  <2> HIDE DEF n, V
  <2>1. f[0] \in V
    BY <1>2, <1>6
  <2>2. \A k \in 1..n : f[k - 1] \in V => f[k] \in V
    BY <1>2, <1>7, Zenon
  <2> QED BY <1>1, <2>1, <2>2, AllAlong
<1>9. f \in [0..n -> V] /\ Worth(src) = f[n]
  <2> HIDE DEF n, V
  <2>1. n \in 0..n /\ f = [k \in 0..n |-> g[1..k]]
    BY <1>1 DEF f
  <2> QED BY <1>5, <1>8, <2>1
<1>10. Worths(f, src)
  BY <1>6, <1>7 DEF Worths, CdBase
<1> QED BY <1>9, <1>10

\* A numeral is read as what it is worth, or refused.
LEMMA NumeralIsRead ==
  ASSUME NEW src \in Seq(ToSet(Digits) \cup {"letter"})
  PROVE  FullStrtouB(src) = IF src # <<>> /\ (\A i \in 1..Len(src) : IsDigit(src[i])) /\ Worth(src) <= CdIntMax
                            THEN Worth(src) ELSE -1
<1> DEFINE n == Len(src)
           m == CdIntMax
<1>1. n \in Nat /\ m \in Nat /\ n \in 0..n
  BY CdNat
<1>2. PICK f \in [0..n -> StrtouStates] : StrtouReads(f, src) /\ Strtou(src) = f[n]
  BY StrtouIsRecursive
<1> HIDE DEF m
<1>3. \A k \in 0..n : f[k] \in StrtouStates
  OBVIOUS
<1>4. f[0].ret = 0 /\ f[0].end = 0 /\ f[0].stop = FALSE
  BY <1>2 DEF StrtouReads, StrtouStart
<1>5. \A k \in 1..n : f[k] = StrtouStep(f[k - 1], src[k]) /\ k - 1 \in 0..n
  BY <1>2 DEF StrtouReads
<1>6. \A k \in 0..n : f[k].ret \in {-1} \cup 0..m /\ f[k].end \in Nat /\ f[k].stop \in BOOLEAN
  BY <1>3 DEF StrtouStates, m
\* Without a stop every character so far was a digit; a stop without an overflow is before the end.
<1>7. \A k \in 0..n : /\ ~f[k].stop => f[k].end = k /\ \A i \in 1..k : IsDigit(src[i])
                      /\ f[k].stop /\ f[k].ret >= 0 => f[k].end < k
  <2> DEFINE P(k) == /\ ~f[k].stop => f[k].end = k /\ \A i \in 1..k : IsDigit(src[i])
                     /\ f[k].stop /\ f[k].ret >= 0 => f[k].end < k
             T == {k \in 0..n : P(k)}
  <2>1. 0 \in T
    BY <1>1, <1>4
  <2>2. ASSUME NEW k \in 0..n - 1, k \in T PROVE k + 1 \in T
    <3> DEFINE x == f[k]
               y == f[k + 1]
               c == src[k + 1]
    <3>1. k + 1 \in 1..n /\ k \in 0..n /\ k + 1 \in 0..n /\ (k + 1) - 1 = k /\ k \in Nat
      BY <1>1
    <3>2. y = StrtouStep(x, c) /\ x \in StrtouStates
      BY <1>3, <1>5, <3>1
    <3>3. x.ret \in {-1} \cup 0..m /\ x.end \in Nat /\ x.stop \in BOOLEAN /\ y.ret \in {-1} \cup 0..m
      BY <1>6, <3>1
    <3>4. P(k)
      OBVIOUS
    <3>5. \A i \in 1..k + 1 : i \in 1..k \/ i = k + 1
      BY <3>1
    <3> HIDE DEF y, n
    <3>6. CASE x.stop
      <4>1. y.stop /\ y.ret = x.ret /\ y.end = x.end
        BY <3>2, <3>6, StrtouStepIs
      <4>2. x.ret >= 0 => x.end < k + 1
        BY <3>1, <3>3, <3>4, <3>6
      <4>3. P(k + 1)
        BY <4>1, <4>2 DEF y
      <4> QED BY <3>1, <4>3
    <3>7. CASE ~x.stop /\ ~IsDigit(c)
      <4>1. y.stop /\ y.ret = x.ret /\ y.end = x.end
        BY <3>2, <3>7, StrtouStepIs
      <4>2. x.end < k + 1
        BY <3>1, <3>4, <3>7
      <4>3. P(k + 1)
        BY <4>1, <4>2 DEF y
      <4> QED BY <3>1, <4>3
    <3>8. CASE ~x.stop /\ IsDigit(c)
      <4>1. x.ret * 3 + Value(c) \in Int
        <5>1. Value(c) \in 0..2
          BY <3>8, DigitIs
        <5> QED BY <3>3, <5>1
      <4>2. CASE x.ret * 3 + Value(c) > CdIntMax
        <5>1. y.stop /\ y.ret = -1
          BY <3>2, <3>8, <4>2, StrtouStepIs
        <5>2. P(k + 1)
          BY <5>1 DEF y
        <5> QED BY <3>1, <5>2
      <4>3. CASE x.ret * 3 + Value(c) <= CdIntMax
        <5>1. ~y.stop /\ y.end = x.end + 1
          BY <3>2, <3>8, <4>3, StrtouStepIs
        <5>2. x.end = k /\ \A i \in 1..k : IsDigit(src[i])
          BY <3>4, <3>8
        <5>3. \A i \in 1..k + 1 : IsDigit(src[i])
          BY <3>5, <3>8, <5>2
        <5>4. P(k + 1)
          BY <5>1, <5>2, <5>3 DEF y
        <5> QED BY <3>1, <5>4
      <4> DEFINE sum == x.ret * 3 + Value(c)
      <4>4. sum > CdIntMax \/ sum <= CdIntMax
        <5> HIDE DEF sum
        <5> QED BY <4>1, CdNat DEF sum
      <4> QED BY <4>2, <4>3, <4>4
    <3> QED BY <3>6, <3>7, <3>8
  <2> HIDE DEF T, n
  <2>3. 0..n \subseteq T
    BY <1>1, <2>1, <2>2, IntervalInduction
  <2> QED BY <2>3 DEF T
<1>8. FullStrtouB(src) = IF src = <<>> \/ f[n].ret < 0 \/ f[n].end # n THEN -1 ELSE f[n].ret
  BY <1>2 DEF FullStrtouB
<1>9. CASE \E i \in 1..n : ~IsDigit(src[i])
  <2>1. f[n].stop
    BY <1>1, <1>6, <1>7, <1>9
  <2>2. f[n].ret >= 0 => f[n].end # n
    BY <1>1, <1>6, <1>7, <2>1
  <2>3. FullStrtouB(src) = -1
    BY <1>1, <1>6, <1>8, <2>2
  <2> QED BY <1>9, <2>3
<1>10. CASE \A i \in 1..n : IsDigit(src[i])
  <2>1. src \in Seq({"0", "1", "2"})
    <3>1. \A i \in 1..n : src[i] \in {"0", "1", "2"}
      BY <1>10, DigitsAre
    <3>2. src = [i \in 1..n |-> src[i]]
      OBVIOUS
    <3> HIDE DEF n
    <3> QED BY <1>1, <3>1, <3>2
  <2>2. PICK w \in [0..n -> Nat] : Worths(w, src) /\ Worth(src) = w[n]
    BY <2>1, WorthIsRecursive
  <2>3. w[0] = 0 /\ \A k \in 1..n : w[k] = w[k - 1] * 3 + Value(src[k])
    BY <2>2 DEF Worths
  <2>4. \A k \in 0..n : w[k] \in Nat
    OBVIOUS
  \* As long as an int holds it the number is what the digits are worth; then it is refused.
  <2>5. /\ ~f[n].stop => f[n].ret = w[n] /\ w[n] <= m
        /\ f[n].stop => f[n].ret = -1 /\ w[n] > m
    <3> DEFINE P(k) == /\ ~f[k].stop => f[k].ret = w[k] /\ w[k] <= m
                       /\ f[k].stop => f[k].ret = -1 /\ w[k] > m
               T == {k \in 0..n : P(k)}
    <3>1. 0 \in T
      BY <1>1, <1>4, <2>3
    <3>2. ASSUME NEW k \in 0..n - 1, k \in T PROVE k + 1 \in T
      <4> DEFINE x == f[k]
                 y == f[k + 1]
                 c == src[k + 1]
                 d == Value(c)
                 u == w[k]
      <4>1. k + 1 \in 1..n /\ k \in 0..n /\ k + 1 \in 0..n /\ (k + 1) - 1 = k /\ k \in Nat
        BY <1>1
      <4>2. y = StrtouStep(x, c) /\ x \in StrtouStates
        BY <1>3, <1>5, <4>1
      <4>3. d \in 0..2 /\ IsDigit(c)
        BY <1>10, <4>1, DigitIs
      <4>4. w[k + 1] = u * 3 + d /\ u \in Nat
        BY <2>3, <2>4, <4>1
      <4>5. P(k)
        OBVIOUS
      <4> HIDE DEF y, n, d, u, c
      <4>6. CASE x.stop
        <5>1. y.stop /\ y.ret = x.ret
          BY <4>2, <4>6, StrtouStepIs
        <5>2. x.ret = -1 /\ u > m
          BY <4>5, <4>6 DEF u
        <5>3. u * 3 + d > m
          BY <1>1, <4>3, <4>4, <5>2
        <5>4. P(k + 1)
          BY <4>4, <5>1, <5>2, <5>3 DEF y
        <5> QED BY <4>1, <5>4
      <4>7. CASE ~x.stop
        <5>1. x.ret = u /\ u <= m
          BY <4>5, <4>7 DEF u
        <5>2. CASE u * 3 + d > m
          <6>1. y.stop /\ y.ret = -1
            BY <4>2, <4>3, <4>7, <5>1, <5>2, StrtouStepIs DEF d, m
          <6>2. P(k + 1)
            BY <4>4, <5>2, <6>1 DEF y
          <6> QED BY <4>1, <6>2
        <5>3. CASE u * 3 + d <= m
          <6>1. ~y.stop /\ y.ret = u * 3 + d
            BY <4>2, <4>3, <4>7, <5>1, <5>3, StrtouStepIs DEF d, m
          <6>2. P(k + 1)
            BY <4>4, <5>3, <6>1 DEF y
          <6> QED BY <4>1, <6>2
        <5> QED BY <1>1, <4>3, <4>4, <5>2, <5>3
      <4> QED BY <4>6, <4>7
    <3> HIDE DEF T, n
    <3>3. 0..n \subseteq T
      BY <1>1, <3>1, <3>2, IntervalInduction
    <3> QED BY <1>1, <3>3 DEF T
  <2>6. CASE f[n].stop
    <3>1. f[n].ret = -1 /\ ~(w[n] <= m)
      BY <1>1, <2>4, <2>5, <2>6
    <3> QED BY <1>8, <2>2, <3>1 DEF m
  <2>7. CASE ~f[n].stop
    <3>1. f[n].ret = w[n] /\ w[n] <= m /\ ~(f[n].ret < 0)
      BY <1>1, <2>4, <2>5, <2>7
    <3>2. f[n].end = n
      BY <1>1, <1>7, <2>7
    <3> QED BY <1>8, <1>10, <2>2, <3>1, <3>2 DEF m
  <2> QED BY <2>6, <2>7
<1> QED BY <1>9, <1>10

-----------------------------------------------------------------------------
(* wrongly_parse_layout().                                                 *)

\* One step of it, and all of them.
LayoutStep(st, c) ==
  CASE c = "comma" /\ st.balance = 0 -> [st EXCEPT !.out = Append(@, st.piece), !.piece = <<>>]
    [] c = "(" -> [st EXCEPT !.balance = (@ + 1) % (CdSizeMax + 1), !.piece = Append(@, c)]
    [] c = ")" -> [st EXCEPT !.balance = (@ + CdSizeMax) % (CdSizeMax + 1), !.piece = Append(@, c)]
    [] OTHER   -> [st EXCEPT !.piece = Append(@, c)]
LayoutStart == [balance |-> 0, piece |-> <<>>, out |-> <<>>]
LayoutStates == [balance : 0..CdSizeMax, piece : Seq(GroupChars), out : Seq(Seq(GroupChars))]
Divides(f, s) == f[0] = LayoutStart /\ \A k \in 1..Len(s) : f[k] = LayoutStep(f[k - 1], s[k])

\* A size_t that is counted up and down.
LEMMA BalanceWraps ==
  ASSUME NEW m \in Nat, NEW b \in 0..m
  PROVE  /\ (b + 1) % (m + 1) = IF b = m THEN 0 ELSE b + 1
         /\ (b + m) % (m + 1) = IF b = 0 THEN m ELSE b - 1
<1>1. ASSUME NEW x \in 0..m PROVE x % (m + 1) = x
  <2>1. x + 0 <= m /\ x + 0 = x
    OBVIOUS
  <2>2. x + 0 <= m => (x + 0) % (m + 1) = x + 0
    BY SumOfSizes
  <2> QED BY <2>1, <2>2
<1>2. ASSUME NEW x \in 0..m PROVE (x + (m + 1)) % (m + 1) = x
  <2> DEFINE d == m + 1
             z == x + d
             q == z \div d
             y == z % d
  <2>1. d \in Nat /\ d > 0 /\ z \in Nat /\ x \in Nat /\ x < d
    OBVIOUS
  <2>2. y \in 0..d - 1 /\ q \in Int /\ z = d * q + y
    <3> HIDE DEF z, d
    <3>1. \A a \in Int, e \in Int : e > 0 => a % e \in 0..e - 1 /\ a \div e \in Int /\ a = e * (a \div e) + (a % e)
      OBVIOUS
    <3> QED BY <2>1, <3>1
  <2>3. z = x + d
    OBVIOUS
  <2> HIDE DEF z, q, y, d
  <2>4. q = 1
    <3>1. q >= 2 => d * q >= d + d
      BY <2>1, <2>2
    <3>2. q <= 0 => d * q <= 0
      BY <2>1, <2>2
    <3> QED BY <2>1, <2>2, <2>3, <3>1, <3>2
  <2>5. y = x
    BY <2>1, <2>2, <2>3, <2>4
  <2> QED BY <2>5 DEF y, z, d
<1>3. (b + 1) % (m + 1) = IF b = m THEN 0 ELSE b + 1
  <2>1. CASE b = m
    <3>1. 0 \in 0..m /\ b + 1 = 0 + (m + 1)
      BY <2>1
    <3> QED BY <1>2, <2>1, <3>1
  <2>2. CASE b # m
    <3>1. b + 1 \in 0..m
      BY <2>2
    <3> QED BY <1>1, <2>2, <3>1
  <2> QED BY <2>1, <2>2
<1>4. (b + m) % (m + 1) = IF b = 0 THEN m ELSE b - 1
  <2>1. CASE b = 0
    <3>1. b + m = m /\ m \in 0..m
      BY <2>1
    <3> QED BY <1>1, <2>1, <3>1
  <2>2. CASE b # 0
    <3>1. b - 1 \in 0..m /\ b + m = (b - 1) + (m + 1)
      BY <2>2
    <3> QED BY <1>2, <2>2, <3>1
  <2> QED BY <2>1, <2>2
<1> QED BY <1>3, <1>4

\* What a step does.
LEMMA LayoutStepIs ==
  ASSUME NEW st \in LayoutStates, NEW c \in GroupChars
  PROVE  /\ LayoutStep(st, c) \in LayoutStates
         /\ c = "comma" /\ st.balance = 0 =>
              LayoutStep(st, c) = [balance |-> 0, piece |-> <<>>, out |-> Append(st.out, st.piece)]
         /\ ~(c = "comma" /\ st.balance = 0) =>
              /\ LayoutStep(st, c).piece = Append(st.piece, c) /\ LayoutStep(st, c).out = st.out
              /\ LayoutStep(st, c).balance =
                   IF c = "(" THEN (IF st.balance = CdSizeMax THEN 0 ELSE st.balance + 1)
                   ELSE IF c = ")" THEN (IF st.balance = 0 THEN CdSizeMax ELSE st.balance - 1)
                   ELSE st.balance
<1> DEFINE m == CdSizeMax
           b == st.balance
           p == st.piece
           u == st.out
<1>1. m \in Nat /\ b \in 0..m /\ p \in Seq(GroupChars) /\ u \in Seq(Seq(GroupChars))
  BY CdNat DEF LayoutStates
<1>2. st = [balance |-> b, piece |-> p, out |-> u]
  BY DEF LayoutStates
<1> HIDE DEF m, b, p, u
<1>3. /\ (b + 1) % (m + 1) = IF b = m THEN 0 ELSE b + 1
      /\ (b + m) % (m + 1) = IF b = 0 THEN m ELSE b - 1
  BY <1>1, BalanceWraps
<1>4. Append(p, c) \in Seq(GroupChars) /\ Append(u, p) \in Seq(Seq(GroupChars)) /\ <<>> \in Seq(GroupChars)
  BY <1>1
<1>5. CASE c = "comma" /\ b = 0
  <2>1. LayoutStep(st, c) = [balance |-> 0, piece |-> <<>>, out |-> Append(u, p)]
    BY <1>2, <1>5 DEF LayoutStep
  <2>2. 0 \in 0..m
    BY <1>1
  <2>3. LayoutStep(st, c) \in LayoutStates
    BY <1>4, <2>1, <2>2 DEF LayoutStates, m
  <2> QED BY <1>5, <2>1, <2>3 DEF b, p, u
<1>6. CASE ~(c = "comma" /\ b = 0)
  <2> DEFINE e == IF c = "(" THEN (IF b = m THEN 0 ELSE b + 1)
                  ELSE IF c = ")" THEN (IF b = 0 THEN m ELSE b - 1) ELSE b
  <2>1. e \in 0..m
    BY <1>1
  <2>2. LayoutStep(st, c) = [balance |-> e, piece |-> Append(p, c), out |-> u]
    <3>1. CASE c = "("
      BY <1>2, <1>3, <1>6, <3>1 DEF LayoutStep, m
    <3>2. CASE c = ")"
      BY <1>2, <1>3, <1>6, <3>2 DEF LayoutStep, m
    <3>3. CASE c # "(" /\ c # ")"
      BY <1>2, <1>6, <3>3 DEF LayoutStep
    <3> QED BY <3>1, <3>2, <3>3
  <2>3. e = IF c = "(" THEN (IF b = m THEN 0 ELSE b + 1)
            ELSE IF c = ")" THEN (IF b = 0 THEN m ELSE b - 1) ELSE b
    OBVIOUS
  <2> HIDE DEF e
  <2>4. LayoutStep(st, c) \in LayoutStates
    BY <1>1, <1>4, <2>1, <2>2 DEF LayoutStates, m
  <2>5. /\ LayoutStep(st, c).piece = Append(p, c) /\ LayoutStep(st, c).out = u
        /\ LayoutStep(st, c).balance = e
    BY <2>2
  <2> QED BY <1>6, <2>3, <2>4, <2>5 DEF m, b, p, u
<1> QED BY <1>5, <1>6 DEF b

\* wrongly_parse_layout() does them.
LEMMA LayoutIsRecursive ==
  ASSUME NEW src \in Seq(GroupChars)
  PROVE  \E f \in [0..Len(src) -> LayoutStates] :
           Divides(f, src) /\ ParseLayout(src) = Append(f[Len(src)].out, f[Len(src)].piece)
<1> DEFINE n == Len(src)
           V == LayoutStates
           step == [k \in 1..n |-> [v \in V |-> LayoutStep(v, src[k])]]
           Is(g) == g = [s \in SUBSET (1..n) |->
                           IF s = {} THEN LayoutStart ELSE LayoutStep(g[s \ {Max(s)}], src[Max(s)])]
           g == CHOOSE g : Is(g)
           f == [k \in 0..n |-> g[1..k]]
<1>1. n \in Nat
  OBVIOUS
<1>2. LayoutStart \in V /\ \A k \in 1..n, v \in V : LayoutStep(v, src[k]) \in V
  <2>1. LayoutStart \in LayoutStates
    <3>1. 0 \in 0..CdSizeMax
      BY CdNat
    <3> QED BY <3>1 DEF LayoutStart, LayoutStates
  <2>2. \A k \in 1..n : src[k] \in GroupChars
    OBVIOUS
  <2> HIDE DEF n
  <2> QED BY <2>1, <2>2, LayoutStepIs
<1>3. \E h : Is(h)
  <2>1. step \in [1..n -> [V -> V]]
    <3> HIDE DEF V, n
    <3>1. \A k \in 1..n : [v \in V |-> LayoutStep(v, src[k])] \in [V -> V]
      BY <1>2
    <3> QED BY <3>1
  <2>2. PICK h \in [SUBSET (1..n) -> V] : FoldsSets(h, n, LayoutStart, step)
    <3> HIDE DEF V, n, step
    <3> QED BY <1>1, <1>2, <2>1, FoldExists
  <2>3. ASSUME NEW s \in SUBSET (1..n), s # {}
        PROVE  h[s] = LayoutStep(h[s \ {Max(s)}], src[Max(s)])
    <3>1. Max(s) \in 1..n /\ s \ {Max(s)} \in SUBSET (1..n)
      <4> HIDE DEF n
      <4> QED BY <1>1, <2>3, MaxOfSome
    <3>2. h[s \ {Max(s)}] \in V
      <4> HIDE DEF n, V
      <4> QED BY <3>1
    <3>3. h[s] = step[Max(s)][h[s \ {Max(s)}]]
      <4> HIDE DEF n, V, step
      <4> QED BY <2>2, <2>3 DEF FoldsSets
    <3> DEFINE m == Max(s)
               t == s \ {m}
               u == h[t]
    <3> HIDE DEF V, n, m
    <3>4. h[s] = step[m][u] /\ u \in V /\ m \in 1..n
      BY <3>1, <3>2, <3>3 DEF m
    <3> HIDE DEF u
    <3>5. step[m][u] = LayoutStep(u, src[m])
      BY <3>4
    <3> HIDE DEF step
    <3>6. h[s] = LayoutStep(u, src[m])
      BY <3>4, <3>5
    <3> QED BY <3>6 DEF u, m
  <2>4. h[{}] = LayoutStart
    <3> HIDE DEF V, n, step
    <3> QED BY <2>2 DEF FoldsSets
  <2>5. Is(h)
    <3> HIDE DEF V, n, step
    <3>1. \A s \in SUBSET (1..n) : h[s] = IF s = {} THEN LayoutStart ELSE LayoutStep(h[s \ {Max(s)}], src[Max(s)])
      BY <2>3, <2>4
    <3>2. h = [s \in SUBSET (1..n) |-> h[s]]
      BY <2>2
    <3> QED BY <3>1, <3>2, Zenon
  <2> QED BY <2>5
<1>4. Is(g)
  <2> HIDE DEF Is
  <2> QED BY <1>3
<1>5. g[1..n] = g[1..n]
  <2>1. DOMAIN src = 1..n
    OBVIOUS
  <2> QED BY <2>1 DEF FoldLeft, MapThenFoldSet
<1> HIDE DEF g
<1>6. f[0] = LayoutStart
  <2> HIDE DEF n
  <2>1. 1..0 = {} /\ {} \in SUBSET (1..n) /\ 0 \in 0..n
    BY <1>1
  <2>2. g[{}] = LayoutStart
    BY <1>4, <2>1, Zenon
  <2> QED BY <2>1, <2>2
<1>7. ASSUME NEW k \in 1..n PROVE f[k] = LayoutStep(f[k - 1], src[k])
  <2> HIDE DEF n
  <2>1. 1..k \in SUBSET (1..n) /\ k \in 0..n /\ k - 1 \in 0..n /\ k \in Nat /\ k >= 1
    BY <1>1
  <2>2. Max(1..k) = k /\ (1..k) \ {Max(1..k)} = 1..k - 1 /\ 1..k # {}
    BY <2>1, MaxOfInterval
  <2>3. g[1..k] = LayoutStep(g[(1..k) \ {Max(1..k)}], src[Max(1..k)])
    BY <1>4, <2>1, <2>2, Zenon
  <2>4. g[1..k] = LayoutStep(g[1..k - 1], src[k])
    BY <2>2, <2>3, Zenon
  <2>5. f[k] = g[1..k] /\ f[k - 1] = g[1..k - 1]
    BY <2>1
  <2> QED BY <2>4, <2>5, Zenon
<1> HIDE DEF f
<1>8. \A k \in 0..n : f[k] \in V
  <2> HIDE DEF n, V
  <2>1. f[0] \in V
    BY <1>2, <1>6
  <2>2. \A k \in 1..n : f[k - 1] \in V => f[k] \in V
    BY <1>2, <1>7, Zenon
  <2> QED BY <1>1, <2>1, <2>2, AllAlong
<1>9. f \in [0..n -> V] /\ g[1..n] = f[n]
  <2> HIDE DEF n, V
  <2>1. n \in 0..n /\ f = [k \in 0..n |-> g[1..k]]
    BY <1>1 DEF f
  <2> QED BY <1>5, <1>8, <2>1
<1>10. Divides(f, src)
  BY <1>6, <1>7 DEF Divides
<1>11. ParseLayout(src) = Append(f[n].out, f[n].piece)
  <2>1. ParseLayout(src) = Append(g[1..n].out, g[1..n].piece)
    <3>1. DOMAIN src = 1..n
      OBVIOUS
    <3> QED BY <3>1 DEF ParseLayout, LayoutStep, LayoutStart, FoldLeft, MapThenFoldSet, g
  <2> HIDE DEF n
  <2> QED BY <1>9, <2>1
<1> QED BY <1>9, <1>10, <1>11

\* A piece that grows by a character, and one that begins.
LEMMA PieceGrows ==
  ASSUME NEW A, NEW s \in Seq(A), NEW k \in 0..Len(s), NEW p \in 0..k
  PROVE  /\ SubSeq(s, p + 1, k) \in Seq(A)
         /\ k < Len(s) => SubSeq(s, p + 1, k + 1) = Append(SubSeq(s, p + 1, k), s[k + 1])
         /\ SubSeq(s, k + 1, k) = <<>>
<1> DEFINE n == Len(s)
           a == SubSeq(s, p + 1, k)
           b == SubSeq(s, p + 1, k + 1)
<1>1. n \in Nat /\ k \in 0..n /\ p \in 0..k
  OBVIOUS
<1>2. a \in Seq(A) /\ Len(a) = k - p /\ \A i \in 1..k - p : a[i] = s[p + i]
  <2>1. \A i \in p + 1..k : s[i] \in A
    OBVIOUS
  <2>2. p + 1 \in Int /\ k \in Int
    BY <1>1
  <2> HIDE DEF n
  <2>3. /\ a \in Seq(A) /\ Len(a) = (IF p + 1 <= k THEN k - (p + 1) + 1 ELSE 0)
        /\ \A i \in 1..k - (p + 1) + 1 : a[i] = s[(p + 1) + i - 1]
    BY <2>1, <2>2, SubSeqProperties
  <2>4. k - (p + 1) + 1 = k - p /\ \A i \in 1..k - p : (p + 1) + i - 1 = p + i
    BY <1>1
  <2> HIDE DEF a
  <2> QED BY <1>1, <2>3, <2>4
<1>3. SubSeq(s, k + 1, k) = <<>>
  BY <1>1
<1>4. ASSUME k < n PROVE b = Append(a, s[k + 1])
  <2>1. k + 1 \in 1..n
    BY <1>1, <1>4
  <2>2. s[k + 1] \in A
    BY <2>1
  <2>3. b \in Seq(A) /\ Len(b) = k + 1 - p /\ \A i \in 1..k + 1 - p : b[i] = s[p + i]
    <3>1. \A i \in p + 1..k + 1 : s[i] \in A
      BY <1>4
    <3>2. p + 1 \in Int /\ k + 1 \in Int
      BY <1>1
    <3> HIDE DEF n
    <3>3. /\ b \in Seq(A) /\ Len(b) = (IF p + 1 <= k + 1 THEN (k + 1) - (p + 1) + 1 ELSE 0)
          /\ \A i \in 1..(k + 1) - (p + 1) + 1 : b[i] = s[(p + 1) + i - 1]
      BY <3>1, <3>2, SubSeqProperties
    <3>4. (k + 1) - (p + 1) + 1 = k + 1 - p /\ p + 1 <= k + 1 /\ \A i \in 1..k + 1 - p : (p + 1) + i - 1 = p + i
      BY <1>1
    <3> HIDE DEF b
    <3> QED BY <3>3, <3>4
  <2> DEFINE c == s[k + 1]
             l == k - p
             e == Append(a, c)
  <2>4. l \in Nat /\ l + 1 = k + 1 - p /\ p + (l + 1) = k + 1
    BY <1>1
  <2> HIDE DEF n, a, b, c, l
  <2>5. e \in Seq(A) /\ Len(e) = l + 1 /\ e[l + 1] = c /\ \A i \in 1..l : e[i] = a[i]
    <3>1. c \in A /\ a \in Seq(A) /\ Len(a) = l
      BY <1>2, <2>2 DEF c, l
    <3> QED BY <3>1, AppendProperties
  <2> HIDE DEF e
  <2>6. Len(b) = l + 1 /\ \A i \in 1..l + 1 : b[i] = s[p + i]
    BY <2>3, <2>4
  <2>7. \A i \in 1..l + 1 : e[i] = s[p + i]
    <3>1. \A i \in 1..l : e[i] = s[p + i]
      BY <1>2, <2>5 DEF l
    <3>2. e[l + 1] = s[p + (l + 1)]
      BY <2>4, <2>5 DEF c
    <3>3. \A i \in 1..l + 1 : i \in 1..l \/ i = l + 1
      BY <2>4
    <3> QED BY <3>1, <3>2, <3>3
  <2>8. b = e
    BY <2>3, <2>5, <2>6, <2>7, SeqEqual
  <2> QED BY <2>8 DEF e, c
<1> QED BY <1>2, <1>3, <1>4

\* How many of the first k characters are c.
LEMMA CountUp ==
  ASSUME NEW s \in Seq(GroupChars), NEW c, NEW k \in 0..Len(s)
  PROVE  /\ Cardinality({j \in 1..k : s[j] = c}) \in 0..k
         /\ Cardinality({j \in 1..0 : s[j] = c}) = 0
         /\ k < Len(s) => Cardinality({j \in 1..k + 1 : s[j] = c}) =
                            Cardinality({j \in 1..k : s[j] = c}) + (IF s[k + 1] = c THEN 1 ELSE 0)
<1> DEFINE n == Len(s)
           S == {j \in 1..n : s[j] = c}
<1>1. n \in Nat /\ k \in Nat /\ k <= n
  OBVIOUS
<1>2. ASSUME NEW i \in 0..n PROVE {j \in 1..i : s[j] = c} = S \cap 1..i
  BY <1>1
<1>3. Cardinality({j \in 1..0 : s[j] = c}) = 0
  <2>1. {j \in 1..0 : s[j] = c} = {}
    OBVIOUS
  <2> QED BY <2>1, FS_EmptySet
<1>4. Cardinality({j \in 1..k : s[j] = c}) \in 0..k
  <2>1. IsFiniteSet(1..k) /\ Cardinality(1..k) = k
    <3>1. 1 \in Int /\ k \in Int /\ k - 1 + 1 = k
      BY <1>1
    <3> QED BY <1>1, <3>1, FS_Interval
  <2>2. {j \in 1..k : s[j] = c} \subseteq 1..k
    OBVIOUS
  <2> DEFINE R == {j \in 1..k : s[j] = c}
  <2> HIDE DEF R
  <2>3. IsFiniteSet(R) /\ Cardinality(R) <= k
    BY <2>1, <2>2, FS_Subset DEF R
  <2>4. Cardinality(R) \in Nat
    BY <2>3, FS_CardinalityType
  <2>5. Cardinality(R) \in 0..k
    BY <1>1, <2>3, <2>4
  <2> QED BY <2>5 DEF R
<1>5. ASSUME k < n
      PROVE  Cardinality({j \in 1..k + 1 : s[j] = c}) =
               Cardinality({j \in 1..k : s[j] = c}) + (IF s[k + 1] = c THEN 1 ELSE 0)
  <2>1. k + 1 \in 1..n /\ k \in 0..n /\ k + 1 \in 0..n
    BY <1>1, <1>5
  <2>2. k + 1 \in S <=> s[k + 1] = c
    BY <2>1
  <2>3. {j \in 1..k + 1 : s[j] = c} = S \cap 1..k + 1 /\ {j \in 1..k : s[j] = c} = S \cap 1..k
    BY <1>2, <2>1
  <2> HIDE DEF S
  <2>4. Cardinality(S \cap 1..k + 1) = Cardinality(S \cap 1..k) + (IF k + 1 \in S THEN 1 ELSE 0)
    BY <1>1, CountNext
  <2> QED BY <2>2, <2>3, <2>4
<1> QED BY <1>3, <1>4, <1>5

\* The cuts are where they are by how many come before.
LEMMA CutIs ==
  ASSUME NEW s \in Seq(GroupChars), NEW c \in Cuts(s), NEW k \in Nat,
         Cardinality({d \in Cuts(s) : d < c}) = k - 1
  PROVE  Cut(s, k) = c
<1> DEFINE C == Cuts(s)
           B(x) == {d \in C : d < x}
<1>1. IsFiniteSet(C) /\ C \subseteq Int
  <2>1. Len(s) \in Nat
    OBVIOUS
  <2>2. C \subseteq 0..Len(s) + 1
    BY <2>1 DEF Cuts, Outside
  <2>3. IsFiniteSet(0..Len(s) + 1)
    BY <2>1, FS_Interval
  <2> HIDE DEF C
  <2>4. IsFiniteSet(C)
    BY <2>2, <2>3, FS_Subset
  <2> QED BY <2>1, <2>2, <2>4
<1> HIDE DEF C
<1>2. ASSUME NEW x \in C PROVE IsFiniteSet(B(x)) /\ Cardinality(B(x)) \in Nat
  <2>1. B(x) \subseteq C
    OBVIOUS
  <2> HIDE DEF B
  <2>2. IsFiniteSet(B(x))
    BY <1>1, <2>1, FS_Subset
  <2> QED BY <2>2, FS_CardinalityType
<1>3. ASSUME NEW x \in C, NEW y \in C, x < y PROVE Cardinality(B(x)) < Cardinality(B(y))
  <2>1. x \notin B(x) /\ B(x) \cup {x} \subseteq B(y)
    <3>1. x \in Int /\ y \in Int /\ \A d \in C : d \in Int
      BY <1>1
    <3>2. ~(x < x) /\ \A d \in C : d < x => d < y
      BY <1>3, <3>1
    <3> QED BY <1>3, <3>2
  <2> HIDE DEF B
  <2>2. Cardinality(B(x) \cup {x}) = Cardinality(B(x)) + 1
    BY <1>2, <2>1, FS_AddElement
  <2>3. Cardinality(B(x) \cup {x}) <= Cardinality(B(y))
    BY <1>2, <2>1, FS_Subset
  <2> QED BY <1>2, <2>2, <2>3
<1>4. Cut(s, k) = CHOOSE x \in C : Cardinality(B(x)) = k - 1
  BY DEF Cut, C
<1>5. c \in C /\ Cardinality(B(c)) = k - 1
  BY DEF C
<1> HIDE DEF B
<1>6. ASSUME NEW x \in C, Cardinality(B(x)) = k - 1 PROVE x = c
  <2>1. ~(x < c) /\ ~(c < x)
    BY <1>2, <1>3, <1>5, <1>6
  <2> QED BY <1>1, <1>5, <2>1
<1> QED BY <1>4, <1>5, <1>6

\* The next cut.
LEMMA NextCut ==
  ASSUME NEW s \in Seq(GroupChars), NEW p \in Cuts(s), NEW c \in Int, p < c,
         \A x \in Cuts(s) : ~(p < x /\ x < c)
  PROVE  Cardinality({d \in Cuts(s) : d < c}) = Cardinality({d \in Cuts(s) : d < p}) + 1
<1> DEFINE C == Cuts(s)
           B(x) == {d \in C : d < x}
<1>1. IsFiniteSet(C) /\ C \subseteq Int
  <2>1. Len(s) \in Nat
    OBVIOUS
  <2>2. C \subseteq 0..Len(s) + 1
    BY <2>1 DEF Cuts, Outside
  <2>3. IsFiniteSet(0..Len(s) + 1)
    BY <2>1, FS_Interval
  <2> HIDE DEF C
  <2>4. IsFiniteSet(C)
    BY <2>2, <2>3, FS_Subset
  <2> QED BY <2>1, <2>2, <2>4
<1>2. p \in C /\ \A x \in C : ~(p < x /\ x < c)
  BY DEF C
<1> HIDE DEF C
<1>3. B(c) = B(p) \cup {p} /\ p \notin B(p)
  <2>1. p \in Int /\ \A d \in C : d \in Int
    BY <1>1, <1>2
  <2>2. ~(p < p) /\ \A d \in C : d < c <=> d < p \/ d = p
    BY <1>2, <2>1
  <2> QED BY <1>2, <2>2
<1>4. IsFiniteSet(B(p))
  <2>1. B(p) \subseteq C
    OBVIOUS
  <2> HIDE DEF B
  <2> QED BY <1>1, <2>1, FS_Subset
<1>5. Cardinality(B(p) \cup {p}) = Cardinality(B(p)) + 1
  <2> HIDE DEF B
  <2> QED BY <1>3, <1>4, FS_AddElement
<1> QED BY <1>3, <1>5 DEF C

\* The balance is what is open less what is closed, modulo 2^n: zero if and only if they are equal.
LEMMA BalanceIs ==
  ASSUME NEW s \in Seq(GroupChars), Len(s) <= CdSizeMax,
         NEW f \in [0..Len(s) -> LayoutStates], Divides(f, s), NEW k \in 0..Len(s)
  PROVE  f[k].balance = 0 <=>
           Cardinality({j \in 1..k : s[j] = "("}) = Cardinality({j \in 1..k : s[j] = ")"})
<1> DEFINE n == Len(s)
           m == CdSizeMax
           o == [i \in 0..n |-> Cardinality({j \in 1..i : s[j] = "("})]
           c == [i \in 0..n |-> Cardinality({j \in 1..i : s[j] = ")"})]
           T == {i \in 0..n : f[i].balance = IF o[i] >= c[i] THEN o[i] - c[i] ELSE m + 1 + o[i] - c[i]}
<1>1. n \in Nat /\ m \in Nat /\ n <= m /\ k \in 0..n
  BY CdNat
<1>2. ASSUME NEW i \in 0..n PROVE o[i] \in 0..i /\ c[i] \in 0..i
  <2>1. o[i] = Cardinality({j \in 1..i : s[j] = "("}) /\ c[i] = Cardinality({j \in 1..i : s[j] = ")"})
    OBVIOUS
  <2>2. Cardinality({j \in 1..i : s[j] = "("}) \in 0..i /\ Cardinality({j \in 1..i : s[j] = ")"}) \in 0..i
    BY CountUp
  <2> HIDE DEF o, c
  <2> QED BY <2>1, <2>2
<1>3. o[0] = 0 /\ c[0] = 0
  <2>1. 0 \in 0..n
    BY <1>1
  <2>2. o[0] = Cardinality({j \in 1..0 : s[j] = "("}) /\ c[0] = Cardinality({j \in 1..0 : s[j] = ")"})
    BY <2>1
  <2>3. Cardinality({j \in 1..0 : s[j] = "("}) = 0 /\ Cardinality({j \in 1..0 : s[j] = ")"}) = 0
    BY <2>1, CountUp
  <2> HIDE DEF o, c
  <2> QED BY <2>2, <2>3
<1>4. ASSUME NEW i \in 0..n - 1
      PROVE  /\ o[i + 1] = o[i] + (IF s[i + 1] = "(" THEN 1 ELSE 0)
             /\ c[i + 1] = c[i] + (IF s[i + 1] = ")" THEN 1 ELSE 0)
  <2>1. i \in 0..n /\ i < n /\ i + 1 \in 0..n
    BY <1>1
  <2>2. /\ o[i] = Cardinality({j \in 1..i : s[j] = "("}) /\ c[i] = Cardinality({j \in 1..i : s[j] = ")"})
        /\ o[i + 1] = Cardinality({j \in 1..i + 1 : s[j] = "("})
        /\ c[i + 1] = Cardinality({j \in 1..i + 1 : s[j] = ")"})
    BY <2>1
  <2>3. /\ Cardinality({j \in 1..i + 1 : s[j] = "("}) =
             Cardinality({j \in 1..i : s[j] = "("}) + (IF s[i + 1] = "(" THEN 1 ELSE 0)
        /\ Cardinality({j \in 1..i + 1 : s[j] = ")"}) =
             Cardinality({j \in 1..i : s[j] = ")"}) + (IF s[i + 1] = ")" THEN 1 ELSE 0)
    BY <2>1, CountUp
  <2> HIDE DEF o, c
  <2> QED BY <2>2, <2>3
<1> HIDE DEF o, c
<1>5. \A i \in 0..n : f[i] \in LayoutStates
  OBVIOUS
<1>6. f[0].balance = 0 /\ \A i \in 1..n : f[i] = LayoutStep(f[i - 1], s[i]) /\ s[i] \in GroupChars
  BY DEF Divides, LayoutStart
<1>7. 0 \in T
  BY <1>1, <1>3, <1>6
<1>8. ASSUME NEW i \in 0..n - 1, i \in T PROVE i + 1 \in T
  <2> DEFINE x == f[i]
             b == x.balance
             y == f[i + 1]
             a == s[i + 1]
             p == o[i]
             q == c[i]
  <2>1. i + 1 \in 1..n /\ i \in 0..n /\ i + 1 \in 0..n /\ (i + 1) - 1 = i /\ i \in Nat /\ i + 1 <= m
    BY <1>1
  <2>2. y = LayoutStep(x, a) /\ x \in LayoutStates /\ a \in GroupChars
    BY <1>5, <1>6, <2>1
  <2>3. b = IF p >= q THEN p - q ELSE m + 1 + p - q
    OBVIOUS
  <2>4. p \in 0..i /\ q \in 0..i
    BY <1>2, <2>1
  <2>5. o[i + 1] = p + (IF a = "(" THEN 1 ELSE 0) /\ c[i + 1] = q + (IF a = ")" THEN 1 ELSE 0)
    BY <1>4
  <2>6. b \in 0..m
    BY <2>2 DEF LayoutStates, m
  <2> HIDE DEF x, y, a, p, q, n
  <2>7. y.balance = IF a = "(" THEN (IF b = m THEN 0 ELSE b + 1)
                    ELSE IF a = ")" THEN (IF b = 0 THEN m ELSE b - 1)
                    ELSE b
    <3>1. CASE a = "comma" /\ x.balance = 0
      <4>1. y = [balance |-> 0, piece |-> <<>>, out |-> Append(x.out, x.piece)]
        BY <2>2, <3>1, LayoutStepIs
      <4> QED BY <3>1, <4>1
    <3>2. CASE ~(a = "comma" /\ x.balance = 0)
      BY <2>2, <3>2, LayoutStepIs DEF m
    <3> QED BY <3>1, <3>2
  <2> HIDE DEF b, m
  <2>8. y.balance = IF o[i + 1] >= c[i + 1] THEN o[i + 1] - c[i + 1] ELSE m + 1 + o[i + 1] - c[i + 1]
    <3>1. CASE a = "("
      <4>1. o[i + 1] = p + 1 /\ c[i + 1] = q
        BY <2>4, <2>5, <3>1
      <4>2. y.balance = IF b = m THEN 0 ELSE b + 1
        BY <2>7, <3>1
      <4> QED BY <1>1, <2>1, <2>3, <2>4, <2>6, <4>1, <4>2
    <3>2. CASE a = ")"
      <4>1. o[i + 1] = p /\ c[i + 1] = q + 1
        BY <2>4, <2>5, <3>2
      <4>2. y.balance = IF b = 0 THEN m ELSE b - 1
        BY <2>7, <3>2
      <4> QED BY <1>1, <2>1, <2>3, <2>4, <2>6, <4>1, <4>2
    <3>3. CASE a # "(" /\ a # ")"
      <4>1. o[i + 1] = p /\ c[i + 1] = q
        BY <2>4, <2>5, <3>3
      <4>2. y.balance = b
        BY <2>7, <3>3
      <4> QED BY <2>3, <4>1, <4>2
    <3> QED BY <3>1, <3>2, <3>3
  <2> QED BY <2>1, <2>8 DEF y
<1>9. f[k].balance = IF o[k] >= c[k] THEN o[k] - c[k] ELSE m + 1 + o[k] - c[k]
  <2> HIDE DEF T, n
  <2>1. 0..n \subseteq T
    BY <1>1, <1>7, <1>8, IntervalInduction
  <2> QED BY <1>1, <2>1 DEF T
<1> DEFINE p == o[k]
           q == c[k]
<1>10. p \in 0..k /\ q \in 0..k /\ k <= m /\ k \in Nat
  BY <1>1, <1>2
<1> HIDE DEF p, q, m
<1>11. f[k].balance = 0 <=> p = q
  <2>1. f[k].balance = IF p >= q THEN p - q ELSE m + 1 + p - q
    BY <1>9 DEF p, q
  <2> QED BY <1>1, <1>10, <2>1
<1>12. p = Cardinality({j \in 1..k : s[j] = "("}) /\ q = Cardinality({j \in 1..k : s[j] = ")"})
  BY DEF p, q, o, c
<1> QED BY <1>11, <1>12

\* The pieces that a layout is divided into are those between its cuts.
LEMMA LayoutIsDivided ==
  ASSUME NEW s \in Seq(GroupChars), Len(s) <= CdSizeMax
  PROVE  ParseLayout(s) = Pieces(s)
<1> DEFINE n == Len(s)
           B(x) == Cardinality({d \in Cuts(s) : d < x})
           P(i) == SubSeq(s, Cut(s, i) + 1, Cut(s, i + 1) - 1)
<1>1. n \in Nat
  OBVIOUS
<1>2. PICK f \in [0..n -> LayoutStates] : Divides(f, s) /\ ParseLayout(s) = Append(f[n].out, f[n].piece)
  BY LayoutIsRecursive
<1> DEFINE Is(k, p) == /\ p \in Cuts(s) /\ p \in 0..k /\ B(p) = Len(f[k].out)
                       /\ \A x \in Cuts(s) : ~(p < x /\ x <= k)
                       /\ f[k].piece = SubSeq(s, p + 1, k)
                       /\ \A i \in 1..Len(f[k].out) : f[k].out[i] = P(i)
           T == {k \in 0..n : \E p \in 0..k : Is(k, p)}
<1>3. \A k \in 0..n : f[k] \in LayoutStates
  OBVIOUS
<1>4. \A k \in 1..n : f[k] = LayoutStep(f[k - 1], s[k]) /\ s[k] \in GroupChars
  BY <1>2 DEF Divides
<1>5. Cuts(s) \subseteq 0..n + 1 /\ 0 \in Cuts(s) /\ n + 1 \in Cuts(s)
  BY <1>1 DEF Cuts, Outside
<1>6. ASSUME NEW k \in 0..n - 1
      PROVE  k + 1 \in Cuts(s) <=> s[k + 1] = "comma" /\ f[k].balance = 0
  <2>1. k + 1 \in 1..n /\ k \in 0..n /\ k + 1 \in 0..n /\ k < n /\ k + 1 # 0 /\ k + 1 # n + 1
    BY <1>1
  <2>2. k + 1 \in Cuts(s) <=> k + 1 \in Outside(s)
    BY <2>1 DEF Cuts
  <2>3. k + 1 \in Outside(s) <=>
          /\ s[k + 1] = "comma"
          /\ Cardinality({j \in 1..k + 1 : s[j] = "("}) = Cardinality({j \in 1..k + 1 : s[j] = ")"})
    BY <2>1 DEF Outside
  <2>4. s[k + 1] = "comma" =>
          /\ Cardinality({j \in 1..k + 1 : s[j] = "("}) = Cardinality({j \in 1..k : s[j] = "("})
          /\ Cardinality({j \in 1..k + 1 : s[j] = ")"}) = Cardinality({j \in 1..k : s[j] = ")"})
    <3> DEFINE o == Cardinality({j \in 1..k : s[j] = "("})
               c == Cardinality({j \in 1..k : s[j] = ")"})
               a == s[k + 1]
    <3>1. /\ Cardinality({j \in 1..k + 1 : s[j] = "("}) = o + (IF a = "(" THEN 1 ELSE 0)
          /\ Cardinality({j \in 1..k + 1 : s[j] = ")"}) = c + (IF a = ")" THEN 1 ELSE 0)
      BY <2>1, CountUp
    <3>2. o \in 0..k /\ c \in 0..k
      BY <2>1, CountUp
    <3> DEFINE u == Cardinality({j \in 1..k + 1 : s[j] = "("})
               v == Cardinality({j \in 1..k + 1 : s[j] = ")"})
    <3> HIDE DEF o, c, a, u, v
    <3>3. u = o + (IF a = "(" THEN 1 ELSE 0) /\ v = c + (IF a = ")" THEN 1 ELSE 0)
      BY <3>1 DEF u, v
    <3>4. a = "comma" => u = o /\ v = c
      BY <3>2, <3>3
    <3> QED BY <3>4 DEF o, c, a, u, v
  <2>5. f[k].balance = 0 <=>
          Cardinality({j \in 1..k : s[j] = "("}) = Cardinality({j \in 1..k : s[j] = ")"})
    BY <1>2, <2>1, BalanceIs
  <2> QED BY <2>2, <2>3, <2>4, <2>5
<1>7. ASSUME NEW k \in 0..n, NEW p \in 0..k, Is(k, p), NEW c \in Cuts(s), c \in Int, k < c, \A x \in Cuts(s) : ~(k < x /\ x < c)
      PROVE  /\ B(c) = Len(f[k].out) + 1
             /\ Cut(s, Len(f[k].out) + 1) = p /\ Cut(s, Len(f[k].out) + 2) = c
  <2> DEFINE l == Len(f[k].out)
  <2>1. l \in Nat
    <3>1. f[k].out \in Seq(Seq(GroupChars))
      BY <1>3 DEF LayoutStates
    <3> QED BY <3>1
  <2>2. B(p) = l /\ p \in Cuts(s) /\ p < c
    BY <1>1, <1>7
  <2>3. \A x \in Cuts(s) : ~(p < x /\ x < c)
    <3>1. \A x \in Cuts(s) : x \in Int
      BY <1>5
    <3>2. \A x \in Cuts(s) : ~(p < x /\ x <= k) /\ ~(k < x /\ x < c)
      BY <1>7
    <3>3. k \in Int /\ p \in Int /\ c \in Int
      BY <1>1, <1>7
    <3> HIDE DEF n
    <3> SUFFICES ASSUME NEW x \in Cuts(s), p < x, x < c PROVE FALSE
      OBVIOUS
    <3>4. x \in Int /\ ~(x <= k) /\ ~(k < x)
      BY <3>1, <3>2
    <3> QED BY <3>3, <3>4
  <2>4. B(c) = B(p) + 1
    BY <1>7, <2>2, <2>3, NextCut
  <2> HIDE DEF l
  <2>5. Cut(s, l + 1) = p
    <3>1. B(p) = (l + 1) - 1 /\ l + 1 \in Nat
      BY <2>1, <2>2
    <3> QED BY <2>2, <3>1, CutIs
  <2>6. Cut(s, l + 2) = c
    <3>1. B(c) = (l + 2) - 1 /\ l + 2 \in Nat
      BY <2>1, <2>2, <2>4
    <3> QED BY <1>7, <3>1, CutIs
  <2>7. B(c) = l + 1
    BY <2>2, <2>4
  <2> QED BY <2>5, <2>6, <2>7 DEF l
<1>8. 0 \in T
  <2>1. f[0] = LayoutStart
    BY <1>2 DEF Divides
  <2>2. f[0].out = <<>> /\ f[0].piece = <<>> /\ Len(f[0].out) = 0
    BY <2>1 DEF LayoutStart
  <2>3. B(0) = 0
    <3>1. {d \in Cuts(s) : d < 0} = {}
      BY <1>1, <1>5
    <3> QED BY <3>1, FS_EmptySet
  <2>4. SubSeq(s, 0 + 1, 0) = <<>>
    OBVIOUS
  <2>5. Is(0, 0)
    <3>1. \A x \in Cuts(s) : ~(0 < x /\ x <= 0)
      BY <1>5
    <3> HIDE DEF P
    <3> QED BY <1>1, <1>5, <2>2, <2>3, <2>4, <3>1
  <2> HIDE DEF Is
  <2> QED BY <1>1, <2>5
<1>9. ASSUME NEW k \in 0..n - 1, k \in T PROVE k + 1 \in T
  <2>1. k + 1 \in 1..n /\ k \in 0..n /\ k + 1 \in 0..n /\ (k + 1) - 1 = k /\ k \in Nat /\ k < n
    BY <1>1
  <2>2. PICK p \in 0..k : Is(k, p)
    BY <1>9
  <2> DEFINE x == f[k]
             y == f[k + 1]
             a == s[k + 1]
             u == x.out
             v == x.piece
             l == Len(u)
  <2>3. y = LayoutStep(x, a) /\ x \in LayoutStates /\ a \in GroupChars
    BY <1>3, <1>4, <2>1
  <2>4. u \in Seq(Seq(GroupChars)) /\ v \in Seq(GroupChars)
    BY <2>3 DEF LayoutStates
  <2>5. /\ p \in Cuts(s) /\ p \in 0..k /\ B(p) = l
        /\ \A d \in Cuts(s) : ~(p < d /\ d <= k)
        /\ v = SubSeq(s, p + 1, k)
        /\ \A i \in 1..l : u[i] = P(i)
    BY <2>2
  <2>6. /\ SubSeq(s, p + 1, k + 1) = Append(SubSeq(s, p + 1, k), a)
        /\ SubSeq(s, (k + 1) + 1, k + 1) = <<>>
    BY <2>1, PieceGrows
  <2>7. k + 1 \in Cuts(s) <=> a = "comma" /\ x.balance = 0
    BY <1>6
  <2>8. CASE k + 1 \in Cuts(s)
    <3> DEFINE w == Append(u, v)
    <3>1. y = [balance |-> 0, piece |-> <<>>, out |-> w]
      BY <2>3, <2>7, <2>8, LayoutStepIs
    <3>2. y.piece = <<>> /\ y.out = w
      BY <3>1
    <3>3. B(k + 1) = l + 1 /\ Cut(s, l + 1) = p /\ Cut(s, l + 2) = k + 1
      <4>1. k + 1 \in Int /\ k < k + 1 /\ \A d \in Cuts(s) : ~(k < d /\ d < k + 1)
        BY <1>5, <2>1
      <4> HIDE DEF Is, B
      <4> QED BY <1>7, <2>1, <2>2, <2>8, <4>1
    <3> HIDE DEF u, v
    <3>4. l \in Nat /\ Len(w) = l + 1 /\ w[l + 1] = v /\ \A i \in 1..l : w[i] = u[i]
      BY <2>4, AppendProperties
    <3>5. P(l + 1) = v
      <4>1. (l + 1) + 1 = l + 2 /\ (k + 1) - 1 = k
        BY <2>1, <3>4
      <4> HIDE DEF l
      <4> QED BY <2>5, <3>3, <4>1
    <3> HIDE DEF l, w, P
    <3>6. \A i \in 1..l + 1 : w[i] = P(i)
      <4>1. \A i \in 1..l + 1 : i \in 1..l \/ i = l + 1
        BY <3>4
      <4> QED BY <2>5, <3>4, <3>5, <4>1
    <3>7. \A d \in Cuts(s) : ~(k + 1 < d /\ d <= k + 1)
      BY <1>5, <2>1
    <3>8. Is(k + 1, k + 1)
      <4>1. k + 1 \in 0..k + 1
        BY <2>1
      <4>2. f[k + 1].out = w /\ f[k + 1].piece = <<>>
        BY <3>2 DEF y
      <4> HIDE DEF B, y
      <4> QED BY <2>6, <2>8, <3>3, <3>4, <3>6, <3>7, <4>1, <4>2
    <3> HIDE DEF Is
    <3> QED BY <2>1, <3>8
  <2>9. CASE k + 1 \notin Cuts(s)
    <3>1. y.piece = Append(v, a) /\ y.out = u
      BY <2>3, <2>7, <2>9, LayoutStepIs
    <3>2. \A d \in Cuts(s) : ~(p < d /\ d <= k + 1)
      <4>1. \A d \in Cuts(s) : d \in Int
        BY <1>5
      <4>2. \A d \in Cuts(s) : d <= k + 1 => d <= k
        BY <2>1, <2>9, <4>1
      <4> QED BY <2>5, <4>2
    <3>3. p \in 0..k + 1
      BY <2>1
    <3>4. f[k + 1].out = u /\ f[k + 1].piece = SubSeq(s, p + 1, k + 1)
      BY <2>5, <2>6, <3>1
    <3> HIDE DEF u, v, y, P, B
    <3>5. Is(k + 1, p)
      BY <2>5, <3>2, <3>3, <3>4
    <3> HIDE DEF Is
    <3> QED BY <2>1, <3>3, <3>5
  <2> QED BY <2>8, <2>9
<1>10. PICK p \in 0..n : Is(n, p)
  <2> HIDE DEF T, n
  <2>1. 0..n \subseteq T
    BY <1>1, <1>8, <1>9, IntervalInduction
  <2>2. n \in T
    BY <1>1, <2>1
  <2> HIDE DEF Is
  <2> QED BY <2>2 DEF T
<1> DEFINE u == f[n].out
           v == f[n].piece
           l == Len(u)
           w == Append(u, v)
<1>11. u \in Seq(Seq(GroupChars)) /\ v \in Seq(GroupChars) /\ n \in 0..n
  <2>1. f[n] \in LayoutStates
    BY <1>1, <1>3
  <2> QED BY <1>1, <2>1 DEF LayoutStates
<1>12. B(n + 1) = l + 1 /\ Cut(s, l + 1) = p /\ Cut(s, l + 2) = n + 1
  <2>1. n + 1 \in Int /\ n < n + 1 /\ \A d \in Cuts(s) : ~(n < d /\ d < n + 1)
    BY <1>1, <1>5
  <2> HIDE DEF Is, B, n
  <2> QED BY <1>5, <1>7, <1>10, <1>11, <2>1
<1>13. v = SubSeq(s, p + 1, n) /\ \A i \in 1..l : u[i] = P(i)
  BY <1>10
<1> HIDE DEF u, v, n
<1>14. l \in Nat /\ w \in Seq(Seq(GroupChars)) /\ Len(w) = l + 1 /\ w[l + 1] = v /\ \A i \in 1..l : w[i] = u[i]
  BY <1>11, AppendProperties
<1>15. Cardinality(Cuts(s)) = l + 2
  <2> DEFINE R == {d \in Cuts(s) : d < n + 1}
  <2>1. Cuts(s) = R \cup {n + 1} /\ n + 1 \notin R
    <3>1. ~(n + 1 < n + 1) /\ \A d \in Cuts(s) : d < n + 1 \/ d = n + 1
      BY <1>1, <1>5
    <3> QED BY <1>5, <3>1
  <2>2. IsFiniteSet(0..n + 1) /\ R \subseteq 0..n + 1
    BY <1>1, <1>5, FS_Interval
  <2>3. Cardinality(R) = l + 1
    BY <1>12
  <2> HIDE DEF R, l
  <2>4. IsFiniteSet(R)
    BY <2>2, FS_Subset
  <2>5. Cardinality(R \cup {n + 1}) = Cardinality(R) + 1
    BY <2>1, <2>4, FS_AddElement
  <2> QED BY <1>14, <2>1, <2>3, <2>5
<1>16. P(l + 1) = v
  <2>1. (l + 1) + 1 = l + 2 /\ (n + 1) - 1 = n
    BY <1>1, <1>14
  <2> HIDE DEF l
  <2> QED BY <1>12, <1>13, <2>1
<1>17. Pieces(s) = [i \in 1..l + 1 |-> P(i)]
  <2> HIDE DEF l
  <2>1. Cardinality(Cuts(s)) - 1 = l + 1
    BY <1>14, <1>15
  <2> QED BY <2>1 DEF Pieces
<1> HIDE DEF l, w
<1>18. \A i \in 1..l + 1 : w[i] = P(i)
  <2> HIDE DEF P
  <2>1. \A i \in 1..l + 1 : i \in 1..l \/ i = l + 1
    BY <1>14
  <2> QED BY <1>13, <1>14, <1>16, <2>1
<1>19. w = [i \in 1..l + 1 |-> P(i)]
  <2> HIDE DEF P
  <2>1. w = [i \in 1..l + 1 |-> w[i]]
    BY <1>14
  <2> QED BY <1>18, <2>1
<1>20. ParseLayout(s) = w
  BY <1>2 DEF w, u, v, n
<1> QED BY <1>17, <1>19, <1>20

\* Names of the option, as check_bad() compares them, are the stems that are in the list.
LEMMA BadIs ==
  ASSUME NEW p \in Seq(GroupChars), NEW name \in Seq({"us", "pc"})
  PROVE  BadMatches(name, p) <=> Stem(p) = name
<1> DEFINE n == Len(p)
           S == Marks(p) \cup {n + 1}
           m == Min(S)
<1>1. n \in Nat /\ S \subseteq 1..n + 1 /\ S \subseteq Int /\ n + 1 \in S
  BY DEF Marks
<1>2. \A i \in 1..Len(name) : name[i] \notin {"(", ":"}
  OBVIOUS
<1>3. Len(name) \in Nat
  OBVIOUS
<1>4. Stem(p) = SubSeq(p, 1, m - 1)
  BY DEF Stem
<1>5. ASSUME BadMatches(name, p) PROVE Stem(p) = name
  <2> DEFINE k == Len(name)
  <2>1. k <= n /\ SubSeq(p, 1, k) = name
    <3>1. k <= n /\ SubSeq(name, 1, k) = SubSeq(p, 1, k)
      BY <1>5 DEF BadMatches, IsPrefix
    <3>2. SubSeq(name, 1, k) = name
      OBVIOUS
    <3> QED BY <3>1, <3>2
  <2>2. \A i \in 1..k : p[i] = name[i]
    <3>1. \A i \in 1..k : SubSeq(p, 1, k)[i] = p[i]
      BY <1>1, <2>1
    <3> QED BY <2>1, <3>1
  <2>3. k + 1 \in S
    <3>1. k = n \/ (k + 1 \in 1..n /\ p[k + 1] \in {"(", ":"})
      BY <1>5, <1>1, <1>3, <2>1 DEF BadMatches
    <3> QED BY <3>1 DEF Marks
  <2>4. \A i \in S : k + 1 <= i
    <3> SUFFICES ASSUME NEW i \in S, i <= k PROVE FALSE
      BY <1>1, <1>3
    <3>1. i \in 1..k /\ i # n + 1
      BY <1>1, <1>3, <2>1
    <3>2. p[i] \in {"(", ":"}
      BY <3>1 DEF Marks
    <3> QED BY <3>1, <3>2, <2>2, <1>2
  <2> HIDE DEF S
  <2>5. m = k + 1
    BY <1>1, <2>3, <2>4, MinIs
  <2>6. m - 1 = k
    BY <2>5, <1>3
  <2> QED BY <1>4, <2>1, <2>6
<1>6. ASSUME Stem(p) = name PROVE BadMatches(name, p)
  <2>1. m \in S
    <3> HIDE DEF S
    <3>1. 1 \in Nat /\ n + 1 \in Nat /\ S # {}
      BY <1>1
    <3> QED BY <1>1, <3>1, MinOfSome
  <2>2. m \in 1..n + 1
    BY <1>1, <2>1
  <2> HIDE DEF m
  <2>3. Len(name) = m - 1 /\ m - 1 <= n
    BY <1>4, <1>6, <2>2
  <2>4. IsPrefix(name, p)
    <3>1. SubSeq(name, 1, Len(name)) = name
      OBVIOUS
    <3> QED BY <1>4, <1>6, <2>3, <3>1 DEF IsPrefix
  <2>5. Len(p) = Len(name) \/ p[Len(name) + 1] \in {"(", ":"}
    <3>1. CASE m = n + 1
      BY <3>1, <2>3, <1>1
    <3>2. CASE m \in Marks(p)
      BY <3>2, <2>2, <2>3 DEF Marks
    <3> QED BY <2>1, <3>1, <3>2
  <2> QED BY <2>4, <2>5 DEF BadMatches
<1> QED BY <1>5, <1>6

\* What the code reads from a numeral is what that is worth, if an int can hold it; and
\* what it divides a layout or the symbols into is what the commas outside of parentheses
\* divide; of the symbols it leaves out what is empty or has a stem that is listed as bad.
THEOREM TextsAreReadAsMeant == CdSpec => []ReadAsMeant
<1>1. CdInv => ReadAsMeant
  <2> SUFFICES ASSUME CdInv PROVE ReadAsMeant
    OBVIOUS
  <2> DEFINE s == cd.text
  <2>1. ASSUME cdDone, cd.fn = "strtou"
        PROVE  cdOut = IF s # <<>> /\ (\A i \in 1..Len(s) : IsDigit(s[i])) /\ Worth(s) <= CdIntMax
                       THEN Worth(s) ELSE -1
    <3>1. s \in Seq(ToSet(Digits) \cup {"letter"}) /\ cdOut = FullStrtouB(s)
      BY <2>1, InputsAre DEF CdInv
    <3> HIDE DEF s
    <3> QED BY <3>1, NumeralIsRead
  <2>2. ASSUME cdDone, cd.fn \in {"wrongly", "somehow"}
        PROVE  s \in Seq(GroupChars) /\ ParseLayout(s) = Pieces(s) /\ ParseLayout(s) \in Seq(Seq(GroupChars))
    <3>1. s \in Seq(GroupChars) /\ Len(s) <= CdMaxText + 1
      BY <2>2, InputsAre DEF CdInv
    <3> HIDE DEF s
    <3>2. Len(s) <= CdSizeMax
      <4>1. Len(s) \in Nat
        BY <3>1
      <4> QED BY <3>1, <4>1, CdNat, CdTextFits
    <3>3. ParseLayout(s) \in Seq(Seq(GroupChars))
      <4>1. PICK f \in [0..Len(s) -> LayoutStates] : ParseLayout(s) = Append(f[Len(s)].out, f[Len(s)].piece)
        BY <3>1, LayoutIsRecursive
      <4>2. Len(s) \in 0..Len(s)
        BY <3>1
      <4>3. f[Len(s)] \in LayoutStates
        BY <4>2
      <4> QED BY <4>1, <4>3 DEF LayoutStates
    <3> QED BY <3>1, <3>2, <3>3, LayoutIsDivided
  <2>3. ASSUME cdDone, cd.fn = "wrongly" PROVE cdOut = Pieces(s)
    <3>1. cdOut = ParseLayout(s)
      BY <2>3 DEF CdInv
    <3> QED BY <2>2, <2>3, <3>1
  <2>4. ASSUME cdDone, cd.fn = "somehow"
        PROVE  cdOut = Without(Pieces(s), {p \in ToSet(Pieces(s)) :
                                 p = <<>> \/ Stem(p) \in CdBadLists[cd.arg]})
    <3> DEFINE ps == Pieces(s)
               bad == CdBadLists[cd.arg]
    <3>0. bad \subseteq Seq({"us", "pc"})
      BY <2>4, CdBadListsAssumption DEF CdInv, CdInputs
    <3>1. cdOut = ParseSymbols(s, bad) /\ ParseLayout(s) = ps /\ ps \in Seq(Seq(GroupChars))
      BY <2>2, <2>4 DEF CdInv
    <3> HIDE DEF ps, s, bad
    <3>2. cdOut = Without(ps, {p \in ToSet(ps) : CheckBad(bad, p)})
      BY <3>1 DEF ParseSymbols
    <3>3. \A p \in ToSet(ps) : p \in Seq(GroupChars)
      BY <3>1 DEF ToSet
    <3>4. \A p \in ToSet(ps) : CheckBad(bad, p) <=> p = <<>> \/ Stem(p) \in bad
      <4> SUFFICES ASSUME NEW p \in ToSet(ps) PROVE CheckBad(bad, p) <=> p = <<>> \/ Stem(p) \in bad
        OBVIOUS
      <4>1. \A name \in bad : BadMatches(name, p) <=> Stem(p) = name
        BY <3>0, <3>3, BadIs
      <4> QED BY <4>1 DEF CheckBad
    <3>5. {p \in ToSet(ps) : CheckBad(bad, p)} = {p \in ToSet(ps) : p = <<>> \/ Stem(p) \in bad}
      BY <3>4
    <3> QED BY <3>2, <3>5 DEF ps, bad
  <2> QED BY <2>1, <2>3, <2>4 DEF ReadAsMeant, Computed
<1> QED BY <1>1, CodecsCompute, PTL

-----------------------------------------------------------------------------
(* libwidechar.                                                             *)

\* What the next character can be.
LEMMA NextCharIs ==
  ASSUME NEW v \in Seq(Bytes), NEW i \in 1..Len(v)
  PROVE  /\ NextChar(v, i).n \in 0..2 /\ NextChar(v, i).w \in -1..2
         /\ NextChar(v, i).w >= 0 => NextChar(v, i).n >= 1 /\ i + NextChar(v, i).n <= Len(v) + 1
         /\ NextChar(v, i).w < 0 => NextChar(v, i).n \in 0..1
         /\ NextChar(v, i).w >= 0 <=>
              \/ v[i] = "plain"
              \/ v[i] = "lead" /\ i < Len(v) /\ v[i + 1] \in {"wide", "mark"}
         /\ v[i] = "plain" => NextChar(v, i) = [n |-> 1, w |-> 1]
         /\ v[i] = "lead" /\ i < Len(v) /\ v[i + 1] = "wide" => NextChar(v, i) = [n |-> 2, w |-> 2]
         /\ v[i] = "lead" /\ i < Len(v) /\ v[i + 1] = "mark" => NextChar(v, i) = [n |-> 2, w |-> 0]
<1> DEFINE a == v[i]
           b == v[i + 1]
           m == Len(v)
<1>1. m \in Nat /\ i \in 1..m /\ a \in Bytes
  OBVIOUS
<1>2. NextChar(v, i) =
        CASE a = "plain" -> [n |-> 1, w |-> 1]
          [] a \in {"control", "nul"} -> [n |-> 1, w |-> -1]
          [] a = "lead" /\ i < m /\ b = "wide" -> [n |-> 2, w |-> 2]
          [] a = "lead" /\ i < m /\ b = "mark" -> [n |-> 2, w |-> 0]
          [] OTHER -> [n |-> 0, w |-> -1]
  BY DEF NextChar
<1> HIDE DEF a, b, m
<1>3. CASE a = "plain"
  <2>1. NextChar(v, i) = [n |-> 1, w |-> 1]
    BY <1>2, <1>3
  <2> QED BY <1>1, <1>3, <2>1 DEF a, b, m
<1>4. CASE a = "lead" /\ i < m /\ b = "wide"
  <2>1. NextChar(v, i) = [n |-> 2, w |-> 2]
    BY <1>2, <1>4
  <2>2. i + 2 <= m + 1
    BY <1>1, <1>4
  <2> QED BY <1>1, <1>4, <2>1, <2>2 DEF a, b, m
<1>5. CASE a = "lead" /\ i < m /\ b = "mark"
  <2>1. NextChar(v, i) = [n |-> 2, w |-> 0]
    BY <1>2, <1>5
  <2>2. i + 2 <= m + 1
    BY <1>1, <1>5
  <2> QED BY <1>1, <1>5, <2>1, <2>2 DEF a, b, m
<1>6. CASE a # "plain" /\ ~(a = "lead" /\ i < m /\ b \in {"wide", "mark"})
  <2>1. NextChar(v, i) = [n |-> 1, w |-> -1] \/ NextChar(v, i) = [n |-> 0, w |-> -1]
    BY <1>2, <1>6
  <2>2. NextChar(v, i).w = -1 /\ NextChar(v, i).n \in 0..2 /\ NextChar(v, i).n \in 0..1
    BY <2>1
  <2>3. ~(-1 >= 0) /\ -1 \in -1..2
    OBVIOUS
  <2> QED BY <1>6, <2>2, <2>3 DEF a, b, m
<1> QED BY <1>3, <1>4, <1>5, <1>6

\* The width of the text from the byte i on.
WidthStep(from, v, i) ==
  IF i > Len(v) THEN 0
  ELSE IF NextChar(v, i).w < 0 \/ from[i + NextChar(v, i).n] < 0 THEN -1
  ELSE NextChar(v, i).w + from[i + NextChar(v, i).n]
Widths(from, v) == \A i \in 1..Len(v) + 1 : from[i] = WidthStep(from, v, i)

\* libwidechar_width() does them.
LEMMA WidthIsRecursive ==
  ASSUME NEW v \in Seq(Bytes)
  PROVE  \E from \in [1..Len(v) + 1 -> {-1} \cup Nat] : Widths(from, v) /\ Width(v) = from[1]
<1> DEFINE n == Len(v) + 1
           W == {-1} \cup Nat
           step == [i \in 1..n |-> [t \in [i + 1..n -> W] |-> WidthStep(t, v, i)]]
           Is(g) == g = [i \in 1..n |-> WidthStep(g, v, i)]
           g == CHOOSE g : Is(g)
<1>1. n \in Nat
  OBVIOUS
<1>2. ASSUME NEW i \in 1..n, NEW t \in [i + 1..n -> W]
      PROVE  WidthStep(t, v, i) \in W
  <2> DEFINE w == NextChar(v, i).w
             j == i + NextChar(v, i).n
             l == Len(v)
  <2>1. i <= l => w \in -1..2 /\ (w >= 0 => j \in i + 1..n)
    <3>1. CASE i <= l
      <4>1. i \in 1..l
        BY <1>1, <3>1
      <4>2. /\ NextChar(v, i).n \in 0..2 /\ w \in -1..2
            /\ w >= 0 => NextChar(v, i).n >= 1 /\ i + NextChar(v, i).n <= l + 1
        BY <4>1, NextCharIs
      <4> QED BY <1>1, <4>1, <4>2
    <3> QED BY <3>1
  <2>2. l \in Nat /\ i \in Nat
    BY <1>1
  <2> HIDE DEF w, j, n, l
  <2>3. i <= l /\ w >= 0 => t[j] \in {-1} \cup Nat
    BY <2>1
  <2>4. CASE i > l
    BY <2>4 DEF WidthStep, l
  <2>5. CASE i <= l /\ w < 0
    <3>1. WidthStep(t, v, i) = -1
      BY <2>2, <2>5 DEF WidthStep, l, w
    <3> QED BY <3>1
  <2>6. CASE i <= l /\ w >= 0
    <3>1. WidthStep(t, v, i) = IF t[j] < 0 THEN -1 ELSE w + t[j]
      <4>1. ~(i > l) /\ ~(w < 0)
        BY <2>1, <2>2, <2>6
      <4> QED BY <4>1 DEF WidthStep, l, w, j
    <3> QED BY <2>1, <2>3, <2>6, <3>1
  <2> QED BY <2>1, <2>2, <2>4, <2>5, <2>6
<1>3. ASSUME NEW i \in 1..n, NEW h
      PROVE  WidthStep([j \in i + 1..n |-> h[j]], v, i) = WidthStep(h, v, i)
  <2> DEFINE u == [j \in i + 1..n |-> h[j]]
             w == NextChar(v, i).w
             j == i + NextChar(v, i).n
             l == Len(v)
  <2>1. i <= l /\ w >= 0 => j \in i + 1..n
    <3>1. CASE i <= l /\ w >= 0
      <4>1. i \in 1..l
        BY <1>1, <3>1
      <4>2. NextChar(v, i).n \in 0..2 /\ NextChar(v, i).n >= 1 /\ i + NextChar(v, i).n <= l + 1
        BY <3>1, <4>1, NextCharIs
      <4> QED BY <1>1, <4>1, <4>2
    <3> QED BY <3>1
  <2> HIDE DEF j
  <2>2. i <= l /\ w >= 0 => u[j] = h[j]
    BY <2>1
  <2>3. i <= l => w \in -1..2
    <3>1. i <= l => i \in 1..l
      BY <1>1
    <3> QED BY <3>1, NextCharIs
  <2>4. l \in Nat /\ i \in Nat
    BY <1>1
  <2> HIDE DEF u, w, n, l
  <2>5. WidthStep(u, v, i) = WidthStep(h, v, i)
    <3>1. CASE i > l
      BY <3>1 DEF WidthStep, l
    <3>2. CASE i <= l /\ w < 0
      BY <2>4, <3>2 DEF WidthStep, l, w
    <3>3. CASE i <= l /\ w >= 0
      <4>1. u[j] = h[j]
        BY <2>2, <3>3
      <4> QED BY <4>1 DEF WidthStep, l, w, j
    <3> QED BY <2>3, <2>4, <3>1, <3>2, <3>3
  <2> QED BY <2>5 DEF u
<1>4. \E h : Is(h) /\ h \in [1..n -> W]
  <2>1. \A i \in 1..n : \A t \in [i + 1..n -> W] : step[i][t] = WidthStep(t, v, i)
    <3> HIDE DEF n, W
    <3> QED OBVIOUS
  <2>2. \A i \in 1..n : \A t \in [i + 1..n -> W] : step[i][t] \in W
    <3> HIDE DEF n, W, step
    <3> QED BY <1>2, <2>1, Zenon
  <2> HIDE DEF n, W, step
  <2>3. PICK h \in [1..n -> W] : BackwardSteps(h, n, step)
    BY <1>1, <2>2, BackwardExists
  <2>4. ASSUME NEW i \in 1..n PROVE h[i] = WidthStep(h, v, i)
    <3> DEFINE t == [j \in i + 1..n |-> h[j]]
    <3>1. t \in [i + 1..n -> W]
      BY <1>1
    <3>2. h[i] = step[i][t]
      BY <2>3 DEF BackwardSteps
    <3>3. WidthStep(t, v, i) = WidthStep(h, v, i)
      BY <1>3
    <3> HIDE DEF t
    <3> QED BY <2>1, <3>1, <3>2, <3>3
  <2>5. Is(h)
    BY <2>4
  <2> QED BY <2>5
<1>5. Is(g)
  <2> HIDE DEF Is
  <2> QED BY <1>4, Zenon
<1> HIDE DEF g
<1>6. \A i \in 1..n : g[i] = WidthStep(g, v, i)
  <2> HIDE DEF n, W
  <2> QED BY <1>5
<1>7. g \in [1..n -> W]
  <2>1. ASSUME NEW i \in 1..n, \A j \in i + 1..n : g[j] \in W PROVE g[i] \in W
    <3> DEFINE t == [j \in i + 1..n |-> g[j]]
    <3>1. t \in [i + 1..n -> W]
      <4> HIDE DEF n, W
      <4> QED BY <2>1
    <3>2. WidthStep(t, v, i) \in W
      <4> HIDE DEF n, W, t
      <4> QED BY <1>2, <3>1
    <3>3. WidthStep(t, v, i) = WidthStep(g, v, i)
      BY <1>3
    <3> HIDE DEF n, W, t
    <3> QED BY <1>6, <3>2, <3>3
  <2> HIDE DEF n, W
  <2>2. \A i \in 1..n : g[i] \in W
    BY <1>1, <2>1, AllBackward
  <2>3. g = [i \in 1..n |-> g[i]]
    BY <1>5
  <2> QED BY <2>2, <2>3
<1>8. Widths(g, v)
  <2> HIDE DEF W
  <2> QED BY <1>6 DEF Widths
<1>9. Width(v) = g[1]
  BY DEF Width, WidthStep, g
<1> QED BY <1>7, <1>8, <1>9

\* A character that is valid is the same wherever its bytes are.
LEMMA NextCharSame ==
  ASSUME NEW p \in Seq(Bytes), NEW i \in 1..Len(p), NEW u \in Seq(Bytes), NEW j \in 1..Len(u),
         u[j] = p[i], i < Len(p) => j < Len(u) /\ u[j + 1] = p[i + 1], NextChar(p, i).w >= 0
  PROVE  NextChar(u, j) = NextChar(p, i)
<1>1. CASE p[i] = "plain"
  <2>1. NextChar(p, i) = [n |-> 1, w |-> 1]
    BY <1>1, NextCharIs
  <2>2. NextChar(u, j) = [n |-> 1, w |-> 1]
    BY <1>1, NextCharIs
  <2> QED BY <2>1, <2>2
<1>2. CASE p[i] = "lead" /\ i < Len(p) /\ p[i + 1] = "wide"
  <2>1. NextChar(p, i) = [n |-> 2, w |-> 2]
    BY <1>2, NextCharIs
  <2>2. NextChar(u, j) = [n |-> 2, w |-> 2]
    BY <1>2, NextCharIs
  <2> QED BY <2>1, <2>2
<1>3. CASE p[i] = "lead" /\ i < Len(p) /\ p[i + 1] = "mark"
  <2>1. NextChar(p, i) = [n |-> 2, w |-> 0]
    BY <1>3, NextCharIs
  <2>2. NextChar(u, j) = [n |-> 2, w |-> 0]
    BY <1>3, NextCharIs
  <2> QED BY <2>1, <2>2
<1>4. \/ p[i] = "plain"
      \/ p[i] = "lead" /\ i < Len(p) /\ p[i + 1] \in {"wide", "mark"}
  BY NextCharIs
<1> QED BY <1>1, <1>2, <1>3, <1>4

\* What a step of the width is.
LEMMA WidthAt ==
  ASSUME NEW v \in Seq(Bytes), NEW f \in [1..Len(v) + 1 -> {-1} \cup Nat], Widths(f, v), NEW i \in 1..Len(v)
  PROVE  /\ NextChar(v, i).w < 0 => f[i] = -1
         /\ NextChar(v, i).w >= 0 =>
              /\ i + NextChar(v, i).n \in i + 1..Len(v) + 1
              /\ f[i] = IF f[i + NextChar(v, i).n] < 0 THEN -1
                        ELSE NextChar(v, i).w + f[i + NextChar(v, i).n]
         /\ f[Len(v) + 1] = 0
<1> DEFINE l == Len(v)
           c == NextChar(v, i)
           w == c.w
           j == i + c.n
<1>1. l \in Nat /\ i \in 1..l /\ i \in 1..l + 1 /\ l + 1 \in 1..l + 1 /\ l + 1 > l /\ ~(i > l)
  OBVIOUS
<1>2. w \in -1..2 /\ c.n \in 0..2 /\ (w >= 0 => c.n >= 1 /\ i + c.n <= l + 1)
  BY NextCharIs
<1>3. f[i] = WidthStep(f, v, i) /\ f[l + 1] = WidthStep(f, v, l + 1)
  BY <1>1 DEF Widths
<1>4. f[l + 1] = 0
  BY <1>1, <1>3 DEF WidthStep
<1>5. f[i] = IF w < 0 \/ f[j] < 0 THEN -1 ELSE w + f[j]
  BY <1>1, <1>3 DEF WidthStep
<1>6. w >= 0 => j \in i + 1..l + 1
  <2> HIDE DEF w, c, l
  <2> QED BY <1>1, <1>2
<1> HIDE DEF w, j, c, l
<1>7. w < 0 => f[i] = -1
  BY <1>5
<1>8. w >= 0 => ~(w < 0)
  BY <1>2
<1>9. w >= 0 => f[i] = IF f[j] < 0 THEN -1 ELSE w + f[j]
  BY <1>5, <1>8
<1> QED BY <1>4, <1>6, <1>7, <1>9 DEF w, j, c, l

\* The width of a text that begins with another is the other's and that of the rest.
LEMMA WidthOfRest ==
  ASSUME NEW p \in Seq(Bytes), NEW u \in Seq(Bytes), SameStart(p, u),
         NEW f \in [1..Len(p) + 1 -> {-1} \cup Nat], Widths(f, p),
         NEW g \in [1..Len(u) + 1 -> {-1} \cup Nat], Widths(g, u), f[1] >= 0
  PROVE  g[1] = IF g[Len(p) + 1] < 0 THEN -1 ELSE f[1] + g[Len(p) + 1]
<1> DEFINE k == Len(p)
           l == Len(u)
           r == g[k + 1]
           P(j) == f[j] >= 0 => g[j] = IF r < 0 THEN -1 ELSE f[j] + r
           W == {j \in 1..k + 1 : P(j)}
<1>1. k \in Nat /\ l \in Nat /\ k <= l /\ \A j \in 1..k : u[j] = p[j]
  BY DEF SameStart
<1>2. ASSUME NEW j \in 1..k + 1 PROVE f[j] \in {-1} \cup Nat /\ g[j] \in {-1} \cup Nat
  <2>1. j \in 1..Len(p) + 1 /\ j \in 1..Len(u) + 1
    BY <1>1
  <2> QED BY <2>1
<1>3. ASSUME NEW i \in 1..k + 1, \A j \in i + 1..k + 1 : j \in W PROVE i \in W
  <2>1. CASE i = k + 1
    <3>1. k + 1 \in 1..k + 1
      BY <1>1
    <3>2. r \in {-1} \cup Nat
      BY <1>2, <3>1
    <3>3. CASE k = 0
      <4>1. f[k + 1] = 0
        <5>1. 1 > Len(p) /\ 1 \in 1..Len(p) + 1
          BY <3>3
        <5>2. f[1] = WidthStep(f, p, 1)
          BY <5>1 DEF Widths
        <5> QED BY <3>3, <5>1, <5>2 DEF WidthStep
      <4> HIDE DEF r, k
      <4>2. g[k + 1] = r
        BY DEF r
      <4>3. P(k + 1)
        BY <3>2, <4>1, <4>2
      <4> QED BY <2>1, <3>1, <4>3
    <3>4. CASE k # 0
      <4>1. f[k + 1] = 0
        <5>1. 1 \in 1..Len(p)
          BY <1>1, <3>4
        <5> QED BY <5>1, WidthAt
      <4> HIDE DEF r, k
      <4>2. g[k + 1] = r
        BY DEF r
      <4>3. P(k + 1)
        BY <3>2, <4>1, <4>2
      <4> QED BY <2>1, <3>1, <4>3
    <3> QED BY <3>3, <3>4
  <2>2. CASE i # k + 1
    <3>1. i \in 1..k /\ i \in 1..l /\ u[i] = p[i] /\ (i < k => i < l /\ u[i + 1] = p[i + 1])
      BY <1>1, <2>2
    <3> DEFINE c == NextChar(p, i)
               d == NextChar(u, i)
               q == i + c.n
    <3>2. CASE f[i] >= 0
      <4>1. c.w >= 0
        <5>1. c.w \in -1..2
          BY <3>1, NextCharIs
        <5>2. c.w < 0 => f[i] = -1
          BY <3>1, WidthAt
        <5> HIDE DEF c
        <5> QED BY <3>2, <5>1, <5>2
      <4>2. d = c
        BY <3>1, <4>1, NextCharSame
      <4>3. q \in i + 1..k + 1 /\ f[i] = IF f[q] < 0 THEN -1 ELSE c.w + f[q]
        BY <3>1, <4>1, WidthAt
      <4>4. g[i] = IF g[q] < 0 THEN -1 ELSE c.w + g[q]
        <5>1. d.w >= 0 => g[i] = IF g[i + d.n] < 0 THEN -1 ELSE d.w + g[i + d.n]
          BY <3>1, WidthAt
        <5> HIDE DEF c, d
        <5> QED BY <4>1, <4>2, <5>1
      <4>5. P(q)
        BY <1>3, <4>3
      <4>6. c.w \in -1..2
        BY <3>1, NextCharIs
      <4>7. f[q] \in {-1} \cup Nat /\ g[q] \in {-1} \cup Nat /\ r \in {-1} \cup Nat
        <5>1. q \in 1..k + 1 /\ k + 1 \in 1..k + 1
          BY <1>1, <3>1, <4>3
        <5> HIDE DEF q, k
        <5> QED BY <1>2, <5>1
      <4> DEFINE w == c.w
                 x == f[q]
                 y == g[q]
      <4> HIDE DEF w, x, y, r, c, q, k
      <4>8. f[i] = IF x < 0 THEN -1 ELSE w + x
        BY <4>3 DEF w, x
      <4>9. g[i] = IF y < 0 THEN -1 ELSE w + y
        BY <4>4 DEF w, y
      <4>10. x >= 0 => y = IF r < 0 THEN -1 ELSE x + r
        BY <4>5 DEF x, y
      <4>11. x \in {-1} \cup Nat /\ y \in {-1} \cup Nat /\ r \in {-1} \cup Nat /\ w \in Nat
        BY <4>1, <4>6, <4>7 DEF x, y, w
      <4>12. g[i] = IF r < 0 THEN -1 ELSE f[i] + r
        BY <3>2, <4>8, <4>9, <4>10, <4>11
      <4> QED BY <4>12
    <3>3. CASE ~(f[i] >= 0)
      BY <3>3
    <3> QED BY <3>2, <3>3
  <2> QED BY <2>1, <2>2
<1>4. 1 \in W
  <2>1. k + 1 \in Nat /\ 1 \in 1..k + 1
    BY <1>1
  <2> HIDE DEF W, k
  <2>2. 1..k + 1 \subseteq W
    BY <1>3, <2>1, BackwardInduction
  <2> QED BY <2>1, <2>2
<1> QED BY <1>4

\* The beginning of a text.
LEMMA BeginningIs ==
  ASSUME NEW A, NEW v \in Seq(A), NEW m \in 0..Len(v)
  PROVE  /\ SubSeq(v, 1, m) \in Seq(A) /\ Len(SubSeq(v, 1, m)) = m
         /\ \A j \in 1..m : SubSeq(v, 1, m)[j] = v[j]
<1> DEFINE a == SubSeq(v, 1, m)
           l == Len(v)
<1>1. \A j \in 1..m : v[j] \in A
  OBVIOUS
<1>2. l \in Nat /\ m \in 0..l
  OBVIOUS
<1> HIDE DEF l
<1>3. 1 \in Int /\ m \in Int /\ m - 1 + 1 = m /\ (1 <= m <=> m # 0)
  BY <1>2
<1>4. /\ a \in Seq(A) /\ Len(a) = (IF 1 <= m THEN m - 1 + 1 ELSE 0)
      /\ \A j \in 1..m - 1 + 1 : a[j] = v[1 + j - 1]
  BY <1>1, <1>3, SubSeqProperties
<1>5. \A j \in 1..m : 1 + j - 1 = j
  OBVIOUS
<1> HIDE DEF a
<1>6. Len(a) = m /\ \A j \in 1..m : a[j] = v[j]
  BY <1>2, <1>3, <1>4, <1>5
<1> QED BY <1>4, <1>6 DEF a

\* What the next character makes of the width of a beginning: if it is not valid nothing that is
\* longer has a width, and otherwise all that is longer is wider by it.
LEMMA WidthOfBeginning ==
  ASSUME NEW v \in Seq(Bytes), NEW i \in 1..Len(v), Width(SubSeq(v, 1, i - 1)) >= 0, NEW m \in i..Len(v)
  PROVE  /\ Width(SubSeq(v, 1, i - 1)) \in Nat /\ Width(SubSeq(v, 1, m)) \in {-1} \cup Nat
         /\ NextChar(v, i).w < 0 => Width(SubSeq(v, 1, m)) = -1
         /\ NextChar(v, i).w >= 0 =>
              \/ Width(SubSeq(v, 1, m)) = -1
              \/ Width(SubSeq(v, 1, m)) >= Width(SubSeq(v, 1, i - 1)) + NextChar(v, i).w
         /\ NextChar(v, i).w >= 0 /\ m = i - 1 + NextChar(v, i).n =>
              Width(SubSeq(v, 1, m)) = Width(SubSeq(v, 1, i - 1)) + NextChar(v, i).w
<1> DEFINE p == SubSeq(v, 1, i - 1)
           u == SubSeq(v, 1, m)
           c == NextChar(v, i)
           d == NextChar(u, i)
           l == Len(v)
<1>1. l \in Nat /\ i \in 1..l /\ i - 1 \in 0..l /\ m \in i..l /\ m \in 0..l
  OBVIOUS
<1>2. p \in Seq(Bytes) /\ Len(p) = i - 1 /\ \A j \in 1..i - 1 : p[j] = v[j]
  BY <1>1, BeginningIs
<1>3. u \in Seq(Bytes) /\ Len(u) = m /\ \A j \in 1..m : u[j] = v[j]
  BY <1>1, BeginningIs
<1> HIDE DEF p, u
<1>4. SameStart(p, u)
  <2>1. Len(p) <= Len(u) /\ \A j \in 1..i - 1 : j \in 1..m
    BY <1>1, <1>2, <1>3
  <2> QED BY <1>2, <1>3, <2>1 DEF SameStart
<1>5. PICK f \in [1..Len(p) + 1 -> {-1} \cup Nat] : Widths(f, p) /\ Width(p) = f[1]
  BY <1>2, WidthIsRecursive
<1>6. PICK g \in [1..Len(u) + 1 -> {-1} \cup Nat] : Widths(g, u) /\ Width(u) = g[1]
  BY <1>3, WidthIsRecursive
<1>7. Len(p) + 1 = i
  BY <1>1, <1>2
<1>8. f[1] >= 0
  BY <1>5 DEF p
<1>9. g[1] = IF g[i] < 0 THEN -1 ELSE f[1] + g[i]
  BY <1>2, <1>3, <1>4, <1>5, <1>6, <1>7, <1>8, WidthOfRest
<1>10. f[1] \in Nat /\ g[1] \in {-1} \cup Nat /\ g[i] \in {-1} \cup Nat
  <2>1. 1 \in 1..Len(p) + 1 /\ 1 \in 1..Len(u) + 1 /\ i \in 1..Len(u) + 1
    BY <1>1, <1>2, <1>3
  <2>2. f[1] \in {-1} \cup Nat
    BY <2>1
  <2> QED BY <1>8, <2>1, <2>2
<1>11. i \in 1..Len(u) /\ i \in 1..Len(v) /\ u[i] = v[i]
       /\ (i < Len(u) => i < Len(v) /\ v[i + 1] = u[i + 1])
  BY <1>1, <1>3
<1>12. c.w \in -1..2 /\ d.w \in -1..2 /\ c.n \in 0..2 /\ d.n \in 0..2
  BY <1>3, <1>11, NextCharIs
<1>13. d.w >= 0 => c = d
  BY <1>3, <1>11, NextCharSame
<1>14. /\ d.w < 0 => g[i] = -1
       /\ d.w >= 0 => /\ i + d.n \in i + 1..Len(u) + 1
                      /\ g[i] = IF g[i + d.n] < 0 THEN -1 ELSE d.w + g[i + d.n]
       /\ g[Len(u) + 1] = 0
  BY <1>3, <1>6, <1>11, WidthAt
<1>15. c.w >= 0 /\ m = i - 1 + c.n => d = c
  <2> SUFFICES ASSUME c.w >= 0, m = i - 1 + c.n PROVE d = c
    OBVIOUS
  <2>1. CASE v[i] = "plain"
    <3>1. c = [n |-> 1, w |-> 1] /\ d = [n |-> 1, w |-> 1]
      BY <1>3, <1>11, <2>1, NextCharIs
    <3> QED BY <3>1
  <2>2. CASE v[i] = "lead" /\ i < Len(v) /\ v[i + 1] = "wide"
    <3>1. c = [n |-> 2, w |-> 2]
      BY <2>2, <1>11, NextCharIs
    <3>2. i < Len(u) /\ u[i + 1] = v[i + 1]
      <4>1. m = i + 1
        BY <1>1, <3>1
      <4> QED BY <1>1, <1>3, <4>1
    <3>3. d = [n |-> 2, w |-> 2]
      BY <1>3, <1>11, <2>2, <3>2, NextCharIs
    <3> QED BY <3>1, <3>3
  <2>3. CASE v[i] = "lead" /\ i < Len(v) /\ v[i + 1] = "mark"
    <3>1. c = [n |-> 2, w |-> 0]
      BY <2>3, <1>11, NextCharIs
    <3>2. i < Len(u) /\ u[i + 1] = v[i + 1]
      <4>1. m = i + 1
        BY <1>1, <3>1
      <4> QED BY <1>1, <1>3, <4>1
    <3>3. d = [n |-> 2, w |-> 0]
      BY <1>3, <1>11, <2>3, <3>2, NextCharIs
    <3> QED BY <3>1, <3>3
  <2>4. v[i] = "plain" \/ (v[i] = "lead" /\ i < Len(v) /\ v[i + 1] \in {"wide", "mark"})
    BY <1>11, NextCharIs
  <2> QED BY <2>1, <2>2, <2>3, <2>4
<1> HIDE DEF c, d, l
<1>16. d.w >= 0 => g[i + d.n] \in {-1} \cup Nat
  BY <1>14
<1> DEFINE cw == c.w
           dw == d.w
           x == g[i]
           y == g[i + d.n]
           a == f[1]
           b == g[1]
<1> HIDE DEF cw, dw, x, y, a, b
<1>17. /\ cw \in -1..2 /\ dw \in -1..2 /\ a \in Nat /\ b \in {-1} \cup Nat /\ x \in {-1} \cup Nat
       /\ (dw >= 0 => y \in {-1} \cup Nat)
       /\ b = (IF x < 0 THEN -1 ELSE a + x)
       /\ (dw < 0 => x = -1) /\ (dw >= 0 => x = IF y < 0 THEN -1 ELSE dw + y)
       /\ (dw >= 0 => cw = dw)
  BY <1>9, <1>10, <1>12, <1>13, <1>14, <1>16 DEF cw, dw, x, y, a, b
<1>18. cw < 0 => b = -1
  BY <1>17
<1>19. cw >= 0 => b = -1 \/ b >= a + cw
  <2>1. CASE dw < 0
    BY <1>17, <2>1
  <2>2. CASE dw >= 0 /\ y < 0
    BY <1>17, <2>2
  <2>3. CASE dw >= 0 /\ ~(y < 0)
    <3>1. y \in Nat /\ x = dw + y /\ dw \in Nat /\ cw = dw
      BY <1>17, <2>3
    <3>2. b = a + x
      BY <1>17, <3>1
    <3> QED BY <1>17, <3>1, <3>2
  <2> QED BY <1>17, <2>1, <2>2, <2>3
<1>20. cw >= 0 /\ m = i - 1 + c.n => b = a + cw
  <2> SUFFICES ASSUME cw >= 0, m = i - 1 + c.n PROVE b = a + cw
    OBVIOUS
  <2>1. d = c
    BY <1>15 DEF cw
  <2>2. i + d.n = Len(u) + 1
    <3> DEFINE cn == c.n
    <3>1. d.n = cn /\ m = i - 1 + cn /\ cn \in 0..2
      BY <1>12, <2>1
    <3> HIDE DEF cn
    <3>2. i + cn = m + 1
      BY <1>1, <3>1
    <3> QED BY <1>3, <3>1, <3>2
  <2>3. y = 0
    BY <1>14, <2>2 DEF y
  <2>4. dw >= 0
    BY <2>1 DEF cw, dw
  <2> QED BY <1>17, <2>3, <2>4
<1>21. Width(p) = a /\ Width(u) = b
  BY <1>5, <1>6 DEF a, b
<1> QED BY <1>17, <1>18, <1>19, <1>20, <1>21 DEF p, u, cw, c

\* What libwidechar_truncate_to_width() makes of the text from the byte i on.
TruncateAt(from, v, max, i, width) ==
  IF i > Len(v) THEN [len |-> i - 1, width |-> width]
  ELSE IF NextChar(v, i).w < 0 THEN [len |-> -1, width |-> 0]
  ELSE IF width + NextChar(v, i).w > max THEN [len |-> i - 1, width |-> width]
  ELSE from[i + NextChar(v, i).n][width + NextChar(v, i).w]
TruncateStep(from, v, max, i) == [width \in 0..max |-> TruncateAt(from, v, max, i, width)]
Truncates(from, v, max) ==
  \A i \in 1..Len(v) + 1 : \A width \in 0..max : from[i][width] = TruncateAt(from, v, max, i, width)

\* It does so.
LEMMA TruncateIsRecursive ==
  ASSUME NEW v \in Seq(Bytes), NEW max \in Nat
  PROVE  \E from \in [1..Len(v) + 1 -> [0..max -> [len : Int, width : Int]]] :
           Truncates(from, v, max) /\ TruncateToWidth(v, max) = from[1][0]
<1> DEFINE n == Len(v) + 1
           W == [0..max -> [len : Int, width : Int]]
           step == [i \in 1..n |-> [t \in [i + 1..n -> W] |-> TruncateStep(t, v, max, i)]]
           Is(g) == g = [i \in 1..n |-> TruncateStep(g, v, max, i)]
           g == CHOOSE g : Is(g)
<1>1. n \in Nat
  OBVIOUS
<1>2. ASSUME NEW i \in 1..n, NEW t \in [i + 1..n -> W]
      PROVE  TruncateStep(t, v, max, i) \in W
  <2> DEFINE w == NextChar(v, i).w
             j == i + NextChar(v, i).n
             l == Len(v)
             R == [len : Int, width : Int]
  <2>1. i <= l => w \in -1..2 /\ (w >= 0 => j \in i + 1..n)
    <3>1. CASE i <= l
      <4>1. i \in 1..l
        BY <1>1, <3>1
      <4>2. /\ NextChar(v, i).n \in 0..2 /\ w \in -1..2
            /\ w >= 0 => NextChar(v, i).n >= 1 /\ i + NextChar(v, i).n <= l + 1
        BY <4>1, NextCharIs
      <4> QED BY <1>1, <4>1, <4>2
    <3> QED BY <3>1
  <2>2. l \in Nat /\ i \in Nat
    BY <1>1
  <2> HIDE DEF w, j, n, l
  <2>3. i <= l /\ w >= 0 => t[j] \in [0..max -> R]
    BY <2>1
  <2>4. ASSUME NEW width \in 0..max PROVE TruncateAt(t, v, max, i, width) \in R
    <3>1. CASE i > l
      <4>1. TruncateAt(t, v, max, i, width) = [len |-> i - 1, width |-> width]
        BY <3>1 DEF TruncateAt, l
      <4> QED BY <2>2, <4>1
    <3>2. CASE ~(i > l) /\ w < 0
      <4>1. TruncateAt(t, v, max, i, width) = [len |-> -1, width |-> 0]
        BY <3>2 DEF TruncateAt, l, w
      <4> QED BY <4>1
    <3>3. CASE ~(i > l) /\ ~(w < 0) /\ width + w > max
      <4>1. TruncateAt(t, v, max, i, width) = [len |-> i - 1, width |-> width]
        BY <3>3 DEF TruncateAt, l, w
      <4> QED BY <2>2, <4>1
    <3>4. CASE ~(i > l) /\ ~(w < 0) /\ ~(width + w > max)
      <4>1. TruncateAt(t, v, max, i, width) = t[j][width + w]
        BY <3>4 DEF TruncateAt, l, w, j
      <4>2. i <= l /\ w \in -1..2
        BY <2>1, <2>2, <3>4
      <4>3. w >= 0
        BY <3>4, <4>2
      <4>4. width + w \in 0..max
        BY <3>4, <4>2, <4>3
      <4> HIDE DEF R
      <4> QED BY <2>3, <4>1, <4>2, <4>3, <4>4
    <3> QED BY <3>1, <3>2, <3>3, <3>4
  <2> HIDE DEF R
  <2>5. [width \in 0..max |-> TruncateAt(t, v, max, i, width)] \in [0..max -> R]
    BY <2>4
  <2> QED BY <2>5 DEF TruncateStep, R
<1>3. ASSUME NEW i \in 1..n, NEW h
      PROVE  TruncateStep([j \in i + 1..n |-> h[j]], v, max, i) = TruncateStep(h, v, max, i)
  <2> DEFINE u == [j \in i + 1..n |-> h[j]]
             w == NextChar(v, i).w
             j == i + NextChar(v, i).n
             l == Len(v)
  <2>1. ~(i > l) /\ ~(w < 0) => j \in i + 1..n
    <3>1. CASE ~(i > l) /\ ~(w < 0)
      <4>1. i \in 1..l
        BY <1>1, <3>1
      <4>2. w \in -1..2
        BY <4>1, NextCharIs
      <4>3. w >= 0
        <5> HIDE DEF w
        <5> QED BY <3>1, <4>2
      <4>4. NextChar(v, i).n \in 0..2 /\ NextChar(v, i).n >= 1 /\ i + NextChar(v, i).n <= l + 1
        BY <4>1, <4>3, NextCharIs
      <4> QED BY <1>1, <4>1, <4>4
    <3> QED BY <3>1
  <2> HIDE DEF j
  <2>2. ~(i > l) /\ ~(w < 0) => u[j] = h[j]
    BY <2>1
  <2> HIDE DEF u, w, n, l
  <2>3. ASSUME NEW width \in 0..max PROVE TruncateAt(u, v, max, i, width) = TruncateAt(h, v, max, i, width)
    BY <2>2 DEF TruncateAt, l, w, j
  <2>4. TruncateStep(u, v, max, i) = TruncateStep(h, v, max, i)
    BY <2>3 DEF TruncateStep
  <2> QED BY <2>4 DEF u
<1>4. \E h : Is(h) /\ h \in [1..n -> W]
  <2>1. \A i \in 1..n : \A t \in [i + 1..n -> W] : step[i][t] = TruncateStep(t, v, max, i)
    <3> HIDE DEF n, W
    <3> QED OBVIOUS
  <2>2. \A i \in 1..n : \A t \in [i + 1..n -> W] : step[i][t] \in W
    <3> HIDE DEF n, W, step
    <3> QED BY <1>2, <2>1, Zenon
  <2> HIDE DEF n, W, step
  <2>3. PICK h \in [1..n -> W] : BackwardSteps(h, n, step)
    BY <1>1, <2>2, BackwardExists
  <2>4. ASSUME NEW i \in 1..n PROVE h[i] = TruncateStep(h, v, max, i)
    <3> DEFINE t == [j \in i + 1..n |-> h[j]]
    <3>1. t \in [i + 1..n -> W]
      BY <1>1
    <3>2. h[i] = step[i][t]
      BY <2>3 DEF BackwardSteps
    <3>3. TruncateStep(t, v, max, i) = TruncateStep(h, v, max, i)
      BY <1>3
    <3> HIDE DEF t
    <3> QED BY <2>1, <3>1, <3>2, <3>3
  <2>5. Is(h)
    BY <2>4
  <2> QED BY <2>5
<1>5. Is(g)
  <2> HIDE DEF Is
  <2> QED BY <1>4, Zenon
<1> HIDE DEF g
<1>6. \A i \in 1..n : g[i] = TruncateStep(g, v, max, i)
  <2> HIDE DEF n, W
  <2> QED BY <1>5
<1>7. g \in [1..n -> W]
  <2>1. ASSUME NEW i \in 1..n, \A j \in i + 1..n : g[j] \in W PROVE g[i] \in W
    <3> DEFINE t == [j \in i + 1..n |-> g[j]]
    <3>1. t \in [i + 1..n -> W]
      <4> HIDE DEF n, W
      <4> QED BY <2>1
    <3>2. TruncateStep(t, v, max, i) \in W
      <4> HIDE DEF n, W, t
      <4> QED BY <1>2, <3>1
    <3>3. TruncateStep(t, v, max, i) = TruncateStep(g, v, max, i)
      BY <1>3
    <3> HIDE DEF n, W, t
    <3> QED BY <1>6, <3>2, <3>3
  <2> HIDE DEF n, W
  <2>2. \A i \in 1..n : g[i] \in W
    BY <1>1, <2>1, AllBackward
  <2>3. g = [i \in 1..n |-> g[i]]
    BY <1>5
  <2> QED BY <2>2, <2>3
<1>8. Truncates(g, v, max)
  <2> HIDE DEF W, n
  <2>1. ASSUME NEW i \in 1..n, NEW width \in 0..max PROVE g[i][width] = TruncateAt(g, v, max, i, width)
    <3>1. g[i] = [x \in 0..max |-> TruncateAt(g, v, max, i, x)]
      BY <1>6 DEF TruncateStep
    <3> QED BY <3>1
  <2> QED BY <2>1 DEF Truncates, n
<1>9. TruncateToWidth(v, max) = g[1][0]
  BY DEF TruncateToWidth, TruncateStep, TruncateAt, g
<1> QED BY <1>7, <1>8, <1>9

\* The longest that fits is known when nothing longer does.
LEMMA LongestIs ==
  ASSUME NEW v \in Seq(Bytes), NEW max, NEW k \in Fitting(v, max), \A m \in Fitting(v, max) : m <= k
  PROVE  Longest(v, max) = k
<1> DEFINE F == Fitting(v, max)
           x == Longest(v, max)
<1>1. F \subseteq Int
  BY DEF Fitting
<1>2. x = CHOOSE n \in F : \A m \in F : m <= n
  BY DEF Longest
<1>3. k \in F /\ \A m \in F : m <= k
  OBVIOUS
<1> HIDE DEF F, x
<1>4. x \in F /\ \A m \in F : m <= x
  BY <1>2, <1>3
<1>5. x <= k /\ k <= x /\ x \in Int /\ k \in Int
  BY <1>1, <1>3, <1>4
<1>6. x = k
  BY <1>5
<1> QED BY <1>6 DEF x

\* What is meant to come out.
IsCut(r, v, max) ==
  IF Longest(v, max) < Len(v) /\ NextChar(v, Longest(v, max) + 1).w < 0
  THEN r.len = -1
  ELSE r = [len |-> Longest(v, max), width |-> Width(SubSeq(v, 1, Longest(v, max)))]

\* From every byte at which a character begins and that is reached in the width that comes before
\* it, what is meant comes out: a character is taken, or the beginning is the longest that fits.
LEMMA CutAsMeant ==
  ASSUME NEW v \in Seq(Bytes), NEW max \in Nat
  PROVE  IsCut(TruncateToWidth(v, max), v, max)
<1> DEFINE n == Len(v)
           B(k) == SubSeq(v, 1, k)
<1>1. n \in Nat
  OBVIOUS
<1>2. PICK from \in [1..n + 1 -> [0..max -> [len : Int, width : Int]]] :
        Truncates(from, v, max) /\ TruncateToWidth(v, max) = from[1][0]
  BY TruncateIsRecursive
<1> DEFINE P(i) == \A width \in 0..max : Width(B(i - 1)) = width => IsCut(from[i][width], v, max)
           T == {i \in 1..n + 1 : P(i)}
<1>3. ASSUME NEW i \in 1..n + 1, \A j \in i + 1..n + 1 : j \in T PROVE i \in T
  <2> SUFFICES ASSUME NEW width \in 0..max, Width(B(i - 1)) = width PROVE IsCut(from[i][width], v, max)
    OBVIOUS
  <2> DEFINE w == NextChar(v, i).w
             q == NextChar(v, i).n
             r == from[i][width]
             k == i - 1
  <2>1. r = TruncateAt(from, v, max, i, width)
    BY <1>2 DEF Truncates
  <2>2. k \in 0..n /\ width \in Nat /\ max \in Nat /\ i \in Nat /\ width <= max
    BY <1>1
  <2>3. k \in Fitting(v, max)
    BY <2>2 DEF Fitting
  <2>4. i <= n => w \in -1..2 /\ q \in 0..2 /\ (w >= 0 => q >= 1 /\ i + q <= n + 1)
    <3>1. i <= n => i \in 1..n
      BY <1>1
    <3> QED BY <3>1, NextCharIs
  <2>5. ASSUME i <= n, NEW m \in i..n
        PROVE  /\ Width(B(m)) \in {-1} \cup Nat
               /\ w < 0 => Width(B(m)) = -1
               /\ w >= 0 => Width(B(m)) = -1 \/ Width(B(m)) >= width + w
               /\ w >= 0 /\ m = i - 1 + q => Width(B(m)) = width + w
    <3>1. i \in 1..n /\ Width(SubSeq(v, 1, i - 1)) = width /\ width >= 0
      BY <1>1, <2>2, <2>5
    <3> QED BY <3>1, WidthOfBeginning
  <2> HIDE DEF w, q, r
  <2>6. ASSUME i > n \/ w < 0 \/ width + w > max PROVE Longest(v, max) = k
    <3>1. ASSUME NEW m \in Fitting(v, max) PROVE m <= k
      <4>1. m \in 0..n /\ Width(B(m)) \in 0..max
        BY <3>1 DEF Fitting
      <4> DEFINE x == Width(B(m))
      <4> HIDE DEF x
      <4>2. x \in Nat /\ x <= max
        BY <4>1 DEF x
      <4>3. CASE m >= i
        <5>1. i <= n /\ m \in i..n
          BY <1>1, <2>2, <4>1, <4>3
        <5>2. (w < 0 => x = -1) /\ (w >= 0 => x = -1 \/ x >= width + w) /\ w \in -1..2
          BY <2>4, <2>5, <5>1 DEF x
        <5>3. w < 0 \/ width + w > max
          BY <2>6, <2>2, <5>1, <1>1
        <5>4. CASE w < 0
          BY <4>2, <5>2, <5>4
        <5>5. CASE width + w > max /\ w >= 0
          BY <2>2, <4>2, <5>2, <5>5
        <5> QED BY <5>2, <5>3, <5>4, <5>5
      <4>4. CASE ~(m >= i)
        BY <2>2, <4>1, <4>4
      <4> QED BY <4>3, <4>4
    <3> HIDE DEF k
    <3> QED BY <2>3, <3>1, LongestIs
  <2>7. CASE i > n
    <3>1. r = [len |-> k, width |-> width]
      BY <2>1, <2>7 DEF TruncateAt
    <3>2. Longest(v, max) = k /\ ~(k < n)
      BY <1>1, <2>2, <2>6, <2>7
    <3>3. Width(SubSeq(v, 1, k)) = width
      OBVIOUS
    <3> HIDE DEF k
    <3> QED BY <3>1, <3>2, <3>3 DEF IsCut, r
  <2>8. CASE i <= n /\ w < 0
    <3>1. r = [len |-> -1, width |-> 0]
      BY <1>1, <2>1, <2>2, <2>8 DEF TruncateAt, w
    <3>2. Longest(v, max) = k /\ k < n /\ k + 1 = i
      BY <1>1, <2>2, <2>6, <2>8
    <3>3. NextChar(v, k + 1).w < 0
      BY <2>8, <3>2 DEF w
    <3>4. r.len = -1
      BY <3>1
    <3> HIDE DEF k
    <3> QED BY <3>2, <3>3, <3>4 DEF IsCut, r
  <2>9. CASE i <= n /\ w >= 0 /\ width + w > max
    <3>0. ~(i > n) /\ ~(w < 0)
      BY <1>1, <2>2, <2>4, <2>9
    <3>1. r = [len |-> k, width |-> width]
      BY <2>1, <2>9, <3>0 DEF TruncateAt, w
    <3>2. Longest(v, max) = k /\ k + 1 = i
      BY <1>1, <2>2, <2>6, <2>9
    <3>3. Width(SubSeq(v, 1, k)) = width
      OBVIOUS
    <3>4. ~(NextChar(v, k + 1).w < 0)
      BY <3>0, <3>2 DEF w
    <3> HIDE DEF k
    <3> QED BY <3>1, <3>2, <3>3, <3>4 DEF IsCut, r
  <2>10. CASE i <= n /\ w >= 0 /\ width + w <= max
    <3>0. ~(i > n) /\ ~(w < 0) /\ ~(width + w > max) /\ w \in Nat
      BY <1>1, <2>2, <2>4, <2>10
    <3>1. r = from[i + q][width + w]
      BY <2>1, <2>10, <3>0 DEF TruncateAt, w, q
    <3> DEFINE j == i + q
               z == width + w
    <3>2. j \in i + 1..n + 1 /\ j - 1 \in i..n /\ j - 1 = i - 1 + q /\ z \in 0..max
      BY <1>1, <2>2, <2>4, <2>10, <3>0
    <3>3. P(j)
      BY <1>3, <3>2
    <3>4. Width(B(j - 1)) = z
      BY <2>5, <2>10, <3>2
    <3> HIDE DEF j, z, B
    <3>5. IsCut(from[j][z], v, max)
      BY <3>2, <3>3, <3>4
    <3> QED BY <3>1, <3>5 DEF r, j, z
  <2> QED BY <1>1, <2>2, <2>4, <2>7, <2>8, <2>9, <2>10 DEF r
<1>4. 1 \in T
  <2>1. n + 1 \in Nat /\ 1 \in 1..n + 1
    BY <1>1
  <2> HIDE DEF T, n
  <2>2. 1..n + 1 \subseteq T
    BY <1>3, <2>1, BackwardInduction
  <2> QED BY <2>1, <2>2
<1>5. Width(B(0)) = 0
  <2>1. B(0) = <<>> /\ <<>> \in Seq(Bytes) /\ Len(<<>>) = 0
    OBVIOUS
  <2> HIDE DEF B
  <2>2. PICK f \in [1..Len(<<>>) + 1 -> {-1} \cup Nat] : Widths(f, <<>>) /\ Width(<<>>) = f[1]
    BY <2>1, WidthIsRecursive
  <2>3. 1 \in 1..Len(<<>>) + 1 /\ 1 > Len(<<>>)
    BY <2>1
  <2>4. f[1] = WidthStep(f, <<>>, 1)
    BY <2>2, <2>3 DEF Widths
  <2> QED BY <2>1, <2>2, <2>3, <2>4 DEF WidthStep
<1>6. P(1) /\ 1 - 1 = 0 /\ 0 \in 0..max
  BY <1>4
<1> HIDE DEF B
<1>7. IsCut(from[1][0], v, max)
  BY <1>5, <1>6
<1> QED BY <1>2, <1>7

\* The width of the end of a text is that of the end.
LEMMA WidthOfEnd ==
  ASSUME NEW r \in Seq(Bytes), NEW u \in Seq(Bytes), NEW k \in Nat, Len(u) = k + Len(r),
         \A j \in 1..Len(r) : u[k + j] = r[j],
         NEW h \in [1..Len(r) + 1 -> {-1} \cup Nat], Widths(h, r),
         NEW g \in [1..Len(u) + 1 -> {-1} \cup Nat], Widths(g, u)
  PROVE  g[k + 1] = h[1]
<1> DEFINE l == Len(r)
           W == {i \in 1..l + 1 : g[k + i] = h[i]}
<1>1. l \in Nat /\ Len(u) = k + l
  OBVIOUS
<1>2. ASSUME NEW i \in 1..l + 1, \A j \in i + 1..l + 1 : j \in W PROVE i \in W
  <2>1. CASE i = l + 1
    <3>1. i > Len(r) /\ k + i > Len(u) /\ i \in 1..Len(r) + 1 /\ k + i \in 1..Len(u) + 1
      BY <1>1, <2>1
    <3>2. h[i] = WidthStep(h, r, i) /\ g[k + i] = WidthStep(g, u, k + i)
      BY <3>1 DEF Widths
    <3>3. h[i] = 0 /\ g[k + i] = 0
      BY <3>1, <3>2 DEF WidthStep
    <3> QED BY <3>3
  <2>2. CASE i # l + 1
    <3> DEFINE c == NextChar(r, i)
               d == NextChar(u, k + i)
    <3>1. i \in 1..l /\ k + i \in 1..Len(u) /\ u[k + i] = r[i]
          /\ (i < l <=> k + i < Len(u)) /\ (i < l => u[(k + i) + 1] = r[i + 1])
      <4>1. i \in 1..l /\ k + i \in 1..Len(u) /\ (i < l <=> k + i < Len(u))
        BY <1>1, <2>2
      <4>2. i < l => i + 1 \in 1..l /\ k + (i + 1) = (k + i) + 1
        BY <1>1, <4>1
      <4> QED BY <4>1, <4>2
    <3>2. c.w >= 0 => d = c
      BY <3>1, NextCharSame
    <3>3. d.w >= 0 => c = d
      BY <3>1, NextCharSame
    <3>4. c.w \in -1..2 /\ d.w \in -1..2
      BY <3>1, NextCharIs
    <3>5. /\ c.w < 0 => h[i] = -1
          /\ c.w >= 0 => i + c.n \in i + 1..l + 1 /\ h[i] = IF h[i + c.n] < 0 THEN -1 ELSE c.w + h[i + c.n]
      BY <3>1, WidthAt
    <3>6. /\ d.w < 0 => g[k + i] = -1
          /\ d.w >= 0 => g[k + i] = IF g[(k + i) + d.n] < 0 THEN -1 ELSE d.w + g[(k + i) + d.n]
      BY <3>1, WidthAt
    <3> HIDE DEF c, d
    <3>7. CASE c.w < 0
      <4>1. d.w < 0
        <5>1. ~(d.w >= 0)
          BY <3>3, <3>4, <3>7
        <5> QED BY <3>4, <5>1
      <4> QED BY <3>5, <3>6, <3>7, <4>1
    <3>8. CASE c.w >= 0
      <4> DEFINE q == i + c.n
      <4>1. d = c /\ q \in i + 1..l + 1
        BY <3>2, <3>5, <3>8
      <4>2. g[k + q] = h[q]
        BY <1>2, <4>1
      <4>3. (k + i) + d.n = k + q
        <5>1. c.n \in 0..2 /\ i \in Nat /\ k \in Nat
          BY <1>1, <3>1, NextCharIs DEF c
        <5> DEFINE e == c.n
        <5>2. e \in 0..2
          BY <5>1
        <5> HIDE DEF e
        <5>3. (k + i) + e = k + (i + e)
          BY <5>1, <5>2
        <5> QED BY <4>1, <5>3 DEF e, q
      <4> HIDE DEF q
      <4>4. h[i] = IF h[q] < 0 THEN -1 ELSE c.w + h[q]
        BY <3>5, <3>8 DEF q
      <4>5. g[k + i] = IF g[k + q] < 0 THEN -1 ELSE c.w + g[k + q]
        BY <3>6, <3>8, <4>1, <4>3
      <4> QED BY <4>2, <4>4, <4>5
    <3> QED BY <3>4, <3>7, <3>8
  <2> QED BY <2>1, <2>2
<1>3. 1 \in W
  <2>1. l + 1 \in Nat /\ 1 \in 1..l + 1
    BY <1>1
  <2> HIDE DEF W, l
  <2>2. 1..l + 1 \subseteq W
    BY <1>2, <2>1, BackwardInduction
  <2> QED BY <2>1, <2>2
<1> QED BY <1>3

\* Two texts that have a width are as wide together.
LEMMA WidthOfBoth ==
  ASSUME NEW a \in Seq(Bytes), NEW r \in Seq(Bytes), Width(a) >= 0, Width(r) >= 0
  PROVE  Width(a \o r) >= 0
<1> DEFINE u == a \o r
           k == Len(a)
<1>1. u \in Seq(Bytes) /\ Len(u) = k + Len(r) /\ k \in Nat /\ Len(r) \in Nat
  OBVIOUS
<1>2. \A j \in 1..k : u[j] = a[j]
  OBVIOUS
<1>3. ASSUME NEW j \in 1..Len(r) PROVE u[k + j] = r[j]
  OBVIOUS
<1> HIDE DEF u
<1>4. SameStart(a, u)
  BY <1>1, <1>2 DEF SameStart
<1>5. PICK f \in [1..Len(a) + 1 -> {-1} \cup Nat] : Widths(f, a) /\ Width(a) = f[1]
  BY WidthIsRecursive
<1>6. PICK h \in [1..Len(r) + 1 -> {-1} \cup Nat] : Widths(h, r) /\ Width(r) = h[1]
  BY WidthIsRecursive
<1>7. PICK g \in [1..Len(u) + 1 -> {-1} \cup Nat] : Widths(g, u) /\ Width(u) = g[1]
  BY <1>1, WidthIsRecursive
<1>8. g[1] = IF g[k + 1] < 0 THEN -1 ELSE f[1] + g[k + 1]
  BY <1>1, <1>4, <1>5, <1>7, WidthOfRest
<1> HIDE DEF k
<1>9. g[k + 1] = h[1]
  BY <1>1, <1>3, <1>6, <1>7, WidthOfEnd
<1>10. f[1] \in Nat /\ h[1] \in Nat
  <2>1. 1 \in 1..Len(a) + 1 /\ 1 \in 1..Len(r) + 1
    BY <1>1 DEF k
  <2>2. f[1] \in {-1} \cup Nat /\ h[1] \in {-1} \cup Nat
    BY <2>1
  <2> QED BY <1>5, <1>6, <2>2
<1> DEFINE x == f[1]
           y == h[1]
<1>11. g[1] = (IF y < 0 THEN -1 ELSE x + y) /\ x \in Nat /\ y \in Nat
  BY <1>8, <1>9, <1>10
<1> HIDE DEF x, y
<1>12. g[1] >= 0
  BY <1>11
<1> QED BY <1>7, <1>12 DEF u

\* A text is cut in two.
LEMMA PartsAre ==
  ASSUME NEW A, NEW v \in Seq(A), NEW i \in 1..Len(v) + 1, NEW j \in i..Len(v) + 1
  PROVE  SubSeq(v, i, j - 1) \o SubSeq(v, j, Len(v)) = SubSeq(v, i, Len(v))
<1> DEFINE n == Len(v)
           a == SubSeq(v, i, j - 1)
           b == SubSeq(v, j, n)
           c == SubSeq(v, i, n)
           k == j - i
           m == n - j + 1
<1>1. n \in Nat /\ i \in 1..n + 1 /\ j \in i..n + 1 /\ j \in 1..n + 1 /\ k \in Nat /\ m \in Nat
  OBVIOUS
<1>2. j - 1 \in i - 1..n /\ n \in j - 1..n /\ n \in i - 1..n /\ j - 1 - i + 1 = k /\ n - i + 1 = k + m
  BY <1>1
<1>3. a \in Seq(A) /\ Len(a) = k /\ \A e \in 1..k : a[e] = v[i + e - 1]
  BY <1>1, <1>2, PartIs
<1>4. b \in Seq(A) /\ Len(b) = m /\ \A e \in 1..m : b[e] = v[j + e - 1]
  BY <1>1, <1>2, PartIs
<1>5. c \in Seq(A) /\ Len(c) = k + m /\ \A e \in 1..k + m : c[e] = v[i + e - 1]
  BY <1>1, <1>2, PartIs
<1>6. k = j - i
  OBVIOUS
<1> HIDE DEF a, b, c, k, m, n
<1>7. /\ a \o b \in Seq(A) /\ Len(a \o b) = k + m
      /\ \A e \in 1..k + m : (a \o b)[e] = IF e <= k THEN a[e] ELSE b[e - k]
  BY <1>1, <1>3, <1>4, ConcatProperties
<1>8. ASSUME NEW e \in 1..k + m PROVE (a \o b)[e] = c[e]
  <2>1. CASE e <= k
    <3>1. e \in 1..k
      BY <1>1, <2>1
    <3> QED BY <1>3, <1>5, <1>7, <2>1, <3>1
  <2>2. CASE ~(e <= k)
    <3>1. e - k \in 1..m /\ j + (e - k) - 1 = i + e - 1
      BY <1>1, <1>6, <2>2
    <3> QED BY <1>4, <1>5, <1>7, <2>2, <3>1
  <2> QED BY <2>1, <2>2
<1> DEFINE ab == a \o b
<1> HIDE DEF ab
<1>9. ab = c
  <2>1. ab \in Seq(A) /\ Len(ab) = Len(c) /\ \A e \in 1..Len(ab) : ab[e] = c[e]
    BY <1>5, <1>7, <1>8 DEF ab
  <2> QED BY <1>5, <2>1, SeqEqual
<1> QED BY <1>9 DEF ab, a, b, c, n

\* One character by itself has a width.
LEMMA WidthOfChar ==
  ASSUME NEW v \in Seq(Bytes), NEW i \in 1..Len(v), NextChar(v, i).w >= 0
  PROVE  /\ SubSeq(v, i, i + NextChar(v, i).n - 1) \in Seq(Bytes)
         /\ Width(SubSeq(v, i, i + NextChar(v, i).n - 1)) >= 0
<1> DEFINE n == NextChar(v, i).n
           a == SubSeq(v, i, i + n - 1)
<1>1. n \in 0..2 /\ n >= 1 /\ i + n <= Len(v) + 1
  BY NextCharIs
<1> HIDE DEF n
<1>2. i \in 1..Len(v) + 1 /\ i + n - 1 \in i - 1..Len(v) /\ (i + n - 1) - i + 1 = n
  BY <1>1
<1>3. a \in Seq(Bytes) /\ Len(a) = n /\ \A k \in 1..n : a[k] = v[i + k - 1]
  BY <1>2, PartIs
<1> HIDE DEF a
<1>4. a[1] = v[i] /\ (n = 2 => a[2] = v[i + 1])
  <2>1. 1 \in 1..n /\ i + 1 - 1 = i /\ (n = 2 => 2 \in 1..n /\ i + 2 - 1 = i + 1)
    BY <1>1
  <2> QED BY <1>3, <2>1
<1>5. 1 \in 1..Len(a)
  BY <1>1, <1>3
<1>6. NextChar(a, 1).n = n /\ NextChar(a, 1).w >= 0 /\ NextChar(a, 1).w \in -1..2
  <2>0. NextChar(a, 1).w \in -1..2
    BY <1>3, <1>5, NextCharIs
  <2>1. CASE v[i] = "plain"
    <3>1. NextChar(v, i) = [n |-> 1, w |-> 1] /\ NextChar(a, 1) = [n |-> 1, w |-> 1]
      BY <1>3, <1>4, <1>5, <2>1, NextCharIs
    <3> QED BY <2>0, <3>1 DEF n
  <2>2. CASE v[i] = "lead" /\ i < Len(v) /\ v[i + 1] = "wide"
    <3>1. NextChar(v, i) = [n |-> 2, w |-> 2]
      BY <2>2, NextCharIs
    <3>2. n = 2
      BY <3>1 DEF n
    <3>3. a[1] = "lead" /\ 1 < Len(a) /\ a[1 + 1] = "wide"
      BY <1>3, <1>4, <2>2, <3>2
    <3>4. NextChar(a, 1) = [n |-> 2, w |-> 2]
      BY <1>3, <1>5, <3>3, NextCharIs
    <3> QED BY <2>0, <3>2, <3>4
  <2>3. CASE v[i] = "lead" /\ i < Len(v) /\ v[i + 1] = "mark"
    <3>1. NextChar(v, i) = [n |-> 2, w |-> 0]
      BY <2>3, NextCharIs
    <3>2. n = 2
      BY <3>1 DEF n
    <3>3. a[1] = "lead" /\ 1 < Len(a) /\ a[1 + 1] = "mark"
      BY <1>3, <1>4, <2>3, <3>2
    <3>4. NextChar(a, 1) = [n |-> 2, w |-> 0]
      BY <1>3, <1>5, <3>3, NextCharIs
    <3> QED BY <2>0, <3>2, <3>4
  <2>4. v[i] = "plain" \/ (v[i] = "lead" /\ i < Len(v) /\ v[i + 1] \in {"wide", "mark"})
    BY NextCharIs
  <2> QED BY <2>1, <2>2, <2>3, <2>4
<1>7. PICK f \in [1..Len(a) + 1 -> {-1} \cup Nat] : Widths(f, a) /\ Width(a) = f[1]
  BY <1>3, WidthIsRecursive
<1> DEFINE c == NextChar(a, 1)
<1>8. f[1] = (IF f[1 + c.n] < 0 THEN -1 ELSE c.w + f[1 + c.n]) /\ f[Len(a) + 1] = 0
  BY <1>3, <1>5, <1>6, <1>7, WidthAt
<1> HIDE DEF c
<1>9. c.n = n /\ c.w \in -1..2 /\ c.w >= 0
  BY <1>6 DEF c
<1>10. 1 + c.n = Len(a) + 1
  BY <1>1, <1>3, <1>9
<1>11. f[1] = c.w
  BY <1>8, <1>9, <1>10
<1> QED BY <1>3, <1>7, <1>9, <1>11 DEF a, n

\* What is made of the text from the byte i on.
ValidStep(from, v, i) ==
  IF i > Len(v) THEN <<>>
  ELSE IF NextChar(v, i).w >= 0
       THEN SubSeq(v, i, i + NextChar(v, i).n - 1) \o from[i + NextChar(v, i).n]
       ELSE BadMark \o from[i + (IF NextChar(v, i).n = 0 THEN 1 ELSE NextChar(v, i).n)]
Valids(from, v) == \A i \in 1..Len(v) + 1 : from[i] = ValidStep(from, v, i)

\* What a step of it is.
LEMMA ValidAt ==
  ASSUME NEW v \in Seq(Bytes), NEW from, NEW i \in 1..Len(v)
  PROVE  /\ NextChar(v, i).w >= 0 =>
              /\ i + NextChar(v, i).n \in i + 1..Len(v) + 1
              /\ ValidStep(from, v, i) = SubSeq(v, i, i + NextChar(v, i).n - 1) \o from[i + NextChar(v, i).n]
         /\ ~(NextChar(v, i).w >= 0) => ValidStep(from, v, i) = BadMark \o from[i + 1]
<1> DEFINE l == Len(v)
           w == NextChar(v, i).w
           q == NextChar(v, i).n
<1>1. l \in Nat /\ i \in 1..l /\ ~(i > l)
  OBVIOUS
<1>2. q \in 0..2 /\ (w >= 0 => q >= 1 /\ i + q <= l + 1) /\ (w < 0 => q \in 0..1) /\ w \in -1..2
  BY NextCharIs
<1>3. ValidStep(from, v, i) =
        IF w >= 0 THEN SubSeq(v, i, i + q - 1) \o from[i + q]
        ELSE BadMark \o from[i + (IF q = 0 THEN 1 ELSE q)]
  BY <1>1 DEF ValidStep
<1> HIDE DEF l, w, q
<1>4. w >= 0 => i + q \in i + 1..l + 1
  BY <1>1, <1>2
<1>5. ~(w >= 0) => (IF q = 0 THEN 1 ELSE q) = 1
  <2>1. ~(w >= 0) => q = 0 \/ q = 1
    BY <1>2
  <2> QED BY <2>1
<1> QED BY <1>3, <1>4, <1>5 DEF l, w, q

\* A step at the end of the text.
LEMMA ValidAtEnd ==
  ASSUME NEW v \in Seq(Bytes), NEW from, NEW i, i = Len(v) + 1
  PROVE  ValidStep(from, v, i) = <<>>
<1>1. i > Len(v)
  <2>1. Len(v) \in Nat
    OBVIOUS
  <2> QED BY <2>1
<1> QED BY <1>1 DEF ValidStep

\* libwidechar_make_valid_and_printable() does them.
LEMMA ValidIsRecursive ==
  ASSUME NEW v \in Seq(Bytes)
  PROVE  \E from \in [1..Len(v) + 1 -> Seq(Bytes)] : Valids(from, v) /\ MakeValidAndPrintable(v) = from[1]
<1> DEFINE n == Len(v) + 1
           W == Seq(Bytes)
           step == [i \in 1..n |-> [t \in [i + 1..n -> W] |-> ValidStep(t, v, i)]]
           Is(g) == g = [i \in 1..n |-> ValidStep(g, v, i)]
           g == CHOOSE g : Is(g)
<1>1. n \in Nat
  OBVIOUS
<1>2. ASSUME NEW i \in 1..n, NEW t \in [i + 1..n -> W]
      PROVE  ValidStep(t, v, i) \in W
  <2> DEFINE w == NextChar(v, i).w
             q == NextChar(v, i).n
             l == Len(v)
             p == SubSeq(v, i, i + q - 1)
  <2>0. l \in Nat /\ n = l + 1 /\ i \in 1..l + 1
    BY <1>1
  <2>1. CASE i = l + 1
    <3>1. ValidStep(t, v, i) = <<>>
      BY <2>1, ValidAtEnd
    <3> QED BY <3>1
  <2>2. CASE i # l + 1 /\ w >= 0
    <3>1. i \in 1..l
      BY <2>0, <2>2
    <3>2. i + q \in i + 1..n /\ ValidStep(t, v, i) = p \o t[i + q]
      BY <2>0, <2>2, <3>1, ValidAt
    <3>3. p \in Seq(Bytes)
      BY <2>2, <3>1, WidthOfChar
    <3> HIDE DEF p, n
    <3>4. t[i + q] \in Seq(Bytes)
      BY <3>2
    <3> DEFINE x == t[i + q]
    <3> HIDE DEF x
    <3>5. p \o x \in Seq(Bytes)
      BY <3>3, <3>4 DEF x
    <3> QED BY <3>2, <3>5 DEF x
  <2>3. CASE i # l + 1 /\ ~(w >= 0)
    <3>1. i \in 1..l
      BY <2>0, <2>3
    <3>2. ValidStep(t, v, i) = BadMark \o t[i + 1]
      BY <2>3, <3>1, ValidAt
    <3>3. i + 1 \in i + 1..n
      BY <2>0, <3>1
    <3> HIDE DEF n
    <3>4. t[i + 1] \in Seq(Bytes)
      BY <3>3
    <3>5. BadMark \in Seq(Bytes)
      BY DEF BadMark, Bytes
    <3> DEFINE x == t[i + 1]
    <3> HIDE DEF x
    <3>6. BadMark \o x \in Seq(Bytes)
      BY <3>4, <3>5 DEF x
    <3> QED BY <3>2, <3>6 DEF x
  <2> QED BY <2>1, <2>2, <2>3
<1>3. ASSUME NEW i \in 1..n, NEW h
      PROVE  ValidStep([j \in i + 1..n |-> h[j]], v, i) = ValidStep(h, v, i)
  <2> DEFINE u == [j \in i + 1..n |-> h[j]]
             w == NextChar(v, i).w
             q == NextChar(v, i).n
             l == Len(v)
  <2>0. l \in Nat /\ n = l + 1 /\ i \in 1..l + 1
    BY <1>1
  <2>1. CASE i = l + 1
    <3> HIDE DEF u
    <3>1. ValidStep(u, v, i) = <<>> /\ ValidStep(h, v, i) = <<>>
      BY <2>1, ValidAtEnd
    <3> QED BY <3>1 DEF u
  <2>2. CASE i # l + 1 /\ w >= 0
    <3>1. i \in 1..l
      BY <2>0, <2>2
    <3>2. i + q \in i + 1..n
      BY <2>0, <2>2, <3>1, ValidAt
    <3>3. u[i + q] = h[i + q]
      <4> HIDE DEF n
      <4> QED BY <3>2
    <3> HIDE DEF u
    <3>4. /\ ValidStep(u, v, i) = SubSeq(v, i, i + q - 1) \o u[i + q]
          /\ ValidStep(h, v, i) = SubSeq(v, i, i + q - 1) \o h[i + q]
      BY <2>2, <3>1, ValidAt
    <3> QED BY <3>3, <3>4 DEF u
  <2>3. CASE i # l + 1 /\ ~(w >= 0)
    <3>1. i \in 1..l /\ i + 1 \in i + 1..n
      BY <2>0, <2>3
    <3>3. u[i + 1] = h[i + 1]
      <4> HIDE DEF n
      <4> QED BY <3>1
    <3> HIDE DEF u
    <3>4. /\ ValidStep(u, v, i) = BadMark \o u[i + 1]
          /\ ValidStep(h, v, i) = BadMark \o h[i + 1]
      BY <2>3, <3>1, ValidAt
    <3> QED BY <3>3, <3>4 DEF u
  <2> QED BY <2>1, <2>2, <2>3
<1>4. \E h : Is(h) /\ h \in [1..n -> W]
  <2>1. \A i \in 1..n : \A t \in [i + 1..n -> W] : step[i][t] = ValidStep(t, v, i)
    <3> HIDE DEF n, W
    <3> QED OBVIOUS
  <2>2. \A i \in 1..n : \A t \in [i + 1..n -> W] : step[i][t] \in W
    <3> HIDE DEF n, W, step
    <3> QED BY <1>2, <2>1, Zenon
  <2> HIDE DEF n, W, step
  <2>3. PICK h \in [1..n -> W] : BackwardSteps(h, n, step)
    BY <1>1, <2>2, BackwardExists
  <2>4. ASSUME NEW i \in 1..n PROVE h[i] = ValidStep(h, v, i)
    <3> DEFINE t == [j \in i + 1..n |-> h[j]]
    <3>1. t \in [i + 1..n -> W]
      BY <1>1
    <3>2. h[i] = step[i][t]
      BY <2>3 DEF BackwardSteps
    <3>3. ValidStep(t, v, i) = ValidStep(h, v, i)
      BY <1>3
    <3> HIDE DEF t
    <3> QED BY <2>1, <3>1, <3>2, <3>3
  <2>5. Is(h)
    BY <2>4
  <2> QED BY <2>5
<1>5. Is(g)
  <2> HIDE DEF Is
  <2> QED BY <1>4, Zenon
<1> HIDE DEF g
<1>6. \A i \in 1..n : g[i] = ValidStep(g, v, i)
  <2> HIDE DEF n, W
  <2> QED BY <1>5
<1>7. g \in [1..n -> W]
  <2>1. ASSUME NEW i \in 1..n, \A j \in i + 1..n : g[j] \in W PROVE g[i] \in W
    <3> DEFINE t == [j \in i + 1..n |-> g[j]]
    <3>1. t \in [i + 1..n -> W]
      <4> HIDE DEF n, W
      <4> QED BY <2>1
    <3>2. ValidStep(t, v, i) \in W
      <4> HIDE DEF n, W, t
      <4> QED BY <1>2, <3>1
    <3>3. ValidStep(t, v, i) = ValidStep(g, v, i)
      BY <1>3
    <3> HIDE DEF n, W, t
    <3> QED BY <1>6, <3>2, <3>3
  <2> HIDE DEF n, W
  <2>2. \A i \in 1..n : g[i] \in W
    BY <1>1, <2>1, AllBackward
  <2>3. g = [i \in 1..n |-> g[i]]
    BY <1>5
  <2> QED BY <2>2, <2>3
<1>8. Valids(g, v)
  <2> HIDE DEF W
  <2> QED BY <1>6 DEF Valids
<1>9. MakeValidAndPrintable(v) = g[1]
  BY DEF MakeValidAndPrintable, ValidStep, g
<1> QED BY <1>7, <1>8, <1>9

\* The mark that stands for a byte that is not valid is a character.
LEMMA WidthOfMark == BadMark \in Seq(Bytes) /\ Width(BadMark) >= 0
<1> DEFINE a == BadMark
<1>1. a \in Seq(Bytes) /\ Len(a) = 1 /\ a[1] = "plain"
  BY DEF BadMark, Bytes
<1> HIDE DEF a
<1>2. 1 \in 1..Len(a)
  BY <1>1
<1>3. NextChar(a, 1) = [n |-> 1, w |-> 1]
  BY <1>1, <1>2, NextCharIs
<1>4. PICK f \in [1..Len(a) + 1 -> {-1} \cup Nat] : Widths(f, a) /\ Width(a) = f[1]
  BY <1>1, WidthIsRecursive
<1> DEFINE c == NextChar(a, 1)
<1>5. c.n = 1 /\ c.w = 1
  BY <1>3
<1> HIDE DEF c
<1>6. c.w >= 0
  BY <1>5
<1>7. f[1] = (IF f[1 + c.n] < 0 THEN -1 ELSE c.w + f[1 + c.n]) /\ f[Len(a) + 1] = 0
  BY <1>1, <1>2, <1>4, <1>6, WidthAt DEF c
<1>8. 1 + c.n = Len(a) + 1
  BY <1>1, <1>5
<1>9. f[1] = 1
  BY <1>5, <1>7, <1>8
<1> QED BY <1>1, <1>4, <1>9 DEF a

\* No text is no wider than nothing.
LEMMA WidthOfNothing == Width(<<>>) = 0
<1> DEFINE a == <<>>
<1>1. a \in Seq(Bytes) /\ Len(a) = 0
  OBVIOUS
<1> HIDE DEF a
<1>2. PICK f \in [1..Len(a) + 1 -> {-1} \cup Nat] : Widths(f, a) /\ Width(a) = f[1]
  BY <1>1, WidthIsRecursive
<1>3. f[1] = WidthStep(f, a, 1)
  <2>1. 1 \in 1..Len(a) + 1
    BY <1>1
  <2> QED BY <1>2, <2>1 DEF Widths
<1>4. 1 > Len(a)
  BY <1>1
<1>5. f[1] = 0
  BY <1>3, <1>4 DEF WidthStep
<1> QED BY <1>2, <1>5 DEF a

\* What comes out of libwidechar_make_valid_and_printable() is valid and can be printed.
LEMMA ValidIsValid ==
  ASSUME NEW v \in Seq(Bytes)
  PROVE  MakeValidAndPrintable(v) \in Seq(Bytes) /\ Width(MakeValidAndPrintable(v)) >= 0
<1> DEFINE l == Len(v)
<1>1. l \in Nat
  OBVIOUS
<1>2. PICK f \in [1..l + 1 -> Seq(Bytes)] : Valids(f, v) /\ MakeValidAndPrintable(v) = f[1]
  BY ValidIsRecursive
<1> DEFINE W == {i \in 1..l + 1 : Width(f[i]) >= 0}
<1>3. ASSUME NEW i \in 1..l + 1, \A j \in i + 1..l + 1 : j \in W PROVE i \in W
  <2> DEFINE w == NextChar(v, i).w
             q == NextChar(v, i).n
             p == SubSeq(v, i, i + q - 1)
  <2>0. f[i] = ValidStep(f, v, i)
    BY <1>2 DEF Valids
  <2>1. CASE i = l + 1
    <3>1. f[i] = <<>>
      BY <2>0, <2>1, ValidAtEnd
    <3>2. Width(f[i]) = 0
      BY <3>1, WidthOfNothing
    <3> QED BY <3>2
  <2>2. CASE i # l + 1 /\ w >= 0
    <3>1. i \in 1..l
      BY <1>1, <2>2
    <3>2. i + q \in i + 1..l + 1 /\ ValidStep(f, v, i) = p \o f[i + q]
      BY <2>2, <3>1, ValidAt
    <3>3. p \in Seq(Bytes) /\ Width(p) >= 0
      BY <2>2, <3>1, WidthOfChar
    <3> DEFINE j == i + q
               x == f[j]
    <3>4. j \in i + 1..l + 1 /\ j \in W
      BY <1>3, <3>2
    <3>5. ValidStep(f, v, i) = p \o x
      BY <3>2
    <3> HIDE DEF p, l, j
    <3>6. x \in Seq(Bytes) /\ Width(x) >= 0
      BY <1>2, <3>4
    <3> HIDE DEF x
    <3>7. Width(p \o x) >= 0
      BY <3>3, <3>6, WidthOfBoth
    <3> QED BY <2>0, <3>5, <3>7
  <2>3. CASE i # l + 1 /\ ~(w >= 0)
    <3>1. i \in 1..l /\ i + 1 \in i + 1..l + 1
      BY <1>1, <2>3
    <3>2. ValidStep(f, v, i) = BadMark \o f[i + 1]
      BY <2>3, <3>1, ValidAt
    <3> DEFINE j == i + 1
               x == f[j]
    <3>4. j \in i + 1..l + 1 /\ j \in W
      BY <1>3, <3>1
    <3>5. ValidStep(f, v, i) = BadMark \o x
      BY <3>2
    <3> HIDE DEF l, j
    <3>6. x \in Seq(Bytes) /\ Width(x) >= 0
      BY <1>2, <3>4
    <3> HIDE DEF x
    <3>7. Width(BadMark \o x) >= 0
      BY <3>6, WidthOfBoth, WidthOfMark
    <3> QED BY <2>0, <3>5, <3>7
  <2> QED BY <2>1, <2>2, <2>3
<1>4. 1 \in W
  <2>1. l + 1 \in Nat /\ 1 \in 1..l + 1
    BY <1>1
  <2> HIDE DEF W, l
  <2>2. 1..l + 1 \subseteq W
    BY <1>3, <2>1, BackwardInduction
  <2> QED BY <2>1, <2>2
<1>5. f[1] \in Seq(Bytes)
  BY <1>1, <1>2
<1> QED BY <1>2, <1>4, <1>5

\* It leaves alone what was.
LEMMA ValidIsKept ==
  ASSUME NEW v \in Seq(Bytes), Width(v) >= 0
  PROVE  MakeValidAndPrintable(v) = v
<1> DEFINE l == Len(v)
<1>1. l \in Nat
  OBVIOUS
<1>2. PICK f \in [1..l + 1 -> Seq(Bytes)] : Valids(f, v) /\ MakeValidAndPrintable(v) = f[1]
  BY ValidIsRecursive
<1>3. PICK g \in [1..l + 1 -> {-1} \cup Nat] : Widths(g, v) /\ Width(v) = g[1]
  BY WidthIsRecursive
<1> DEFINE W == {i \in 1..l + 1 : g[i] >= 0 => f[i] = SubSeq(v, i, l)}
<1>4. ASSUME NEW i \in 1..l + 1, \A j \in i + 1..l + 1 : j \in W PROVE i \in W
  <2> SUFFICES ASSUME g[i] >= 0 PROVE f[i] = SubSeq(v, i, l)
    OBVIOUS
  <2> DEFINE w == NextChar(v, i).w
             q == NextChar(v, i).n
             p == SubSeq(v, i, i + q - 1)
  <2>0. f[i] = ValidStep(f, v, i)
    BY <1>2 DEF Valids
  <2>1. CASE i = l + 1
    <3>1. f[i] = <<>>
      BY <2>0, <2>1, ValidAtEnd
    <3>2. SubSeq(v, i, l) = <<>>
      BY <2>1, EndsAre
    <3> QED BY <3>1, <3>2
  <2>2. CASE i # l + 1
    <3>1. i \in 1..l
      BY <1>1, <2>2
    <3>2. /\ w < 0 => g[i] = -1
          /\ w >= 0 => i + q \in i + 1..l + 1 /\ g[i] = IF g[i + q] < 0 THEN -1 ELSE w + g[i + q]
      BY <1>3, <3>1, WidthAt
    <3>3. w \in -1..2
      BY <3>1, NextCharIs
    <3> DEFINE j == i + q
               gi == g[i]
               gj == g[j]
    <3> HIDE DEF w, l, gi
    <3>4. w >= 0
      <4>1. gi >= 0 /\ (w < 0 => gi = -1)
        BY <3>2 DEF gi
      <4>2. ~(w < 0)
        BY <4>1
      <4> QED BY <3>3, <4>2
    <3>5. j \in i + 1..l + 1 /\ gi = IF gj < 0 THEN -1 ELSE w + gj
      BY <3>2, <3>4 DEF gi
    <3>6. f[i] = p \o f[j]
      BY <2>0, <3>1, <3>4, ValidAt DEF w, l
    <3>10. p = SubSeq(v, i, j - 1)
      <4>1. q \in 0..2 /\ i \in Nat
        BY <1>1, <3>1, NextCharIs DEF l
      <4> HIDE DEF q
      <4>2. i + q - 1 = j - 1
        BY <4>1
      <4> QED BY <4>2
    <3> HIDE DEF j
    <3>7. gj \in {-1} \cup Nat
      <4>1. j \in 1..l + 1
        BY <1>1, <3>5
      <4> QED BY <1>3, <4>1
    <3> HIDE DEF gj
    <3>8. gj >= 0
      <4>1. gi >= 0
        BY DEF gi
      <4>2. gj # -1
        BY <3>5, <4>1
      <4> QED BY <3>7, <4>2
    <3>9. f[j] = SubSeq(v, j, l)
      BY <1>4, <3>5, <3>8 DEF gj
    <3>11. j \in i..l + 1
      BY <1>1, <3>1, <3>5
    <3>12. SubSeq(v, i, j - 1) \o SubSeq(v, j, l) = SubSeq(v, i, l)
      BY <3>11, PartsAre DEF l
    <3> QED BY <3>6, <3>9, <3>10, <3>12
  <2> QED BY <2>1, <2>2
<1>5. 1 \in W
  <2>1. l + 1 \in Nat /\ 1 \in 1..l + 1
    BY <1>1
  <2> HIDE DEF W, l
  <2>2. 1..l + 1 \subseteq W
    BY <1>4, <2>1, BackwardInduction
  <2> QED BY <2>1, <2>2
<1>6. f[1] = SubSeq(v, 1, l)
  BY <1>3, <1>5
<1> QED BY <1>2, <1>6, EndsAre

\* libwidechar cuts a text to the longest beginning, in whole characters, that is no wider than
\* asked, unless the next character is not valid; and the text that it makes valid and printable is
\* so, and is the text itself if that was.
THEOREM TextsFit == CdSpec => []FitsTheWidth
<1>1. CdInv => FitsTheWidth
  <2> SUFFICES ASSUME CdInv PROVE FitsTheWidth
    OBVIOUS
  <2> DEFINE v == cd.text
             max == cd.arg
  <2>1. ASSUME cdDone, cd.fn = "truncate"
        PROVE  LET most == Longest(v, max)
               IN IF most < Len(v) /\ NextChar(v, most + 1).w < 0
                  THEN cdOut.len = -1
                  ELSE cdOut = [len |-> most, width |-> Width(SubSeq(v, 1, most))]
    <3>1. v \in Seq(Bytes) /\ max \in Nat /\ cdOut = TruncateToWidth(v, max)
      BY <2>1, InputsAre DEF CdInv
    <3> HIDE DEF v, max
    <3>2. IsCut(cdOut, v, max)
      BY <3>1, CutAsMeant
    <3> QED BY <3>2 DEF IsCut
  <2>2. ASSUME cdDone, cd.fn = "valid"
        PROVE  Width(cdOut) # -1 /\ (cdOut = v <=> Width(v) # -1)
    <3>1. v \in Seq(Bytes) /\ cdOut = MakeValidAndPrintable(v)
      BY <2>2, InputsAre DEF CdInv
    <3> HIDE DEF v
    <3>2. Width(cdOut) >= 0
      BY <3>1, ValidIsValid
    <3>3. Width(cdOut) # -1
      BY <3>2
    <3>4. Width(v) # -1 => cdOut = v
      <4>1. PICK f \in [1..Len(v) + 1 -> {-1} \cup Nat] : Width(v) = f[1]
        BY <3>1, WidthIsRecursive
      <4>2. Width(v) \in {-1} \cup Nat
        <5>1. 1 \in 1..Len(v) + 1
          BY <3>1
        <5> QED BY <4>1, <5>1
      <4>3. Width(v) # -1 => Width(v) >= 0
        BY <4>2
      <4> QED BY <3>1, <4>3, ValidIsKept
    <3> QED BY <3>3, <3>4
  <2> QED BY <2>1, <2>2 DEF FitsTheWidth, Computed
<1> QED BY <1>1, CodecsCompute, PTL
=============================================================================
