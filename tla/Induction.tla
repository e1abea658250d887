------------------------------ MODULE Induction ------------------------------
(***************************************************************************)
(* Induction for the proofs about recursive functions.  The library's      *)
(* induction theorems take an operator; here the predicate is the set of   *)
(* the numbers that have it, and a step of a recursion is a function.      *)
(***************************************************************************)
EXTENDS Integers, Sequences, SequencesExt, SequenceTheorems, FiniteSetTheorems,
        WellFoundedInduction, TLAPS

\* A set of naturals that holds zero, and the next of each it holds, holds them all.
LEMMA NatSetInduction ==
  ASSUME NEW T, 0 \in T, \A n \in Nat : n \in T => n + 1 \in T
  PROVE  Nat \subseteq T
<1>1. SUFFICES ASSUME Nat \ T # {} PROVE FALSE
  OBVIOUS
<1> DEFINE R == OpToRel(<, Nat)
<1>2. IsWellFoundedOn(R, Nat)
  BY NatLessThanWellFounded
<1>3. \A m, n \in Nat : m < n => <<m, n>> \in R
  BY DEF OpToRel
<1> HIDE DEF R
<1>4. PICK x \in Nat \ T : \A y \in Nat \ T : ~ (<<y, x>> \in R)
  BY <1>1, <1>2, WFMin, Zenon
<1>5. x - 1 \in Nat /\ x - 1 \notin T /\ x - 1 < x
  <2>1. x \in Nat /\ x \notin T /\ x # 0
    BY <1>4
  <2>2. x - 1 \in Nat /\ (x - 1) + 1 = x
    BY <2>1
  <2> QED BY <2>1, <2>2
<1> QED BY <1>3, <1>4, <1>5

\* The same up to a bound.
LEMMA IntervalInduction ==
  ASSUME NEW n \in Nat, NEW T, 0 \in T, \A i \in 0..n - 1 : i \in T => i + 1 \in T
  PROVE  0..n \subseteq T
<1> DEFINE U == {i \in Nat : i <= n => i \in T}
<1>1. 0 \in U
  OBVIOUS
<1>2. \A i \in Nat : i \in U => i + 1 \in U
  OBVIOUS
<1>3. Nat \subseteq U
  <2> HIDE DEF U
  <2> QED BY <1>1, <1>2, NatSetInduction
<1> QED BY <1>3

\* The steps of a recursion in V: each a function from a value to the next.
Steps(n, V) == [1..n -> [V -> V]]

\* f has a first value, and each next one by its step.
Recursion(f, n, base, step) == f[0] = base /\ \A k \in 1..n : f[k] = step[k][f[k - 1]]

\* There is such a function for any steps.
LEMMA RecursionExists ==
  ASSUME NEW n \in Nat, NEW V, NEW base \in V, NEW step \in Steps(n, V)
  PROVE  \E f \in [0..n -> V] : Recursion(f, n, base, step)
<1> DEFINE T == {k \in 0..n : \E f \in [0..k -> V] : Recursion(f, k, base, step)}
<1>1. 0 \in T
  <2> DEFINE f0 == [k \in 0..0 |-> base]
  <2>1. f0 \in [0..0 -> V] /\ Recursion(f0, 0, base, step)
    BY DEF Recursion
  <2>2. 0 \in 0..n
    OBVIOUS
  <2> HIDE DEF f0
  <2> QED BY <2>1, <2>2
<1>2. \A k \in 0..n - 1 : k \in T => k + 1 \in T
  <2> SUFFICES ASSUME NEW k \in 0..n - 1, k \in T PROVE k + 1 \in T
    OBVIOUS
  <2>1. PICK f \in [0..k -> V] : Recursion(f, k, base, step)
    OBVIOUS
  <2> DEFINE g == [m \in 0..k + 1 |-> IF m = k + 1 THEN step[k + 1][f[k]] ELSE f[m]]
  <2>2. step[k + 1][f[k]] \in V
    <3>1. k + 1 \in 1..n
      OBVIOUS
    <3> QED BY <2>1, <3>1 DEF Steps
  <2>3. g \in [0..k + 1 -> V]
    BY <2>1, <2>2
  <2>4. \A m \in 0..k : g[m] = f[m]
    OBVIOUS
  <2>5. g[k + 1] = step[k + 1][g[k]]
    <3>1. k + 1 \in 0..k + 1 /\ g[k] = f[k]
      BY <2>4
    <3>2. g[k + 1] = step[k + 1][f[k]]
      BY <3>1
    <3> QED BY <3>1, <3>2
  <2>6. ASSUME NEW m \in 1..k + 1 PROVE g[m] = step[m][g[m - 1]]
    <3>1. CASE m = k + 1
      <4>1. m - 1 = k
        BY <3>1
      <4> HIDE DEF g
      <4> QED BY <2>5, <3>1, <4>1
    <3>2. CASE m # k + 1
      <4>1. m \in 1..k /\ m - 1 \in 0..k /\ m \in 0..k
        BY <3>2
      <4> HIDE DEF g
      <4> QED BY <2>1, <2>4, <4>1 DEF Recursion
    <3> QED BY <3>1, <3>2
  <2>7. g[0] = base
    BY <2>1, <2>4 DEF Recursion
  <2>8. k + 1 \in 0..n
    OBVIOUS
  <2> HIDE DEF g
  <2>9. Recursion(g, k + 1, base, step)
    BY <2>6, <2>7 DEF Recursion
  <2> QED BY <2>3, <2>8, <2>9
<1>3. n \in T
  <2> HIDE DEF T
  <2> QED BY <1>1, <1>2, IntervalInduction
<1> QED BY <1>3

\* A set of naturals that is not empty has a least element.
LEMMA LeastNat ==
  ASSUME NEW S, S \subseteq Nat, S # {}
  PROVE  \E m \in S : \A n \in S : m <= n
<1> DEFINE R == OpToRel(<, Nat)
<1>1. IsWellFoundedOn(R, Nat)
  BY NatLessThanWellFounded
<1>2. \A m, n \in Nat : m < n => <<m, n>> \in R
  BY DEF OpToRel
<1> HIDE DEF R
<1>3. PICK m \in S : \A n \in S : ~ (<<n, m>> \in R)
  BY <1>1, WFMin, Zenon
<1>4. ASSUME NEW n \in S PROVE m <= n
  <2>1. ~ (n < m)
    BY <1>2, <1>3
  <2>2. m \in Nat /\ n \in Nat
    BY <1>3
  <2> QED BY <2>1, <2>2
<1> QED BY <1>3, <1>4

-----------------------------------------------------------------------------
(* FlattenSeq().                                                           *)

\* f flattens the first elements of ss, one more each time.
Flattens(f, ss) ==
  /\ f[1] = ss[1]
  /\ \A k \in 2..Len(ss) : f[k] = f[k - 1] \o ss[k]

\* FlattenSeq() is such a recursion.
LEMMA FlattenIsRecursive ==
  ASSUME NEW A, NEW ss \in Seq(Seq(A)), ss # <<>>
  PROVE  \E f \in [1..Len(ss) -> Seq(A)] : Flattens(f, ss) /\ FlattenSeq(ss) = f[Len(ss)]
<1> DEFINE n == Len(ss)
           V == Seq(A)
           m == n - 1
           base == ss[1]
           step == [k \in 1..m |-> [s \in V |-> s \o ss[k + 1]]]
           After(f, k) == IF k = 1 THEN ss[k] ELSE f[k - 1] \o ss[k]
           IsFlat(f) == f = [k \in 1..n |-> After(f, k)]
           flat == CHOOSE f : IsFlat(f)
<1>1. n \in Nat /\ n >= 1 /\ m \in Nat /\ n = m + 1 /\ \A k \in 1..n : ss[k] \in V
  OBVIOUS
<1>2. base \in V /\ step \in Steps(m, V)
  <2>1. \A k \in 1..m : k + 1 \in 1..n
    BY <1>1
  <2>2. base \in V
    BY <1>1
  <2>3. \A k \in 1..m : ss[k + 1] \in V
    BY <1>1, <2>1
  <2>4. \A k \in 1..m, s \in V : s \o ss[k + 1] \in V
    BY <2>3
  <2> QED BY <2>2, <2>4 DEF Steps
<1>3. PICK h \in [0..m -> V] : Recursion(h, m, base, step)
  <2> HIDE DEF n, m, step, V, base, After, IsFlat, flat
  <2> QED BY <1>1, <1>2, RecursionExists
<1> DEFINE g == [k \in 1..n |-> h[k - 1]]
<1>4. g \in [1..n -> V] /\ \A k \in 1..n : g[k] = h[k - 1] /\ k - 1 \in 0..m
  <2>1. \A k \in 1..n : k - 1 \in 0..m
    BY <1>1
  <2> HIDE DEF n, m, V
  <2> QED BY <1>3, <2>1
<1>5. ASSUME NEW k \in 1..n PROVE g[k] = After(g, k)
  <2>1. CASE k = 1
    <3>1. g[1] = h[0]
      BY <1>1, <1>4
    <3> HIDE DEF g
    <3> QED BY <1>3, <2>1, <3>1 DEF Recursion
  <2>2. CASE k # 1
    <3>1. k - 1 \in 1..m /\ k - 1 \in 1..n /\ (k - 1) - 1 \in 0..m /\ (k - 1) + 1 = k
      BY <1>1, <2>2
    <3>2. h[k - 1] = step[k - 1][h[(k - 1) - 1]]
      <4> HIDE DEF n, m, V, step, base
      <4> QED BY <1>3, <3>1 DEF Recursion
    <3>3. h[(k - 1) - 1] \in V
      <4> HIDE DEF n, m, V, step, base
      <4> QED BY <1>3, <3>1
    <3>4. step[k - 1][h[(k - 1) - 1]] = h[(k - 1) - 1] \o ss[(k - 1) + 1]
      BY <3>1, <3>3
    <3>5. g[k] = g[k - 1] \o ss[k]
      <4> HIDE DEF g, n, m, V, step, base
      <4> QED BY <1>4, <3>1, <3>2, <3>4
    <3> QED BY <2>2, <3>5
  <2> QED BY <2>1, <2>2
<1>6. \E f : IsFlat(f)
  <2>1. g = [k \in 1..n |-> After(g, k)]
    <3> HIDE DEF n, After, V, g
    <3> QED BY <1>4, <1>5
  <2> QED BY <2>1
<1>7. flat = [k \in 1..n |-> After(flat, k)]
  <2> HIDE DEF After, n
  <2> QED BY <1>6
<1>8. \A k \in 1..n : flat[k] = After(flat, k)
  <2> HIDE DEF flat, After, n
  <2> QED BY <1>7
<1>9. FlattenSeq(ss) = flat[n]
  BY <1>1 DEF FlattenSeq
<1>10. Flattens(flat, ss)
  <2>1. 1 \in 1..n /\ \A k \in 2..n : k \in 1..n /\ k # 1
    BY <1>1
  <2> HIDE DEF flat
  <2> QED BY <1>8, <2>1 DEF Flattens
<1>11. flat \in [1..n -> V]
  <2> DEFINE T == {k \in 0..m : flat[k + 1] \in V}
  <2>1. 0 \in T
    <3> HIDE DEF flat, V
    <3> QED BY <1>1, <1>10 DEF Flattens
  <2>2. ASSUME NEW k \in 0..m - 1, k \in T PROVE k + 1 \in T
    <3>1. (k + 1) + 1 \in 2..n /\ ((k + 1) + 1) - 1 = k + 1 /\ (k + 1) + 1 \in 1..n /\ k + 1 \in 0..m
      BY <1>1
    <3>2. flat[(k + 1) + 1] = flat[k + 1] \o ss[(k + 1) + 1]
      <4> HIDE DEF flat
      <4> QED BY <1>10, <3>1 DEF Flattens
    <3>3. flat[k + 1] \in V /\ ss[(k + 1) + 1] \in V
      <4> HIDE DEF flat, V, n, m
      <4> QED BY <1>1, <2>2, <3>1
    <3>4. flat[k + 1] \o ss[(k + 1) + 1] \in V
      <4> HIDE DEF flat
      <4> QED BY <3>3
    <3> HIDE DEF flat, V
    <3> QED BY <3>1, <3>2, <3>4
  <2>3. 0..m \subseteq T
    <3> HIDE DEF T, m
    <3> QED BY <1>1, <2>1, <2>2, IntervalInduction
  <2>4. ASSUME NEW k \in 1..n PROVE flat[k] \in V
    <3>1. k - 1 \in 0..m /\ (k - 1) + 1 = k
      BY <1>1
    <3>2. k - 1 \in T
      <4> HIDE DEF T, m
      <4> QED BY <2>3, <3>1
    <3>3. flat[(k - 1) + 1] \in V
      <4> HIDE DEF flat, V, m
      <4> QED BY <3>2
    <3> HIDE DEF flat, V
    <3> QED BY <3>1, <3>3
  <2>5. flat = [k \in 1..n |-> flat[k]]
    <3> HIDE DEF flat, After, n
    <3> QED BY <1>7, <1>8
  <2> HIDE DEF flat, V, n
  <2> QED BY <2>4, <2>5
<1> HIDE DEF flat
<1> QED BY <1>9, <1>10, <1>11

\* One more sequence at the end.
LEMMA FlattenAppend ==
  ASSUME NEW A, NEW ss \in Seq(Seq(A)), NEW x \in Seq(A)
  PROVE  FlattenSeq(Append(ss, x)) = FlattenSeq(ss) \o x /\ FlattenSeq(ss) \in Seq(A)
<1> DEFINE tt == Append(ss, x)
           n == Len(ss)
<1>1. /\ tt \in Seq(Seq(A)) /\ tt # <<>> /\ n \in Nat /\ Len(tt) = n + 1
      /\ tt[n + 1] = x /\ \A k \in 1..n : tt[k] = ss[k]
  <2>1. /\ tt \in Seq(Seq(A)) /\ Len(tt) = n + 1 /\ n \in Nat
        /\ tt[n + 1] = x /\ \A k \in 1..n : tt[k] = ss[k]
    BY AppendProperties
  <2> HIDE DEF tt, n
  <2>2. tt # <<>>
    <3>1. Len(tt) # 0 /\ Len(<<>>) = 0
      BY <2>1
    <3> QED BY <3>1
  <2> QED BY <2>1, <2>2
<1>2. PICK g \in [1..Len(tt) -> Seq(A)] : Flattens(g, tt) /\ FlattenSeq(tt) = g[Len(tt)]
  <2> HIDE DEF tt
  <2> QED BY <1>1, FlattenIsRecursive
<1>3. CASE ss = <<>>
  <2>1. n = 0 /\ FlattenSeq(ss) = <<>>
    BY <1>3 DEF FlattenSeq
  <2>2. FlattenSeq(tt) = x
    <3> HIDE DEF tt, n
    <3> QED BY <1>1, <1>2, <2>1 DEF Flattens
  <2>3. <<>> \o x = x /\ <<>> \in Seq(A)
    OBVIOUS
  <2> QED BY <2>1, <2>2, <2>3
<1>4. CASE ss # <<>>
  <2>1. PICK f \in [1..n -> Seq(A)] : Flattens(f, ss) /\ FlattenSeq(ss) = f[n]
    BY <1>4, FlattenIsRecursive
  <2>2. n >= 1
    BY <1>4
  <2> DEFINE m == n - 1
             T == {k \in 0..m : f[k + 1] = g[k + 1]}
  <2> HIDE DEF tt, n
  <2>3. m \in Nat /\ 0 \in 0..m /\ n = m + 1 /\ 1 \in 1..n
    BY <1>1, <2>2
  <2>4. 0 \in T
    BY <1>1, <1>2, <2>1, <2>3 DEF Flattens
  <2>5. ASSUME NEW k \in 0..m - 1, k \in T PROVE k + 1 \in T
    <3>1. /\ (k + 1) + 1 \in 2..n /\ (k + 1) + 1 \in 2..n + 1 /\ (k + 1) + 1 \in 1..n
          /\ ((k + 1) + 1) - 1 = k + 1 /\ k + 1 \in 0..m
      BY <1>1, <2>3
    <3>2. f[(k + 1) + 1] = f[k + 1] \o ss[(k + 1) + 1]
      BY <2>1, <3>1 DEF Flattens, n
    <3>3. g[(k + 1) + 1] = g[k + 1] \o tt[(k + 1) + 1]
      BY <1>1, <1>2, <3>1 DEF Flattens
    <3> QED BY <1>1, <2>5, <3>1, <3>2, <3>3
  <2>6. m \in T
    <3> HIDE DEF T, m
    <3>1. 0..m \subseteq T
      BY <2>3, <2>4, <2>5, IntervalInduction
    <3> QED BY <2>3, <3>1
  <2>7. f[n] = g[n]
    BY <2>3, <2>6
  <2>8. n + 1 \in 2..n + 1 /\ (n + 1) - 1 = n
    BY <2>3
  <2>9. g[n + 1] = g[n] \o x
    BY <1>1, <1>2, <2>8 DEF Flattens
  <2>10. f[n] \in Seq(A)
    BY <2>1, <2>3
  <2> QED BY <1>1, <1>2, <2>1, <2>7, <2>9, <2>10 DEF tt
<1> QED BY <1>3, <1>4
-----------------------------------------------------------------------------
(* Recursion from the end, the ends of a sequence, and counting.           *)

\* Values of a recursion from the last index down: for each index in its own set.
Tails(V, i, n) ==
  {t \in [i + 1..n -> UNION {V[j] : j \in 1..n}] : \A j \in i + 1..n : t[j] \in V[j]}

\* f's value at each index is computed from those at the later ones.
BackwardSteps(f, n, step) == \A i \in 1..n : f[i] = step[i][[j \in i + 1..n |-> f[j]]]

\* There is a function whose value at each index is computed from those at the later ones.
LEMMA BackwardRecursion ==
  ASSUME NEW n \in Nat, NEW V, NEW step,
         \A i \in 1..n : \A t \in Tails(V, i, n) : step[i][t] \in V[i]
  PROVE  \E f \in Tails(V, 0, n) : BackwardSteps(f, n, step)
<1> DEFINE U == UNION {V[j] : j \in 1..n}
           Is(f, k) == \A i \in n - k + 1..n : f[i] = step[i][[j \in i + 1..n |-> f[j]]]
           T == {k \in 0..n : \E f \in Tails(V, n - k, n) : Is(f, k)}
<1>1. 0 \in T
  <2> DEFINE g == [j \in n + 1..n |-> {}]
  <2>1. g \in Tails(V, n, n)
    BY DEF Tails
  <2>2. Is(g, 0)
    OBVIOUS
  <2>3. 0 \in 0..n /\ n - 0 = n
    OBVIOUS
  <2> HIDE DEF g, Is
  <2> QED BY <2>1, <2>2, <2>3
<1>2. ASSUME NEW k \in 0..n - 1, k \in T PROVE k + 1 \in T
  <2>1. PICK f \in Tails(V, n - k, n) : Is(f, k)
    BY <1>2
  <2> DEFINE m == n - k
             v == step[m][f]
             g == [j \in m..n |-> IF j = m THEN v ELSE f[j]]
  <2>2. m \in 1..n /\ k + 1 \in 0..n /\ n - (k + 1) = m - 1 /\ n - (k + 1) + 1 = m /\ n - k + 1 = m + 1
    OBVIOUS
  <2>3. v \in V[m]
    <3>1. f \in Tails(V, m, n)
      BY <2>1
    <3> HIDE DEF m
    <3> QED BY <2>2, <3>1
  <2>4. \A j \in m..n : g[j] \in V[j] /\ g[j] \in U
    <3>1. \A j \in m + 1..n : f[j] \in V[j]
      BY <2>1 DEF Tails
    <3>2. \A j \in m..n : j \in 1..n /\ (j # m => j \in m + 1..n)
      BY <2>2
    <3>3. \A j \in m..n : g[j] \in V[j]
      <4> HIDE DEF v, m
      <4> QED BY <2>3, <3>1, <3>2
    <3> HIDE DEF g, m
    <3> QED BY <3>2, <3>3
  <2>5. g \in Tails(V, m - 1, n)
    <3>1. (m - 1) + 1 = m
      BY <2>2
    <3>2. g \in [m..n -> U]
      <4>1. g = [j \in m..n |-> g[j]]
        OBVIOUS
      <4> HIDE DEF g, m, U
      <4> QED BY <2>4, <4>1
    <3> HIDE DEF g, m
    <3> QED BY <2>4, <3>1, <3>2 DEF Tails
  <2>6. [j \in m + 1..n |-> g[j]] = f
    <3>1. f = [j \in m + 1..n |-> f[j]]
      BY <2>1 DEF Tails
    <3>2. \A j \in m + 1..n : g[j] = f[j]
      BY <2>2
    <3> HIDE DEF g, m
    <3> QED BY <3>1, <3>2
  <2>7. ASSUME NEW i \in m + 1..n PROVE g[i] = step[i][[j \in i + 1..n |-> g[j]]]
    <3>1. f[i] = step[i][[j \in i + 1..n |-> f[j]]]
      BY <2>1, <2>2
    <3>2. \A j \in i + 1..n : g[j] = f[j]
      BY <2>2
    <3>3. g[i] = f[i]
      BY <2>2
    <3> HIDE DEF g, m
    <3> QED BY <3>1, <3>2, <3>3
  <2>8. g[m] = step[m][[j \in m + 1..n |-> g[j]]]
    <3>1. g[m] = v
      BY <2>2
    <3> HIDE DEF g
    <3> QED BY <2>6, <3>1
  <2>9. Is(g, k + 1)
    <3>1. \A i \in n - (k + 1) + 1..n : i = m \/ i \in m + 1..n
      BY <2>2
    <3> HIDE DEF g, m
    <3> QED BY <2>7, <2>8, <3>1
  <2> HIDE DEF g, m, Is
  <2> QED BY <2>2, <2>5, <2>9
<1>3. n \in T
  <2>1. 0..n \subseteq T
    <3> HIDE DEF T
    <3> QED BY <1>1, <1>2, IntervalInduction
  <2> HIDE DEF T
  <2> QED BY <2>1
<1>4. PICK f \in Tails(V, n - n, n) : Is(f, n)
  <2> HIDE DEF Is
  <2> QED BY <1>3
<1>5. n - n = 0 /\ n - n + 1 = 1
  OBVIOUS
<1> QED BY <1>4, <1>5 DEF BackwardSteps

\* A last element is put on a sequence,
LEMMA PushProperties ==
  ASSUME NEW A, NEW s \in Seq(A), NEW x \in A
  PROVE  /\ Append(s, x) \in Seq(A) /\ Len(Append(s, x)) = Len(s) + 1
         /\ Last(Append(s, x)) = x /\ Front(Append(s, x)) = s /\ Append(s, x) # <<>>
<1>1. /\ Append(s, x) \in Seq(A) /\ Len(Append(s, x)) = Len(s) + 1
      /\ Append(s, x)[Len(s) + 1] = x /\ \A k \in 1..Len(s) : Append(s, x)[k] = s[k]
  BY AppendProperties
<1>2. Last(Append(s, x)) = x /\ Append(s, x) # <<>>
  BY <1>1 DEF Last
<1>3. Front(Append(s, x)) = s
  BY <1>1 DEF Front
<1> QED BY <1>1, <1>2, <1>3

\* and taken from it.
LEMMA PopProperties ==
  ASSUME NEW A, NEW s \in Seq(A), s # <<>>
  PROVE  /\ Front(s) \in Seq(A) /\ Len(Front(s)) = Len(s) - 1 /\ Last(s) \in A
         /\ s = Append(Front(s), Last(s))
         /\ \A x \in A : Front(s) \o <<x>> = Append(Front(s), x)
<1>1. Len(s) >= 1 /\ Len(s) \in Nat
  OBVIOUS
<1>2. Front(s) \in Seq(A) /\ Len(Front(s)) = Len(s) - 1 /\ \A k \in 1..Len(s) - 1 : Front(s)[k] = s[k]
  <2> DEFINE n == Len(s) - 1
  <2>1. Front(s) = SubSeq(s, 1, n) /\ 1 \in Int /\ n \in Int /\ \A k \in 1..n : s[k] \in A
    BY <1>1 DEF Front
  <2>2. n \in Nat /\ n - 1 + 1 = n
    BY <1>1
  <2> HIDE DEF n
  <2>3. /\ SubSeq(s, 1, n) \in Seq(A) /\ Len(SubSeq(s, 1, n)) = IF 1 <= n THEN n - 1 + 1 ELSE 0
        /\ \A k \in 1..n - 1 + 1 : SubSeq(s, 1, n)[k] = s[1 + k - 1]
    BY <2>1, SubSeqProperties
  <2>4. \A k \in 1..n : SubSeq(s, 1, n)[k] = s[k]
    <3>1. \A k \in 1..n : 1 + k - 1 = k
      BY <2>1
    <3> QED BY <2>2, <2>3, <3>1
  <2>5. Len(SubSeq(s, 1, n)) = n
    BY <2>2, <2>3
  <2> QED BY <2>1, <2>3, <2>4, <2>5 DEF n
<1>3. Last(s) \in A
  BY <1>1 DEF Last
<1>4. s = Append(Front(s), Last(s))
  BY <1>1, <1>2, <1>3 DEF Last
<1>5. \A x \in A : Front(s) \o <<x>> = Append(Front(s), x)
  BY <1>2
<1> QED BY <1>2, <1>3, <1>4, <1>5

\* A set of numbers up to a bound that is not empty has a greatest.
LEMMA GreatestUpTo ==
  ASSUME NEW n \in Nat, NEW S, S \subseteq 0..n, S # {}
  PROVE  \E m \in S : \A k \in S : k <= m
<1> DEFINE R == {n - k : k \in S}
<1>1. R \subseteq Nat /\ R # {}
  <2>1. \A k \in S : n - k \in Nat
    OBVIOUS
  <2> QED BY <2>1
<1>2. PICK r \in R : \A q \in R : r <= q
  <2> HIDE DEF R
  <2> QED BY <1>1, LeastNat
<1>3. n - r \in S /\ \A k \in S : n - k \in R
  BY <1>1
<1>4. \A k \in S : k <= n - r
  <2> TAKE k \in S
  <2>1. n - k \in R /\ n - k \in Nat /\ r \in Nat /\ k \in Nat
    BY <1>1, <1>3
  <2>2. r <= n - k
    BY <1>2, <2>1
  <2> QED BY <2>1, <2>2
<1> QED BY <1>3, <1>4

\* How many of the first numbers are in a set: one more, if the next is.
LEMMA CountNext ==
  ASSUME NEW S, NEW n \in Nat
  PROVE  /\ Cardinality(S \cap 1..n) \in Nat
         /\ Cardinality(S \cap 1..n + 1) = Cardinality(S \cap 1..n) + (IF n + 1 \in S THEN 1 ELSE 0)
<1>1. IsFiniteSet(1..n) /\ IsFiniteSet(S \cap 1..n)
  <2>1. IsFiniteSet(1..n)
    BY FS_Interval
  <2> QED BY <2>1, FS_Subset
<1>2. Cardinality(S \cap 1..n) \in Nat
  BY <1>1, FS_CardinalityType
<1>3. CASE n + 1 \in S
  <2>1. S \cap 1..n + 1 = (S \cap 1..n) \cup {n + 1} /\ n + 1 \notin S \cap 1..n
    BY <1>3
  <2>2. Cardinality((S \cap 1..n) \cup {n + 1}) = Cardinality(S \cap 1..n) + 1
    BY <1>1, <2>1, FS_AddElement
  <2> QED BY <1>2, <1>3, <2>1, <2>2
<1>4. CASE n + 1 \notin S
  <2>1. S \cap 1..n + 1 = S \cap 1..n
    BY <1>4
  <2> QED BY <1>2, <1>4, <2>1
<1> QED BY <1>2, <1>3, <1>4

-----------------------------------------------------------------------------
(* Folds, recursion from the end, the parts of a sequence.                 *)

\* A fold over the numbers to n, as FoldLeft() does it: from the set of them.
FoldsSets(g, n, base, step) ==
  \A s \in SUBSET (1..n) : g[s] = IF s = {} THEN base ELSE step[Max(s)][g[s \ {Max(s)}]]

\* The greatest of some numbers.
LEMMA MaxOfSome ==
  ASSUME NEW n \in Nat, NEW s \in SUBSET (1..n), s # {}
  PROVE  Max(s) \in s /\ \A x \in s : x <= Max(s)
<1>1. \E m \in s : \A k \in s : k <= m
  <2>1. s \subseteq 0..n
    OBVIOUS
  <2> QED BY <2>1, GreatestUpTo
<1>2. \E m \in s : \A k \in s : m >= k
  BY <1>1
<1>3. Max(s) \in s /\ \A x \in s : Max(s) >= x
  BY <1>2, Zenon DEF Max
<1> QED BY <1>3

\* The greatest of the numbers up to one, and the others.
LEMMA MaxOfInterval ==
  ASSUME NEW k \in Nat, k >= 1
  PROVE  Max(1..k) = k /\ (1..k) \ {Max(1..k)} = 1..k - 1 /\ 1..k # {}
<1>1. 1..k \in SUBSET (1..k) /\ 1..k # {} /\ k \in 1..k
  OBVIOUS
<1>2. Max(1..k) \in 1..k /\ k <= Max(1..k)
  BY <1>1, MaxOfSome
<1>3. Max(1..k) = k
  BY <1>2
<1>4. (1..k) \ {k} = 1..k - 1
  OBVIOUS
<1> QED BY <1>1, <1>3, <1>4

\* There is such a fold, whatever a step is.
LEMMA FoldExists ==
  ASSUME NEW n \in Nat, NEW V, NEW base \in V, NEW step \in [1..n -> [V -> V]]
  PROVE  \E g \in [SUBSET (1..n) -> V] : FoldsSets(g, n, base, step)
<1> DEFINE Step(s) == [k \in 1..n |-> IF k \in s THEN step[k] ELSE [v \in V |-> v]]
           Over(s) == CHOOSE f : f \in [0..n -> V] /\ Recursion(f, n, base, Step(s))
           g == [s \in SUBSET (1..n) |-> Over(s)[n]]
<1>1. ASSUME NEW s \in SUBSET (1..n)
      PROVE  /\ Over(s) \in [0..n -> V] /\ Over(s)[0] = base
             /\ \A k \in 1..n : Over(s)[k] = IF k \in s THEN step[k][Over(s)[k - 1]] ELSE Over(s)[k - 1]
  <2>1. Step(s) \in Steps(n, V)
    <3>1. [v \in V |-> v] \in [V -> V]
      OBVIOUS
    <3> QED BY <3>1 DEF Steps
  <2>2. \E f : f \in [0..n -> V] /\ Recursion(f, n, base, Step(s))
    <3> HIDE DEF Step
    <3> QED BY <2>1, RecursionExists
  <2>3. Over(s) \in [0..n -> V] /\ Recursion(Over(s), n, base, Step(s))
    <3> DEFINE P(f) == f \in [0..n -> V] /\ Recursion(f, n, base, Step(s))
    <3>1. \E f : P(f)
      BY <2>2
    <3> HIDE DEF P
    <3>2. P(CHOOSE f : P(f))
      BY <3>1
    <3> QED BY <3>2 DEF P
  <2> DEFINE f == Over(s)
  <2>4. f \in [0..n -> V] /\ f[0] = base /\ \A k \in 1..n : f[k] = Step(s)[k][f[k - 1]]
    <3> HIDE DEF f
    <3>1. f \in [0..n -> V] /\ Recursion(f, n, base, Step(s))
      BY <2>3 DEF f
    <3> QED BY <3>1 DEF Recursion
  <2> HIDE DEF f
  <2>5. ASSUME NEW k \in 1..n PROVE f[k] = IF k \in s THEN step[k][f[k - 1]] ELSE f[k - 1]
    <3>1. f[k - 1] \in V
      <4>1. k - 1 \in 0..n
        OBVIOUS
      <4> QED BY <2>4, <4>1
    <3> QED BY <2>4, <3>1
  <2> QED BY <2>4, <2>5 DEF f
<1> HIDE DEF Over
<1>2. g[{}] = base
  <2> DEFINE f == Over({})
  <2>1. {} \in SUBSET (1..n)
    OBVIOUS
  <2>2. f[0] = base /\ \A k \in 1..n : f[k] = f[k - 1]
    BY <1>1, <2>1
  <2> HIDE DEF f
  <2> DEFINE T == {k \in 0..n : f[k] = base}
  <2>3. 0 \in T /\ \A k \in 0..n - 1 : k \in T => k + 1 \in T
    <3>1. \A k \in 0..n - 1 : k + 1 \in 1..n /\ k + 1 \in 0..n /\ (k + 1) - 1 = k
      OBVIOUS
    <3> QED BY <2>2, <3>1
  <2> HIDE DEF T
  <2>4. 0..n \subseteq T
    BY <2>3, IntervalInduction
  <2>5. f[n] = base
    BY <2>4 DEF T
  <2> QED BY <2>1, <2>5 DEF f
<1>3. ASSUME NEW s \in SUBSET (1..n), s # {}
      PROVE  g[s] = step[Max(s)][g[s \ {Max(s)}]]
  <2> DEFINE m == Max(s)
             r == s \ {m}
             f == Over(s)
             h == Over(r)
  <2>1. m \in s /\ m \in 1..n /\ \A x \in s : x <= m
    BY <1>3, MaxOfSome
  <2>2. r \in SUBSET (1..n)
    OBVIOUS
  <2>3. /\ f[0] = base /\ \A k \in 1..n : f[k] = IF k \in s THEN step[k][f[k - 1]] ELSE f[k - 1]
        /\ h[0] = base /\ \A k \in 1..n : h[k] = IF k \in r THEN step[k][h[k - 1]] ELSE h[k - 1]
    <3> HIDE DEF r, m
    <3> QED BY <1>1, <2>2
  <2> HIDE DEF f, h, m
  <2> DEFINE T == {k \in 0..n : (k <= m - 1 => f[k] = h[k]) /\ (k >= m => f[k] = step[m][h[k]])}
  <2>4. 0 \in T
    BY <2>1, <2>3
  <2>5. ASSUME NEW k \in 0..n - 1, k \in T PROVE k + 1 \in T
    <3>1. k + 1 \in 1..n /\ k + 1 \in 0..n /\ (k + 1) - 1 = k /\ m \in Nat
      BY <2>1
    <3>2. CASE k + 1 < m
      <4>1. k + 1 \in s <=> k + 1 \in r
        BY <2>1, <3>2
      <4>2. f[k] = h[k]
        BY <2>1, <2>5, <3>2
      <4>3. f[k + 1] = h[k + 1]
        <5>1. /\ f[k + 1] = IF k + 1 \in s THEN step[k + 1][f[k]] ELSE f[k]
              /\ h[k + 1] = IF k + 1 \in r THEN step[k + 1][h[k]] ELSE h[k]
          <6> HIDE DEF r
          <6> QED BY <2>3, <3>1
        <5> QED BY <4>1, <4>2, <5>1
      <4> QED BY <3>1, <3>2, <4>3
    <3>3. CASE k + 1 = m
      <4>1. k + 1 \in s /\ k + 1 \notin r
        BY <2>1, <3>3
      <4>2. f[k] = h[k]
        BY <2>1, <2>5, <3>3
      <4>3. f[k + 1] = step[m][h[k + 1]]
        <5>1. /\ f[k + 1] = step[k + 1][f[k]] /\ h[k + 1] = h[k]
          <6> HIDE DEF r
          <6> QED BY <2>3, <3>1, <4>1
        <5> QED BY <3>3, <4>2, <5>1
      <4> QED BY <3>1, <3>3, <4>3
    <3>4. CASE k + 1 > m
      <4>1. k + 1 \notin s /\ k + 1 \notin r
        BY <2>1, <3>1, <3>4
      <4>2. f[k] = step[m][h[k]]
        BY <2>1, <2>5, <3>4
      <4>3. f[k + 1] = step[m][h[k + 1]]
        <5>1. /\ f[k + 1] = f[k] /\ h[k + 1] = h[k]
          <6> HIDE DEF r
          <6> QED BY <2>3, <3>1, <4>1
        <5> QED BY <4>2, <5>1
      <4> QED BY <3>1, <3>4, <4>3
    <3> QED BY <3>1, <3>2, <3>3, <3>4
  <2>6. n \in T
    <3> HIDE DEF T
    <3>1. 0..n \subseteq T
      BY <2>4, <2>5, IntervalInduction
    <3> QED BY <3>1
  <2>7. f[n] = step[m][h[n]]
    BY <2>1, <2>6
  <2>8. g[s] = f[n] /\ g[r] = h[n]
    <3> HIDE DEF r
    <3> QED BY <2>2 DEF f, h
  <2> HIDE DEF g
  <2> QED BY <2>7, <2>8 DEF m
<1>4. g \in [SUBSET (1..n) -> V]
  <2>1. \A s \in SUBSET (1..n) : Over(s)[n] \in V
    <3> TAKE s \in SUBSET (1..n)
    <3>1. Over(s) \in [0..n -> V] /\ n \in 0..n
      BY <1>1
    <3> QED BY <3>1
  <2> QED BY <2>1
<1> HIDE DEF g
<1>5. FoldsSets(g, n, base, step)
  BY <1>2, <1>3 DEF FoldsSets
<1> QED BY <1>4, <1>5

\* A property that each value of a sequence of values has if the one before has it.
LEMMA AllAlong ==
  ASSUME NEW n \in Nat, NEW f, NEW V, f[0] \in V, \A k \in 1..n : f[k - 1] \in V => f[k] \in V
  PROVE  \A k \in 0..n : f[k] \in V
<1> DEFINE T == {k \in 0..n : f[k] \in V}
<1>1. 0 \in T
  OBVIOUS
<1>2. ASSUME NEW k \in 0..n - 1, k \in T PROVE k + 1 \in T
  <2>1. k + 1 \in 1..n /\ k + 1 \in 0..n /\ (k + 1) - 1 = k /\ f[k] \in V
    BY <1>2
  <2> QED BY <2>1
<1>3. 0..n \subseteq T
  <2> HIDE DEF T
  <2> QED BY <1>1, <1>2, IntervalInduction
<1> QED BY <1>3

\* The same in every set of values.
LEMMA BackwardExists ==
  ASSUME NEW n \in Nat, NEW W, NEW step,
         \A i \in 1..n : \A t \in [i + 1..n -> W] : step[i][t] \in W
  PROVE  \E f \in [1..n -> W] : BackwardSteps(f, n, step)
<1> DEFINE V == [i \in 1..n |-> W]
<1>1. ASSUME NEW i \in 0..n, NEW t \in Tails(V, i, n) PROVE t \in [i + 1..n -> W]
  <2>1. t \in [i + 1..n -> UNION {V[j] : j \in 1..n}] /\ \A j \in i + 1..n : t[j] \in V[j]
    <3> HIDE DEF V
    <3> QED BY DEF Tails
  <2>2. \A j \in i + 1..n : t[j] \in W
    <3>1. \A j \in i + 1..n : V[j] = W
      OBVIOUS
    <3> HIDE DEF V
    <3> QED BY <2>1, <3>1
  <2> HIDE DEF V
  <2> QED BY <2>1, <2>2
<1>2. \A i \in 1..n : \A t \in Tails(V, i, n) : step[i][t] \in V[i]
  <2>1. \A i \in 1..n : V[i] = W /\ i \in 0..n
    OBVIOUS
  <2> HIDE DEF V
  <2> QED BY <1>1, <2>1
<1>3. PICK f \in Tails(V, 0, n) : BackwardSteps(f, n, step)
  <2> HIDE DEF V
  <2> QED BY <1>2, BackwardRecursion
<1>4. f \in [1..n -> W]
  <2>1. 0 \in 0..n /\ 0 + 1 = 1
    OBVIOUS
  <2> HIDE DEF V
  <2>2. f \in [0 + 1..n -> W]
    BY <1>1, <2>1
  <2> QED BY <2>1, <2>2
<1> QED BY <1>3, <1>4

\* A property that each value has if all the later ones have it.
LEMMA AllBackward ==
  ASSUME NEW n \in Nat, NEW f, NEW W,
         \A i \in 1..n : (\A j \in i + 1..n : f[j] \in W) => f[i] \in W
  PROVE  \A i \in 1..n : f[i] \in W
<1> DEFINE T == {k \in 0..n : \A i \in n - k + 1..n : f[i] \in W}
<1>1. 0 \in T
  OBVIOUS
<1>2. ASSUME NEW k \in 0..n - 1, k \in T PROVE k + 1 \in T
  <2>1. n - k \in 1..n /\ k + 1 \in 0..n /\ n - (k + 1) + 1 = n - k /\ k \in Nat
    OBVIOUS
  <2>2. f[n - k] \in W
    BY <1>2, <2>1
  <2>3. ASSUME NEW i \in n - k..n PROVE f[i] \in W
    <3>1. i = n - k \/ i \in n - k + 1..n
      BY <2>1
    <3> QED BY <1>2, <2>2, <3>1
  <2> QED BY <2>1, <2>3
<1>3. n \in T
  <2> HIDE DEF T
  <2>1. 0..n \subseteq T
    BY <1>1, <1>2, IntervalInduction
  <2> QED BY <2>1
<1> QED BY <1>3

\* The parts that a sequence is put together of, from left to right.
SameStart(a, b) == Len(a) <= Len(b) /\ \A j \in 1..Len(a) : b[j] = a[j]

\* Each of them is the start of the whole.
LEMMA StartsAlong ==
  ASSUME NEW n \in Nat, NEW A, NEW f \in [0..n -> Seq(A)], NEW e \in [1..n -> Seq(A)],
         \A k \in 1..n : f[k] = f[k - 1] \o e[k]
  PROVE  \A k \in 0..n : SameStart(f[k], f[n])
<1> DEFINE T == {d \in 0..n : SameStart(f[n - d], f[n])}
<1>1. 0 \in T
  <2>1. f[n] \in Seq(A) /\ n - 0 = n
    OBVIOUS
  <2> QED BY <2>1 DEF SameStart
<1>2. ASSUME NEW d \in 0..n - 1, d \in T PROVE d + 1 \in T
  <2> DEFINE k == n - d
             a == f[k - 1]
             b == f[k]
             c == e[k]
  <2>1. k \in 1..n /\ k \in 0..n /\ k - 1 \in 0..n /\ n - (d + 1) = k - 1 /\ d + 1 \in 0..n
    OBVIOUS
  <2> HIDE DEF k
  <2>2. a \in Seq(A) /\ b \in Seq(A) /\ c \in Seq(A) /\ b = a \o c
    BY <2>1
  <2>3. SameStart(b, f[n])
    BY <1>2 DEF k
  <2> HIDE DEF a, b, c
  <2>4. Len(a) <= Len(b) /\ \A j \in 1..Len(a) : b[j] = a[j] /\ j \in 1..Len(b)
    BY <2>2
  <2>5. Len(f[n]) \in Nat /\ Len(a) \in Nat /\ Len(b) \in Nat
    BY <2>2
  <2>6. SameStart(a, f[n])
    BY <2>3, <2>4, <2>5 DEF SameStart
  <2> QED BY <2>1, <2>6 DEF a
<1>3. 0..n \subseteq T
  <2> HIDE DEF T
  <2> QED BY <1>1, <1>2, IntervalInduction
<1>4. ASSUME NEW k \in 0..n PROVE SameStart(f[k], f[n])
  <2>1. n - k \in 0..n /\ n - (n - k) = k
    OBVIOUS
  <2> QED BY <1>3, <2>1
<1> QED BY <1>4

\* The rest of a sequence, and the rest of that.
LEMMA RestOf ==
  ASSUME NEW A, NEW s \in Seq(A), NEW k \in 1..Len(s)
  PROVE  /\ SubSeq(s, k, Len(s)) = <<s[k]>> \o SubSeq(s, k + 1, Len(s))
         /\ SubSeq(s, Len(s) + 1, Len(s)) = <<>> /\ SubSeq(s, 1, Len(s)) = s
<1> DEFINE n == Len(s)
           a == SubSeq(s, k, n)
           b == SubSeq(s, k + 1, n)
<1>1. /\ n \in Nat /\ k \in Int /\ k >= 1 /\ k <= n
      /\ (\A i \in k..n : s[i] \in A) /\ (\A i \in k + 1..n : s[i] \in A) /\ s[k] \in A
  OBVIOUS
<1>2. a \in Seq(A) /\ Len(a) = n - k + 1 /\ \A i \in 1..n - k + 1 : a[i] = s[k + i - 1]
  BY <1>1, SubSeqProperties
<1>3. b \in Seq(A) /\ Len(b) = n - k /\ \A i \in 1..n - k : b[i] = s[k + 1 + i - 1]
  <2> DEFINE l == k + 1
  <2>1. l \in Int /\ n \in Int /\ \A i \in l..n : s[i] \in A
    BY <1>1
  <2>2. n - l + 1 = n - k /\ (l <= n <=> n - k >= 1) /\ n - k \in Nat /\ l + 0 = k + 1
    BY <1>1
  <2> HIDE DEF l, n
  <2>3. /\ SubSeq(s, l, n) \in Seq(A)
        /\ Len(SubSeq(s, l, n)) = IF l <= n THEN n - l + 1 ELSE 0
        /\ \A i \in 1..n - l + 1 : SubSeq(s, l, n)[i] = s[l + i - 1]
    BY <2>1, SubSeqProperties
  <2>4. Len(SubSeq(s, l, n)) = n - k
    BY <2>2, <2>3
  <2> QED BY <2>2, <2>3, <2>4 DEF l
<1> HIDE DEF a, b
<1>4. a = <<s[k]>> \o b
  <2>1. <<s[k]>> \in Seq(A)
    BY <1>1
  <2>2. Len(<<s[k]>> \o b) = n - k + 1 /\ <<s[k]>> \o b \in Seq(A)
    <3> DEFINE x == s[k]
               m == n - k
    <3>1. x \in A /\ b \in Seq(A) /\ Len(b) = m /\ n \in Int /\ k \in Int
      BY <1>1, <1>3
    <3> HIDE DEF x, n
    <3>2. <<x>> \in Seq(A) /\ Len(<<x>>) = 1
      BY <3>1
    <3>3. <<x>> \o b \in Seq(A) /\ Len(<<x>> \o b) = 1 + Len(b)
      BY <3>1, <3>2, ConcatProperties
    <3> QED BY <3>1, <3>3 DEF x
  <2>3. ASSUME NEW i \in 1..n - k + 1 PROVE (<<s[k]>> \o b)[i] = a[i]
    <3>1. CASE i = 1
      <4>1. (<<s[k]>> \o b)[i] = s[k]
        BY <1>1, <1>3, <2>1, <3>1
      <4>2. a[i] = s[k + i - 1] /\ k + i - 1 = k
        BY <1>1, <1>2, <3>1
      <4> QED BY <4>1, <4>2
    <3>2. CASE i # 1
      <4>1. (<<s[k]>> \o b)[i] = b[i - 1] /\ i - 1 \in 1..n - k
        BY <1>1, <1>3, <2>1, <3>2
      <4>2. b[i - 1] = s[k + 1 + (i - 1) - 1] /\ a[i] = s[k + i - 1]
        BY <1>2, <1>3, <4>1
      <4>3. k + 1 + (i - 1) - 1 = k + i - 1
        BY <1>1
      <4> QED BY <4>1, <4>2, <4>3
    <3> QED BY <3>1, <3>2
  <2>4. Len(a) = Len(<<s[k]>> \o b)
    BY <1>2, <2>2
  <2> QED BY <1>2, <2>2, <2>3, <2>4, SeqEqual
<1>5. SubSeq(s, n + 1, n) = <<>>
  BY <1>1
<1>6. SubSeq(s, 1, n) = s
  OBVIOUS
<1> QED BY <1>4, <1>5, <1>6 DEF a, b

\* The same for the numbers themselves.
LEMMA BackwardInduction ==
  ASSUME NEW n \in Nat, NEW W, \A i \in 1..n : (\A j \in i + 1..n : j \in W) => i \in W
  PROVE  1..n \subseteq W
<1> DEFINE f == [i \in 1..n |-> i]
<1>1. \A i \in 1..n : f[i] = i
  OBVIOUS
<1>2. \A i \in 1..n : \A j \in i + 1..n : j \in 1..n
  OBVIOUS
<1> HIDE DEF f
<1>3. \A i \in 1..n : (\A j \in i + 1..n : f[j] \in W) => f[i] \in W
  BY <1>1, <1>2
<1>4. \A i \in 1..n : f[i] \in W
  BY <1>3, AllBackward
<1> QED BY <1>1, <1>4

\* A part of a text.
LEMMA PartIs ==
  ASSUME NEW A, NEW v \in Seq(A), NEW i \in 1..Len(v) + 1, NEW j \in i - 1..Len(v)
  PROVE  /\ SubSeq(v, i, j) \in Seq(A) /\ Len(SubSeq(v, i, j)) = j - i + 1
         /\ \A k \in 1..j - i + 1 : SubSeq(v, i, j)[k] = v[i + k - 1]
<1> DEFINE a == SubSeq(v, i, j)
           n == Len(v)
<1>1. \A k \in i..j : v[k] \in A
  OBVIOUS
<1>2. i \in Int /\ j \in Int /\ (i <= j \/ j - i + 1 = 0)
  OBVIOUS
<1>3. /\ a \in Seq(A) /\ Len(a) = (IF i <= j THEN j - i + 1 ELSE 0)
      /\ \A k \in 1..j - i + 1 : a[k] = v[i + k - 1]
  BY <1>1, <1>2, SubSeqProperties
<1> HIDE DEF a
<1> QED BY <1>2, <1>3 DEF a

\* The end of a text.
LEMMA EndsAre ==
  ASSUME NEW A, NEW v \in Seq(A)
  PROVE  SubSeq(v, 1, Len(v)) = v /\ SubSeq(v, Len(v) + 1, Len(v)) = <<>>
<1> DEFINE l == Len(v)
           a == SubSeq(v, 1, l)
           b == SubSeq(v, l + 1, l)
<1>1. l \in Nat /\ 1 \in 1..l + 1 /\ l \in 1 - 1..l /\ l + 1 \in 1..l + 1 /\ l \in (l + 1) - 1..l
      /\ l - 1 + 1 = l /\ l - (l + 1) + 1 = 0
  OBVIOUS
<1>2. a \in Seq(A) /\ Len(a) = l /\ \A k \in 1..l - 1 + 1 : a[k] = v[1 + k - 1]
  BY <1>1, PartIs
<1>3. b \in Seq(A) /\ Len(b) = 0
  BY <1>1, PartIs
<1>4. ASSUME NEW k \in 1..l PROVE a[k] = v[k]
  <2>1. k \in 1..l - 1 + 1 /\ 1 + k - 1 = k
    BY <1>1
  <2> QED BY <1>2, <2>1
<1> HIDE DEF a, b
<1>5. a = v
  BY <1>2, <1>4, SeqEqual
<1>6. b = <<>>
  BY <1>3, EmptySeq
<1> QED BY <1>5, <1>6 DEF a, b

\* A text of what is in A grows from nothing by one piece after another.
GrowsBy(f, n, e, A) ==
  /\ n \in Nat /\ f \in [0..n -> Seq(A)] /\ e \in [1..n -> Seq(A)]
  /\ f[0] = <<>> /\ \A k \in 1..n : f[k] = f[k - 1] \o e[k]

\* Where the piece k stands in it.
PieceIn(f, n, e, k) ==
  /\ Len(f[k - 1]) \in Nat /\ Len(e[k]) \in Nat
  /\ Len(f[k]) = Len(f[k - 1]) + Len(e[k]) /\ Len(f[k]) <= Len(f[n])
  /\ \A j \in 1..Len(e[k]) : f[n][Len(f[k - 1]) + j] = e[k][j]

\* Every piece stands in the text where what is before it ends.
LEMMA PieceStands ==
  ASSUME NEW n, NEW A, NEW f, NEW e, GrowsBy(f, n, e, A),
         NEW k \in 1..n
  PROVE  PieceIn(f, n, e, k)
<1>0. n \in Nat /\ f \in [0..n -> Seq(A)] /\ e \in [1..n -> Seq(A)]
  BY DEF GrowsBy
<1>1. k \in 0..n /\ k - 1 \in 0..n
  BY <1>0
<1>2. SameStart(f[k], f[n])
  BY <1>0, <1>1, StartsAlong DEF GrowsBy
<1> DEFINE a == f[k - 1]
           b == f[k]
           c == e[k]
           t == f[n]
<1>3. a \in Seq(A) /\ b \in Seq(A) /\ c \in Seq(A) /\ t \in Seq(A)
  BY <1>0, <1>1
<1>4. b = a \o c
  BY DEF GrowsBy
<1>5. SameStart(b, t)
  BY <1>2
<1> HIDE DEF a, b, c, t
<1>6. Len(b) = Len(a) + Len(c) /\ Len(b) <= Len(t) /\ Len(a) \in Nat /\ Len(c) \in Nat
  BY <1>3, <1>4, <1>5 DEF SameStart
<1>7. ASSUME NEW j \in 1..Len(c) PROVE t[Len(a) + j] = c[j]
  <2>1. Len(a) + j \in 1..Len(b)
    BY <1>6
  <2>2. b[Len(a) + j] = c[j]
    BY <1>3, <1>4, <1>6
  <2> QED BY <1>5, <2>1, <2>2 DEF SameStart
<1> QED BY <1>6, <1>7 DEF a, b, c, t, PieceIn

\* A text grows by one and by two.
LEMMA GrowsByTwo ==
  ASSUME NEW A, NEW s \in Seq(A), NEW a \in A, NEW b \in A
  PROVE  s \o <<a>> = Append(s, a) /\ s \o <<a, b>> = Append(Append(s, a), b)
<1>1. s \o <<a>> = Append(s, a)
  BY AppendProperties
<1>2. s \o <<a, b>> = Append(Append(s, a), b)
  <2> DEFINE q == Append(s, a)
             r == Append(q, b)
             n == Len(s)
             t == <<a, b>>
  <2>1. t \in Seq(A) /\ Len(t) = 2 /\ t[1] = a /\ t[2] = b
    OBVIOUS
  <2>2. q \in Seq(A) /\ Len(q) = n + 1 /\ q[n + 1] = a /\ (\A i \in 1..n : q[i] = s[i]) /\ n \in Nat
    OBVIOUS
  <2> HIDE DEF q, t
  <2> DEFINE m == Len(t)
             pp == s \o t
  <2> HIDE DEF n, m
  <2>3. r \in Seq(A) /\ Len(r) = n + 2 /\ r[n + 2] = b /\ (\A i \in 1..n + 1 : r[i] = q[i])
    BY <2>2
  <2>4. /\ pp \in Seq(A) /\ Len(pp) = n + 2
        /\ \A i \in 1..n + 2 : pp[i] = IF i <= n THEN s[i] ELSE t[i - n]
    <3>1. /\ pp \in Seq(A) /\ Len(pp) = n + m
          /\ \A i \in 1..n + m : pp[i] = IF i <= n THEN s[i] ELSE t[i - n]
      BY <2>1, ConcatProperties DEF n, m
    <3> QED BY <2>1, <3>1 DEF m
  <2> HIDE DEF pp, r
  <2>5. ASSUME NEW i \in 1..n + 2 PROVE pp[i] = r[i]
    <3>1. CASE i <= n
      BY <2>2, <2>3, <2>4, <3>1 DEF pp
    <3>2. CASE i = n + 1
      <4>1. ~(i <= n) /\ i - n = 1
        BY <2>2, <3>2
      <4> QED BY <2>1, <2>2, <2>3, <2>4, <3>2, <4>1 DEF pp
    <3>3. CASE i = n + 2
      <4>1. ~(i <= n) /\ i - n = 2
        BY <2>2, <3>3
      <4> QED BY <2>1, <2>3, <2>4, <3>3, <4>1 DEF pp
    <3> QED BY <2>2, <3>1, <3>2, <3>3
  <2>6. pp = r
    <3>1. pp \in Seq(A) /\ Len(pp) = n + 2
      BY <2>4 DEF pp
    <3> QED BY <2>3, <2>5, <3>1, SeqEqual
  <2> QED BY <2>6 DEF pp, r, q, t
<1> QED BY <1>1, <1>2

\* The least of some numbers.
LEMMA MinIs ==
  ASSUME NEW S, S \subseteq Int, NEW e \in S, \A k \in S : e <= k
  PROVE  Min(S) = e
<1>1. Min(S) \in S /\ \A y \in S : Min(S) <= y
  BY DEF Min
<1>2. Min(S) <= e /\ e <= Min(S) /\ Min(S) \in Int /\ e \in Int
  BY <1>1
<1> DEFINE m == Min(S)
<1> HIDE DEF m
<1>3. m = e
  BY <1>2 DEF m
<1> QED BY <1>3 DEF m

\* Some numbers between two have a least.
LEMMA MinOfSome ==
  ASSUME NEW S, NEW i \in Nat, NEW j \in Nat, S \subseteq i..j, S # {}
  PROVE  Min(S) \in S /\ \A k \in S : Min(S) <= k
<1>1. S \subseteq Nat
  OBVIOUS
<1>2. PICK m \in S : \A k \in S : m <= k
  BY <1>1, LeastNat
<1> QED BY <1>2 DEF Min
=============================================================================
