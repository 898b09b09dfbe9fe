--------------------------- MODULE SequenceFacts ---------------------------
(***************************************************************************)
(* Induction over the numbers, and what functions defined by recursion on  *)
(* a number compute: sums, and concatenations of sequences.                *)
(***************************************************************************)
EXTENDS Integers, Sequences, SequenceTheorems, WellFoundedInduction, TLAPS

-----------------------------------------------------------------------------
(* Induction, and functions defined by recursion on a number.              *)

Less == {p \in Nat \X Nat : p[1] < p[2]}

(* The order of the numbers is well founded.                               *)
LEMMA LessIsWellFounded == IsWellFoundedOn(Less, Nat)
<1>1. OpToRel(<, Nat) = Less
  BY DEF OpToRel, Less
<1>2. QED
  BY <1>1, NatLessThanWellFounded

(* Induction over the numbers, with a set in the place of a predicate.     *)
LEMMA SetInduction ==
  ASSUME NEW S, 0 \in S, \A n \in Nat : n \in S => n + 1 \in S
  PROVE  Nat \subseteq S
<1> DEFINE R == Nat \ S
<1>1. SUFFICES ASSUME R # {} PROVE FALSE
  OBVIOUS
<1>2. PICK x \in R : \A y \in R : ~(<<y, x>> \in Less)
  <2>1. R \subseteq Nat
    OBVIOUS
  <2> HIDE DEF R
  <2>2. QED
    BY LessIsWellFounded, WFMin, <1>1, <2>1
<1>3. x - 1 \in Nat /\ x - 1 \notin R
  <2>1. x # 0 /\ x \in Nat
    OBVIOUS
  <2>2. x - 1 \in Nat /\ <<x - 1, x>> \in Less
    BY <2>1 DEF Less
  <2>3. QED
    BY <1>2, <2>2
<1>4. QED
  BY <1>3

(* A set of numbers that is not empty has a least element.                 *)
LEMMA LeastExists ==
  ASSUME NEW S, S \subseteq Nat, S # {}
  PROVE  LET m == CHOOSE i \in S : \A j \in S : i <= j
         IN  m \in S /\ \A j \in S : m <= j
<1>1. PICK x \in S : \A y \in S : ~(<<y, x>> \in Less)
  BY LessIsWellFounded, WFMin
<1>2. ASSUME NEW j \in S PROVE x <= j
  <2>1. j \in Nat /\ x \in Nat /\ <<j, x>> \notin Less
    BY <1>1
  <2>2. j < x => <<j, x>> \in Less
    BY <2>1 DEF Less
  <2>3. QED
    BY <2>1, <2>2
<1>3. QED
  BY <1>1, <1>2

\* f[k] is the sum of the first k elements of d.
IsSums(f, n, d) ==
  f = [k \in 0 .. n |-> IF k = 0 THEN 0 ELSE f[k - 1] + d[k - 1]]

(* The recursion that adds up the elements of d has a solution.            *)
LEMMA SumsExist ==
  ASSUME NEW d, NEW n \in Nat
  PROVE  \E f : IsSums(f, n, d)
<1> DEFINE S == {m \in Nat : \E f : IsSums(f, m, d)}
<1>1. 0 \in S
  <2> DEFINE f == [k \in 0 .. 0 |-> 0]
  <2>1. IsSums(f, 0, d)
    BY DEF IsSums
  <2> QED BY <2>1
<1>2. ASSUME NEW m \in Nat, m \in S PROVE m + 1 \in S
  <2>1. PICK f : IsSums(f, m, d)
    BY <1>2
  <2> DEFINE g == [k \in 0 .. m + 1 |-> IF k <= m THEN f[k] ELSE f[m] + d[m]]
             h == [k \in 0 .. m + 1 |-> IF k = 0 THEN 0 ELSE g[k - 1] + d[k - 1]]
  <2>2. ASSUME NEW k \in 0 .. m + 1 PROVE g[k] = h[k]
    <3>1. CASE k = 0
      <4>1. f[0] = 0
        BY <2>1 DEF IsSums
      <4>2. QED
        BY <3>1, <4>1
    <3>2. CASE k # 0 /\ k <= m
      <4>1. k \in 0 .. m /\ k - 1 \in 0 .. m
        BY <3>2
      <4>2. f[k] = f[k - 1] + d[k - 1]
        BY <2>1, <3>2, <4>1 DEF IsSums
      <4>3. QED
        BY <3>2, <4>1, <4>2
    <3>3. CASE k = m + 1
      BY <3>3
    <3>4. QED
      BY <3>1, <3>2, <3>3
  <2>3. g = h
    BY <2>2
  <2>4. IsSums(g, m + 1, d)
    BY <2>3 DEF IsSums
  <2>5. QED
    BY <2>4
<1>3. Nat \subseteq S
  <2> HIDE DEF S
  <2> QED BY <1>1, <1>2, SetInduction
<1>4. QED
  BY <1>3

(* A partial sum is the one before it plus an element; the sums grow.      *)
LEMMA SumsGrow ==
  ASSUME NEW f, NEW n \in Nat, NEW d, IsSums(f, n, d), \A k \in 0 .. n - 1 : d[k] \in Nat
  PROVE  /\ f[0] = 0
         /\ \A k \in 0 .. n - 1 : f[k + 1] = f[k] + d[k]
         /\ \A k \in 0 .. n : f[k] \in Nat
         /\ \A j, k \in 0 .. n : j <= k => f[j] <= f[k]
<1>1. f[0] = 0
  BY DEF IsSums
<1>2. ASSUME NEW k \in 0 .. n - 1 PROVE f[k + 1] = f[k] + d[k]
  <2>1. k + 1 \in 0 .. n /\ k + 1 # 0 /\ (k + 1) - 1 = k
    OBVIOUS
  <2>2. f[k + 1] = f[(k + 1) - 1] + d[(k + 1) - 1]
    BY <2>1 DEF IsSums
  <2>3. QED
    BY <2>1, <2>2
<1> DEFINE S == {k \in Nat : k <= n => f[k] \in Nat /\ \A j \in 0 .. k : f[j] \in Nat /\ f[j] <= f[k]}
<1>3. 0 \in S
  BY <1>1
<1>4. ASSUME NEW k \in Nat, k \in S PROVE k + 1 \in S
  <2> SUFFICES ASSUME k + 1 <= n
               PROVE  f[k + 1] \in Nat /\ \A j \in 0 .. k + 1 : f[j] \in Nat /\ f[j] <= f[k + 1]
    OBVIOUS
  <2>1. k \in 0 .. n - 1
    OBVIOUS
  <2>2. f[k + 1] = f[k] + d[k] /\ d[k] \in Nat
    BY <1>2, <2>1
  <2>3. f[k] \in Nat /\ \A j \in 0 .. k : f[j] \in Nat /\ f[j] <= f[k]
    BY <1>4
  <2>4. f[k + 1] \in Nat
    BY <2>2, <2>3
  <2>5. ASSUME NEW j \in 0 .. k + 1 PROVE f[j] \in Nat /\ f[j] <= f[k + 1]
    <3>1. CASE j = k + 1
      BY <2>4, <3>1
    <3>2. CASE j \in 0 .. k
      BY <2>2, <2>3, <3>2
    <3>3. QED
      BY <3>1, <3>2
  <2>6. QED
    BY <2>4, <2>5
<1>5. Nat \subseteq S
  <2> HIDE DEF S
  <2> QED BY <1>3, <1>4, SetInduction
<1>6. ASSUME NEW k \in 0 .. n PROVE f[k] \in Nat /\ \A j \in 0 .. k : f[j] <= f[k]
  BY <1>5
<1>7. QED
  BY <1>1, <1>2, <1>6

(* A number below the last sum lies in exactly one of the intervals.       *)
LEMMA SumsLocate ==
  ASSUME NEW f, NEW n \in Nat, NEW d, IsSums(f, n, d), \A k \in 0 .. n - 1 : d[k] \in Nat,
         NEW x \in Nat, x < f[n]
  PROVE  \E k \in 0 .. n - 1 : f[k] <= x /\ x < f[k + 1]
<1> DEFINE S == {k \in Nat : k <= n => (\E j \in 0 .. k - 1 : f[j] <= x /\ x < f[j + 1]) \/ f[k] <= x}
<1>1. /\ f[0] = 0
      /\ \A k \in 0 .. n : f[k] \in Nat
  BY SumsGrow
<1>2. 0 \in S
  BY <1>1
<1>3. ASSUME NEW k \in Nat, k \in S PROVE k + 1 \in S
  <2> SUFFICES ASSUME k + 1 <= n
               PROVE  (\E j \in 0 .. (k + 1) - 1 : f[j] <= x /\ x < f[j + 1]) \/ f[k + 1] <= x
    OBVIOUS
  <2>1. CASE \E j \in 0 .. k - 1 : f[j] <= x /\ x < f[j + 1]
    BY <2>1
  <2>2. CASE f[k] <= x
    <3>1. k \in 0 .. (k + 1) - 1 /\ f[k + 1] \in Nat
      BY <1>1
    <3>2. CASE x < f[k + 1]
      BY <2>2, <3>1, <3>2
    <3>3. CASE ~(x < f[k + 1])
      BY <3>1, <3>3
    <3>4. QED
      BY <3>2, <3>3
  <2>3. QED
    BY <1>3, <2>1, <2>2
<1>4. n \in S
  <2> HIDE DEF S
  <2> QED BY <1>2, <1>3, SetInduction
<1>5. f[n] \in Nat
  BY <1>1
<1>6. QED
  BY <1>4, <1>5
-----------------------------------------------------------------------------
(* Parts and concatenations of sequences.                                  *)

(* The n elements of a sequence that follow the first m.                   *)
LEMMA PartOfSeq ==
  ASSUME NEW B, NEW s, NEW m \in Nat, NEW n \in Nat, \A i \in m + 1 .. m + n : s[i] \in B
  PROVE  /\ SubSeq(s, m + 1, m + n) \in Seq(B) /\ Len(SubSeq(s, m + 1, m + n)) = n
         /\ \A i \in 1 .. n : SubSeq(s, m + 1, m + n)[i] = s[m + i]
<1> DEFINE t == SubSeq(s, m + 1, m + n)
<1>1. /\ t \in Seq(B)
      /\ Len(t) = IF m + 1 <= m + n THEN (m + n) - (m + 1) + 1 ELSE 0
      /\ \A i \in 1 .. (m + n) - (m + 1) + 1 : t[i] = s[(m + 1) + i - 1]
  BY SubSeqProperties
<1> HIDE DEF t
<1>2. Len(t) = n /\ \A i \in 1 .. n : t[i] = s[m + i]
  BY <1>1
<1>3. QED
  BY <1>1, <1>2 DEF t

\* f[k] is the concatenation of the first k of the sequences c[1], c[2], ...
IsConcat(f, n, c) ==
  f = [k \in 0 .. n |-> IF k = 0 THEN <<>> ELSE f[k - 1] \o c[k]]

(* The recursion that concatenates has a solution.                         *)
LEMMA ConcatExists ==
  ASSUME NEW c, NEW n \in Nat
  PROVE  \E f : IsConcat(f, n, c)
<1> DEFINE S == {m \in Nat : \E f : IsConcat(f, m, c)}
<1>1. 0 \in S
  <2> DEFINE f == [k \in 0 .. 0 |-> <<>>]
  <2>1. IsConcat(f, 0, c)
    BY DEF IsConcat
  <2> QED BY <2>1
<1>2. ASSUME NEW m \in Nat, m \in S PROVE m + 1 \in S
  <2>1. PICK f : IsConcat(f, m, c)
    BY <1>2
  <2> DEFINE g == [k \in 0 .. m + 1 |-> IF k <= m THEN f[k] ELSE f[m] \o c[m + 1]]
             h == [k \in 0 .. m + 1 |-> IF k = 0 THEN <<>> ELSE g[k - 1] \o c[k]]
  <2>2. ASSUME NEW k \in 0 .. m + 1 PROVE g[k] = h[k]
    <3>1. CASE k = 0
      <4>1. f[0] = <<>>
        BY <2>1 DEF IsConcat
      <4>2. QED
        BY <3>1, <4>1
    <3>2. CASE k # 0 /\ k <= m
      <4>1. k \in 0 .. m /\ k - 1 \in 0 .. m
        BY <3>2
      <4>2. f[k] = f[k - 1] \o c[k]
        BY <2>1, <3>2, <4>1 DEF IsConcat
      <4>3. k <= m /\ k - 1 <= m /\ k - 1 \in 0 .. m + 1 /\ k # 0
        BY <3>2
      <4>4. g[k] = f[k] /\ g[k - 1] = f[k - 1]
        BY <4>3
      <4>5. h[k] = g[k - 1] \o c[k]
        BY <4>3
      <4> HIDE DEF g, h
      <4>6. QED
        BY <4>2, <4>4, <4>5
    <3>3. CASE k = m + 1
      BY <3>3
    <3>4. QED
      BY <3>1, <3>2, <3>3
  <2>3. g = h
    BY <2>2
  <2>4. IsConcat(g, m + 1, c)
    BY <2>3 DEF IsConcat
  <2>5. QED
    BY <2>4
<1>3. Nat \subseteq S
  <2> HIDE DEF S
  <2> QED BY <1>1, <1>2, SetInduction
<1>4. QED
  BY <1>3

\* c[1] .. c[n] are sequences over T, and g[k] is the length of the first k.
AreParts(c, n, g, T) ==
  /\ \A k \in 1 .. n : c[k] \in Seq(T)
  /\ g[0] = 0
  /\ \A k \in 0 .. n : g[k] \in Nat
  /\ \A k \in 0 .. n - 1 : g[k + 1] = g[k] + Len(c[k + 1])

(* Where the elements of the sequences are in their concatenation: f[k] is *)
(* as long as the sums g say, and c[j + 1] begins after g[j] elements.     *)
LEMMA ConcatIs ==
  ASSUME NEW f, NEW n \in Nat, NEW c, NEW g, NEW T,
         IsConcat(f, n, c), AreParts(c, n, g, T)
  PROVE  /\ f[n] \in Seq(T) /\ Len(f[n]) = g[n]
         /\ \A j \in 0 .. n - 1 : \A x \in 1 .. Len(c[j + 1]) : f[n][g[j] + x] = c[j + 1][x]
<1> DEFINE P(k) == /\ f[k] \in Seq(T) /\ Len(f[k]) = g[k]
                   /\ \A j \in 0 .. k - 1 : \A x \in 1 .. Len(c[j + 1]) :
                        g[j] + x \in 1 .. g[k] /\ f[k][g[j] + x] = c[j + 1][x]
           S == {k \in Nat : k <= n => P(k)}
<1> USE DEF AreParts
<1>1. 0 \in S
  <2>1. f[0] = <<>>
    BY DEF IsConcat
  <2>2. <<>> \in Seq(T) /\ Len(<<>>) = 0
    OBVIOUS
  <2>3. \A j : j \notin 0 .. 0 - 1
    OBVIOUS
  <2>4. P(0)
    BY <2>1, <2>2, <2>3, Zenon
  <2> HIDE DEF P
  <2>5. QED
    BY <2>4
<1>2. ASSUME NEW k \in Nat, k \in S PROVE k + 1 \in S
  <2> SUFFICES ASSUME k + 1 <= n PROVE P(k + 1)
    <3> HIDE DEF P
    <3> QED OBVIOUS
  <2> DEFINE s == f[k]
             t == c[k + 1]
  <2>1. P(k)
    <3> HIDE DEF P
    <3> QED BY <1>2
  <2>2. s \in Seq(T) /\ t \in Seq(T) /\ Len(s) = g[k] /\ g[k] \in Nat
        /\ g[k + 1] = g[k] + Len(t)
    BY <2>1
  <2>3. f[k + 1] = s \o t
    <3>1. k + 1 \in 0 .. n /\ k + 1 # 0 /\ (k + 1) - 1 = k
      OBVIOUS
    <3>2. f[k + 1] = f[(k + 1) - 1] \o c[k + 1]
      BY <3>1 DEF IsConcat
    <3>3. QED
      BY <3>1, <3>2
  <2>4. /\ s \o t \in Seq(T) /\ Len(s \o t) = Len(s) + Len(t) /\ Len(t) \in Nat
        /\ \A i \in 1 .. Len(s) : (s \o t)[i] = s[i]
        /\ \A i \in 1 .. Len(t) : (s \o t)[Len(s) + i] = t[i]
    <3> HIDE DEF s, t
    <3>1. /\ s \o t \in Seq(T) /\ Len(s \o t) = Len(s) + Len(t)
          /\ Len(s) \in Nat /\ Len(t) \in Nat
      BY <2>2, ConcatProperties, LenProperties
    <3>2. \A i \in 1 .. Len(s) + Len(t) :
            (s \o t)[i] = IF i <= Len(s) THEN s[i] ELSE t[i - Len(s)]
      BY <2>2, <3>1, ConcatProperties
    <3>3. QED
      BY <3>1, <3>2
  <2>5. f[k + 1] \in Seq(T) /\ Len(f[k + 1]) = g[k + 1]
    <3> HIDE DEF s, t
    <3> QED BY <2>2, <2>3, <2>4
  <2>6. ASSUME NEW j \in 0 .. k, NEW x \in 1 .. Len(c[j + 1])
        PROVE  g[j] + x \in 1 .. g[k + 1] /\ f[k + 1][g[j] + x] = c[j + 1][x]
    <3>1. CASE j = k
      <4>1. x \in 1 .. Len(t) /\ g[j] + x = Len(s) + x
        BY <2>2, <3>1
      <4>2. (s \o t)[Len(s) + x] = t[x]
        BY <2>4, <4>1
      <4>3. f[k + 1][g[j] + x] = c[j + 1][x]
        BY <2>3, <3>1, <4>1, <4>2
      <4> HIDE DEF s, t
      <4>4. g[j] + x \in 1 .. g[k + 1]
        <5> DEFINE l == Len(t)
                   a == g[k]
        <5>1. a \in Nat /\ l \in Nat /\ x \in 1 .. l /\ g[k + 1] = a + l /\ g[j] = a
          BY <2>2, <2>4, <3>1, <4>1
        <5> HIDE DEF l, a
        <5>2. a + x \in 1 .. a + l
          BY <5>1
        <5>3. QED
          BY <5>1, <5>2
      <4>5. QED
        BY <4>3, <4>4
    <3>2. CASE j # k
      <4>1. j \in 0 .. k - 1
        BY <3>2
      <4>2. g[j] + x \in 1 .. g[k] /\ s[g[j] + x] = c[j + 1][x]
        BY <2>1, <4>1
      <4> DEFINE i == g[j] + x
      <4> HIDE DEF s, t, i
      <4>3. i \in 1 .. Len(s) /\ i \in 1 .. g[k + 1]
        <5> DEFINE l == Len(t)
                   a == g[k]
        <5>1. a \in Nat /\ l \in Nat /\ Len(s) = a /\ g[k + 1] = a + l /\ i \in 1 .. a
          BY <2>2, <2>4, <4>2 DEF i
        <5> HIDE DEF l, a
        <5>2. i \in 1 .. a + l
          BY <5>1
        <5>3. QED
          BY <5>1, <5>2
      <4>4. QED
        BY <2>3, <2>4, <4>2, <4>3 DEF i
    <3>3. QED
      BY <3>1, <3>2
  <2>7. QED
    <3>1. (k + 1) - 1 = k
      OBVIOUS
    <3>2. QED
      BY <2>5, <2>6, <3>1
<1>3. P(n)
  <2>1. n \in S
    <3> HIDE DEF S
    <3> QED BY <1>1, <1>2, SetInduction
  <2> HIDE DEF P
  <2>2. QED
    BY <2>1
<1>4. QED
  BY <1>3

\* f[i] is where the i-th of the sequences c begins in their concatenation.
IsStarts(f, k, c) ==
  f = [i \in 1 .. k |-> IF i = 1 THEN 0 ELSE f[i - 1] + Len(c[i - 1])]

(* The recursion for the starts gives the lengths of what comes before.    *)
LEMMA StartsAreSums ==
  ASSUME NEW c, NEW k \in Nat \ {0}, NEW B, B[0] = 0,
         \A j \in Nat : j + 1 <= k - 1 => B[j + 1] = B[j] + Len(c[j + 1])
  PROVE  (CHOOSE f : IsStarts(f, k, c))[k] = B[k - 1]
<1> DEFINE g == [i \in 1 .. k |-> B[i - 1]]
           f == CHOOSE h : IsStarts(h, k, c)
<1>1. IsStarts(g, k, c)
  <2> DEFINE G == [i \in 1 .. k |-> IF i = 1 THEN 0 ELSE g[i - 1] + Len(c[i - 1])]
  <2>1. ASSUME NEW i \in 1 .. k PROVE g[i] = G[i]
    <3>1. CASE i = 1
      BY <3>1
    <3>2. CASE i # 1
      <4>1. i - 2 \in Nat /\ (i - 2) + 1 = i - 1 /\ i - 1 <= k - 1 /\ i - 1 \in 1 .. k
        BY <3>2
      <4>2. B[(i - 2) + 1] = B[i - 2] + Len(c[(i - 2) + 1])
        BY <4>1
      <4>3. g[i - 1] = B[i - 2] /\ g[i] = B[i - 1]
        BY <4>1
      <4>4. G[i] = g[i - 1] + Len(c[i - 1])
        BY <3>2
      <4> HIDE DEF g, G
      <4>5. QED
        BY <4>1, <4>2, <4>3, <4>4
    <3>3. QED
      BY <3>1, <3>2
  <2>2. g = G
    BY <2>1
  <2>3. QED
    BY <2>2 DEF IsStarts
<1> HIDE DEF g
<1>2. IsStarts(f, k, c)
  BY <1>1
<1> HIDE DEF f
<1> DEFINE S == {j \in Nat : j + 1 <= k => f[j + 1] = B[j]}
<1>3. 0 \in S
  BY <1>2 DEF IsStarts
<1>4. ASSUME NEW j \in Nat, j \in S PROVE j + 1 \in S
  <2> SUFFICES ASSUME (j + 1) + 1 <= k PROVE f[(j + 1) + 1] = B[j + 1]
    OBVIOUS
  <2>1. (j + 1) + 1 \in 1 .. k /\ (j + 1) + 1 # 1 /\ ((j + 1) + 1) - 1 = j + 1
        /\ j + 1 <= k /\ j + 1 <= k - 1
    OBVIOUS
  <2>2. f[(j + 1) + 1] = f[j + 1] + Len(c[j + 1])
    BY <1>2, <2>1 DEF IsStarts
  <2>3. QED
    BY <1>4, <2>1, <2>2
<1>5. k - 1 \in S
  <2>1. k - 1 \in Nat
    OBVIOUS
  <2> HIDE DEF S
  <2>2. QED
    BY <1>3, <1>4, <2>1, SetInduction
<1>6. QED
  BY <1>5 DEF f
=============================================================================
