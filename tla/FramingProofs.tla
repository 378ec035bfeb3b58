---------------------------- MODULE FramingProofs -----------------------------
(***************************************************************************)
(* What is written on a socket is what is read: numbers, RESP arrays,      *)
(* tasks and the lengths of packets, for texts of any length and for       *)
(* streams that are cut anywhere; and the actions of Framing keep the part *)
(* of the invariant of WireInvariant that is about their connections.      *)
(***************************************************************************)
EXTENDS WireInvariant, SequenceTheorems, NaturalsInduction, WellFoundedInduction,
        FiniteSetTheorems, TLAPS

-----------------------------------------------------------------------------
(***************************************************************************)
(* Recursion and induction on a finite interval of numbers.                *)
(***************************************************************************)
LEMMA LeastNumber ==
  ASSUME NEW T \in SUBSET Nat, T # {}
  PROVE  \E n \in T : \A m \in T : n <= m
<1> DEFINE R == {ss \in Nat \X Nat : ss[1] < ss[2]}
<1>1. IsWellFoundedOn(R, Nat)
  BY NatLessThanWellFounded DEF OpToRel
<1>2. \A m, n \in Nat : m < n => <<m, n>> \in R
  OBVIOUS
<1> HIDE DEF R
<1>3. PICK n \in T : \A m \in T : ~ (<<m, n>> \in R)
  BY <1>1, WFMin
<1>4. ASSUME NEW m \in T PROVE n <= m
  <2>1. m \in Nat /\ n \in Nat
    OBVIOUS
  <2>2. ~ (m < n)
    BY <1>2, <1>3, <2>1
  <2> QED BY <2>1, <2>2
<1> QED BY <1>4

\* What holds for 0, and for a number if for all smaller ones, holds for all.
LEMMA Induction ==
  ASSUME NEW n \in Nat, NEW Holds,
         \A k \in 0 .. n : (\A j \in 0 .. k - 1 : j \in Holds) => k \in Holds
  PROVE  \A k \in 0 .. n : k \in Holds
<1> DEFINE T == {k \in 0 .. n : k \notin Holds}
<1> SUFFICES ASSUME T # {} PROVE FALSE
  OBVIOUS
<1>1. PICK k \in T : \A m \in T : k <= m
  <2> T \in SUBSET Nat
    OBVIOUS
  <2> HIDE DEF T
  <2> QED BY LeastNumber
<1>2. \A j \in 0 .. k - 1 : j \in Holds
  BY <1>1
<1> QED BY <1>1, <1>2

\* A function whose value at k follows from that at a smaller number exists.
Recursive(n, V, b, parent, step) ==
    /\ b \in V
    /\ \A k \in 1 .. n : parent[k] \in 0 .. k - 1
    /\ \A k \in 1 .. n : \A v \in V : step[<<k, v>>] \in V

Solution(n, V, b, parent, step) ==
    {f \in [0 .. n -> V] : f[0] = b /\ \A k \in 1 .. n : f[k] = step[<<k, f[parent[k]]>>]}

LEMMA Recursion ==
  ASSUME NEW n \in Nat, NEW V, NEW b, NEW parent, NEW step,
         Recursive(n, V, b, parent, step)
  PROVE  Solution(n, V, b, parent, step) # {}
<1> DEFINE Good(f, k) == /\ f[0] = b
                         /\ \A i \in 1 .. k : f[i] = step[<<i, f[parent[i]]>>]
           Holds == {k \in 0 .. n : \E f \in [0 .. k -> V] : Good(f, k)}
<1>1. ASSUME NEW k \in 0 .. n, \A j \in 0 .. k - 1 : j \in Holds
      PROVE  k \in Holds
  <2>1. CASE k = 0
    <3>1. [i \in 0 .. k |-> b] \in [0 .. k -> V] /\ Good([i \in 0 .. k |-> b], k)
      BY <2>1 DEF Recursive
    <3> QED BY <3>1
  <2>2. CASE k # 0
    <3>0. k - 1 \in Holds
      <4>1. k - 1 \in 0 .. k - 1
        BY <2>2
      <4> HIDE DEF Holds
      <4> QED BY <1>1, <4>1
    <3>1. PICK f \in [0 .. k - 1 -> V] : Good(f, k - 1)
      BY <3>0
    <3> DEFINE g == [i \in 0 .. k |-> IF i < k THEN f[i] ELSE step[<<k, f[parent[k]]>>]]
    <3>2. parent[k] \in 0 .. k - 1 /\ f[parent[k]] \in V
      BY <2>2, <3>1 DEF Recursive
    <3>3. g \in [0 .. k -> V]
      BY <2>2, <3>1, <3>2 DEF Recursive
    <3>4. g[0] = b
      BY <2>2, <3>1
    <3>5. ASSUME NEW i \in 1 .. k PROVE g[i] = step[<<i, g[parent[i]]>>]
      <4>1. parent[i] \in 0 .. i - 1 /\ parent[i] < k /\ parent[i] \in 0 .. k
        BY DEF Recursive
      <4>2. g[parent[i]] = f[parent[i]]
        BY <4>1
      <4>3. CASE i < k
        <5>1. i \in 1 .. k - 1 /\ g[i] = f[i]
          BY <4>3
        <5> HIDE DEF g
        <5> QED BY <3>1, <4>2, <5>1
      <4>4. CASE i = k
        <5>1. g[i] = step[<<k, f[parent[k]]>>]
          BY <4>4
        <5> HIDE DEF g
        <5> QED BY <4>2, <4>4, <5>1
      <4> QED BY <4>3, <4>4
    <3> QED BY <3>3, <3>4, <3>5
  <2> QED BY <2>1, <2>2
<1>2. n \in Holds
  <2> HIDE DEF Holds
  <2>1. \A k \in 0 .. n : (\A j \in 0 .. k - 1 : j \in Holds) => k \in Holds
    BY <1>1
  <2>2. \A k \in 0 .. n : k \in Holds
    BY <2>1, Induction
  <2> QED BY <2>2
<1> QED BY <1>2 DEF Solution

-----------------------------------------------------------------------------
(***************************************************************************)
(* Numbers                                                                 *)
(***************************************************************************)
Digit == 48 .. 57

\* The digits d spell n.
Numeral(d, n) ==
    \E v \in [0 .. Len(d) -> Nat] :
        /\ v[0] = 0
        /\ \A k \in 1 .. Len(d) : v[k] = v[k - 1] * 10 + (d[k] - 48)
        /\ v[Len(d)] = n

LEMMA OneDigit ==
  ASSUME NEW n \in 0 .. 9
  PROVE  <<48 + n>> \in Seq(Digit) /\ Numeral(<<48 + n>>, n)
<1> DEFINE v == [k \in 0 .. 1 |-> IF k = 0 THEN 0 ELSE n]
<1>1. <<48 + n>> \in Seq(Digit) /\ Len(<<48 + n>>) = 1 /\ <<48 + n>>[1] = 48 + n
  BY DEF Digit
<1>2. v \in [0 .. 1 -> Nat] /\ v[0] = 0 /\ v[1] = v[0] * 10 + (48 + n - 48) /\ v[1] = n
  OBVIOUS
<1> HIDE DEF v
<1> QED BY <1>1, <1>2 DEF Numeral

LEMMA MoreDigits ==
  ASSUME NEW d \in Seq(Digit), NEW n \in Nat, NEW b \in 0 .. 9, Numeral(d, n)
  PROVE  /\ Append(d, 48 + b) \in Seq(Digit)
         /\ Numeral(Append(d, 48 + b), n * 10 + b)
<1> DEFINE e == Append(d, 48 + b)
<1>1. /\ e \in Seq(Digit) /\ Len(e) = Len(d) + 1 /\ Len(d) \in Nat
      /\ \A k \in 1 .. Len(d) : e[k] = d[k]
      /\ e[Len(d) + 1] = 48 + b
  BY AppendProperties DEF Digit
<1>2. PICK v \in [0 .. Len(d) -> Nat] :
        /\ v[0] = 0
        /\ \A k \in 1 .. Len(d) : v[k] = v[k - 1] * 10 + (d[k] - 48)
        /\ v[Len(d)] = n
  BY DEF Numeral
<1> DEFINE u == [k \in 0 .. Len(e) |-> IF k <= Len(d) THEN v[k] ELSE n * 10 + b]
<1> HIDE DEF e
<1>3. u \in [0 .. Len(e) -> Nat]
  BY <1>1, <1>2
<1>4. u[0] = 0 /\ u[Len(e)] = n * 10 + b
  BY <1>1, <1>2
<1>5. ASSUME NEW k \in 1 .. Len(e) PROVE u[k] = u[k - 1] * 10 + (e[k] - 48)
  <2>1. CASE k <= Len(d)
    <3>1. k \in 1 .. Len(d) /\ k - 1 \in 0 .. Len(d) /\ k - 1 <= Len(d)
          /\ k \in 0 .. Len(e) /\ k - 1 \in 0 .. Len(e)
      BY <1>1, <2>1
    <3>2. u[k] = v[k] /\ u[k - 1] = v[k - 1] /\ e[k] = d[k]
      BY <1>1, <3>1
    <3> HIDE DEF u
    <3> QED BY <1>2, <3>1, <3>2
  <2>2. CASE k = Len(d) + 1
    <3>1. u[k] = n * 10 + b /\ u[k - 1] = n /\ e[k] = 48 + b
      BY <1>1, <1>2, <2>2
    <3> QED BY <3>1
  <2> QED BY <1>1, <2>1, <2>2
<1>6. Numeral(e, n * 10 + b)
  <2> HIDE DEF u
  <2> QED BY <1>3, <1>4, <1>5 DEF Numeral
<1> QED BY <1>1, <1>6 DEF e

\* to_string spells its argument in digits.
LEMMA NumberText ==
  ASSUME NEW n \in Nat
  PROVE  to_string(n) \in Seq(Digit) /\ to_string(n) # <<>> /\ Numeral(to_string(n), n)
<1> DEFINE E(f) == [k \in 0 .. n |-> IF k < 10 THEN <<48 + k>>
                                     ELSE Append(f[k \div 10], 48 + (k % 10))]
           g == CHOOSE f : f = E(f)
           V == Seq(Nat)
           parent == [k \in 1 .. n |-> k \div 10]
           step == [kv_ \in (1 .. n) \X V |->
                      IF kv_[1] < 10 THEN <<48 + kv_[1]>>
                      ELSE Append(kv_[2], 48 + (kv_[1] % 10))]
<1>1. \E f : f = E(f)
  <2>1. <<48>> \in V
    OBVIOUS
  <2>2. \A k \in 1 .. n : parent[k] \in 0 .. k - 1 /\ parent[k] = k \div 10
    OBVIOUS
  <2>3. \A k \in 1 .. n : \A v \in V :
          /\ step[<<k, v>>] = IF k < 10 THEN <<48 + k>> ELSE Append(v, 48 + (k % 10))
          /\ step[<<k, v>>] \in V
    BY AppendProperties
  <2>7. \A k \in 1 .. n : parent[k] \in 0 .. k - 1
    BY <2>2
  <2>8. \A k \in 1 .. n : \A v \in V : step[<<k, v>>] \in V
    BY <2>3
  <2> HIDE DEF parent, step, V, E, g
  <2>4. PICK f \in [0 .. n -> V] :
          f[0] = <<48>> /\ \A k \in 1 .. n : f[k] = step[<<k, f[parent[k]]>>]
    <3>1. Recursive(n, V, <<48>>, parent, step)
      BY <2>1, <2>7, <2>8 DEF Recursive
    <3>2. Solution(n, V, <<48>>, parent, step) # {}
      BY <3>1, Recursion
    <3> QED BY <3>2 DEF Solution
  <2>5. ASSUME NEW k \in 0 .. n
        PROVE  f[k] = IF k < 10 THEN <<48 + k>> ELSE Append(f[k \div 10], 48 + (k % 10))
    <3>1. CASE k = 0
      BY <2>4, <3>1
    <3>2. CASE k # 0
      <4>1. k \in 1 .. n /\ parent[k] = k \div 10 /\ parent[k] \in 0 .. n
        BY <2>2, <3>2
      <4>2. f[parent[k]] \in V
        BY <2>4, <4>1
      <4> QED BY <2>3, <2>4, <4>1, <4>2
    <3> QED BY <3>1, <3>2
  <2>6. f = E(f)
    BY <2>4, <2>5 DEF E
  <2> QED BY <2>6
<1>2. g = E(g)
  <2> HIDE DEF E
  <2> QED BY <1>1
<1>3. to_string(n) = g[n]
  BY DEF to_string
<1> HIDE DEF g, V, parent, step
<1> DEFINE Holds == {k \in 0 .. n : g[k] \in Seq(Digit) /\ g[k] # <<>> /\ Numeral(g[k], k)}
<1>4. ASSUME NEW k \in 0 .. n, \A j \in 0 .. k - 1 : j \in Holds
      PROVE  k \in Holds
  <2>1. CASE k < 10
    <3>1. g[k] = <<48 + k>> /\ k \in 0 .. 9
      BY <1>2, <2>1
    <3>2. <<48 + k>> \in Seq(Digit) /\ Numeral(<<48 + k>>, k)
      BY <3>1, OneDigit
    <3>3. <<48 + k>> # <<>>
      OBVIOUS
    <3> QED BY <3>1, <3>2, <3>3
  <2>2. CASE k >= 10
    <3> DEFINE j == k \div 10
               b == k % 10
    <3>1. j \in 0 .. k - 1 /\ b \in 0 .. 9 /\ k = j * 10 + b /\ j \in 0 .. n
      BY <2>2
    <3>2. g[k] = Append(g[j], 48 + b)
      <4>1. g[k] = E(g)[k]
        BY <1>2
      <4> QED BY <2>2, <4>1
    <3> HIDE DEF j, b, E
    <3>3. g[j] \in Seq(Digit) /\ Numeral(g[j], j)
      BY <1>4, <3>1
    <3> HIDE DEF Holds
    <3>4. Append(g[j], 48 + b) \in Seq(Digit) /\ Numeral(Append(g[j], 48 + b), j * 10 + b)
      <4>1. j \in Nat
        BY <3>1
      <4> QED BY <3>1, <3>3, <4>1, MoreDigits
    <3>5. Append(g[j], 48 + b) # <<>>
      BY <3>4, <3>3, AppendProperties
    <3> QED BY <3>1, <3>2, <3>4, <3>5 DEF Holds
  <2> QED BY <2>1, <2>2
<1>5. n \in Holds
  <2> HIDE DEF Holds
  <2>1. \A k \in 0 .. n : (\A j \in 0 .. k - 1 : j \in Holds) => k \in Holds
    BY <1>4
  <2>2. \A k \in 0 .. n : k \in Holds
    BY <2>1, Induction
  <2> QED BY <2>2
<1>6. g[n] \in Seq(Digit) /\ g[n] # <<>> /\ Numeral(g[n], n)
  BY <1>5
<1> QED BY <1>3, <1>6

LEMMA Strtol ==
  ASSUME NEW t \in Seq(Nat), NEW d \in Seq(Digit), NEW n \in Nat, Numeral(d, n),
         Len(d) <= Len(t), \A i \in 1 .. Len(d) : t[i] = d[i],
         Len(d) < Len(t) => ~isDigit(t[Len(d) + 1])
  PROVE  strtol(t) = n
<1> DEFINE E(f) == [k \in 0 .. Len(t) |-> IF k = 0 THEN 0 ELSE f[k - 1] * 10 + (t[k] - 48)]
           g == CHOOSE f : f = E(f)
           run == {k \in 0 .. Len(t) : \A i \in 1 .. k : isDigit(t[i])}
           parent == [k \in 1 .. Len(t) |-> k - 1]
           step == [kv_ \in (1 .. Len(t)) \X Int |-> kv_[2] * 10 + (t[kv_[1]] - 48)]
<1>1. Len(t) \in Nat /\ Len(d) \in Nat /\ \A k \in 1 .. Len(t) : t[k] \in Nat
  OBVIOUS
<1>2. \E f : f = E(f)
  <2> HIDE DEF E, g, run
  <2>1. \A k \in 1 .. Len(t) : parent[k] \in 0 .. k - 1 /\ parent[k] = k - 1
    BY <1>1
  <2>2. \A k \in 1 .. Len(t) : \A v \in Int :
          step[<<k, v>>] = v * 10 + (t[k] - 48) /\ step[<<k, v>>] \in Int
    <3>1. ASSUME NEW k \in 1 .. Len(t), NEW v \in Int
          PROVE  step[<<k, v>>] = v * 10 + (t[k] - 48)
      OBVIOUS
    <3> HIDE DEF step
    <3>2. ASSUME NEW k \in 1 .. Len(t), NEW v \in Int
          PROVE  step[<<k, v>>] \in Int
      <4>1. t[k] \in Int /\ v * 10 \in Int
        BY <1>1
      <4>2. v * 10 + (t[k] - 48) \in Int
        BY <4>1
      <4> QED BY <3>1, <4>2
    <3> QED BY <3>1, <3>2
  <2> HIDE DEF parent, step
  <2>3. Recursive(Len(t), Int, 0, parent, step)
    BY <2>1, <2>2 DEF Recursive
  <2>4. Solution(Len(t), Int, 0, parent, step) # {}
    BY <1>1, <2>3, Recursion
  <2>5. PICK f \in [0 .. Len(t) -> Int] :
          f[0] = 0 /\ \A k \in 1 .. Len(t) : f[k] = step[<<k, f[parent[k]]>>]
    BY <2>4 DEF Solution
  <2>6. ASSUME NEW k \in 0 .. Len(t)
        PROVE  f[k] = IF k = 0 THEN 0 ELSE f[k - 1] * 10 + (t[k] - 48)
    <3>1. CASE k = 0
      BY <2>5, <3>1
    <3>2. CASE k # 0
      <4>1. k \in 1 .. Len(t) /\ k - 1 \in 0 .. Len(t)
        BY <1>1, <3>2
      <4>2. f[k - 1] \in Int
        BY <2>5, <4>1
      <4>3. f[k] = step[<<k, f[k - 1]>>]
        BY <2>1, <2>5, <4>1
      <4> QED BY <2>2, <3>2, <4>1, <4>2, <4>3
    <3> QED BY <3>1, <3>2
  <2>7. f = E(f)
    BY <2>5, <2>6 DEF E
  <2> QED BY <2>7
<1>3. g = E(g)
  <2> HIDE DEF E
  <2> QED BY <1>2
<1>4. strtol(t) = g[CHOOSE k \in run : \A i \in run : i <= k]
  BY DEF strtol
<1> HIDE DEF g, parent, step
<1>5. (CHOOSE k \in run : \A i \in run : i <= k) = Len(d)
  <2>1. Len(d) \in run
    <3>1. \A i \in 1 .. Len(d) : d[i] \in Digit
      OBVIOUS
    <3> QED BY <1>1, <3>1 DEF isDigit, Digit
  <2>2. ASSUME NEW i \in run PROVE i <= Len(d)
    <3> SUFFICES ASSUME i > Len(d) PROVE FALSE
      BY <1>1
    <3>1. Len(d) + 1 \in 1 .. i /\ Len(d) < Len(t)
      BY <1>1
    <3>2. isDigit(t[Len(d) + 1])
      BY <3>1
    <3> QED BY <3>1, <3>2
  <2>3. \A k \in run : k \in Nat
    BY <1>1
  <2> HIDE DEF run
  <2>4. ASSUME NEW k \in run, \A i \in run : i <= k PROVE k = Len(d)
    BY <1>1, <2>1, <2>2, <2>3, <2>4
  <2> QED BY <2>1, <2>2, <2>4
<1>6. PICK v \in [0 .. Len(d) -> Nat] :
        /\ v[0] = 0
        /\ \A k \in 1 .. Len(d) : v[k] = v[k - 1] * 10 + (d[k] - 48)
        /\ v[Len(d)] = n
  BY DEF Numeral
<1> DEFINE Holds == {k \in 0 .. Len(d) : g[k] = v[k]}
<1>7. ASSUME NEW k \in 0 .. Len(d), \A j \in 0 .. k - 1 : j \in Holds
      PROVE  k \in Holds
  <2>1. g[k] = IF k = 0 THEN 0 ELSE g[k - 1] * 10 + (t[k] - 48)
    <3>1. g[k] = E(g)[k]
      BY <1>3
    <3>2. k \in 0 .. Len(t)
      BY <1>1
    <3> HIDE DEF run, Holds
    <3> QED BY <3>1, <3>2
  <2>2. CASE k = 0
    BY <1>6, <2>1, <2>2
  <2>3. CASE k # 0
    <3>1. k - 1 \in 0 .. k - 1 /\ k \in 1 .. Len(d)
      BY <1>1, <2>3
    <3>2. g[k - 1] = v[k - 1] /\ t[k] = d[k]
      BY <1>7, <3>1
    <3>3. g[k] = v[k]
      BY <1>6, <2>1, <2>3, <3>1, <3>2
    <3> QED BY <3>3
  <2> QED BY <2>2, <2>3
<1>8. Len(d) \in Holds
  <2> HIDE DEF Holds
  <2>1. \A k \in 0 .. Len(d) : (\A j \in 0 .. k - 1 : j \in Holds) => k \in Holds
    BY <1>7
  <2>2. \A k \in 0 .. Len(d) : k \in Holds
    BY <1>1, <2>1, Induction
  <2> QED BY <1>1, <2>2
<1>9. g[Len(d)] = n
  BY <1>6, <1>8
<1> QED BY <1>4, <1>5, <1>9

-----------------------------------------------------------------------------
(***************************************************************************)
(* Texts within texts                                                      *)
(***************************************************************************)
\* What is between the offsets a and b of s, and that s has u at offset a.
Win(s, a, b) == SubSeq(s, a + 1, b)
AtPos(s, a, u) == a + Len(u) <= Len(s) /\ \A i \in 1 .. Len(u) : s[a + i] = u[i]

LEMMA ConcatAssoc ==
  ASSUME NEW s \in Seq(Nat), NEW t \in Seq(Nat), NEW u \in Seq(Nat)
  PROVE  (s \o t) \o u = s \o (t \o u)
BY ConcatAssociative

LEMMA Window ==
  ASSUME NEW X, NEW s \in Seq(X), NEW a \in Nat, NEW b \in a .. Len(s)
  PROVE  /\ Win(s, a, b) \in Seq(X)
         /\ Len(Win(s, a, b)) = b - a
         /\ \A i \in 1 .. b - a : Win(s, a, b)[i] = s[a + i]
<1>1. Len(s) \in Nat /\ a + 1 \in Int /\ b \in Int
  OBVIOUS
<1>2. \A i \in a + 1 .. b : s[i] \in X
  OBVIOUS
<1>3. /\ SubSeq(s, a + 1, b) \in Seq(X)
      /\ Len(SubSeq(s, a + 1, b)) = IF a + 1 <= b THEN b - (a + 1) + 1 ELSE 0
      /\ \A i \in 1 .. b - (a + 1) + 1 : SubSeq(s, a + 1, b)[i] = s[a + 1 + i - 1]
  BY <1>1, <1>2, SubSeqProperties
<1>4. b - (a + 1) + 1 = b - a /\ \A i \in 1 .. b - a : a + 1 + i - 1 = a + i
  OBVIOUS
<1> QED BY <1>3, <1>4 DEF Win

LEMMA WindowEqual ==
  ASSUME NEW X, NEW s \in Seq(X), NEW a \in Nat, NEW u \in Seq(X), AtPos(s, a, u)
  PROVE  Win(s, a, a + Len(u)) = u
<1>1. Len(u) \in Nat /\ a + Len(u) \in a .. Len(s)
  BY DEF AtPos
<1>2. ASSUME NEW b \in a .. Len(s), b = a + Len(u) PROVE Win(s, a, b) = u
  <2>1. /\ Win(s, a, b) \in Seq(X) /\ Len(Win(s, a, b)) = b - a
        /\ \A i \in 1 .. b - a : Win(s, a, b)[i] = s[a + i]
    BY Window
  <2>2. b - a = Len(u)
    BY <1>1, <1>2
  <2> QED BY <2>1, <2>2, SeqEqual DEF AtPos
<1> QED BY <1>1, <1>2

LEMMA AtConcat ==
  ASSUME NEW X, NEW s \in Seq(X), NEW u \in Seq(X)
  PROVE  /\ s \o u \in Seq(X) /\ Len(s \o u) = Len(s) + Len(u)
         /\ AtPos(s \o u, 0, s) /\ AtPos(s \o u, Len(s), u)
<1>1. Len(s) \in Nat /\ Len(u) \in Nat
  OBVIOUS
<1>2. /\ s \o u \in Seq(X)
      /\ Len(s \o u) = Len(s) + Len(u)
      /\ \A i \in 1 .. Len(s) + Len(u) : (s \o u)[i] = IF i <= Len(s) THEN s[i] ELSE u[i - Len(s)]
  BY ConcatProperties
<1>3. \A i \in 1 .. Len(s) : (s \o u)[0 + i] = s[i]
  BY <1>1, <1>2
<1>4. ASSUME NEW i \in 1 .. Len(u) PROVE (s \o u)[Len(s) + i] = u[i]
  <2>1. Len(s) + i \in 1 .. Len(s) + Len(u) /\ ~(Len(s) + i <= Len(s)) /\ Len(s) + i - Len(s) = i
    BY <1>1
  <2> QED BY <1>2, <2>1
<1> QED BY <1>1, <1>2, <1>3, <1>4 DEF AtPos

LEMMA AtWithin ==
  ASSUME NEW X, NEW s \in Seq(X), NEW u \in Seq(X), NEW v \in Seq(X), NEW a \in Nat, NEW b \in Nat,
         AtPos(s, a, u), AtPos(u, b, v)
  PROVE  AtPos(s, a + b, v)
<1>1. Len(s) \in Nat /\ Len(u) \in Nat /\ Len(v) \in Nat
  OBVIOUS
<1>2. ASSUME NEW i \in 1 .. Len(v) PROVE s[a + b + i] = v[i]
  <2>1. b + i \in 1 .. Len(u) /\ a + (b + i) = a + b + i
    BY <1>1 DEF AtPos
  <2> QED BY <2>1 DEF AtPos
<1> QED BY <1>1, <1>2 DEF AtPos

LEMMA FromPos ==
  ASSUME NEW X, NEW s \in Seq(X), NEW a \in Nat, a <= Len(s)
  PROVE  /\ from(s, a) \in Seq(X) /\ Len(from(s, a)) = Len(s) - a
         /\ \A i \in 1 .. Len(s) - a : from(s, a)[i] = s[a + i]
         /\ \A b \in Nat : \A u \in Seq(X) : AtPos(s, a + b, u) <=> AtPos(from(s, a), b, u)
<1>1. Len(s) \in Nat /\ Len(s) \in a .. Len(s) /\ from(s, a) = Win(s, a, Len(s))
  BY DEF from, Win
<1>2. /\ from(s, a) \in Seq(X) /\ Len(from(s, a)) = Len(s) - a
      /\ \A i \in 1 .. Len(s) - a : from(s, a)[i] = s[a + i]
  <2>1. /\ Win(s, a, Len(s)) \in Seq(X) /\ Len(Win(s, a, Len(s))) = Len(s) - a
        /\ \A i \in 1 .. Len(s) - a : Win(s, a, Len(s))[i] = s[a + i]
    <3>1. ASSUME NEW b \in a .. Len(s)
          PROVE  /\ Win(s, a, b) \in Seq(X) /\ Len(Win(s, a, b)) = b - a
                 /\ \A i \in 1 .. b - a : Win(s, a, b)[i] = s[a + i]
      BY Window
    <3> QED BY <1>1, <3>1
  <2> QED BY <1>1, <2>1
<1>3. ASSUME NEW b \in Nat, NEW u \in Seq(X)
      PROVE  AtPos(s, a + b, u) <=> AtPos(from(s, a), b, u)
  <2>1. Len(u) \in Nat /\ (a + b + Len(u) <= Len(s) <=> b + Len(u) <= Len(s) - a)
    BY <1>1
  <2>2. ASSUME b + Len(u) <= Len(s) - a, NEW i \in 1 .. Len(u)
        PROVE  s[a + b + i] = from(s, a)[b + i]
    <3>1. b + i \in 1 .. Len(s) - a /\ a + (b + i) = a + b + i
      BY <1>1, <2>1, <2>2
    <3> QED BY <1>2, <3>1
  <2> QED BY <1>2, <2>1, <2>2 DEF AtPos
<1> QED BY <1>2, <1>3

LEMMA ReadNumber ==
  ASSUME NEW s \in Seq(Nat), NEW a \in Nat, NEW n \in Nat, AtPos(s, a, to_string(n)),
         a + Len(to_string(n)) < Len(s) => ~isDigit(s[a + Len(to_string(n)) + 1])
  PROVE  strtol(from(s, a)) = n
<1> DEFINE d == to_string(n)
           t == from(s, a)
<1>1. d \in Seq(Digit) /\ Numeral(d, n)
  BY NumberText
<1>2. d \in Seq(Nat) /\ Len(d) \in Nat /\ Len(s) \in Nat /\ a <= Len(s)
  <2>1. d \in Seq(Nat)
    <3>1. Digit \subseteq Nat
      BY DEF Digit
    <3> HIDE DEF d, t
    <3> QED BY <1>1, <3>1, SeqMonotonic
  <2> QED BY <2>1 DEF AtPos
<1>3. /\ t \in Seq(Nat) /\ Len(t) = Len(s) - a
      /\ \A i \in 1 .. Len(s) - a : t[i] = s[a + i]
      /\ AtPos(t, 0, d)
  <2>1. AtPos(s, a + 0, d)
    BY DEF AtPos
  <2> QED BY <1>2, <2>1, FromPos
<1>4. Len(d) <= Len(t) /\ \A i \in 1 .. Len(d) : t[i] = d[i]
  BY <1>2, <1>3 DEF AtPos
<1>5. Len(d) < Len(t) => ~isDigit(t[Len(d) + 1])
  <2> SUFFICES ASSUME Len(d) < Len(t) PROVE ~isDigit(t[Len(d) + 1])
    OBVIOUS
  <2>1. Len(d) + 1 \in 1 .. Len(s) - a /\ a + (Len(d) + 1) = a + Len(d) + 1 /\ a + Len(d) < Len(s)
    BY <1>2, <1>3
  <2> HIDE DEF t, d
  <2>2. t[Len(d) + 1] = s[a + Len(d) + 1]
    <3>1. ASSUME NEW j \in 1 .. Len(s) - a, a + j = a + Len(d) + 1
          PROVE  t[j] = s[a + Len(d) + 1]
      <4>1. t[j] = s[a + j]
        BY <1>3
      <4> QED BY <3>1, <4>1
    <3> QED BY <2>1, <3>1
  <2>3. ~isDigit(s[a + Len(d) + 1])
    BY <2>1 DEF d
  <2> QED BY <2>2, <2>3
<1> HIDE DEF d, t
<1>6. strtol(t) = n
  BY <1>1, <1>3, <1>4, <1>5, Strtol
<1> QED BY <1>6 DEF t

-----------------------------------------------------------------------------
(***************************************************************************)
(* RESP                                                                    *)
(***************************************************************************)
\* A label, a number, and the end of the line.
line(c, n) == <<c>> \o to_string(n) \o CRLF

LEMMA NumberBytes ==
  ASSUME NEW n \in Nat
  PROVE  to_string(n) \in Seq(Nat) /\ Len(to_string(n)) \in Nat \ {0}
<1>1. to_string(n) \in Seq(Digit) /\ to_string(n) # <<>>
  BY NumberText
<1>2. Digit \subseteq Nat
  BY DEF Digit
<1> QED BY <1>1, <1>2, SeqMonotonic, EmptySeq

LEMMA LineLayout ==
  ASSUME NEW c \in Nat, NEW n \in Nat
  PROVE  /\ line(c, n) \in Seq(Nat) /\ Len(line(c, n)) = Len(to_string(n)) + 3
         /\ line(c, n)[1] = c
         /\ AtPos(line(c, n), 1, to_string(n))
         /\ line(c, n)[Len(to_string(n)) + 2] = CR
         /\ line(c, n)[Len(to_string(n)) + 3] = LF
<1>1. PICK d \in Seq(Nat) : d = to_string(n) /\ Len(d) \in Nat \ {0}
  BY NumberBytes
<1>2. /\ <<c>> \in Seq(Nat) /\ Len(<<c>>) = 1 /\ <<c>>[1] = c
      /\ CRLF \in Seq(Nat) /\ Len(CRLF) = 2 /\ CRLF[1] = CR /\ CRLF[2] = LF
  BY DEF CRLF, CR, LF
<1>3. PICK h \in Seq(Nat) : /\ h = <<c>> \o d /\ Len(h) = 1 + Len(d)
                            /\ AtPos(h, 0, <<c>>) /\ AtPos(h, 1, d)
  BY <1>1, <1>2, AtConcat
<1>4. PICK g \in Seq(Nat) : /\ g = h \o CRLF /\ Len(g) = Len(h) + 2
                            /\ AtPos(g, 0, h) /\ AtPos(g, Len(h), CRLF)
  BY <1>2, <1>3, AtConcat
<1>5. AtPos(g, 0 + 1, d)
  BY <1>1, <1>3, <1>4, AtWithin
<1>6. g[1] = c
  <2>1. g[0 + 1] = h[1] /\ h[0 + 1] = <<c>>[1]
    BY <1>1, <1>2, <1>3, <1>4 DEF AtPos
  <2> QED BY <1>2, <2>1
<1>7. g[Len(h) + 1] = CR /\ g[Len(h) + 2] = LF
  BY <1>2, <1>4 DEF AtPos
<1>8. line(c, n) = g
  BY <1>1, <1>3, <1>4 DEF line
<1>9. 0 + 1 = 1 /\ Len(h) + 1 = Len(d) + 2 /\ Len(h) + 2 = Len(d) + 3 /\ Len(g) = Len(d) + 3
  BY <1>1, <1>3, <1>4
<1> QED BY <1>1, <1>4, <1>5, <1>6, <1>7, <1>8, <1>9

LEMMA StringLayout ==
  ASSUME NEW x \in Seq(Nat)
  PROVE  /\ getStringMessage(x) \in Seq(Nat)
         /\ Len(getStringMessage(x)) = Len(to_string(Len(x))) + Len(x) + 5
         /\ AtPos(getStringMessage(x), 0, line(DOLLAR, Len(x)))
         /\ AtPos(getStringMessage(x), Len(to_string(Len(x))) + 3, x)
         /\ AtPos(getStringMessage(x), Len(to_string(Len(x))) + 3 + Len(x), CRLF)
<1>1. Len(x) \in Nat /\ DOLLAR \in Nat
  BY DEF DOLLAR
<1>2. CRLF \in Seq(Nat) /\ Len(CRLF) = 2
  BY DEF CRLF, CR, LF
<1>3. Len(to_string(Len(x))) \in Nat
  BY <1>1, NumberBytes
<1>4. PICK h \in Seq(Nat) : h = line(DOLLAR, Len(x)) /\ Len(h) = Len(to_string(Len(x))) + 3
  BY <1>1, LineLayout
<1>5. PICK g \in Seq(Nat) : g = h \o x /\ Len(g) = Len(h) + Len(x) /\ AtPos(g, 0, h) /\ AtPos(g, Len(h), x)
  BY <1>4, AtConcat
<1>6. PICK m \in Seq(Nat) : m = g \o CRLF /\ Len(m) = Len(g) + 2 /\ AtPos(m, 0, g) /\ AtPos(m, Len(g), CRLF)
  BY <1>2, <1>5, AtConcat
<1>7. AtPos(m, 0 + 0, h)
  BY <1>4, <1>5, <1>6, AtWithin
<1>8. AtPos(m, 0 + Len(h), x)
  <2>1. Len(h) \in Nat
    BY <1>4
  <2> QED BY <1>4, <1>5, <1>6, <2>1, AtWithin
<1>9. m = getStringMessage(x)
  BY <1>4, <1>5, <1>6 DEF getStringMessage, line
<1>10. /\ 0 + 0 = 0 /\ 0 + Len(h) = Len(to_string(Len(x))) + 3
       /\ Len(g) = Len(to_string(Len(x))) + 3 + Len(x)
       /\ Len(m) = Len(to_string(Len(x))) + Len(x) + 5
  BY <1>1, <1>3, <1>4, <1>5, <1>6
<1> QED BY <1>4, <1>6, <1>7, <1>8, <1>9, <1>10

\* A string that begins at an offset of a text is read with its length.
LEMMA ParseString ==
  ASSUME NEW s \in Seq(Nat), NEW a \in Nat, NEW x \in Seq(Nat), AtPos(s, a, getStringMessage(x))
  PROVE  parseStringMessage(from(s, a)) = [word |-> x, length |-> Len(getStringMessage(x))]
<1>1. PICK m \in Seq(Nat) : m = getStringMessage(x)
  BY StringLayout
<1>2. PICK k \in Nat : k = Len(to_string(Len(x))) /\ to_string(Len(x)) \in Seq(Nat)
  BY NumberBytes
<1>3. /\ Len(m) = k + Len(x) + 5 /\ AtPos(m, 0, line(DOLLAR, Len(x)))
      /\ AtPos(m, k + 3, x)
  BY <1>1, <1>2, StringLayout
<1>4. Len(x) \in Nat /\ Len(s) \in Nat /\ Len(m) \in Nat /\ AtPos(s, a, m) /\ DOLLAR \in Nat
  BY <1>1 DEF DOLLAR
<1>5. a <= Len(s)
  BY <1>4 DEF AtPos
<1>6. PICK t \in Seq(Nat) : t = from(s, a) /\ AtPos(t, 0, m)
  <2>1. AtPos(s, a + 0, m)
    BY <1>4
  <2> QED BY <1>5, <2>1, FromPos
<1>7. Len(t) \in Nat /\ Len(t) >= Len(m)
  BY <1>4, <1>6 DEF AtPos
<1>8. AtPos(t, k + 3, x)
  <2>1. AtPos(t, 0 + (k + 3), x)
    BY <1>2, <1>3, <1>6, AtWithin
  <2> QED BY <2>1
<1>9. PICK h \in Seq(Nat) : /\ h = line(DOLLAR, Len(x)) /\ Len(h) = k + 3
                            /\ AtPos(h, 1, to_string(Len(x))) /\ h[k + 2] = CR
  <2> DEFINE h == line(DOLLAR, Len(x))
  <2>1. /\ h \in Seq(Nat) /\ Len(h) = Len(to_string(Len(x))) + 3
        /\ AtPos(h, 1, to_string(Len(x))) /\ h[Len(to_string(Len(x))) + 2] = CR
    BY <1>4, LineLayout
  <2> HIDE DEF h
  <2>2. h = line(DOLLAR, Len(x))
    BY DEF h
  <2> QED BY <1>2, <2>1, <2>2
<1>10. AtPos(t, 0, h)
  <2>1. AtPos(t, 0 + 0, h)
    BY <1>3, <1>6, <1>9, AtWithin
  <2> QED BY <2>1
<1>11. AtPos(t, 1, to_string(Len(x))) /\ t[k + 2] = CR
  <2>1. AtPos(t, 0 + 1, to_string(Len(x)))
    BY <1>2, <1>9, <1>10, AtWithin
  <2>2. t[0 + (k + 2)] = h[k + 2]
    BY <1>9, <1>10 DEF AtPos
  <2> QED BY <1>9, <2>1, <2>2
<1>12. strtol(from(t, 1)) = Len(x)
  <2>1. ~isDigit(t[1 + k + 1])
    <3>1. 1 + k + 1 = k + 2
      OBVIOUS
    <3>2. t[1 + k + 1] = CR
      BY <1>11, <3>1
    <3>3. ~isDigit(CR)
      BY DEF isDigit, CR
    <3> QED BY <3>2, <3>3
  <2> QED BY <1>2, <1>4, <1>11, <2>1, ReadNumber
<1>13. Tail(t) = from(t, 1)
  <2>1. t # <<>>
    BY <1>3, <1>4, <1>7
  <2>2. Tail(t) = SubSeq(t, 2, Len(t))
    BY <2>1, TailIsSubSeq
  <2> QED BY <2>2 DEF from
<1>14. SubSeq(t, 3 + k + 1, 3 + k + Len(x)) = x
  <2>1. Win(t, k + 3, k + 3 + Len(x)) = x
    BY <1>2, <1>8, WindowEqual
  <2>2. k + 3 + 1 = 3 + k + 1 /\ k + 3 + Len(x) = 3 + k + Len(x)
    BY <1>4
  <2> QED BY <2>1, <2>2 DEF Win
<1>15. 3 + k + Len(x) + 2 = Len(m)
  BY <1>3, <1>4
<1>16. parseStringMessage(t) = [word |-> x, length |-> Len(m)]
  BY <1>2, <1>12, <1>13, <1>14, <1>15 DEF parseStringMessage
<1> QED BY <1>1, <1>6, <1>16

\* off says where the elements of ss are in their concatenation.
Offsets(ss) ==
    {off \in [0 .. Len(ss) -> Nat] :
        /\ off[0] = 0
        /\ off[Len(ss)] = Len(FlattenSeq(ss))
        /\ \A i \in 1 .. Len(ss) : /\ off[i] = off[i - 1] + Len(ss[i])
                                   /\ AtPos(FlattenSeq(ss), off[i - 1], ss[i])}

LEMMA FlattenLayout ==
  ASSUME NEW ss \in Seq(Seq(Nat))
  PROVE  FlattenSeq(ss) \in Seq(Nat) /\ Offsets(ss) # {}
<1> DEFINE n == Len(ss)
<1>1. n \in Nat /\ \A i \in 1 .. n : ss[i] \in Seq(Nat)
  OBVIOUS
<1>2. CASE n = 0
  <2>1. ss = <<>>
    BY <1>2
  <2>2. FlattenSeq(ss) = <<>>
    BY <2>1 DEF FlattenSeq
  <2> DEFINE off == [i \in 0 .. 0 |-> 0]
  <2>3. off \in [0 .. n -> Nat] /\ off[0] = 0 /\ Len(<<>>) = 0 /\ 1 .. n = {}
    BY <1>2
  <2>4. off \in Offsets(ss)
    BY <1>2, <2>2, <2>3 DEF Offsets
  <2> QED BY <2>2, <2>4
<1>3. CASE n # 0
  <2> DEFINE E(f) == [i \in 1 .. n |-> IF i = 1 THEN ss[i] ELSE f[i - 1] \o ss[i]]
             g == CHOOSE f : f = E(f)
             parent == [k \in 1 .. n |-> k - 1]
             step == [kv_ \in (1 .. n) \X Seq(Nat) |-> kv_[2] \o ss[kv_[1]]]
  <2>1. \E f : f = E(f)
    <3> HIDE DEF E, g
    <3>1. \A k \in 1 .. n : parent[k] \in 0 .. k - 1 /\ parent[k] = k - 1
      BY <1>1
    <3>2. \A k \in 1 .. n : \A v \in Seq(Nat) :
            step[<<k, v>>] = v \o ss[k] /\ step[<<k, v>>] \in Seq(Nat)
      <4>1. ASSUME NEW k \in 1 .. n, NEW v \in Seq(Nat)
            PROVE  step[<<k, v>>] = v \o ss[k] /\ v \o ss[k] \in Seq(Nat)
        BY <1>1, ConcatProperties
      <4> QED BY <4>1
    <3> HIDE DEF parent, step, n
    <3>3. Recursive(n, Seq(Nat), <<>>, parent, step)
      <4>1. <<>> \in Seq(Nat)
        OBVIOUS
      <4> QED BY <3>1, <3>2, <4>1 DEF Recursive
    <3>4. Solution(n, Seq(Nat), <<>>, parent, step) # {}
      BY <1>1, <3>3, Recursion
    <3>5. PICK f \in [0 .. n -> Seq(Nat)] :
            f[0] = <<>> /\ \A k \in 1 .. n : f[k] = step[<<k, f[parent[k]]>>]
      BY <3>4 DEF Solution
    <3>6. ASSUME NEW k \in 1 .. n PROVE f[k] = IF k = 1 THEN ss[k] ELSE f[k - 1] \o ss[k]
      <4>1. k - 1 \in 0 .. n /\ f[k - 1] \in Seq(Nat)
        BY <1>1, <3>5
      <4>2. f[k] = step[<<k, f[k - 1]>>]
        BY <3>1, <3>5
      <4>3. f[k] = f[k - 1] \o ss[k]
        BY <3>2, <4>1, <4>2
      <4>4. k = 1 => f[k - 1] = <<>> /\ <<>> \o ss[k] = ss[k]
        BY <1>1, <3>5, ConcatEmptySeq
      <4> QED BY <4>3, <4>4
    <3> DEFINE h == [i \in 1 .. n |-> f[i]]
    <3>7. ASSUME NEW i \in 1 .. n PROVE h[i] = IF i = 1 THEN ss[i] ELSE h[i - 1] \o ss[i]
      <4>1. i # 1 => i - 1 \in 1 .. n
        BY <1>1
      <4> QED BY <3>6, <4>1
    <3>8. h = E(h)
      BY <3>7 DEF E
    <3> QED BY <3>8
  <2>2. g = E(g)
    <3> HIDE DEF E
    <3> QED BY <2>1
  <2>3. FlattenSeq(ss) = g[n]
    BY <1>3 DEF FlattenSeq
  <2> HIDE DEF g, parent, step
  <2>4. ASSUME NEW i \in 1 .. n PROVE g[i] = IF i = 1 THEN ss[i] ELSE g[i - 1] \o ss[i]
    <3>1. g[i] = E(g)[i]
      BY <2>2
    <3> QED BY <3>1
  <2> DEFINE G == [k \in 0 .. n |-> IF k = 0 THEN <<>> ELSE g[k]]
             Typed == {k \in 0 .. n : G[k] \in Seq(Nat)}
  <2>5. ASSUME NEW k \in 1 .. n, G[k - 1] \in Seq(Nat)
        PROVE  G[k] = G[k - 1] \o ss[k]
    <3>1. G[k] = g[k] /\ G[k - 1] = IF k = 1 THEN <<>> ELSE g[k - 1]
      BY <1>1
    <3>2. <<>> \o ss[k] = ss[k]
      BY <1>1, ConcatEmptySeq
    <3> QED BY <2>4, <3>1, <3>2
  <2>6. \A k \in 0 .. n : G[k] \in Seq(Nat)
    <3>1. ASSUME NEW k \in 0 .. n, \A j \in 0 .. k - 1 : j \in Typed
          PROVE  k \in Typed
      <4>1. CASE k = 0
        BY <1>1, <4>1
      <4>2. CASE k # 0
        <5>1. k - 1 \in 0 .. k - 1 /\ k \in 1 .. n
          BY <1>1, <4>2
        <5>2. G[k - 1] \in Seq(Nat)
          BY <3>1, <5>1
        <5>3. G[k] = G[k - 1] \o ss[k]
          BY <2>5, <5>1, <5>2
        <5> HIDE DEF G
        <5>4. G[k] \in Seq(Nat)
          BY <1>1, <5>1, <5>2, <5>3, ConcatProperties
        <5> QED BY <5>4
      <4> QED BY <4>1, <4>2
    <3> HIDE DEF Typed
    <3>2. \A k \in 0 .. n : (\A j \in 0 .. k - 1 : j \in Typed) => k \in Typed
      BY <3>1
    <3>3. \A k \in 0 .. n : k \in Typed
      BY <1>1, <3>2, Induction
    <3> QED BY <3>3 DEF Typed
  <2>7. G[0] = <<>> /\ G[n] = FlattenSeq(ss) /\ n \in 0 .. n /\ 0 \in 0 .. n
    BY <1>1, <1>3, <2>3
  <2>8. ASSUME NEW k \in 1 .. n
        PROVE  /\ k - 1 \in 0 .. n /\ k \in 0 .. n
               /\ Len(G[k]) = Len(G[k - 1]) + Len(ss[k])
               /\ AtPos(G[k], 0, G[k - 1]) /\ AtPos(G[k], Len(G[k - 1]), ss[k])
    <3>1. k - 1 \in 0 .. n /\ k \in 0 .. n
      BY <1>1
    <3>2. G[k - 1] \in Seq(Nat) /\ ss[k] \in Seq(Nat)
      BY <1>1, <2>6, <3>1
    <3>3. G[k] = G[k - 1] \o ss[k]
      BY <2>5, <3>2
    <3> HIDE DEF G, n
    <3> QED BY <3>1, <3>2, <3>3, AtConcat
  <2> HIDE DEF G
  <2>9. ASSUME NEW i \in 1 .. n
        PROVE  AtPos(G[n], Len(G[i - 1]), ss[i])
    <3> DEFINE Holds == {k \in 0 .. n : k >= i => AtPos(G[k], Len(G[i - 1]), ss[i])}
    <3>1. ASSUME NEW k \in 0 .. n, \A j \in 0 .. k - 1 : j \in Holds
          PROVE  k \in Holds
      <4>1. CASE k < i
        BY <1>1, <4>1
      <4>2. CASE k = i
        BY <2>8, <4>2
      <4>3. CASE k > i
        <5>1. k - 1 \in 0 .. k - 1 /\ k \in 1 .. n /\ k - 1 \in 0 .. n /\ k - 1 >= i
          BY <1>1, <4>3
        <5>2. AtPos(G[k - 1], Len(G[i - 1]), ss[i])
          BY <3>1, <5>1
        <5>3. G[k] \in Seq(Nat) /\ G[k - 1] \in Seq(Nat) /\ ss[i] \in Seq(Nat)
              /\ Len(G[i - 1]) \in Nat
          <6>1. G[i - 1] \in Seq(Nat)
            BY <2>6, <2>8
          <6> QED BY <1>1, <2>6, <5>1, <6>1
        <5>4. AtPos(G[k], 0, G[k - 1])
          BY <2>8, <5>1
        <5> HIDE DEF n
        <5>5. AtPos(G[k], 0 + Len(G[i - 1]), ss[i])
          BY <5>2, <5>3, <5>4, AtWithin
        <5>6. AtPos(G[k], Len(G[i - 1]), ss[i])
          BY <5>3, <5>5
        <5> QED BY <5>6
      <4> QED BY <1>1, <4>1, <4>2, <4>3
    <3> HIDE DEF Holds
    <3>2. \A k \in 0 .. n : (\A j \in 0 .. k - 1 : j \in Holds) => k \in Holds
      BY <3>1
    <3>3. \A k \in 0 .. n : k \in Holds
      BY <1>1, <3>2, Induction
    <3>4. n \in Holds /\ n >= i
      BY <1>1, <2>7, <3>3
    <3> QED BY <3>4 DEF Holds
  <2> DEFINE off == [k \in 0 .. n |-> Len(G[k])]
  <2>10. off \in [0 .. n -> Nat]
    BY <2>6
  <2>11. off[0] = 0 /\ off[n] = Len(FlattenSeq(ss))
    <3>1. Len(<<>>) = 0
      OBVIOUS
    <3> QED BY <2>7, <3>1
  <2>12. ASSUME NEW i \in 1 .. n
         PROVE  off[i] = off[i - 1] + Len(ss[i]) /\ AtPos(FlattenSeq(ss), off[i - 1], ss[i])
    BY <2>7, <2>8, <2>9
  <2>13. off \in Offsets(ss)
    <3> HIDE DEF off
    <3> QED BY <2>10, <2>11, <2>12 DEF Offsets
  <2> QED BY <2>6, <2>7, <2>13
<1> QED BY <1>2, <1>3

\* base says where the strings of an array are in its text.
Bases(ws) ==
    {base \in [0 .. Len(ws) -> Nat] :
        /\ base[0] = Len(to_string(Len(ws))) + 3
        /\ base[Len(ws)] = Len(getRESPArry(ws))
        /\ \A i \in 1 .. Len(ws) : /\ base[i] = base[i - 1] + Len(getStringMessage(ws[i]))
                                   /\ AtPos(getRESPArry(ws), base[i - 1], getStringMessage(ws[i]))}

LEMMA ArrayLayout ==
  ASSUME NEW ws \in Seq(Seq(Nat))
  PROVE  /\ getRESPArry(ws) \in Seq(Nat)
         /\ AtPos(getRESPArry(ws), 0, line(STAR, Len(ws)))
         /\ Bases(ws) # {}
<1> DEFINE ss == [i \in DOMAIN ws |-> getStringMessage(ws[i])]
<1>1. PICK n \in Nat : n = Len(ws) /\ DOMAIN ws = 1 .. n /\ \A i \in 1 .. n : ws[i] \in Seq(Nat)
  OBVIOUS
<1>2. \A i \in 1 .. n : getStringMessage(ws[i]) \in Seq(Nat)
  BY <1>1, StringLayout
<1>3. ss \in Seq(Seq(Nat)) /\ Len(ss) = n /\ \A i \in 1 .. n : ss[i] = getStringMessage(ws[i])
  BY <1>1, <1>2
<1>4. getRESPArry(ws) = line(STAR, n) \o FlattenSeq(ss)
  BY <1>1 DEF getRESPArry, line
<1> HIDE DEF ss
<1>5. PICK f \in Seq(Nat) : f = FlattenSeq(ss)
  BY <1>3, FlattenLayout
<1>6. PICK off \in [0 .. n -> Nat] :
        /\ off[0] = 0 /\ off[n] = Len(f)
        /\ \A i \in 1 .. n : off[i] = off[i - 1] + Len(ss[i]) /\ AtPos(f, off[i - 1], ss[i])
  BY <1>3, <1>5, FlattenLayout DEF Offsets
<1>7. PICK h \in Seq(Nat) : h = line(STAR, n) /\ Len(h) = Len(to_string(n)) + 3
  <2>1. STAR \in Nat
    BY DEF STAR
  <2> QED BY <2>1, LineLayout
<1>8. Len(to_string(n)) \in Nat /\ Len(h) \in Nat /\ Len(f) \in Nat
  <2>1. Len(to_string(n)) \in Nat
    BY NumberBytes
  <2> QED BY <2>1
<1>9. PICK t \in Seq(Nat) : t = h \o f /\ Len(t) = Len(h) + Len(f) /\ AtPos(t, 0, h) /\ AtPos(t, Len(h), f)
  BY AtConcat
<1>10. t = getRESPArry(ws)
  BY <1>4, <1>5, <1>7, <1>9
<1> DEFINE base == [i \in 0 .. n |-> Len(h) + off[i]]
<1>11. base \in [0 .. n -> Nat] /\ base[0] = Len(to_string(n)) + 3 /\ base[n] = Len(t)
  <2>1. /\ 0 \in 0 .. n /\ n \in 0 .. n
        /\ Len(h) + off[0] = Len(to_string(n)) + 3 /\ Len(h) + off[n] = Len(t)
    BY <1>6, <1>7, <1>8, <1>9
  <2>2. \A i \in 0 .. n : Len(h) + off[i] \in Nat
    BY <1>6, <1>8
  <2> QED BY <2>1, <2>2
<1>12. ASSUME NEW i \in 1 .. n
       PROVE  /\ base[i] = base[i - 1] + Len(getStringMessage(ws[i]))
              /\ AtPos(t, base[i - 1], getStringMessage(ws[i]))
  <2>1. /\ off[i - 1] \in Nat /\ off[i] \in Nat /\ base[i] = Len(h) + off[i]
        /\ base[i - 1] = Len(h) + off[i - 1]
    BY <1>6
  <2>2. PICK s \in Seq(Nat) : s = getStringMessage(ws[i]) /\ s = ss[i]
    BY <1>2, <1>3
  <2>3. off[i] = off[i - 1] + Len(s) /\ AtPos(f, off[i - 1], s)
    BY <1>6, <2>2
  <2> HIDE DEF base
  <2>4. AtPos(t, Len(h) + off[i - 1], s)
    BY <1>8, <1>9, <2>1, <2>3, AtWithin
  <2>5. Len(s) \in Nat /\ Len(h) + (off[i - 1] + Len(s)) = Len(h) + off[i - 1] + Len(s)
    BY <1>8, <2>1
  <2> QED BY <2>1, <2>2, <2>3, <2>4, <2>5
<1>13. base \in Bases(ws)
  <2> HIDE DEF base
  <2> QED BY <1>1, <1>10, <1>11, <1>12 DEF Bases
<1> QED BY <1>1, <1>7, <1>9, <1>10, <1>13

\* The number of strings stands in the first line.
LEMMA ReadLine ==
  ASSUME NEW t \in Seq(Nat), NEW c \in Nat, NEW n \in Nat, AtPos(t, 0, line(c, n))
  PROVE  /\ t # <<>> /\ Tail(t) = from(t, 1) /\ strtol(from(t, 1)) = n /\ t[1] = c
         /\ AtPos(t, 1, to_string(n))
         /\ t[Len(to_string(n)) + 2] = CR /\ t[Len(to_string(n)) + 3] = LF
         /\ Len(to_string(n)) + 3 <= Len(t)
<1>1. PICK d \in Seq(Nat) : d = to_string(n) /\ Len(d) \in Nat \ {0}
  BY NumberBytes
<1>2. PICK h \in Seq(Nat) : h = line(c, n)
  BY LineLayout
<1>3. Len(h) = Len(d) + 3 /\ h[1] = c /\ AtPos(h, 1, d) /\ h[Len(d) + 2] = CR /\ h[Len(d) + 3] = LF
  BY <1>1, <1>2, LineLayout
<1>4. Len(t) \in Nat /\ 0 + Len(h) <= Len(t) /\ \A i \in 1 .. Len(h) : t[0 + i] = h[i]
  BY <1>2 DEF AtPos
<1>5. \A i \in 1 .. Len(h) : t[i] = h[i]
  BY <1>4
<1>6. t[1] = c /\ t[Len(d) + 2] = CR /\ t[Len(d) + 3] = LF /\ Len(d) + 3 <= Len(t)
  <2>1. 1 \in 1 .. Len(h) /\ Len(d) + 2 \in 1 .. Len(h) /\ Len(d) + 3 \in 1 .. Len(h)
    BY <1>1, <1>3
  <2>2. Len(d) + 3 <= Len(t)
    BY <1>1, <1>3, <1>4
  <2>3. t[1] = h[1] /\ t[Len(d) + 2] = h[Len(d) + 2] /\ t[Len(d) + 3] = h[Len(d) + 3]
    BY <1>5, <2>1
  <2> QED BY <1>3, <2>2, <2>3
<1>7. AtPos(t, 1, d)
  <2>1. AtPos(t, 0 + 1, d)
    BY <1>2, <1>3, AtWithin
  <2> QED BY <2>1
<1>8. ~isDigit(t[1 + Len(d) + 1])
  <2>1. 1 + Len(d) + 1 = Len(d) + 2
    BY <1>1
  <2>2. ~isDigit(CR)
    BY DEF isDigit, CR
  <2>3. t[1 + Len(d) + 1] = CR
    BY <1>6, <2>1
  <2> QED BY <2>2, <2>3
<1>9. strtol(from(t, 1)) = n
  BY <1>1, <1>7, <1>8, ReadNumber
<1>10. t # <<>>
  BY <1>1, <1>6
<1>11. Tail(t) = from(t, 1)
  BY <1>10, TailIsSubSeq DEF from
<1> QED BY <1>1, <1>6, <1>7, <1>9, <1>10, <1>11

\* An array is read as it was written.
LEMMA ParseArray ==
  ASSUME NEW ws \in Seq(Seq(Nat))
  PROVE  parserRESPArry(getRESPArry(ws)) = ws
<1>1. PICK n \in Nat : n = Len(ws) /\ DOMAIN ws = 1 .. n /\ \A i \in 1 .. n : ws[i] \in Seq(Nat)
  OBVIOUS
<1>2. PICK t \in Seq(Nat) : t = getRESPArry(ws) /\ AtPos(t, 0, line(STAR, n))
  BY <1>1, ArrayLayout
<1>3. PICK base \in [0 .. n -> Nat] :
        /\ base[0] = Len(to_string(n)) + 3
        /\ \A i \in 1 .. n : /\ base[i] = base[i - 1] + Len(getStringMessage(ws[i]))
                             /\ AtPos(t, base[i - 1], getStringMessage(ws[i]))
  BY <1>1, <1>2, ArrayLayout DEF Bases
<1>4. Tail(t) = from(t, 1) /\ strtol(Tail(t)) = n
  <2>1. STAR \in Nat
    BY DEF STAR
  <2>2. Tail(t) = from(t, 1) /\ strtol(from(t, 1)) = n
    BY <1>2, <2>1, ReadLine
  <2> QED BY <2>2
<1>5. ASSUME NEW i \in 1 .. n
      PROVE  /\ base[i - 1] \in Nat
             /\ parseStringMessage(from(t, base[i - 1])).word = ws[i]
             /\ base[i] = base[i - 1] + parseStringMessage(from(t, base[i - 1])).length
  <2>1. base[i - 1] \in Nat /\ AtPos(t, base[i - 1], getStringMessage(ws[i])) /\ ws[i] \in Seq(Nat)
    <3>1. i - 1 \in 0 .. n
      OBVIOUS
    <3> QED BY <1>1, <1>3, <3>1
  <2>2. parseStringMessage(from(t, base[i - 1]))
          = [word |-> ws[i], length |-> Len(getStringMessage(ws[i]))]
    BY <2>1, ParseString
  <2> QED BY <1>3, <2>1, <2>2
<1> DEFINE total == strtol(Tail(t))
           E(f) == [i \in 0 .. total |->
                      IF i = 0 THEN 3 + Len(to_string(total))
                      ELSE f[i - 1] + parseStringMessage(from(t, f[i - 1])).length]
           g == CHOOSE f : f = E(f)
           Holds == {i \in 0 .. n : g[i] = base[i]}
<1>6. base = E(base)
  <2>1. Len(to_string(n)) \in Nat
    BY NumberBytes
  <2>2. ASSUME NEW i \in 0 .. n PROVE base[i] = E(base)[i]
    <3> USE <1>4
    <3>1. CASE i = 0
      BY <1>3, <2>1, <3>1
    <3>2. CASE i # 0
      <4>1. i \in 1 .. n
        BY <3>2
      <4> QED BY <1>5, <3>2, <4>1
    <3> QED BY <3>1, <3>2
  <2> QED BY <1>3, <1>4, <2>2
<1>7. g = E(g)
  <2>1. \E f : f = E(f)
    BY <1>6
  <2> HIDE DEF E
  <2> QED BY <2>1
<1>8. parserRESPArry(t) = [i \in 1 .. n |-> parseStringMessage(from(t, g[i - 1])).word]
  <2>1. parserRESPArry(t) = [i \in 1 .. total |-> parseStringMessage(from(t, g[i - 1])).word]
    BY DEF parserRESPArry
  <2> HIDE DEF total, g
  <2> QED BY <1>4, <2>1 DEF total
<1> HIDE DEF g
<1>9. ASSUME NEW i \in 0 .. n, \A j \in 0 .. i - 1 : j \in Holds
      PROVE  i \in Holds
  <2>1. g[i] = E(g)[i] /\ base[i] = E(base)[i]
    BY <1>6, <1>7
  <2> USE <1>4
  <2>2. CASE i = 0
    BY <2>1, <2>2
  <2>3. CASE i # 0
    <3>1. i - 1 \in 0 .. i - 1
      BY <2>3
    <3>2. g[i - 1] = base[i - 1]
      BY <1>9, <3>1
    <3>3. g[i] = base[i]
      BY <2>1, <2>3, <3>2
    <3> QED BY <3>3
  <2> QED BY <2>2, <2>3
<1>10. \A i \in 0 .. n : g[i] = base[i]
  <2> HIDE DEF Holds
  <2>1. \A i \in 0 .. n : (\A j \in 0 .. i - 1 : j \in Holds) => i \in Holds
    BY <1>9
  <2>2. \A i \in 0 .. n : i \in Holds
    BY <2>1, Induction
  <2> QED BY <2>2 DEF Holds
<1>11. ASSUME NEW i \in 1 .. n PROVE parseStringMessage(from(t, g[i - 1])).word = ws[i]
  <2>1. i - 1 \in 0 .. n
    OBVIOUS
  <2> QED BY <1>5, <1>10, <2>1
<1>12. parserRESPArry(t) = [i \in 1 .. n |-> ws[i]]
  BY <1>8, <1>11
<1>13. [i \in 1 .. n |-> ws[i]] = ws
  BY <1>1
<1> QED BY <1>2, <1>12, <1>13

-----------------------------------------------------------------------------
(***************************************************************************)
(* Tasks                                                                   *)
(***************************************************************************)
LEMMA Find ==
  ASSUME NEW s \in Seq(Nat), NEW u \in Seq(Nat), NEW a \in Nat, AtPos(s, a, u),
         \A b \in 0 .. a - 1 : ~AtPos(s, b, u)
  PROVE  find(s, u) = a + 1
<1> DEFINE at == {i \in 1 .. Len(s) - Len(u) + 1 : SubSeq(s, i, i + Len(u) - 1) = u}
<1>1. Len(s) \in Nat /\ Len(u) \in Nat
  OBVIOUS
<1>2. ASSUME NEW i \in 1 .. Len(s) - Len(u) + 1
      PROVE  SubSeq(s, i, i + Len(u) - 1) = u <=> AtPos(s, i - 1, u)
  <2>1. PICK b \in Nat : b = i - 1
    BY <1>1
  <2>2. b + 1 = i /\ b + Len(u) = i + Len(u) - 1 /\ b + Len(u) <= Len(s) /\ b + Len(u) \in b .. Len(s)
    BY <1>1, <2>1
  <2>3. SubSeq(s, i, i + Len(u) - 1) = Win(s, b, b + Len(u))
    BY <2>2 DEF Win
  <2>4. AtPos(s, b, u) => Win(s, b, b + Len(u)) = u
    BY WindowEqual
  <2>5. ASSUME Win(s, b, b + Len(u)) = u PROVE AtPos(s, b, u)
    <3>1. PICK e \in b .. Len(s) : e = b + Len(u)
      BY <2>2
    <3>2. e - b = Len(u)
      BY <1>1, <3>1
    <3>3. \A k \in 1 .. e - b : Win(s, b, e)[k] = s[b + k]
      BY Window
    <3>4. \A k \in 1 .. Len(u) : s[b + k] = u[k]
      BY <2>5, <3>1, <3>2, <3>3
    <3> QED BY <2>2, <3>4 DEF AtPos
  <2> QED BY <2>1, <2>3, <2>4, <2>5
<1>3. a + 1 \in at
  <2>1. a + 1 \in 1 .. Len(s) - Len(u) + 1
    BY <1>1 DEF AtPos
  <2>2. \A i \in 1 .. Len(s) - Len(u) + 1 : i - 1 = a => i \in at
    BY <1>2
  <2>3. a + 1 - 1 = a
    OBVIOUS
  <2> HIDE DEF at
  <2> QED BY <2>1, <2>2, <2>3
<1>4. ASSUME NEW i \in at PROVE a + 1 <= i
  <2> SUFFICES ASSUME i < a + 1 PROVE FALSE
    BY <1>1
  <2>1. i \in 1 .. Len(s) - Len(u) + 1 /\ i - 1 \in 0 .. a - 1
    BY <1>1
  <2>2. AtPos(s, i - 1, u)
    BY <1>2, <2>1
  <2> QED BY <2>1, <2>2
<1>5. find(s, u) = CHOOSE i \in at : \A j \in at : i <= j
  BY DEF find
<1>6. \A i \in at : i \in Nat
  BY <1>1
<1> HIDE DEF at
<1>7. \A i \in at : (\A j \in at : i <= j) => i = a + 1
  BY <1>3, <1>4, <1>6
<1> QED BY <1>3, <1>4, <1>5, <1>7

\* What the first line says, and where it ends.
LEMMA FirstLine ==
  ASSUME NEW s \in Seq(Nat), NEW c \in Nat, c # CR, NEW n \in Nat, AtPos(s, 0, line(c, n))
  PROVE  /\ number(s, c) = n
         /\ find(s, CRLF) = Len(to_string(n)) + 2
         /\ nextLine(s) = from(s, Len(to_string(n)) + 3)
<1>1. PICK d \in Seq(Nat) : d = to_string(n) /\ Len(d) \in Nat \ {0}
  BY NumberBytes
<1>2. /\ strtol(from(s, 1)) = n /\ s[1] = c /\ AtPos(s, 1, d) /\ s[Len(d) + 2] = CR
      /\ s[Len(d) + 3] = LF /\ Len(d) + 3 <= Len(s)
  BY <1>1, ReadLine
<1>3. find(s, <<c>>) = 1
  <2>1. <<c>> \in Seq(Nat) /\ Len(<<c>>) = 1 /\ <<c>>[1] = c /\ Len(s) \in Nat
    OBVIOUS
  <2>2. AtPos(s, 0, <<c>>)
    <3>1. 0 + 1 <= Len(s) /\ s[0 + 1] = <<c>>[1]
      BY <1>1, <1>2, <2>1
    <3> QED BY <2>1, <3>1 DEF AtPos
  <2>3. find(s, <<c>>) = 0 + 1
    <3>1. \A b \in 0 .. 0 - 1 : ~AtPos(s, b, <<c>>)
      OBVIOUS
    <3> QED BY <2>1, <2>2, <3>1, Find
  <2> QED BY <2>3
<1>4. number(s, c) = n
  BY <1>2, <1>3 DEF number
<1>5. /\ CRLF \in Seq(Nat) /\ Len(CRLF) = 2 /\ CRLF[1] = CR /\ CRLF[2] = LF
  BY DEF CRLF, CR, LF
<1>6. find(s, CRLF) = Len(d) + 2
  <2>1. AtPos(s, Len(d) + 1, CRLF)
    <3>1. Len(d) + 1 + 2 <= Len(s)
      BY <1>1, <1>2
    <3>2. Len(d) + 1 + 1 = Len(d) + 2 /\ Len(d) + 1 + 2 = Len(d) + 3
      BY <1>1
    <3>3. s[Len(d) + 1 + 1] = CRLF[1] /\ s[Len(d) + 1 + 2] = CRLF[2]
      BY <1>2, <1>5, <3>2
    <3> QED BY <1>5, <3>1, <3>3 DEF AtPos
  <2>2. ASSUME NEW b \in 0 .. Len(d) + 1 - 1, AtPos(s, b, CRLF) PROVE FALSE
    <3>1. s[b + 1] = CR
      BY <1>5, <2>2 DEF AtPos
    <3>2. CASE b = 0
      BY <1>2, <3>1, <3>2
    <3>3. CASE b # 0
      <4>1. b \in 1 .. Len(d) /\ 1 + b = b + 1
        BY <1>1, <3>3
      <4>2. s[1 + b] = d[b]
        BY <1>2, <4>1 DEF AtPos
      <4>3. d \in Seq(Digit)
        BY <1>1, NumberText
      <4>4. d[b] \in Digit
        BY <4>1, <4>3
      <4>5. d[b] = CR
        BY <3>1, <4>1, <4>2
      <4> QED BY <4>4, <4>5 DEF Digit, CR
    <3> QED BY <3>2, <3>3
  <2>3. Len(d) + 1 \in Nat
    BY <1>1
  <2>4. find(s, CRLF) = Len(d) + 1 + 1
    BY <1>5, <2>1, <2>2, <2>3, Find
  <2> QED BY <1>1, <2>4
<1>7. nextLine(s) = from(s, Len(d) + 3)
  <2>1. Len(d) + 2 + 1 = Len(d) + 3
    BY <1>1
  <2> QED BY <1>6, <2>1 DEF nextLine
<1> QED BY <1>1, <1>4, <1>6, <1>7

\* The text of a task: two lines, an empty one, and the event.
taskText(id, st, event) == line(TXID, id) \o (line(S, st) \o (CRLF \o event))

\* Three texts, for which joining is associative.
Texts(s, t, u) == s \in Seq(Nat) /\ t \in Seq(Nat) /\ u \in Seq(Nat)
Joined(s, t, u) == (s \o t) \o u = s \o (t \o u)

LEMMA Joining ==
  ASSUME NEW s, NEW t, NEW u, Texts(s, t, u)
  PROVE  Joined(s, t, u)
BY ConcatAssociative DEF Texts, Joined

Regrouped(h, s, d, r, e) ==
    ((((h \o s) \o d) \o r) \o r) \o e = h \o (((s \o d) \o r) \o (r \o e))

LEMMA Regroup ==
  ASSUME NEW h, NEW s, NEW d, NEW r, NEW e, Texts(h, s, d), Texts(h, r, e)
  PROVE  Regrouped(h, s, d, r, e)
<1>0. /\ h \in Seq(Nat) /\ s \in Seq(Nat) /\ d \in Seq(Nat) /\ r \in Seq(Nat)
      /\ e \in Seq(Nat)
  BY DEF Texts
<1>1. PICK hs \in Seq(Nat), sd \in Seq(Nat), re \in Seq(Nat) : hs = h \o s /\ sd = s \o d /\ re = r \o e
  BY <1>0, ConcatProperties
<1>2. PICK sdr \in Seq(Nat), hsd \in Seq(Nat) : sdr = sd \o r /\ hsd = hs \o d
  BY <1>0, ConcatProperties
<1>3. PICK hsdr \in Seq(Nat) : hsdr = hsd \o r
  BY <1>0, ConcatProperties
<1>4. hs \o d = h \o sd
  <2>0. Texts(h, s, d)
    BY <1>0 DEF Texts
  <2>1. Joined(h, s, d)
    BY <2>0, Joining
  <2> QED BY <1>1, <2>1, Zenon DEF Joined
<1>5. hsd \o r = h \o sdr
  <2>0. Texts(h, sd, r)
    BY <1>0 DEF Texts
  <2>1. Joined(h, sd, r)
    BY <2>0, Joining
  <2> QED BY <1>2, <1>4, <2>1, Zenon DEF Joined
<1>6. (hsdr \o r) \o e = hsdr \o re
  <2>0. Texts(hsdr, r, e)
    BY <1>0 DEF Texts
  <2>1. Joined(hsdr, r, e)
    BY <2>0, Joining
  <2> QED BY <1>1, <2>1, Zenon DEF Joined
<1>7. hsdr \o re = h \o (sdr \o re)
  <2>0. Texts(h, sdr, re)
    BY <1>0 DEF Texts
  <2>1. Joined(h, sdr, re)
    BY <2>0, Joining
  <2> QED BY <1>3, <1>5, <2>1, Zenon DEF Joined
<1> QED BY <1>1, <1>2, <1>3, <1>6, <1>7, Zenon DEF Regrouped

LEMMA TaskLayout ==
  ASSUME NEW l, l.ID \in Nat, logState[l.state] \in Nat, eventBytes(l) \in Seq(Nat)
  PROVE  logToStr(l) = taskText(l.ID, logState[l.state], eventBytes(l))
<1>0. TXID \in Nat /\ <<S>> \in Seq(Nat) /\ CRLF \in Seq(Nat)
  BY DEF TXID, S, CRLF, CR, LF
<1>1. PICK h \in Seq(Nat) : h = line(TXID, l.ID)
  BY <1>0, LineLayout
<1>2. PICK d \in Seq(Nat) : d = to_string(logState[l.state])
  BY NumberBytes
<1>3. PICK e \in Seq(Nat) : e = eventBytes(l)
  OBVIOUS
<1>4. PICK s \in Seq(Nat) : s = <<S>>
  BY <1>0
<1>5. PICK r \in Seq(Nat) : r = CRLF
  BY <1>0
<1>6. logToStr(l) = ((((h \o s) \o d) \o r) \o r) \o e
  BY <1>1, <1>2, <1>3, <1>4, <1>5 DEF logToStr, line
<1>7. taskText(l.ID, logState[l.state], eventBytes(l)) = h \o (((s \o d) \o r) \o (r \o e))
  BY <1>1, <1>2, <1>3, <1>4, <1>5 DEF taskText, line
<1>8. ((((h \o s) \o d) \o r) \o r) \o e = h \o (((s \o d) \o r) \o (r \o e))
  <2>1. Texts(h, s, d) /\ Texts(h, r, e)
    BY DEF Texts
  <2>2. Regrouped(h, s, d, r, e)
    BY <2>1, Regroup
  <2> QED BY <2>2 DEF Regrouped
<1> QED BY <1>6, <1>7, <1>8

LEMMA FromConcat ==
  ASSUME NEW s \in Seq(Nat), NEW u \in Seq(Nat)
  PROVE  from(s \o u, Len(s)) = u
<1>1. PICK t \in Seq(Nat) : t = s \o u /\ Len(t) = Len(s) + Len(u) /\ AtPos(t, Len(s), u)
  BY AtConcat
<1>2. Len(s) \in Nat /\ Len(u) \in Nat
  OBVIOUS
<1>3. PICK a \in Nat : a = Len(s) /\ a <= Len(t)
  BY <1>1, <1>2
<1>4. /\ from(t, a) \in Seq(Nat) /\ Len(from(t, a)) = Len(t) - a
      /\ \A i \in 1 .. Len(t) - a : from(t, a)[i] = t[a + i]
  BY <1>3, FromPos
<1>5. \A i \in 1 .. Len(u) : from(t, a)[i] = u[i]
  BY <1>1, <1>2, <1>3, <1>4 DEF AtPos
<1>6. from(t, a) = u
  <2>1. Len(from(t, a)) = Len(u)
    BY <1>1, <1>2, <1>3, <1>4
  <2> QED BY <1>4, <1>5, <2>1, SeqEqual
<1> QED BY <1>1, <1>3, <1>6

LEMMA FromFrom ==
  ASSUME NEW s \in Seq(Nat), NEW a \in Nat, NEW b \in Nat, a + b <= Len(s)
  PROVE  from(s, a + b) = from(from(s, a), b)
<1>1. Len(s) \in Nat /\ a <= Len(s) /\ a + b \in Nat
  OBVIOUS
<1>2. /\ from(s, a) \in Seq(Nat) /\ Len(from(s, a)) = Len(s) - a
      /\ \A i \in 1 .. Len(s) - a : from(s, a)[i] = s[a + i]
  BY <1>1, FromPos
<1>3. /\ from(s, a + b) \in Seq(Nat) /\ Len(from(s, a + b)) = Len(s) - (a + b)
      /\ \A i \in 1 .. Len(s) - (a + b) : from(s, a + b)[i] = s[a + b + i]
  BY <1>1, FromPos
<1>4. PICK u \in Seq(Nat) : u = from(s, a)
  BY <1>2
<1>5. /\ from(u, b) \in Seq(Nat) /\ Len(from(u, b)) = Len(u) - b
      /\ \A i \in 1 .. Len(u) - b : from(u, b)[i] = u[b + i]
  <2>1. b <= Len(u)
    BY <1>1, <1>2, <1>4
  <2> QED BY <2>1, FromPos
<1>6. Len(from(s, a + b)) = Len(from(u, b)) /\ Len(from(u, b)) = Len(s) - (a + b)
  <2>1. Len(u) = Len(s) - a
    BY <1>2, <1>4
  <2>2. (Len(s) - a) - b = Len(s) - (a + b)
    BY <1>1
  <2> QED BY <1>3, <1>5, <2>1, <2>2
<1>7. ASSUME NEW i \in 1 .. Len(s) - (a + b) PROVE from(s, a + b)[i] = from(u, b)[i]
  <2>1. b + i \in 1 .. Len(s) - a /\ i \in 1 .. Len(u) - b /\ a + b + i = a + (b + i)
    <3>1. Len(u) = Len(s) - a
      BY <1>2, <1>4
    <3>2. PICK L : L = Len(s) /\ L \in Nat
      BY <1>1
    <3>3. i \in Nat /\ 1 <= i /\ i <= L - (a + b)
      BY <3>2
    <3>4. b + i \in 1 .. L - a /\ i \in 1 .. (L - a) - b /\ a + b + i = a + (b + i)
      BY <3>2, <3>3
    <3> QED BY <3>1, <3>2, <3>4
  <2>2. u[b + i] = s[a + (b + i)]
    BY <1>2, <1>4, <2>1
  <2> QED BY <1>3, <1>5, <2>1, <2>2
<1>8. from(s, a + b) = from(u, b)
  BY <1>3, <1>5, <1>6, <1>7, SeqEqual
<1> QED BY <1>4, <1>8

\* How the two lines of a task and its event are found again.
TaskParts(t, id, n, e) ==
    /\ t \in Seq(Nat)
    /\ number(t, TXID) = id
    /\ number(nextLine(t), S) = n
    /\ from(nextLine(t), find(nextLine(t), CRLF) + 3) = e

LEMMA ReadParts ==
  ASSUME NEW id \in Nat, NEW n \in Nat, NEW e \in Seq(Nat)
  PROVE  TaskParts(taskText(id, n, e), id, n, e)
<1>1. /\ TXID \in Nat /\ TXID # CR /\ S \in Nat /\ S # CR
      /\ CRLF \in Seq(Nat) /\ Len(CRLF) = 2
  BY DEF TXID, S, CRLF, CR, LF
<1>2. PICK v \in Seq(Nat) : v = CRLF \o e /\ Len(v) = 2 + Len(e)
  <2>1. PICK r \in Seq(Nat) : r = CRLF /\ Len(r) = 2
    BY <1>1
  <2>2. r \o e \in Seq(Nat) /\ Len(r \o e) = Len(r) + Len(e)
    BY AtConcat
  <2> QED BY <2>1, <2>2
<1>3. PICK h \in Seq(Nat) : h = line(S, n) /\ Len(h) = Len(to_string(n)) + 3
  BY <1>1, LineLayout
<1>4. PICK u \in Seq(Nat) : u = h \o v /\ AtPos(u, 0, h) /\ Len(u) = Len(h) + Len(v)
  BY AtConcat
<1>5. PICK g \in Seq(Nat) : g = line(TXID, id) /\ Len(g) = Len(to_string(id)) + 3
  BY <1>1, LineLayout
<1>6. PICK t \in Seq(Nat) : t = g \o u /\ AtPos(t, 0, g)
  BY AtConcat
<1>7. t = taskText(id, n, e)
  BY <1>2, <1>3, <1>4, <1>5, <1>6 DEF taskText
<1>8. number(t, TXID) = id /\ nextLine(t) = from(t, Len(to_string(id)) + 3)
  <2>1. AtPos(t, 0, line(TXID, id))
    BY <1>5, <1>6
  <2> QED BY <1>1, <2>1, FirstLine
<1>9. nextLine(t) = u
  BY <1>5, <1>6, <1>8, FromConcat
<1>10. number(u, S) = n /\ find(u, CRLF) = Len(to_string(n)) + 2
  <2>1. AtPos(u, 0, line(S, n))
    BY <1>3, <1>4
  <2> QED BY <1>1, <2>1, FirstLine
<1>11. Len(to_string(n)) \in Nat
  BY NumberBytes
<1>12. find(u, CRLF) + 3 = Len(h) + 2
  BY <1>3, <1>10, <1>11
<1>13. from(u, Len(h) + 2) = e
  <2>1. from(u, Len(h)) = v
    BY <1>4, FromConcat
  <2>2. from(v, 2) = e
    BY <1>1, <1>2, FromConcat
  <2>3. Len(v) = 2 + Len(e) /\ Len(h) \in Nat /\ Len(e) \in Nat
    BY <1>2
  <2>4. Len(h) + 2 <= Len(u)
    BY <1>4, <2>3
  <2>5. from(u, Len(h) + 2) = from(from(u, Len(h)), 2)
    BY <2>3, <2>4, FromFrom
  <2> QED BY <2>1, <2>2, <2>5
<1> QED BY <1>7, <1>8, <1>9, <1>10, <1>12, <1>13 DEF TaskParts

-----------------------------------------------------------------------------
(***************************************************************************)
(* Words, tasks and replies                                                *)
(***************************************************************************)
LEMMA WordsBack ==
  ASSUME NEW c \in Seq(Word)
  PROVE  /\ spelled(c) \in Seq(Seq(Nat)) /\ Len(spelled(c)) = Len(c)
         /\ \A i \in 1 .. Len(c) : spelled(c)[i] = spell(c[i])
         /\ wordsOf(spelled(c)) = c
<1>1. Len(c) \in Nat /\ DOMAIN c = 1 .. Len(c) /\ \A i \in 1 .. Len(c) : c[i] \in Word
  OBVIOUS
<1>2. \A word \in Word : spell(word) \in Seq(Nat) /\ wordOf(spell(word)) = word
  BY SpellingAssumption DEF wordOf
<1>3. /\ spelled(c) \in Seq(Seq(Nat)) /\ Len(spelled(c)) = Len(c)
      /\ \A i \in 1 .. Len(c) : spelled(c)[i] = spell(c[i])
  BY <1>1, <1>2 DEF spelled
<1>4. DOMAIN spelled(c) = 1 .. Len(c)
  BY <1>1 DEF spelled
<1>5. wordsOf(spelled(c)) = [i \in 1 .. Len(c) |-> wordOf(spelled(c)[i])]
  BY <1>4 DEF wordsOf
<1>6. \A i \in 1 .. Len(c) : wordOf(spelled(c)[i]) = c[i]
  BY <1>1, <1>2, <1>3
<1>7. wordsOf(spelled(c)) = [i \in 1 .. Len(c) |-> c[i]]
  BY <1>5, <1>6
<1>8. [i \in 1 .. Len(c) |-> c[i]] = c
  BY <1>1
<1> QED BY <1>3, <1>7, <1>8

LEMMA CommandText ==
  ASSUME NEW c \in Seq(Word)
  PROVE  /\ commandBytes(c) \in Seq(Nat) /\ commandBytes(c) # <<>>
         /\ wordsOf(parserRESPArry(commandBytes(c))) = c
<1>1. PICK ws \in Seq(Seq(Nat)) : ws = spelled(c) /\ wordsOf(ws) = c
  BY WordsBack
<1>2. PICK t \in Seq(Nat) : t = getRESPArry(ws) /\ AtPos(t, 0, line(STAR, Len(ws)))
  BY ArrayLayout
<1>3. t # <<>>
  BY <1>2, ReadLine DEF STAR
<1>4. commandBytes(c) = t
  BY <1>1, <1>2 DEF commandBytes
<1>5. parserRESPArry(t) = ws
  BY <1>2, ParseArray
<1> QED BY <1>1, <1>3, <1>4, <1>5

\* What goes through strToLog and logToStr unchanged.
SameAgain(l) == logToStr(l) \in Seq(Nat) /\ strToLog(logToStr(l)) = l

LEMMA LogAgain ==
  ASSUME NEW id \in Nat, id # ASK_DATA_TXID, NEW st \in LogState, NEW c \in Seq(Word)
  PROVE  SameAgain(Log(id, st, c))
<1> DEFINE l == Log(id, st, c)
<1>1. l.ID = id /\ l.state = st /\ l.event = c /\ logState[st] \in Nat
  BY DEF Log, logState, LogState
<1>2. eventBytes(l) = IF c = <<>> THEN <<>> ELSE commandBytes(c)
  BY <1>1 DEF eventBytes
<1>3. eventBytes(l) \in Seq(Nat) /\ (eventBytes(l) = <<>> <=> c = <<>>)
  BY <1>2, CommandText
<1> HIDE DEF l
<1>4. PICK e \in Seq(Nat), n \in Nat : e = eventBytes(l) /\ n = logState[st]
  BY <1>1, <1>3
<1>5. logToStr(l) = taskText(id, n, e)
  BY <1>1, <1>3, <1>4, TaskLayout
<1>6. PICK t : t = logToStr(l) /\ TaskParts(t, id, n, e)
  BY <1>4, <1>5, ReadParts
<1>7. (CHOOSE s \in LogState : logState[s] = n) = st
  BY <1>4 DEF LogState, logState
<1>8. (IF e = <<>> THEN <<>> ELSE wordsOf(parserRESPArry(e))) = c
  BY <1>2, <1>3, <1>4, CommandText
<1>9. strToLog(t) = Log(id, st, c)
  BY <1>6, <1>7, <1>8 DEF strToLog, TaskParts
<1> QED BY <1>6, <1>9 DEF SameAgain, TaskParts, l

LEMMA AskAgain ==
  ASSUME NEW tid \in Nat
  PROVE  SameAgain(AskLog(tid))
<1> DEFINE l == AskLog(tid)
<1>1. /\ l.ID = ASK_DATA_TXID /\ ASK_DATA_TXID \in Nat /\ l.asks = tid
      /\ l.state = "COMMIT" /\ logState["COMMIT"] \in Nat
  BY DEF AskLog, ASK_DATA_TXID, logState
<1>2. eventBytes(l) = to_string(tid)
  BY <1>1 DEF eventBytes
<1>3. PICK e \in Seq(Nat), n \in Nat : e = to_string(tid) /\ n = logState["COMMIT"]
  BY <1>1, NumberBytes
<1> HIDE DEF l
<1>4. logToStr(l) = taskText(ASK_DATA_TXID, n, e)
  BY <1>1, <1>2, <1>3, TaskLayout
<1>5. PICK t : t = logToStr(l) /\ TaskParts(t, ASK_DATA_TXID, n, e)
  BY <1>1, <1>4, ReadParts
<1>6. strtol(e) = tid
  <2>1. PICK d \in Seq(Digit) : d = to_string(tid) /\ Numeral(d, tid)
    BY NumberText
  <2>2. Len(d) <= Len(e) /\ Len(e) \in Nat /\ \A i \in 1 .. Len(d) : e[i] = d[i]
    BY <1>3, <2>1
  <2>3. ~ (Len(d) < Len(e))
    BY <1>3, <2>1
  <2> QED BY <2>1, <2>2, <2>3, Strtol
<1>7. strToLog(t) = AskLog(tid)
  BY <1>5, <1>6 DEF strToLog, TaskParts
<1> QED BY <1>5, <1>7 DEF SameAgain, TaskParts, l

-----------------------------------------------------------------------------
(***************************************************************************)
(* Packets                                                                 *)
(***************************************************************************)
LEMMA Quotient ==
  ASSUME NEW n \in Nat, NEW p \in Nat \ {0}
  PROVE  n \div p \in Nat /\ n % p \in 0 .. p - 1 /\ n = p * (n \div p) + (n % p)
OBVIOUS

LEMMA SameRemainder ==
  ASSUME NEW m \in Nat \ {0}, NEW k \in Nat, NEW s \in 0 .. m - 1,
         NEW j \in Nat, NEW r \in 0 .. m - 1, m * k + s = m * j + r
  PROVE  s = r
<1>1. CASE k = j
  BY <1>1
<1>2. CASE k > j
  <2>1. PICK d \in Nat \ {0} : k = j + d
    <3>1. k - j \in Nat \ {0} /\ k = j + (k - j)
      BY <1>2
    <3> QED BY <3>1
  <2>2. m * k = m * j + m * d
    BY <2>1
  <2>3. m * d >= m
    OBVIOUS
  <2>4. m * k \in Int /\ m * j \in Int /\ m * d \in Int
    OBVIOUS
  <2> QED BY <2>2, <2>3, <2>4
<1>3. CASE k < j
  <2>1. PICK d \in Nat \ {0} : j = k + d
    <3>1. j - k \in Nat \ {0} /\ j = k + (j - k)
      BY <1>3
    <3> QED BY <3>1
  <2>2. m * j = m * k + m * d
    BY <2>1
  <2>3. m * d >= m
    OBVIOUS
  <2>4. m * k \in Int /\ m * j \in Int /\ m * d \in Int
    OBVIOUS
  <2> QED BY <2>2, <2>3, <2>4
<1> QED BY <1>1, <1>2, <1>3

LEMMA Remainder ==
  ASSUME NEW m \in Nat \ {0}, NEW k \in Nat, NEW s \in 0 .. m - 1
  PROVE  (m * k + s) % m = s
<1>1. PICK n \in Nat : n = m * k + s
  <2>1. m * k \in Nat
    OBVIOUS
  <2> QED BY <2>1
<1>2. PICK j \in Nat, r \in 0 .. m - 1 : j = n \div m /\ r = n % m /\ n = m * j + r
  BY Quotient
<1>3. s = r
  BY <1>1, <1>2, SameRemainder
<1> QED BY <1>1, <1>2, <1>3

\* One more byte of a number.
LEMMA OneMoreByte ==
  ASSUME NEW n \in Nat, NEW p \in Nat \ {0}
  PROVE  n % (256 * p) = (n % p) + ((n \div p) % 256) * p
<1>1. PICK q \in Nat, r \in 0 .. p - 1 : q = n \div p /\ r = n % p /\ n = p * q + r
  BY Quotient
<1>2. PICK k \in Nat, b \in 0 .. 255 : k = q \div 256 /\ b = q % 256 /\ q = 256 * k + b
  BY Quotient
<1>3. PICK m \in Nat \ {0} : m = 256 * p
  OBVIOUS
<1>4. p * b \in 0 .. 255 * p
  OBVIOUS
<1>5. PICK s \in 0 .. m - 1 : s = r + b * p
  <2>1. b * p = p * b
    OBVIOUS
  <2> QED BY <1>3, <1>4, <2>1
<1>6. n = m * k + s
  <2>1. p * q = p * (256 * k) + p * b
    BY <1>2
  <2>2. p * (256 * k) = m * k
    BY <1>3
  <2>3. p * b = b * p /\ p * b \in Nat /\ m * k \in Nat /\ p * q \in Nat
    OBVIOUS
  <2> QED BY <1>1, <1>5, <2>1, <2>2, <2>3
<1>7. n % m = s
  BY <1>6, Remainder
<1> QED BY <1>1, <1>2, <1>3, <1>5, <1>7
LEMMA Places ==
  /\ place \in [0 .. NumberLen -> Nat \ {0}] /\ place[0] = 1
  /\ \A i \in 1 .. NumberLen : place[i] = 256 * place[i - 1]
<1> DEFINE E(f) == [i \in 0 .. NumberLen |-> IF i = 0 THEN 1 ELSE 256 * f[i - 1]]
           V == Nat \ {0}
           parent == [k \in 1 .. NumberLen |-> k - 1]
           step == [kv1 \in (1 .. NumberLen) \X V |-> 256 * kv1[2]]
<1>1. NumberLen \in Nat
  BY NumberLenAssumption
<1>2. \A k \in 1 .. NumberLen : \A v \in V : step[<<k, v>>] = 256 * v /\ 256 * v \in V
  OBVIOUS
<1>3. \A k \in 1 .. NumberLen : parent[k] = k - 1 /\ k - 1 \in 0 .. k - 1
  BY <1>1
<1>4. Recursive(NumberLen, V, 1, parent, step)
  <2> HIDE DEF parent, step
  <2> QED BY <1>2, <1>3 DEF Recursive
<1>5. PICK f \in [0 .. NumberLen -> V] :
         f[0] = 1 /\ \A k \in 1 .. NumberLen : f[k] = step[<<k, f[parent[k]]>>]
  <2> HIDE DEF V, parent, step
  <2> QED BY <1>1, <1>4, Recursion DEF Solution
<1>6. ASSUME NEW k \in 1 .. NumberLen PROVE f[k] = 256 * f[k - 1]
  <2>1. k - 1 \in 0 .. NumberLen /\ parent[k] = k - 1
    BY <1>1
  <2>2. f[k - 1] \in V
    BY <1>5, <2>1
  <2> HIDE DEF parent, step, V
  <2>3. f[k] = step[<<k, f[k - 1]>>]
    BY <1>5, <2>1
  <2>4. step[<<k, f[k - 1]>>] = 256 * f[k - 1]
    BY <1>2, <2>2
  <2> QED BY <2>3, <2>4
<1>7. f = E(f)
  BY <1>1, <1>5, <1>6
<1>8. place = E(place)
  <2>1. \E g : g = E(g)
    BY <1>7
  <2>2. place = CHOOSE g : g = E(g)
    BY DEF place
  <2> HIDE DEF E
  <2> QED BY <2>1, <2>2
<1>9. /\ DOMAIN place = 0 .. NumberLen /\ place[0] = 1
      /\ \A i \in 1 .. NumberLen : place[i] = 256 * place[i - 1]
  BY <1>1, <1>8
<1> DEFINE Holds == {i \in 0 .. NumberLen : place[i] \in V}
<1>10. ASSUME NEW i \in 0 .. NumberLen, \A j \in 0 .. i - 1 : j \in Holds
       PROVE  i \in Holds
  <2>1. CASE i = 0
    BY <1>9, <2>1
  <2>2. CASE i # 0
    <3>1. i \in 1 .. NumberLen /\ i - 1 \in 0 .. i - 1
      BY <1>1, <2>2
    <3>2. place[i] = 256 * place[i - 1] /\ place[i - 1] \in V
      BY <1>9, <1>10, <3>1
    <3> QED BY <3>2
  <2> QED BY <2>1, <2>2
<1>11. \A i \in 0 .. NumberLen : i \in Holds
  <2> HIDE DEF Holds
  <2> QED BY <1>1, <1>10, Induction
<1>12. place \in [0 .. NumberLen -> V]
  <2>1. place = [i \in 0 .. NumberLen |-> place[i]]
    BY <1>8
  <2> QED BY <1>11, <2>1
<1> QED BY <1>9, <1>12

LEMMA LengthBack ==
  ASSUME NEW n \in Nat, n < place[NumberLen], NEW h,
         \A i \in 1 .. NumberLen : h[i + 1] = numtob(n)[i]
  PROVE  btonum(h) = n
<1> DEFINE E(f) == [i \in 0 .. NumberLen |->
                      IF i = 0 THEN 0 ELSE f[i - 1] + h[i + 1] * place[i - 1]]
           u == [i \in 0 .. NumberLen |-> n % place[i]]
           g == CHOOSE f : f = E(f)
           Holds == {i \in 0 .. NumberLen : g[i] = u[i]}
<1>1. NumberLen \in Nat
  BY NumberLenAssumption
<1>2. \A i \in 0 .. NumberLen : place[i] \in Nat \ {0} /\ u[i] \in Nat /\ u[i] = n % place[i]
  BY Places
<1>3. ASSUME NEW i \in 1 .. NumberLen PROVE u[i] = u[i - 1] + h[i + 1] * place[i - 1]
  <2>1. i - 1 \in 0 .. NumberLen /\ i \in 0 .. NumberLen
    BY <1>1
  <2>2. PICK p \in Nat \ {0} : p = place[i - 1]
    BY <1>2, <2>1
  <2>3. u[i] = n % (256 * p) /\ u[i - 1] = n % p
    BY <1>2, <2>1, <2>2, Places
  <2>4. h[i + 1] = (n \div p) % 256
    BY <2>2 DEF numtob
  <2>5. n % (256 * p) = (n % p) + ((n \div p) % 256) * p
    BY OneMoreByte
  <2> QED BY <2>2, <2>3, <2>4, <2>5
<1>4. u = E(u)
  <2>1. u[0] = 0
    <3>1. n % 1 = 0
      OBVIOUS
    <3> QED BY <1>1, <3>1, Places
  <2>2. ASSUME NEW i \in 0 .. NumberLen PROVE u[i] = E(u)[i]
    <3>1. CASE i = 0
      BY <2>1, <3>1
    <3>2. CASE i # 0
      <4>1. i \in 1 .. NumberLen
        BY <1>1, <3>2
      <4> HIDE DEF u
      <4> QED BY <1>3, <3>2, <4>1
    <3> QED BY <3>1, <3>2
  <2> QED BY <2>2
<1>5. g = E(g)
  <2>1. \E f : f = E(f)
    BY <1>4
  <2> HIDE DEF E
  <2> QED BY <2>1
<1>6. btonum(h) = g[NumberLen]
  BY DEF btonum
<1> HIDE DEF g
<1>7. ASSUME NEW i \in 0 .. NumberLen, \A j \in 0 .. i - 1 : j \in Holds
      PROVE  i \in Holds
  <2>1. g[i] = E(g)[i] /\ u[i] = E(u)[i]
    BY <1>4, <1>5
  <2>2. CASE i = 0
    BY <2>1, <2>2
  <2>3. CASE i # 0
    <3>1. i - 1 \in 0 .. i - 1 /\ i - 1 \in 0 .. NumberLen
      BY <1>1, <2>3
    <3>2. g[i - 1] = u[i - 1]
      BY <1>7, <3>1
    <3> HIDE DEF u
    <3>3. g[i] = u[i]
      BY <2>1, <2>3, <3>2
    <3> QED BY <3>3
  <2> QED BY <2>2, <2>3
<1>8. \A i \in 0 .. NumberLen : i \in Holds
  <2> HIDE DEF Holds
  <2> QED BY <1>1, <1>7, Induction
<1>9. g[NumberLen] = n % place[NumberLen]
  BY <1>1, <1>8
<1>10. n % place[NumberLen] = n
  <2>1. PICK p \in Nat \ {0} : p = place[NumberLen]
    BY <1>1, <1>2
  <2>2. n \in 0 .. p - 1
    BY <2>1
  <2>3. (p * 0 + n) % p = n
    BY <2>2, Remainder
  <2>4. p * 0 + n = n
    OBVIOUS
  <2> QED BY <2>1, <2>3, <2>4
<1> QED BY <1>6, <1>9, <1>10

\* The head of the packet of n bytes.
head(n) == <<TILDE>> \o numtob(n)

LEMMA Heads ==
  ASSUME NEW n \in Nat
  PROVE  /\ head(n) \in Seq(Nat) /\ Len(head(n)) = HeaderLen /\ head(n)[1] = TILDE
         /\ n < place[NumberLen] => btonum(head(n)) = n
<1>1. NumberLen \in Nat
  BY NumberLenAssumption
<1>2. numtob(n) \in Seq(Nat) /\ Len(numtob(n)) = NumberLen
  <2>1. ASSUME NEW i \in 1 .. NumberLen PROVE (n \div place[i - 1]) % 256 \in Nat
    <3>1. PICK p \in Nat \ {0} : p = place[i - 1]
      <4>1. i - 1 \in 0 .. NumberLen
        BY <1>1
      <4> QED BY <4>1, Places
    <3>2. n \div p \in Nat
      BY Quotient
    <3> QED BY <3>1, <3>2
  <2> QED BY <1>1, <2>1 DEF numtob
<1>3. <<TILDE>> \in Seq(Nat) /\ Len(<<TILDE>>) = 1 /\ <<TILDE>>[1] = TILDE
  BY DEF TILDE
<1>4. PICK s \in Seq(Nat), u \in Seq(Nat) : s = <<TILDE>> /\ u = numtob(n)
  BY <1>2, <1>3
<1>5. /\ s \o u \in Seq(Nat) /\ Len(s \o u) = Len(s) + Len(u)
      /\ AtPos(s \o u, 0, s) /\ AtPos(s \o u, Len(s), u)
  BY AtConcat
<1>6. Len(s) = 1 /\ Len(u) = NumberLen
  BY <1>2, <1>3, <1>4
<1>7. /\ head(n) \in Seq(Nat) /\ Len(head(n)) = HeaderLen /\ head(n)[1] = TILDE
      /\ \A i \in 1 .. NumberLen : head(n)[1 + i] = numtob(n)[i]
  <2>1. head(n) = s \o u
    BY <1>4 DEF head
  <2>2. Len(s \o u) = HeaderLen
    BY <1>1, <1>5, <1>6 DEF HeaderLen
  <2>3. (s \o u)[0 + 1] = s[1] /\ \A i \in 1 .. NumberLen : (s \o u)[1 + i] = u[i]
    BY <1>1, <1>5, <1>6 DEF AtPos
  <2>4. 0 + 1 = 1
    OBVIOUS
  <2>5. (s \o u)[1] = TILDE
    BY <1>3, <1>4, <2>3, <2>4
  <2>6. \A i \in 1 .. NumberLen : (s \o u)[1 + i] = numtob(n)[i]
    BY <1>4, <2>3
  <2>7. s \o u \in Seq(Nat)
    BY <1>5
  <2> HIDE DEF head
  <2> QED BY <2>1, <2>2, <2>5, <2>6, <2>7
<1>8. \A i \in 1 .. NumberLen : head(n)[i + 1] = numtob(n)[i]
  <2>1. \A i \in 1 .. NumberLen : 1 + i = i + 1
    OBVIOUS
  <2> QED BY <1>7, <2>1
<1>9. n < place[NumberLen] => btonum(head(n)) = n
  BY <1>8, LengthBack
<1> QED BY <1>7, <1>9

-----------------------------------------------------------------------------
(***************************************************************************)
(* Streams                                                                 *)
(***************************************************************************)
LEMMA Split ==
  ASSUME NEW s \in Seq(Nat), NEW n \in 0 .. Len(s)
  PROVE  /\ first(s, n) \in Seq(Nat) /\ Len(first(s, n)) = n
         /\ rest(s, n) \in Seq(Nat) /\ Len(rest(s, n)) = Len(s) - n
         /\ first(s, n) \o rest(s, n) = s
         /\ Begins(first(s, n), s)
<1>1. n \in Nat /\ n <= Len(s) /\ Len(s) \in Nat
  OBVIOUS
<1>2. /\ first(s, n) \in Seq(Nat) /\ Len(first(s, n)) = n
      /\ \A i \in 1 .. n : first(s, n)[i] = s[i]
  <2>1. n \in 0 .. Len(s) /\ 0 \in Nat
    OBVIOUS
  <2>2. /\ Win(s, 0, n) \in Seq(Nat) /\ Len(Win(s, 0, n)) = n - 0
        /\ \A i \in 1 .. n - 0 : Win(s, 0, n)[i] = s[0 + i]
    BY <2>1, Window
  <2>3. Win(s, 0, n) = first(s, n)
    BY DEF Win, first
  <2>4. n - 0 = n /\ \A i \in 1 .. n : 0 + i = i
    BY <1>1
  <2> QED BY <2>2, <2>3, <2>4
<1>3. /\ rest(s, n) \in Seq(Nat) /\ Len(rest(s, n)) = Len(s) - n
      /\ \A i \in 1 .. Len(s) - n : rest(s, n)[i] = s[n + i]
  <2>1. rest(s, n) = from(s, n)
    BY DEF rest, from
  <2> QED BY <1>1, <2>1, FromPos
<1>4. PICK a \in Seq(Nat), b \in Seq(Nat) : a = first(s, n) /\ b = rest(s, n)
  BY <1>2, <1>3
<1>5. /\ a \o b \in Seq(Nat) /\ Len(a \o b) = Len(a) + Len(b)
      /\ \A i \in 1 .. Len(a) + Len(b) : (a \o b)[i] = IF i <= Len(a) THEN a[i] ELSE b[i - Len(a)]
  BY ConcatProperties
<1>6. Len(a) = n /\ Len(b) = Len(s) - n /\ Len(a \o b) = Len(s)
  BY <1>1, <1>2, <1>3, <1>4, <1>5
<1>7. ASSUME NEW i \in 1 .. Len(s) PROVE (a \o b)[i] = s[i]
  <2>1. CASE i <= n
    BY <1>1, <1>2, <1>4, <1>5, <1>6, <2>1
  <2>2. CASE i > n
    <3>1. i - n \in 1 .. Len(s) - n /\ n + (i - n) = i
      BY <1>1, <2>2
    <3>2. i \in 1 .. Len(a) + Len(b) /\ ~ (i <= Len(a))
      BY <1>1, <1>6, <2>2
    <3>3. (a \o b)[i] = b[i - n]
      BY <1>5, <1>6, <3>2
    <3>4. b[i - n] = s[n + (i - n)]
      BY <1>3, <1>4, <3>1
    <3> QED BY <3>1, <3>3, <3>4
  <2>3. i <= n \/ i > n
    BY <1>1
  <2> QED BY <2>1, <2>2, <2>3
<1>8. a \o b = s
  BY <1>5, <1>6, <1>7, SeqEqual
<1> QED BY <1>1, <1>2, <1>3, <1>4, <1>8 DEF Begins

LEMMA BeginsAll ==
  ASSUME NEW s \in Seq(Nat)
  PROVE  Begins(s, s) /\ Begins(<<>>, s)
<1>1. Len(s) \in Nat /\ Len(<<>>) = 0
  OBVIOUS
<1> QED BY <1>1 DEF Begins

LEMMA BeginsTrans ==
  ASSUME NEW s \in Seq(Nat), NEW t \in Seq(Nat), NEW u \in Seq(Nat), Begins(s, t), Begins(t, u)
  PROVE  Begins(s, u)
<1>1. Len(s) \in Nat /\ Len(t) \in Nat /\ Len(u) \in Nat
  OBVIOUS
<1> QED BY <1>1 DEF Begins

LEMMA BeginsConcat ==
  ASSUME NEW s \in Seq(Nat), NEW t \in Seq(Nat)
  PROVE  Begins(s, s \o t)
<1>1. Len(s) \in Nat /\ Len(t) \in Nat
  OBVIOUS
<1>2. /\ Len(s \o t) = Len(s) + Len(t)
      /\ \A i \in 1 .. Len(s) + Len(t) : (s \o t)[i] = IF i <= Len(s) THEN s[i] ELSE t[i - Len(s)]
  BY ConcatProperties
<1> QED BY <1>1, <1>2 DEF Begins

LEMMA BeginsWhole ==
  ASSUME NEW s \in Seq(Nat), NEW t \in Seq(Nat), Begins(s, t), Len(t) <= Len(s)
  PROVE  s = t
<1>1. Len(s) \in Nat /\ Len(t) \in Nat
  OBVIOUS
<1>2. Len(s) = Len(t) /\ \A i \in 1 .. Len(s) : s[i] = t[i]
  BY <1>1 DEF Begins
<1> QED BY <1>2, SeqEqual

\* Two texts begin in the same way when they go on in the same way.
LEMMA BeginsAfter ==
  ASSUME NEW h \in Seq(Nat), NEW a \in Seq(Nat), NEW b \in Seq(Nat)
  PROVE  Begins(h \o a, h \o b) <=> Begins(a, b)
<1>1. Len(h) \in Nat /\ Len(a) \in Nat /\ Len(b) \in Nat
  OBVIOUS
<1>2. /\ Len(h \o a) = Len(h) + Len(a)
      /\ \A i \in 1 .. Len(h) + Len(a) : (h \o a)[i] = IF i <= Len(h) THEN h[i] ELSE a[i - Len(h)]
  BY ConcatProperties
<1>3. /\ Len(h \o b) = Len(h) + Len(b)
      /\ \A i \in 1 .. Len(h) + Len(b) : (h \o b)[i] = IF i <= Len(h) THEN h[i] ELSE b[i - Len(h)]
  BY ConcatProperties
<1>4. ASSUME Begins(h \o a, h \o b) PROVE Begins(a, b)
  <2>1. Len(a) <= Len(b)
    BY <1>1, <1>2, <1>3, <1>4 DEF Begins
  <2>2. ASSUME NEW i \in 1 .. Len(a) PROVE b[i] = a[i]
    <3>1. PICK j \in 1 .. Len(h) + Len(a) : j = Len(h) + i /\ j > Len(h) /\ j - Len(h) = i
      <4>1. /\ Len(h) + i \in 1 .. Len(h) + Len(a) /\ Len(h) + i > Len(h)
            /\ (Len(h) + i) - Len(h) = i
        BY <1>1
      <4> QED BY <4>1
    <3>2. (h \o a)[j] = a[i]
      BY <1>2, <3>1
    <3>3. (h \o b)[j] = b[i]
      <4>1. j \in 1 .. Len(h) + Len(b)
        BY <1>1, <2>1
      <4>2. (h \o b)[j] = b[j - Len(h)]
        BY <1>1, <1>3, <3>1, <4>1
      <4> QED BY <3>1, <4>2
    <3>4. (h \o b)[j] = (h \o a)[j]
      BY <1>2, <1>4 DEF Begins
    <3> QED BY <3>2, <3>3, <3>4
  <2> QED BY <2>1, <2>2 DEF Begins
<1>5. ASSUME Begins(a, b) PROVE Begins(h \o a, h \o b)
  <2>1. Len(h) + Len(a) <= Len(h) + Len(b)
    BY <1>1, <1>5 DEF Begins
  <2>2. ASSUME NEW i \in 1 .. Len(h) + Len(a) PROVE (h \o b)[i] = (h \o a)[i]
    <3>1. i \in 1 .. Len(h) + Len(b)
      BY <1>1, <2>1
    <3>2. CASE i <= Len(h)
      BY <1>2, <1>3, <3>1, <3>2
    <3>3. CASE i > Len(h)
      <4>1. i - Len(h) \in 1 .. Len(a)
        BY <1>1, <3>3
      <4>2. b[i - Len(h)] = a[i - Len(h)]
        BY <1>5, <4>1 DEF Begins
      <4>3. (h \o b)[i] = b[i - Len(h)] /\ (h \o a)[i] = a[i - Len(h)]
        BY <1>1, <1>2, <1>3, <3>1, <3>3
      <4> QED BY <4>2, <4>3
    <3>4. i <= Len(h) \/ i > Len(h)
      BY <1>1
    <3> QED BY <3>2, <3>3, <3>4
  <2> QED BY <1>2, <1>3, <2>1, <2>2 DEF Begins
<1> QED BY <1>4, <1>5

LEMMA Moves ==
  ASSUME NEW a \in Seq(Nat), NEW s \in Seq(Nat), NEW n \in 0 .. Len(s)
  PROVE  /\ a \o first(s, n) \in Seq(Nat) /\ Len(a \o first(s, n)) = Len(a) + n
         /\ (a \o first(s, n)) \o rest(s, n) = a \o s
         /\ Begins(a \o first(s, n), a \o s)
<1>1. PICK b \in Seq(Nat), c \in Seq(Nat) :
        /\ b = first(s, n) /\ c = rest(s, n) /\ Len(b) = n /\ b \o c = s /\ Begins(b, s)
  BY Split
<1>2. a \o b \in Seq(Nat) /\ Len(a \o b) = Len(a) + Len(b)
  BY ConcatProperties
<1>3. Texts(a, b, c)
  BY DEF Texts
<1>4. (a \o b) \o c = a \o (b \o c)
  <2>1. Joined(a, b, c)
    BY <1>3, Joining
  <2> QED BY <2>1, Zenon DEF Joined
<1>5. Begins(a \o b, a \o s)
  BY <1>1, BeginsAfter
<1> QED BY <1>1, <1>2, <1>4, <1>5

LEMMA PacketHead ==
  ASSUME NEW m \in Seq(Nat)
  PROVE  /\ packet(m) = head(Len(m)) \o m /\ packet(m) \in Seq(Nat)
         /\ Len(packet(m)) = HeaderLen + Len(m)
         /\ HeaderLen \in Nat \ {0}
         /\ packet(m)[1] = TILDE
<1>1. Len(m) \in Nat /\ HeaderLen \in Nat \ {0}
  BY NumberLenAssumption DEF HeaderLen
<1>2. PICK h \in Seq(Nat) : h = head(Len(m)) /\ Len(h) = HeaderLen /\ h[1] = TILDE
  BY <1>1, Heads
<1>3. packet(m) = h \o m
  BY <1>2 DEF packet, head
<1>4. /\ h \o m \in Seq(Nat) /\ Len(h \o m) = Len(h) + Len(m)
      /\ \A i \in 1 .. Len(h) + Len(m) : (h \o m)[i] = IF i <= Len(h) THEN h[i] ELSE m[i - Len(h)]
  BY ConcatProperties
<1>5. (h \o m)[1] = h[1]
  <2>1. 1 \in 1 .. Len(h) + Len(m) /\ 1 <= Len(h)
    BY <1>1, <1>2
  <2> QED BY <1>4, <2>1
<1> QED BY <1>1, <1>2, <1>3, <1>4, <1>5

LEMMA HeadRead ==
  ASSUME NEW m \in Seq(Nat), Len(m) < place[NumberLen], NEW h \in Seq(Nat), NEW a \in Seq(Nat),
         NEW whole \in BOOLEAN, Len(h) = HeaderLen, Carries(whole, h \o a, packet(m))
  PROVE  h[1] = TILDE /\ btonum(h) = Len(m) /\ Carries(whole, a, m)
<1>1. Len(m) \in Nat /\ Len(a) \in Nat /\ HeaderLen \in Nat \ {0}
  BY NumberLenAssumption DEF HeaderLen
<1>2. PICK e \in Seq(Nat) : /\ e = head(Len(m)) /\ Len(e) = HeaderLen /\ e[1] = TILDE
                            /\ btonum(e) = Len(m)
  BY <1>1, Heads
<1>3. packet(m) = e \o m
  BY <1>2, PacketHead
<1>4. /\ h \o a \in Seq(Nat) /\ e \o m \in Seq(Nat)
      /\ Len(h \o a) = Len(h) + Len(a) /\ Len(e \o m) = Len(e) + Len(m)
  BY ConcatProperties
<1>5. Begins(h \o a, e \o m)
  BY <1>3, <1>4, BeginsAll DEF Carries
<1>6. h = e
  <2>1. Begins(h, h \o a) /\ Begins(e, e \o m)
    BY BeginsConcat
  <2>2. Begins(h, e \o m)
    BY <1>4, <1>5, <2>1, BeginsTrans
  <2>3. ASSUME NEW i \in 1 .. Len(h) PROVE h[i] = e[i]
    BY <1>2, <2>1, <2>2 DEF Begins
  <2> QED BY <1>2, <2>3, SeqEqual
<1>7. Begins(a, m)
  BY <1>5, <1>6, BeginsAfter
<1>8. ASSUME whole PROVE a = m
  <2>1. h \o a = h \o m
    BY <1>3, <1>6, <1>8 DEF Carries
  <2>2. Len(a) = Len(m)
    BY <1>1, <1>2, <1>4, <1>6, <2>1
  <2> QED BY <1>1, <1>7, <2>2, BeginsWhole
<1> QED BY <1>2, <1>6, <1>7, <1>8 DEF Carries

LEMMA FromTilde ==
  ASSUME NEW s \in Seq(Nat), s # <<>>, s[1] = TILDE
  PROVE  fromTilde(s) = s
<1> DEFINE at == {i \in DOMAIN s : s[i] = TILDE}
<1>1. Len(s) \in Nat /\ DOMAIN s = 1 .. Len(s) /\ 1 \in 1 .. Len(s)
  OBVIOUS
<1>2. 1 \in at /\ \A i \in at : i \in Int /\ 1 <= i
  BY <1>1
<1>3. Min(at) = 1
  <2> HIDE DEF at
  <2> QED BY <1>2 DEF Min
<1>4. fromTilde(s) = rest(s, Min(at) - 1)
  BY <1>2 DEF fromTilde
<1>5. rest(s, 0) = s
  <2>1. 0 \in 0 .. Len(s)
    BY <1>1
  <2>2. /\ rest(s, 0) = from(s, 0) /\ from(s, 0) \in Seq(Nat) /\ Len(from(s, 0)) = Len(s) - 0
        /\ \A i \in 1 .. Len(s) - 0 : from(s, 0)[i] = s[0 + i]
    <3>1. rest(s, 0) = from(s, 0)
      BY DEF rest, from
    <3>2. 0 \in Nat /\ 0 <= Len(s)
      BY <1>1
    <3> QED BY <3>1, <3>2, FromPos
  <2>3. Len(s) - 0 = Len(s) /\ \A i \in 1 .. Len(s) : 0 + i = i
    BY <1>1
  <2> QED BY <2>2, <2>3, SeqEqual
<1> QED BY <1>3, <1>4, <1>5

LEMMA Pieces ==
  ASSUME NEW s \in Seq(Nat), NEW need \in Int, NEW n \in pieces(s, need)
  PROVE  n \in 1 .. Len(s) /\ n <= need /\ n \in 0 .. Len(s)
BY DEF pieces

LEMMA Torn ==
  ASSUME NEW s \in Seq(Nat), NEW t \in torn(s)
  PROVE  t \in Seq(Nat) /\ Begins(t, s) /\ \E n \in 0 .. Len(s) : t = first(s, n)
BY Split DEF torn

-----------------------------------------------------------------------------
(***************************************************************************)
(* What is sent                                                            *)
(***************************************************************************)
LEMMA CommandWords ==
  ASSUME NEW c \in Command
  PROVE  c \in Seq(Word) /\ c \in Seq(STRING)
<1>1. c \in Seq(STRING)
  BY CommandAssumption
<1>2. \A i \in 1 .. Len(c) : c[i] \in Word
  BY <1>1 DEF Word
<1> QED BY <1>1, <1>2

LEMMA PartialWords ==
  ASSUME NEW b \in PartialCommand
  PROVE  /\ b \in Seq(Word) /\ b \in Seq(STRING)
         /\ Verb(b) = "SET" /\ Len(b) = 3 => b[2] \in Key /\ b[3] \in Value
         /\ Verb(b) = "GET" /\ Len(b) = 2 => b[2] \in Key
<1>0. PICK c \in Command : b \in Beginnings(c)
  BY DEF PartialCommand
<1>1. PICK n \in 0 .. Len(c) : b = SubSeq(c, 1, n)
  BY <1>0 DEF Beginnings
<1>2. /\ c \in Seq(Word) /\ c \in Seq(STRING) /\ Len(c) \in Nat /\ n \in Nat /\ n <= Len(c)
  BY CommandWords
<1>3. b = Win(c, 0, n) /\ n \in 0 .. Len(c) /\ 0 \in Nat /\ n - 0 = n
  BY <1>1, <1>2 DEF Win
<1>x. ASSUME NEW X, c \in Seq(X)
      PROVE  b \in Seq(X) /\ Len(b) = n /\ \A i \in 1 .. n : b[i] = c[0 + i]
  <2>1. /\ Win(c, 0, n) \in Seq(X) /\ Len(Win(c, 0, n)) = n - 0
        /\ \A i \in 1 .. n - 0 : Win(c, 0, n)[i] = c[0 + i]
    BY <1>x, <1>3, Window
  <2> QED BY <1>3, <2>1
<1>4. b \in Seq(Word) /\ Len(b) = n /\ \A i \in 1 .. n : b[i] = c[0 + i]
  BY <1>2, <1>x
<1>5. b \in Seq(STRING)
  BY <1>2, <1>x
<1>6. \A i \in 1 .. n : b[i] = c[i]
  BY <1>2, <1>4
<1>7. b # <<>> => n >= 1 /\ Verb(b) = Verb(c)
  <2>1. b # <<>> => n >= 1 /\ c # <<>>
    BY <1>2, <1>4
  <2>2. n >= 1 => b[1] = c[1]
    BY <1>2, <1>6
  <2> QED BY <2>1, <2>2 DEF Verb
<1>8. b = <<>> => Verb(b) = ""
  BY DEF Verb
<1>9. ASSUME Verb(b) = "SET", Len(b) = 3 PROVE b[2] \in Key /\ b[3] \in Value
  <2>1. b # <<>> /\ n = 3 /\ Len(c) >= 3
    BY <1>2, <1>4, <1>8, <1>9
  <2> QED BY <1>6, <1>7, <1>9, <2>1, CutOffAssumption
<1>10. ASSUME Verb(b) = "GET", Len(b) = 2 PROVE b[2] \in Key
  <2>1. b # <<>> /\ n = 2 /\ Len(c) >= 2
    BY <1>2, <1>4, <1>8, <1>10
  <2> QED BY <1>6, <1>7, <1>10, <2>1, CutOffAssumption
<1> QED BY <1>4, <1>5, <1>9, <1>10

CommandReply ==
    {ErrorReply, OkReply, PreReply} \cup {CountReply(n) : n \in Nat}
        \cup {ValueReply(v) : v \in Value \cup {Nil}}

LEMMA Executed ==
  ASSUME NEW b \in PartialCommand \cup {<<>>}, NEW db \in Database
  PROVE  eventParser(db, b).reply \in CommandReply /\ eventParser(db, b).db \in Database
<1>1. CASE Verb(b) = "DEL"
  <2>1. b \in Seq(STRING)
    <3>1. CASE b \in PartialCommand
      BY <3>1, PartialWords
    <3>2. CASE b = <<>>
      BY <3>2, EmptySeq
    <3> QED BY <3>1, <3>2
  <2>2. IsFiniteSet(DelKeys(b))
    <3>1. IsFiniteSet(2 .. Len(b))
      BY <2>1, FS_Interval
    <3>2. [i \in 2 .. Len(b) |-> b[i]] \in Surjection(2 .. Len(b), DelKeys(b))
      BY DEF Surjection, DelKeys
    <3> QED BY <3>1, <3>2, FS_Surjection
  <2>3. deletedNumber(db, DelKeys(b)) \in Nat
    <3>1. {k \in DelKeys(b) \cap Key : db[k] # Nil} \subseteq DelKeys(b)
      OBVIOUS
    <3>2. IsFiniteSet({k \in DelKeys(b) \cap Key : db[k] # Nil})
      BY <2>2, <3>1, FS_Subset
    <3> QED BY <3>2, FS_CardinalityType DEF deletedNumber
  <2>4. kvDELArry(db, DelKeys(b)) \in Database
    BY DEF kvDELArry, Database
  <2> QED BY <1>1, <2>3, <2>4 DEF eventParser, CommandReply
<1>2. CASE Verb(b) = "SET" /\ Len(b) = 3
  <2>1. b \in PartialCommand
    BY <1>2
  <2>2. b[2] \in Key /\ b[3] \in Value
    BY <1>2, <2>1, PartialWords
  <2>3. kvSET(db, b[2], b[3]) \in Database
    BY <2>2 DEF kvSET, Database
  <2> QED BY <1>2, <2>3 DEF eventParser, CommandReply
<1>3. CASE Verb(b) = "GET" /\ Len(b) = 2
  <2>1. b \in PartialCommand
    BY <1>3
  <2>2. b[2] \in Key
    BY <1>3, <2>1, PartialWords
  <2>3. kvGET(db, b[2]) \in Value \cup {Nil}
    BY <2>2 DEF kvGET, Database
  <2> QED BY <1>3, <2>3 DEF eventParser, CommandReply
<1>4. CASE ~ (Verb(b) = "DEL" \/ (Verb(b) = "SET" /\ Len(b) = 3) \/ (Verb(b) = "GET" /\ Len(b) = 2))
  BY <1>4 DEF eventParser, CommandReply
<1> QED BY <1>1, <1>2, <1>3, <1>4

LEMMA TaskText ==
  ASSUME NEW l \in WireTask
  PROVE  SameAgain(l) /\ Len(logToStr(l)) < place[NumberLen] /\ l # None
<1>1. \A id \in {SUPER_TXID, RECOVERY_TXID} \cup Txid : id \in Nat /\ id # ASK_DATA_TXID
  BY MaxTxidAssumption DEF SUPER_TXID, RECOVERY_TXID, ASK_DATA_TXID, TXID_START, Txid
<1>2. <<>> \in Seq(Word) /\ \A c \in PartialCommand : c \in Seq(Word)
  BY PartialWords
<1>3. ASSUME NEW id \in {SUPER_TXID, RECOVERY_TXID} \cup Txid, NEW st \in LogState,
             NEW c \in Seq(Word)
      PROVE  SameAgain(Log(id, st, c))
  BY <1>1, LogAgain
<1>4. ASSUME NEW tid \in Txid PROVE SameAgain(AskLog(tid))
  BY <1>1, AskAgain
<1>5. SameAgain(l)
  <2>1. CASE l \in Update
    <3>1. PICK tid \in Txid, c \in PartialCommand : l = Log(tid, "COMMIT", c)
      BY <2>1 DEF Update
    <3> QED BY <1>2, <1>3, <3>1 DEF LogState
  <2>2. CASE l \in {Log(SUPER_TXID, "COMMIT", c) : c \in PartialCommand}
    BY <1>2, <1>3, <2>2 DEF LogState
  <2>3. CASE l \in {Log(id, "PRE", <<>>) : id \in {RECOVERY_TXID} \cup Txid}
    BY <1>2, <1>3, <2>3 DEF LogState
  <2>4. CASE l \in {AskLog(tid) : tid \in Txid}
    BY <1>4, <2>4
  <2> QED BY <2>1, <2>2, <2>3, <2>4 DEF WireTask
<1> QED BY <1>5, FitsAssumption, NothingAssumption

LEMMA ReplyText ==
  ASSUME NEW r \in WireReply
  PROVE  replyBytes(r) \in Seq(Nat) /\ Len(replyBytes(r)) < place[NumberLen] /\ r # None
<1>1. replyBytes(r) \in Seq(Nat)
  <2>1. CRLF \in Seq(Nat) /\ <<PLUS, OK>> \in Seq(Nat) /\ <<MINUS, ERROR>> \in Seq(Nat)
    BY DEF CRLF, CR, LF, PLUS, OK, MINUS, ERROR
  <2>2. CASE r \in {PreReply, EmptyReply}
    BY <2>2 DEF PreReply, EmptyReply, replyBytes, PRE
  <2>3. CASE r \in CommandReply
    <3>1. CASE r \in {ErrorReply, OkReply}
      <4>1. getErrorMessage \in Seq(Nat) /\ getSuccessMessage \in Seq(Nat)
        BY <2>1, ConcatProperties DEF getErrorMessage, getSuccessMessage
      <4> QED BY <3>1, <4>1 DEF ErrorReply, OkReply, replyBytes
    <3>2. CASE r = PreReply
      BY <2>2, <3>2
    <3>3. ASSUME NEW n \in Nat, r = CountReply(n) PROVE replyBytes(r) \in Seq(Nat)
      <4>1. line(COLON, n) \in Seq(Nat)
        BY LineLayout DEF COLON
      <4> QED BY <3>3, <4>1 DEF CountReply, replyBytes, getIntergerMessage, line
    <3>4. ASSUME NEW v \in Value \cup {Nil}, r = ValueReply(v) PROVE replyBytes(r) \in Seq(Nat)
      <4>1. spell(v) \in Seq(Nat)
        BY SpellingAssumption
      <4>2. <<spell(v)>> \in Seq(Seq(Nat))
        BY <4>1
      <4>3. getRESPArry(<<spell(v)>>) \in Seq(Nat)
        BY <4>2, ArrayLayout
      <4> QED BY <3>4, <4>3 DEF ValueReply, replyBytes
    <3> QED BY <2>3, <3>1, <3>2, <3>3, <3>4 DEF CommandReply
  <2>4. CASE r \in UNION {Outcome(c) : c \in PartialCommand \cup {<<>>}}
    <3>1. PICK c \in PartialCommand \cup {<<>>} : r \in Outcome(c)
      BY <2>4
    <3>2. r \in CommandReply
      BY <3>1, Executed DEF Outcome, CommandReply
    <3> QED BY <2>3, <3>2
  <2>5. ASSUME NEW tid \in TXID_START - 1 .. MaxTxid, r = TxidReply(tid)
        PROVE  replyBytes(r) \in Seq(Nat)
    <3>1. tid \in Nat
      BY MaxTxidAssumption DEF TXID_START
    <3> QED BY <2>5, <3>1, NumberBytes DEF TxidReply, replyBytes
  <2>6. ASSUME NEW l \in Update, r = LogReply(l)
        PROVE  replyBytes(r) \in Seq(Nat)
    <3>1. logToStr(l) \in Seq(Nat)
      BY TaskText DEF WireTask, SameAgain
    <3> QED BY <2>6, <3>1 DEF LogReply, replyBytes
  <2>7. \/ r \in {PreReply, EmptyReply}
        \/ r \in UNION {Outcome(c) : c \in PartialCommand \cup {<<>>}}
        \/ r \in {TxidReply(tid) : tid \in TXID_START - 1 .. MaxTxid}
        \/ r \in {LogReply(l) : l \in Update}
    BY DEF WireReply
  <2>8. CASE r \in {TxidReply(tid) : tid \in TXID_START - 1 .. MaxTxid}
    BY <2>5, <2>8
  <2>9. CASE r \in {LogReply(l) : l \in Update}
    BY <2>6, <2>9
  <2> QED BY <2>2, <2>4, <2>7, <2>8, <2>9
<1> QED BY <1>1, FitsAssumption, NothingAssumption

-----------------------------------------------------------------------------
(***************************************************************************)
(* The participant's end of a connection, one step at a time.              *)
(***************************************************************************)
LEMMA EmptyConcat ==
  ASSUME NEW s \in Seq(Nat)
  PROVE  <<>> \o s = s /\ s \o <<>> = s
BY ConcatEmptySeq

LEMMA CarriesBegins ==
  ASSUME NEW whole \in BOOLEAN, NEW s \in Seq(Nat), NEW t \in Seq(Nat), Carries(whole, s, t)
  PROVE  Begins(s, t)
BY BeginsAll DEF Carries

LEMMA TaskPacket ==
  ASSUME NEW rq \in WireTask \cup {None}
  PROVE  /\ taskPacket(rq) \in Seq(Nat)
         /\ rq = None => taskPacket(rq) = <<>>
         /\ rq # None => taskPacket(rq) = packet(logToStr(rq))
BY TaskText, PacketHead, EmptySeq DEF taskPacket, SameAgain

LEMMA ReplyPacket ==
  ASSUME NEW rs \in WireReply \cup {None}
  PROVE  /\ replyPacket(rs) \in Seq(Nat)
         /\ rs = None => replyPacket(rs) = <<>>
         /\ rs # None => replyPacket(rs) = packet(replyBytes(rs))
BY ReplyText, PacketHead, EmptySeq DEF replyPacket

\* Nothing was sent, so nothing was read.
LEMMA NothingRead ==
  ASSUME NEW lk, NEW dn, NEW y, ParticipantEnd(lk, dn, y, None)
  PROVE  dn = <<>> /\ y = NewRecv
<1>1. PICK h \in Seq(Nat), c \in Seq(Nat), d \in Seq(Nat) :
        /\ h = y.header /\ c = y.content /\ d = dn
        /\ Carries(lk = "up", h \o (c \o d), <<>>)
  BY TaskPacket DEF ParticipantEnd, RecvType
<1>2. c \o d \in Seq(Nat) /\ h \o (c \o d) \in Seq(Nat) /\ <<>> \in Seq(Nat)
  BY ConcatProperties
<1>3. Begins(h \o (c \o d), <<>>)
  <2>1. (lk = "up") \in BOOLEAN
    OBVIOUS
  <2> QED BY <1>1, <1>2, <2>1, CarriesBegins
<1>4. /\ Len(h \o (c \o d)) = Len(h) + Len(c \o d) /\ Len(c \o d) = Len(c) + Len(d)
  BY <1>2, ConcatProperties
<1>5. Len(h) = 0 /\ Len(c) = 0 /\ Len(d) = 0
  <2>1. Len(h) \in Nat /\ Len(c) \in Nat /\ Len(d) \in Nat
    OBVIOUS
  <2>2. Len(h \o (c \o d)) <= 0
    BY <1>3 DEF Begins
  <2> QED BY <1>4, <2>1, <2>2
<1>6. h = <<>> /\ c = <<>> /\ d = <<>>
  BY <1>5, EmptySeq
<1>7. y.pc = "header"
  <2>1. HeaderLen # 0
    BY NumberLenAssumption DEF HeaderLen
  <2> QED BY <1>1, <1>5, <2>1 DEF ParticipantEnd
<1> QED BY <1>1, <1>6, <1>7 DEF ParticipantEnd, RecvType, NewRecv

LEMMA FreshRecv ==
  ASSUME NEW lk
  PROVE  ParticipantEnd(lk, <<>>, NewRecv, None)
<1>1. <<>> \in Seq(Nat) /\ Len(<<>>) = 0 /\ <<>> \o (<<>> \o <<>>) = <<>>
  OBVIOUS
<1>2. Carries(lk = "up", <<>> \o (<<>> \o <<>>), taskPacket(None))
  BY <1>1, TaskPacket, BeginsAll DEF Carries
<1>3. HeaderLen \in Nat /\ HeaderLen > 0
  BY NumberLenAssumption DEF HeaderLen
<1> QED BY <1>1, <1>2, <1>3 DEF ParticipantEnd, NewRecv, RecvType

LEMMA TaskSent ==
  ASSUME NEW dn, NEW y, ParticipantEnd("up", dn, y, None), NEW l \in WireTask
  PROVE  ParticipantEnd("up", dn \o packet(logToStr(l)), y, l)
<1>1. dn = <<>> /\ y = NewRecv
  BY NothingRead
<1>2. PICK s \in Seq(Nat) : s = packet(logToStr(l)) /\ s = taskPacket(l)
  BY TaskText, TaskPacket
<1>3. <<>> \o s = s
  BY EmptyConcat
<1>4. Carries("up" = "up", <<>> \o (<<>> \o s), taskPacket(l))
  BY <1>2, <1>3 DEF Carries
<1>5. HeaderLen \in Nat /\ HeaderLen > 0 /\ Len(<<>>) = 0 /\ <<>> \in Seq(Nat)
  BY NumberLenAssumption DEF HeaderLen
<1> QED BY <1>1, <1>2, <1>3, <1>4, <1>5 DEF ParticipantEnd, NewRecv, RecvType

\* The text of the task that is being read.
LEMMA TaskOnWay ==
  ASSUME NEW lk, NEW dn, NEW y, NEW rq, ParticipantEnd(lk, dn, y, rq),
         dn # <<>> \/ y # NewRecv
  PROVE  /\ rq \in WireTask /\ logToStr(rq) \in Seq(Nat) /\ Len(logToStr(rq)) < place[NumberLen]
         /\ Carries(lk = "up", y.header \o (y.content \o dn), packet(logToStr(rq)))
<1>1. rq # None
  BY NothingRead
<1>2. rq \in WireTask
  BY <1>1 DEF ParticipantEnd
<1> QED BY <1>1, <1>2, TaskText, TaskPacket DEF ParticipantEnd, SameAgain

LEMMA Executable ==
  ASSUME NEW lk, NEW dn, NEW y, NEW rq, ParticipantEnd(lk, dn, y, rq), y.pc = "work"
  PROVE  rq \in WireTask /\ strToLog(y.content) = rq /\ dn = <<>>
<1>1. y # NewRecv
  BY DEF NewRecv
<1>2. PICK m \in Seq(Nat) : /\ m = logToStr(rq) /\ Len(m) < place[NumberLen] /\ rq \in WireTask
                            /\ Carries(lk = "up", y.header \o (y.content \o dn), packet(m))
  BY <1>1, TaskOnWay
<1>3. PICK h \in Seq(Nat), c \in Seq(Nat), d \in Seq(Nat) :
        /\ h = y.header /\ c = y.content /\ d = dn /\ Len(h) = HeaderLen /\ Len(c) = btonum(h)
  BY DEF ParticipantEnd, RecvType
<1>4. PICK a \in Seq(Nat) : a = c \o d /\ Len(a) = Len(c) + Len(d)
  BY ConcatProperties
<1>5. (lk = "up") \in BOOLEAN
  OBVIOUS
<1>6. btonum(h) = Len(m) /\ Carries(lk = "up", a, m)
  BY <1>2, <1>3, <1>4, <1>5, HeadRead
<1>7. Begins(a, m) /\ Begins(c, a)
  BY <1>4, <1>5, <1>6, CarriesBegins, BeginsConcat
<1>8. c = m /\ d = <<>>
  <2>1. Begins(c, m)
    BY <1>7, BeginsTrans
  <2>2. c = m
    BY <1>3, <1>6, <2>1, BeginsWhole
  <2>3. Len(d) = 0
    <3>1. Len(a) <= Len(m) /\ Len(d) \in Nat /\ Len(m) \in Nat
      BY <1>7 DEF Begins
    <3> QED BY <1>4, <2>2, <3>1
  <2> QED BY <2>2, <2>3, EmptySeq
<1> QED BY <1>2, <1>3, <1>8, TaskText DEF SameAgain

\* A piece of the header, and a piece of the content.
headPiece(y, bytes) ==
    LET header == extended(y.header, bytes)
    IN  [y EXCEPT !.header = header,
                  !.pc = IF Len(header) # HeaderLen THEN "header"
                         ELSE IF btonum(header) = 0 THEN "work" ELSE "content"]

LEMMA HeaderPiece ==
  ASSUME NEW lk, NEW dn, NEW y, NEW rq, ParticipantEnd(lk, dn, y, rq), y.pc = "header",
         NEW n \in pieces(dn, HeaderLen - Len(y.header))
  PROVE  ParticipantEnd(lk, rest(dn, n), headPiece(y, first(dn, n)), rq)
<1>1. PICK h \in Seq(Nat), d \in Seq(Nat) :
        /\ h = y.header /\ d = dn /\ Len(h) < HeaderLen /\ y.content = <<>> /\ y \in RecvType
  BY DEF ParticipantEnd, RecvType
<1>2. HeaderLen \in Nat \ {0} /\ Len(h) \in Nat /\ (lk = "up") \in BOOLEAN
  BY NumberLenAssumption DEF HeaderLen
<1>3. n \in 1 .. Len(d) /\ n <= HeaderLen - Len(h) /\ n \in 0 .. Len(d)
  BY <1>1, <1>2, Pieces
<1>4. PICK f \in Seq(Nat), t \in Seq(Nat) :
        /\ f = first(d, n) /\ t = rest(d, n) /\ Len(f) = n /\ f \o t = d /\ Begins(f, d)
  BY <1>3, Split
<1>5. /\ h \o f \in Seq(Nat) /\ Len(h \o f) = Len(h) + n /\ (h \o f) \o t = h \o d
  BY <1>3, <1>4, Moves
<1>6. d # <<>> /\ f # <<>>
  BY <1>3, <1>4
<1>7. PICK m \in Seq(Nat) : /\ m = logToStr(rq) /\ Len(m) < place[NumberLen] /\ rq \in WireTask
                            /\ Carries(lk = "up", h \o (<<>> \o d), packet(m))
  <2>1. dn # <<>>
    BY <1>1, <1>6
  <2>2. /\ rq \in WireTask /\ logToStr(rq) \in Seq(Nat) /\ Len(logToStr(rq)) < place[NumberLen]
        /\ Carries(lk = "up", y.header \o (y.content \o dn), packet(logToStr(rq)))
    BY <2>1, TaskOnWay
  <2> QED BY <1>1, <2>2
<1>8. Carries(lk = "up", h \o d, packet(m))
  BY <1>7, EmptyConcat
<1>9. packet(m) \in Seq(Nat) /\ packet(m)[1] = TILDE /\ taskPacket(rq) = packet(m) /\ Len(m) \in Nat
  <2>1. rq # None
    BY <1>7, TaskText
  <2>2. taskPacket(rq) = packet(m)
    BY <1>7, <2>1 DEF taskPacket
  <2>3. packet(m) \in Seq(Nat) /\ packet(m)[1] = TILDE
    BY PacketHead
  <2>4. Len(m) \in Nat
    OBVIOUS
  <2> QED BY <2>2, <2>3, <2>4
<1>10. extended(h, f) = h \o f
  <2>1. CASE h = <<>>
    <3>1. <<>> \o d = d /\ <<>> \o f = f
      BY EmptyConcat
    <3>2. Begins(d, packet(m))
      BY <1>2, <1>8, <1>9, <2>1, <3>1, CarriesBegins
    <3>3. Begins(f, packet(m))
      BY <1>4, <1>9, <3>2, BeginsTrans
    <3>4. f[1] = TILDE
      <4>1. 1 \in 1 .. Len(f)
        BY <1>3, <1>4
      <4> QED BY <1>9, <3>3, <4>1 DEF Begins
    <3>5. fromTilde(f) = f
      BY <1>6, <3>4, FromTilde
    <3> QED BY <2>1, <3>1, <3>5 DEF extended
  <2>2. CASE h # <<>>
    BY <2>2 DEF extended
  <2> QED BY <2>1, <2>2
<1>11. PICK g \in Seq(Nat) : g = h \o f
  BY <1>5
<1>12. PICK z : z = headPiece(y, f)
  OBVIOUS
<1>13. /\ z \in RecvType /\ z.header = g /\ z.content = <<>>
       /\ z.pc = IF Len(g) # HeaderLen THEN "header" ELSE IF btonum(g) = 0 THEN "work" ELSE "content"
  BY <1>1, <1>10, <1>11, <1>12 DEF headPiece, RecvType
<1>14. Carries(lk = "up", g \o (<<>> \o t), taskPacket(rq)) /\ Carries(lk = "up", g \o t, packet(m))
  BY <1>5, <1>8, <1>9, <1>11, EmptyConcat
<1>15. Len(g) <= HeaderLen
  BY <1>2, <1>3, <1>5, <1>11
<1>16. Len(g) = HeaderLen => btonum(g) = Len(m)
  BY <1>2, <1>7, <1>14, HeadRead
<1>17. lk \notin {"down", "listen"}
  BY <1>7, TaskText DEF ParticipantEnd
<1>18. Len(<<>>) = 0
  OBVIOUS
<1>19. ParticipantEnd(lk, t, z, rq)
  BY <1>2, <1>7, <1>9, <1>13, <1>14, <1>15, <1>16, <1>17, <1>18 DEF ParticipantEnd
<1> QED BY <1>1, <1>4, <1>12, <1>19

contentPiece(y, bytes, last) ==
    [y EXCEPT !.content = @ \o bytes, !.pc = IF last THEN "work" ELSE "content"]

LEMMA ContentPiece ==
  ASSUME NEW lk, NEW dn, NEW y, NEW rq, ParticipantEnd(lk, dn, y, rq), y.pc = "content",
         NEW need, need = btonum(y.header) - Len(y.content), NEW n \in pieces(dn, need)
  PROVE  ParticipantEnd(lk, rest(dn, n), contentPiece(y, first(dn, n), n = need), rq)
<1>1. PICK h \in Seq(Nat), c \in Seq(Nat), d \in Seq(Nat) :
        /\ h = y.header /\ c = y.content /\ d = dn /\ y \in RecvType /\ Len(h) = HeaderLen
        /\ Len(c) < btonum(h)
  BY DEF ParticipantEnd, RecvType
<1>2. Len(c) \in Nat /\ (lk = "up") \in BOOLEAN
  OBVIOUS
<1>3. y # NewRecv
  BY DEF NewRecv
<1>4. PICK m \in Seq(Nat) : /\ m = logToStr(rq) /\ Len(m) < place[NumberLen] /\ rq \in WireTask
                            /\ Carries(lk = "up", h \o (c \o d), packet(m))
  BY <1>1, <1>3, TaskOnWay
<1>5. btonum(h) = Len(m) /\ Len(m) \in Nat
  <2>1. PICK a \in Seq(Nat) : a = c \o d
    BY ConcatProperties
  <2>2. Carries(lk = "up", h \o a, packet(m))
    BY <1>4, <2>1
  <2>3. btonum(h) = Len(m)
    BY <1>1, <1>2, <1>4, <2>2, HeadRead
  <2> QED BY <2>3
<1>6. n \in 1 .. Len(d) /\ n <= need /\ n \in 0 .. Len(d) /\ need = Len(m) - Len(c)
  <2>1. need \in Int /\ need = Len(m) - Len(c)
    BY <1>1, <1>2, <1>5
  <2> QED BY <1>1, <2>1, Pieces
<1>7. PICK f \in Seq(Nat), t \in Seq(Nat) : f = first(d, n) /\ t = rest(d, n)
  BY <1>6, Split
<1>8. PICK g \in Seq(Nat) : g = c \o f /\ Len(g) = Len(c) + n /\ g \o t = c \o d
  BY <1>6, <1>7, Moves
<1>9. PICK z : z = contentPiece(y, f, n = need)
  OBVIOUS
<1>10. /\ z \in RecvType /\ z.header = h /\ z.content = g
       /\ z.pc = IF n = need THEN "work" ELSE "content"
  BY <1>1, <1>8, <1>9 DEF contentPiece, RecvType
<1>11. Carries(lk = "up", h \o (g \o t), taskPacket(rq))
  BY <1>4, <1>8, TaskText DEF taskPacket
<1>12. (n = need => Len(g) = btonum(h)) /\ (n # need => Len(g) < btonum(h))
  <2>1. n \in Int /\ Len(c) \in Int /\ Len(m) \in Int
    BY <1>2, <1>5, <1>6
  <2>2. Len(g) = Len(c) + n /\ n <= Len(m) - Len(c) /\ need = Len(m) - Len(c)
    BY <1>6, <1>8
  <2> QED BY <1>5, <2>1, <2>2
<1>13. lk \notin {"down", "listen"}
  BY <1>4, TaskText DEF ParticipantEnd
<1>14. ParticipantEnd(lk, t, z, rq)
  BY <1>1, <1>4, <1>10, <1>11, <1>12, <1>13 DEF ParticipantEnd
<1> QED BY <1>1, <1>7, <1>9, <1>14

\* The coordinator's end is closed.
LEMMA TaskCut ==
  ASSUME NEW lk, NEW dn, NEW y, NEW rq, ParticipantEnd(lk, dn, y, rq), NEW b \in torn(dn)
  PROVE  ParticipantEnd(IF lk = "up" THEN "half" ELSE lk, b, y, rq)
<1>1. PICK h \in Seq(Nat), c \in Seq(Nat), d \in Seq(Nat), p \in Seq(Nat) :
        /\ h = y.header /\ c = y.content /\ d = dn /\ p = taskPacket(rq)
        /\ Carries(lk = "up", h \o (c \o d), p)
  BY TaskPacket DEF ParticipantEnd, RecvType
<1>2. b \in Seq(Nat) /\ Begins(b, d)
  BY <1>1, Torn
<1>3. c \o b \in Seq(Nat) /\ c \o d \in Seq(Nat)
  BY <1>2, ConcatProperties
<1>4. Begins(c \o b, c \o d)
  BY <1>2, BeginsAfter
<1>5. Begins(h \o (c \o b), h \o (c \o d))
  BY <1>3, <1>4, BeginsAfter
<1>6. h \o (c \o b) \in Seq(Nat) /\ h \o (c \o d) \in Seq(Nat)
  BY <1>3, ConcatProperties
<1>7. Begins(h \o (c \o d), p)
  <2>1. (lk = "up") \in BOOLEAN
    OBVIOUS
  <2> QED BY <1>1, <1>6, <2>1, CarriesBegins
<1>8. Begins(h \o (c \o b), p)
  BY <1>5, <1>6, <1>7, BeginsTrans
<1>9. Carries(FALSE, h \o (c \o b), p)
  BY <1>8 DEF Carries
<1>10. PICK k : k = (IF lk = "up" THEN "half" ELSE lk) /\ (k = "up") = FALSE
  OBVIOUS
<1>11. ParticipantEnd(k, b, y, rq)
  BY <1>1, <1>2, <1>9, <1>10 DEF ParticipantEnd
<1> QED BY <1>10, <1>11

-----------------------------------------------------------------------------
(***************************************************************************)
(* The coordinator's end of a connection, one step at a time.              *)
(***************************************************************************)
\* The reply that is being read.
LEMMA ReplyOnWay ==
  ASSUME NEW whole \in BOOLEAN, NEW s \in Seq(Nat), s # <<>>,
         NEW rs \in WireReply \cup {None}, Carries(whole, s, replyPacket(rs))
  PROVE  /\ rs \in WireReply /\ replyBytes(rs) \in Seq(Nat)
         /\ Len(replyBytes(rs)) < place[NumberLen]
         /\ Carries(whole, s, packet(replyBytes(rs)))
<1>1. rs # None
  <2> SUFFICES ASSUME rs = None PROVE FALSE
    OBVIOUS
  <2>1. replyPacket(rs) = <<>> /\ <<>> \in Seq(Nat)
    BY ReplyPacket
  <2>2. Begins(s, <<>>)
    BY <2>1, CarriesBegins
  <2>3. Len(s) <= 0 /\ Len(s) \in Nat
    BY <2>2 DEF Begins
  <2> QED BY <2>3, EmptySeq
<1> QED BY <1>1, ReplyText, ReplyPacket

\* z is what RecvHeader makes of x with n bytes more.
headerNeed(x) == HeaderLen - Len(x.header) - Len(x.part)
HeaderTaken(x, u, n, z) ==
    LET y == [x EXCEPT !.part = @ \o first(u, n)]
    IN  z = IF n = headerNeed(x) THEN headerRead(y) ELSE y

LEMMA ReplyHeader ==
  ASSUME NEW lk, NEW u, NEW x, NEW rq, NEW rs, CoordinatorEnd(lk, u, x, rq, rs), x.pc = "header",
         NEW n \in pieces(u, headerNeed(x)), NEW z, HeaderTaken(x, u, n, z)
  PROVE  /\ CoordinatorEnd(lk, rest(u, n), z, rq, IF z.pc = "done" THEN None ELSE rs)
         /\ z.pc \in {"header", "content", "done"} /\ z.rc = "OK" /\ rs \in WireReply
         /\ z.pc = "done" => z.rmsg = replyBytes(rs)
<1> PICK need, y : /\ need = HeaderLen - Len(x.header) - Len(x.part) /\ n \in pieces(u, need)
                   /\ y = [x EXCEPT !.part = @ \o first(u, n)]
                   /\ z = IF n = need THEN headerRead(y) ELSE y
  BY DEF HeaderTaken, headerNeed
<1>1. PICK a \in Seq(Nat), v \in Seq(Nat) :
        /\ a = x.part /\ v = u /\ Len(a) < HeaderLen /\ x \in CallType
        /\ x.header = <<>> /\ x.rmsg = <<>> /\ x.rc = "OK"
        /\ Carries(lk = "up", a \o v, replyPacket(rs))
  <2>1. x \in CallType /\ u \in Seq(Nat)
    BY DEF CoordinatorEnd
  <2>2. x.part \in Seq(Nat)
    BY <2>1 DEF CallType
  <2>3. /\ Len(x.part) < HeaderLen /\ x.header = <<>> /\ x.rmsg = <<>> /\ x.rc = "OK"
        /\ Carries(lk = "up", x.part \o u, replyPacket(rs))
    BY DEF CoordinatorEnd, reading
  <2> QED BY <2>1, <2>2, <2>3
<1>2. HeaderLen \in Nat \ {0} /\ Len(a) \in Nat /\ (lk = "up") \in BOOLEAN /\ need = HeaderLen - Len(a)
  <2>1. HeaderLen \in Nat \ {0}
    BY NumberLenAssumption DEF HeaderLen
  <2>2. Len(x.header) = 0
    BY <1>1
  <2>3. need = HeaderLen - 0 - Len(a)
    BY <1>1, <2>2
  <2> QED BY <2>1, <2>3
<1>3. n \in 1 .. Len(v) /\ n <= need /\ n \in 0 .. Len(v)
  <2>1. need \in Int
    BY <1>2
  <2> QED BY <1>1, <2>1, Pieces
<1>4. PICK f \in Seq(Nat), t \in Seq(Nat) : f = first(v, n) /\ t = rest(v, n)
  BY <1>3, Split
<1>5. PICK g \in Seq(Nat) : g = a \o f /\ Len(g) = Len(a) + n /\ g \o t = a \o v
  BY <1>3, <1>4, Moves
<1>6. g # <<>> /\ Len(g) <= HeaderLen /\ (Len(g) = HeaderLen <=> n = need)
  <2>1. n \in Nat /\ n >= 1 /\ n <= need /\ Len(v) \in Nat
    BY <1>3
  <2>2. HeaderLen \in Int /\ Len(a) \in Nat /\ need = HeaderLen - Len(a) /\ Len(g) = Len(a) + n
    BY <1>2, <1>5
  <2>3. Len(g) # 0
    BY <2>1, <2>2
  <2> QED BY <2>1, <2>2, <2>3
<1>7. Carries(lk = "up", g \o t, replyPacket(rs)) /\ g \o t \in Seq(Nat) /\ g \o t # <<>>
  <2>1. g \o t \in Seq(Nat) /\ Len(g \o t) = Len(g) + Len(t)
    BY ConcatProperties
  <2>2. Len(g) \in Nat \ {0} /\ Len(t) \in Nat
    BY <1>6, EmptySeq
  <2>3. Len(g \o t) # 0
    BY <2>1, <2>2
  <2> QED BY <1>1, <1>5, <2>1, <2>3
<1>8. PICK m \in Seq(Nat) : /\ m = replyBytes(rs) /\ rs \in WireReply /\ Len(m) < place[NumberLen]
                            /\ Carries(lk = "up", g \o t, packet(m))
  <2>1. rs \in WireReply \cup {None}
    BY DEF CoordinatorEnd
  <2> QED BY <1>2, <1>7, <2>1, ReplyOnWay
<1>9. /\ y \in CallType /\ y.part = g /\ y.header = <<>> /\ y.rmsg = <<>> /\ y.rc = "OK"
      /\ y.pc = "header" /\ y.open = x.open
  BY <1>1, <1>4, <1>5 DEF CallType
<1>10. /\ x.open /\ lk # "half" /\ (lk = "up" => rq = None \/ rs = None) /\ rs # None
  <2>1. x # NoCall
    BY DEF NoCall
  <2> QED BY <1>8, <2>1, ReplyText DEF CoordinatorEnd, reading
<1>11. CASE n # need
  <2>1. z = y /\ Len(g) < HeaderLen
    BY <1>2, <1>6, <1>11
  <2>2. CoordinatorEnd(lk, t, y, rq, rs)
    BY <1>7, <1>8, <1>9, <1>10, <2>1 DEF CoordinatorEnd, quiet, reading
  <2> QED BY <1>1, <1>4, <1>8, <1>9, <2>1, <2>2
<1>12. CASE n = need
  <2>1. Len(g) = HeaderLen
    BY <1>6, <1>12
  <2>2. g[1] = TILDE /\ btonum(g) = Len(m) /\ Carries(lk = "up", t, m)
    BY <1>2, <1>8, <2>1, HeadRead
  <2>3. extended(y.header, y.part) = g
    BY <1>6, <1>9, <2>2, FromTilde DEF extended
  <2>4. z = headerRead(y)
    BY <1>12
  <2>5. /\ z \in CallType /\ z.header = g /\ z.part = <<>> /\ z.rmsg = <<>> /\ z.rc = "OK"
        /\ z.open /\ z.pc = IF btonum(g) = 0 THEN "done" ELSE "content"
    <3>1. z = [y EXCEPT !.header = g, !.part = <<>>,
                        !.pc = IF btonum(g) = 0 THEN "done" ELSE "content"]
      BY <2>1, <2>3, <2>4 DEF headerRead
    <3>2. y.open
      BY <1>9, <1>10 DEF CallType
    <3>3. <<>> \in Seq(Nat)
      OBVIOUS
    <3> QED BY <1>9, <3>1, <3>2, <3>3 DEF CallType
  <2>6. Len(<<>>) = 0 /\ <<>> \in Seq(Nat) /\ Len(m) \in Nat
    OBVIOUS
  <2>7. CASE btonum(g) = 0
    <3>1. m = <<>>
      BY <2>2, <2>6, <2>7, EmptySeq
    <3>2. t = <<>>
      <4>1. Begins(t, <<>>)
        BY <1>2, <2>2, <2>6, <3>1, CarriesBegins
      <4>2. Len(t) <= 0 /\ Len(t) \in Nat
        BY <2>6, <4>1 DEF Begins
      <4> QED BY <4>2, EmptySeq
    <3>3. CoordinatorEnd(lk, t, z, rq, None)
      <4>1. z.pc = "done"
        BY <2>5, <2>7
      <4> QED BY <1>8, <1>10, <2>5, <2>6, <3>2, <4>1 DEF CoordinatorEnd, quiet, reading
    <3> QED BY <1>1, <1>4, <1>8, <2>5, <2>7, <3>1, <3>3
  <2>8. CASE btonum(g) # 0
    <3>1. Carries(lk = "up", g \o (<<>> \o t), replyPacket(rs))
      BY <1>7, EmptyConcat
    <3>2. CoordinatorEnd(lk, t, z, rq, rs)
      <4>1. z.pc = "content"
        BY <2>5, <2>8
      <4>2. Len(z.rmsg) < btonum(z.header) /\ Len(z.header) = HeaderLen
        BY <2>1, <2>2, <2>5, <2>6, <2>8
      <4>3. Carries(lk = "up", z.header \o (z.rmsg \o t), replyPacket(rs))
        BY <2>5, <3>1
      <4> QED BY <1>8, <1>10, <2>5, <4>1, <4>2, <4>3 DEF CoordinatorEnd, quiet, reading
    <3> QED BY <1>1, <1>4, <1>8, <2>5, <2>8, <3>2
  <2> QED BY <2>7, <2>8
<1> QED BY <1>11, <1>12

\* z is what RecvContent makes of x with n bytes more.
ContentTaken(x, u, n, z) ==
    LET y == [x EXCEPT !.rmsg = @ \o first(u, n)]
    IN  z = IF complete(y) THEN [y EXCEPT !.pc = "done"] ELSE y

LEMMA ReplyContent ==
  ASSUME NEW lk, NEW u, NEW x, NEW rq, NEW rs, CoordinatorEnd(lk, u, x, rq, rs), x.pc = "content",
         NEW n \in pieces(u, btonum(x.header) - Len(x.rmsg)), NEW z, ContentTaken(x, u, n, z)
  PROVE  /\ CoordinatorEnd(lk, rest(u, n), z, rq, IF z.pc = "done" THEN None ELSE rs)
         /\ z.pc \in {"content", "done"} /\ z.rc = "OK" /\ rs \in WireReply
         /\ z.pc = "done" => z.rmsg = replyBytes(rs)
<1> PICK y : /\ y = [x EXCEPT !.rmsg = @ \o first(u, n)]
             /\ z = IF complete(y) THEN [y EXCEPT !.pc = "done"] ELSE y
  BY DEF ContentTaken
<1>1. PICK h \in Seq(Nat), a \in Seq(Nat), v \in Seq(Nat) :
        /\ h = x.header /\ a = x.rmsg /\ v = u /\ Len(h) = HeaderLen /\ x \in CallType
        /\ Len(a) < btonum(h) /\ x.part = <<>> /\ x.rc = "OK"
        /\ Carries(lk = "up", h \o (a \o v), replyPacket(rs))
  <2>1. x \in CallType /\ u \in Seq(Nat)
    BY DEF CoordinatorEnd
  <2>2. x.header \in Seq(Nat) /\ x.rmsg \in Seq(Nat)
    BY <2>1 DEF CallType
  <2>3. /\ Len(x.header) = HeaderLen /\ Len(x.rmsg) < btonum(x.header)
        /\ x.part = <<>> /\ x.rc = "OK"
        /\ Carries(lk = "up", x.header \o (x.rmsg \o u), replyPacket(rs))
    BY DEF CoordinatorEnd, reading
  <2> QED BY <2>1, <2>2, <2>3
<1>2. PICK av \in Seq(Nat) : av = a \o v
  BY ConcatProperties
<1>3. Len(a) \in Nat /\ (lk = "up") \in BOOLEAN /\ HeaderLen \in Nat \ {0}
  BY NumberLenAssumption DEF HeaderLen
<1>4. PICK m \in Seq(Nat) : /\ m = replyBytes(rs) /\ rs \in WireReply /\ Len(m) < place[NumberLen]
                            /\ Carries(lk = "up", h \o av, packet(m))
  <2>1. rs \in WireReply \cup {None}
    BY DEF CoordinatorEnd
  <2>2. h \o av \in Seq(Nat) /\ Len(h \o av) = Len(h) + Len(av)
    BY ConcatProperties
  <2>3. h \o av # <<>>
    <3>1. Len(h \o av) # 0
      BY <1>1, <1>3, <2>2
    <3> QED BY <3>1
  <2>4. Carries(lk = "up", h \o av, replyPacket(rs))
    BY <1>1, <1>2
  <2> QED BY <1>3, <2>1, <2>2, <2>3, <2>4, ReplyOnWay
<1>5. btonum(h) = Len(m) /\ Len(m) \in Nat /\ Carries(lk = "up", av, m)
  <2>1. btonum(h) = Len(m) /\ Carries(lk = "up", av, m)
    BY <1>1, <1>3, <1>4, HeadRead
  <2>2. Len(m) \in Nat
    OBVIOUS
  <2> QED BY <2>1, <2>2
<1>6. n \in 1 .. Len(v) /\ n <= Len(m) - Len(a) /\ n \in 0 .. Len(v)
  <2>1. PICK need \in Int : need = Len(m) - Len(a)
    BY <1>3, <1>5
  <2> QED BY <1>1, <1>5, <2>1, Pieces
<1>7. PICK f \in Seq(Nat), t \in Seq(Nat) : f = first(v, n) /\ t = rest(v, n)
  BY <1>6, Split
<1>8. PICK g \in Seq(Nat) : g = a \o f /\ Len(g) = Len(a) + n /\ g \o t = av
  BY <1>2, <1>6, <1>7, Moves
<1>9. Len(g) <= Len(m) /\ Len(g) \in Nat
  <2>1. n \in Int /\ Len(a) \in Int /\ Len(m) \in Int
    BY <1>3, <1>5, <1>6
  <2>2. Len(g) = Len(a) + n /\ n <= Len(m) - Len(a)
    BY <1>6, <1>8
  <2>3. Len(g) \in Nat
    OBVIOUS
  <2> QED BY <2>1, <2>2, <2>3
<1>10. /\ x.open /\ lk # "half" /\ (lk = "up" => rq = None \/ rs = None) /\ rs # None
  <2>1. x # NoCall
    BY DEF NoCall
  <2> QED BY <1>4, <2>1, ReplyText DEF CoordinatorEnd, reading
<1>11. /\ y \in CallType /\ y.part = <<>> /\ y.header = h /\ y.rmsg = g /\ y.rc = "OK"
       /\ y.pc = "content" /\ y.open
  <2>1. y = [x EXCEPT !.rmsg = g]
    BY <1>1, <1>7, <1>8
  <2> QED BY <1>1, <1>10, <2>1 DEF CallType
<1>12. complete(y) <=> Len(g) = Len(m)
  BY <1>5, <1>11 DEF complete
<1>13. Carries(lk = "up", h \o (g \o t), replyPacket(rs))
  BY <1>1, <1>2, <1>8
<1>14. CASE ~complete(y)
  <2>1. z = y
    BY <1>14
  <2>2. Len(y.rmsg) < btonum(y.header)
    BY <1>5, <1>9, <1>11, <1>12, <1>14
  <2>3. Carries(lk = "up", y.header \o (y.rmsg \o t), replyPacket(rs))
    BY <1>11, <1>13
  <2>4. CoordinatorEnd(lk, t, y, rq, rs)
    BY <1>1, <1>4, <1>10, <1>11, <2>2, <2>3 DEF CoordinatorEnd, quiet, reading
  <2> QED BY <1>1, <1>4, <1>7, <1>11, <2>1, <2>4
<1>15. CASE complete(y)
  <2>1. z = [y EXCEPT !.pc = "done"]
    BY <1>15
  <2>2. /\ z \in CallType /\ z.rmsg = g /\ z.rc = "OK" /\ z.pc = "done" /\ z.open
    BY <1>11, <2>1 DEF CallType
  <2>3. Begins(g \o t, m) /\ Begins(g, g \o t) /\ g \o t \in Seq(Nat)
    BY <1>3, <1>5, <1>8, CarriesBegins, BeginsConcat
  <2>4. g = m
    <3>1. Begins(g, m)
      BY <2>3, BeginsTrans
    <3>2. Len(m) <= Len(g)
      BY <1>9, <1>12, <1>15
    <3> QED BY <3>1, <3>2, BeginsWhole
  <2>5. t = <<>>
    <3>1. Len(g \o t) <= Len(m) /\ Len(g \o t) = Len(g) + Len(t)
      BY <2>3, ConcatProperties DEF Begins
    <3>2. Len(t) \in Nat
      OBVIOUS
    <3>3. Len(t) = 0
      BY <1>5, <2>4, <3>1, <3>2
    <3> QED BY <3>3, EmptySeq
  <2>6. CoordinatorEnd(lk, t, z, rq, None)
    BY <1>4, <1>10, <2>2, <2>5 DEF CoordinatorEnd, quiet, reading
  <2> QED BY <1>1, <1>4, <1>7, <2>2, <2>4, <2>6
<1> QED BY <1>14, <1>15

LEMMA CallFails ==
  ASSUME NEW lk, NEW u, NEW x, NEW rq, NEW rs, CoordinatorEnd(lk, u, x, rq, rs), x.open,
         NEW rc \in {"NETWORK", "TIMEOUT", "CLOSE"}
  PROVE  CoordinatorEnd(lk, u, [x EXCEPT !.pc = "done", !.rc = rc], rq, rs)
<1>1. PICK z : z = [x EXCEPT !.pc = "done", !.rc = rc]
  OBVIOUS
<1>2. z \in CallType /\ z.open /\ z.pc = "done" /\ z.rc # "OK"
  BY <1>1 DEF CoordinatorEnd, CallType
<1>3. CoordinatorEnd(lk, u, z, rq, rs)
  BY <1>2 DEF CoordinatorEnd, quiet, reading
<1> QED BY <1>1, <1>3

LEMMA CallClosed ==
  ASSUME NEW lk, NEW u, NEW x, NEW rq, NEW rs, CoordinatorEnd(lk, u, x, rq, rs), lk # "up"
  PROVE  CoordinatorEnd(lk, <<>>, NoCall, rq, None)
<1>1. NoCall \in CallType /\ ~NoCall.open /\ NoCall.pc = "idle" /\ <<>> \in Seq(Nat)
  BY DEF NoCall, CallType
<1> QED BY <1>1 DEF CoordinatorEnd, quiet, reading

\* The end is open, and nothing is going on.
Waiting == [NoCall EXCEPT !.open = TRUE]

LEMMA WaitingCall ==
  /\ Waiting \in CallType /\ Waiting.open /\ Waiting.pc = "idle" /\ Waiting.rc = "OK"
  /\ Waiting.rmsg = <<>>
<1>1. NoCall \in CallType
  BY DEF NoCall, CallType
<1>2. Waiting \in CallType
  BY <1>1 DEF Waiting, CallType
<1>3. Waiting.open /\ Waiting.pc = "idle" /\ Waiting.rc = "OK" /\ Waiting.rmsg = <<>>
  BY DEF Waiting, NoCall
<1> QED BY <1>2, <1>3

LEMMA CallReturns ==
  ASSUME NEW lk, NEW u, NEW x, NEW rq, NEW rs, CoordinatorEnd(lk, u, x, rq, rs),
         x.pc = "done", x.rc = "OK"
  PROVE  CoordinatorEnd(lk, u, Waiting, rq, rs)
<1>1. x # NoCall
  BY DEF NoCall
<1> QED BY <1>1, WaitingCall DEF CoordinatorEnd, quiet, reading

LEMMA Connected ==
  ASSUME NEW u, NEW x, NEW rs, CoordinatorEnd("listen", u, x, None, rs), ~x.open
  PROVE  CoordinatorEnd("up", u, Waiting, None, rs)
<1>1. quiet(x)
  BY DEF CoordinatorEnd, NoCall, quiet
<1> QED BY <1>1, WaitingCall DEF CoordinatorEnd, quiet, reading

Calling == [NoCall EXCEPT !.open = TRUE, !.pc = "header"]

LEMMA CallBegins ==
  ASSUME NEW lk, NEW u, NEW x, NEW rq, NEW rs, CoordinatorEnd(lk, u, x, rq, rs),
         x.open, x.pc = "idle", NEW l \in WireTask \cup {None}
  PROVE  CoordinatorEnd(lk, u, Calling, l, rs)
<1>1. u = <<>> /\ rs = None /\ lk # "half" /\ quiet(x)
  BY DEF CoordinatorEnd, quiet
<1>2. /\ Calling \in CallType /\ Calling.open /\ Calling.pc = "header" /\ Calling.rc = "OK"
      /\ Calling.header = <<>> /\ Calling.rmsg = <<>> /\ Calling.part = <<>>
  <2>1. NoCall \in CallType
    BY DEF NoCall, CallType
  <2>2. Calling \in CallType
    BY <2>1 DEF Calling, CallType
  <2>3. /\ Calling.open /\ Calling.pc = "header" /\ Calling.rc = "OK"
        /\ Calling.header = <<>> /\ Calling.rmsg = <<>> /\ Calling.part = <<>>
    BY DEF Calling, NoCall
  <2> QED BY <2>2, <2>3
<1>3. /\ <<>> \in Seq(Nat) /\ <<>> \o <<>> = <<>> /\ Len(<<>>) = 0
      /\ HeaderLen \in Nat /\ HeaderLen > 0
  BY NumberLenAssumption DEF HeaderLen
<1>4. Carries(lk = "up", <<>> \o <<>>, replyPacket(None))
  BY <1>3, BeginsAll DEF Carries, replyPacket
<1> QED BY <1>1, <1>2, <1>3, <1>4 DEF CoordinatorEnd, quiet, reading

LEMMA ReplySent ==
  ASSUME NEW u, NEW x, NEW rq, NEW rs, CoordinatorEnd("up", u, x, rq, rs), rq # None,
         NEW r \in WireReply
  PROVE  CoordinatorEnd("up", u \o packet(replyBytes(r)), x, None, r)
<1>1. x \in CallType /\ u \in Seq(Nat) /\ x.open /\ x # NoCall /\ ~quiet(x)
  BY DEF CoordinatorEnd, NoCall, CallType
<1>2. PICK s \in Seq(Nat) : s = packet(replyBytes(r)) /\ s = replyPacket(r)
  BY ReplyText, PacketHead DEF replyPacket
<1>3. PICK v \in Seq(Nat) : v = u \o s /\ Len(v) = Len(u) + Len(s)
  BY <1>1, ConcatProperties
<1>4. CASE ~reading(x)
  <2>1. x.pc = "done" /\ x.rc # "OK"
    BY <1>1, <1>4 DEF quiet, reading, CallType
  <2>2. CoordinatorEnd("up", v, x, None, r)
    BY <1>1, <1>3, <1>4, <2>1 DEF CoordinatorEnd, quiet, reading
  <2> QED BY <1>2, <1>3, <2>2
<1>5. CASE reading(x)
  <2>1. rs = None /\ x.rc = "OK"
    BY <1>5 DEF CoordinatorEnd
  <2>2. CASE x.pc = "header"
    <3>1. PICK a \in Seq(Nat) : a = x.part
      BY <1>1 DEF CallType
    <3>2. /\ x.header = <<>> /\ x.rmsg = <<>> /\ Len(x.part) < HeaderLen
          /\ Carries("up" = "up", a \o u, replyPacket(rs))
      BY <1>5, <2>2, <3>1 DEF CoordinatorEnd
    <3>3. a \o u = <<>>
      BY <2>1, <3>2, ReplyPacket DEF Carries
    <3>4. Len(a) = 0 /\ Len(u) = 0
      <4>1. Len(a \o u) = Len(a) + Len(u) /\ Len(a) \in Nat /\ Len(u) \in Nat
        BY <1>1, ConcatProperties
      <4>2. Len(a \o u) = 0
        BY <3>3
      <4> QED BY <4>1, <4>2
    <3>5. a = <<>> /\ u = <<>>
      BY <1>1, <3>4, EmptySeq
    <3>6. x.part \o v = s
      BY <1>3, <3>1, <3>5, EmptyConcat
    <3>7. Carries("up" = "up", x.part \o v, replyPacket(r))
      BY <1>2, <3>6 DEF Carries
    <3>8. CoordinatorEnd("up", v, x, None, r)
      BY <1>1, <1>3, <2>1, <2>2, <3>2, <3>7 DEF CoordinatorEnd, quiet, reading
    <3> QED BY <1>2, <1>3, <3>8
  <2>3. CASE x.pc = "content"
    <3>1. PICK h \in Seq(Nat), a \in Seq(Nat) : h = x.header /\ a = x.rmsg
      BY <1>1 DEF CallType
    <3>2. /\ Len(h) = HeaderLen /\ Carries("up" = "up", h \o (a \o u), replyPacket(rs))
      BY <1>5, <2>3, <3>1 DEF CoordinatorEnd
    <3>3. h \o (a \o u) = <<>>
      BY <2>1, <3>2, ReplyPacket DEF Carries
    <3>4. a \o u \in Seq(Nat)
      BY <1>1, ConcatProperties
    <3>5. Len(h \o (a \o u)) = Len(h) + Len(a \o u) /\ Len(a \o u) \in Nat /\ Len(h) \in Nat
      BY <3>4, ConcatProperties
    <3>6. Len(h \o (a \o u)) = 0
      BY <3>3
    <3>7. HeaderLen # 0
      BY NumberLenAssumption DEF HeaderLen
    <3> QED BY <3>2, <3>5, <3>6, <3>7
  <2> QED BY <1>5, <2>2, <2>3 DEF reading
<1> QED BY <1>4, <1>5

\* Of what is on its way to the coordinator a part is lost.
LEMMA ReplyCut ==
  ASSUME NEW lk, NEW u, NEW x, NEW rq, NEW rs, CoordinatorEnd(lk, u, x, rq, rs),
         NEW b \in torn(u)
  PROVE  CoordinatorEnd("down", b, x, None, rs)
<1>1. x \in CallType /\ u \in Seq(Nat) /\ rs \in WireReply \cup {None} /\ (lk = "up") \in BOOLEAN
  BY DEF CoordinatorEnd
<1>2. b \in Seq(Nat) /\ Begins(b, u)
  BY <1>1, Torn
<1>3. PICK p \in Seq(Nat) : p = replyPacket(rs)
  BY <1>1, ReplyPacket
<1>4. ASSUME u = <<>> PROVE b = <<>>
  <2>1. Len(b) <= 0 /\ Len(b) \in Nat
    BY <1>2, <1>4 DEF Begins
  <2> QED BY <1>2, <2>1, EmptySeq
<1>5. ASSUME NEW a \in Seq(Nat), Carries(lk = "up", a \o u, p) PROVE Carries(FALSE, a \o b, p)
  <2>1. a \o u \in Seq(Nat) /\ a \o b \in Seq(Nat)
    BY <1>1, <1>2, ConcatProperties
  <2>2. Begins(a \o b, a \o u)
    BY <1>1, <1>2, BeginsAfter
  <2>3. Begins(a \o u, p)
    BY <1>1, <1>5, <2>1, CarriesBegins
  <2>4. Begins(a \o b, p)
    BY <2>1, <2>2, <2>3, BeginsTrans
  <2> QED BY <2>4 DEF Carries
<1>6. ASSUME NEW h \in Seq(Nat), NEW a \in Seq(Nat), Carries(lk = "up", h \o (a \o u), p)
      PROVE  Carries(FALSE, h \o (a \o b), p)
  <2>1. PICK au \in Seq(Nat), ab \in Seq(Nat) : au = a \o u /\ ab = a \o b
    BY <1>1, <1>2, ConcatProperties
  <2>2. h \o au \in Seq(Nat) /\ h \o ab \in Seq(Nat)
    BY ConcatProperties
  <2>3. Begins(ab, au)
    BY <1>1, <1>2, <2>1, BeginsAfter
  <2>4. Begins(h \o ab, h \o au)
    BY <2>3, BeginsAfter
  <2>5. Begins(h \o au, p)
    BY <1>1, <1>6, <2>1, <2>2, CarriesBegins
  <2>6. Begins(h \o ab, p)
    BY <2>2, <2>4, <2>5, BeginsTrans
  <2> QED BY <2>1, <2>6 DEF Carries
<1>7. ("down" = "up") = FALSE
  OBVIOUS
<1>8. ASSUME x.pc = "header"
      PROVE  /\ x.header = <<>> /\ x.rmsg = <<>> /\ Len(x.part) < HeaderLen
             /\ Carries("down" = "up", x.part \o b, replyPacket(rs))
  <2>1. /\ x.header = <<>> /\ x.rmsg = <<>> /\ Len(x.part) < HeaderLen
        /\ Carries(lk = "up", x.part \o u, p)
    BY <1>3, <1>8 DEF CoordinatorEnd
  <2>2. x.part \in Seq(Nat)
    BY <1>1 DEF CallType
  <2> QED BY <1>3, <1>5, <1>7, <2>1, <2>2
<1>9. ASSUME x.pc = "content"
      PROVE  /\ x.part = <<>> /\ Len(x.header) = HeaderLen /\ Len(x.rmsg) < btonum(x.header)
             /\ Carries("down" = "up", x.header \o (x.rmsg \o b), replyPacket(rs))
  <2>1. /\ x.part = <<>> /\ Len(x.header) = HeaderLen /\ Len(x.rmsg) < btonum(x.header)
        /\ Carries(lk = "up", x.header \o (x.rmsg \o u), p)
    BY <1>3, <1>9 DEF CoordinatorEnd
  <2>2. x.header \in Seq(Nat) /\ x.rmsg \in Seq(Nat)
    BY <1>1 DEF CallType
  <2> QED BY <1>3, <1>6, <1>7, <2>1, <2>2
<1>10. /\ ~x.open => x = NoCall
       /\ quiet(x) => u = <<>> /\ rs = None
       /\ reading(x) => x.rc = "OK"
  BY DEF CoordinatorEnd
<1> QED BY <1>1, <1>2, <1>4, <1>8, <1>9, <1>10 DEF CoordinatorEnd

\* The participant forgets a task, or listens again.
LEMMA TaskGone ==
  ASSUME NEW lk, NEW u, NEW x, NEW rq, NEW rs, CoordinatorEnd(lk, u, x, rq, rs), lk # "up",
         NEW lk2 \in {"down", "listen", lk}
  PROVE  CoordinatorEnd(lk2, u, x, None, rs)
<1>1. (lk = "up") = FALSE /\ (lk2 = "up") = FALSE
  OBVIOUS
<1> QED BY <1>1 DEF CoordinatorEnd

-----------------------------------------------------------------------------
(***************************************************************************)
(* The actions of Framing.  Each of them changes one connection.           *)
(***************************************************************************)
\* f is g, but for the value at p.
OnlyAt(p, f, g) == OfParticipants(f) /\ \A q \in PId : q # p => f[q] = g[q]
Updated(p, f, g, e) == f = [g EXCEPT ![p] = e]

LEMMA OnlyThere ==
  ASSUME NEW g, OfParticipants(g), NEW p \in PId, NEW e, NEW f, Updated(p, f, g, e)
  PROVE  OnlyAt(p, f, g) /\ f[p] = e
BY DEF OnlyAt, OfParticipants, Updated

LEMMA NotThere ==
  ASSUME NEW f, OfParticipants(f), NEW p \in PId, NEW g, g = f
  PROVE  OnlyAt(p, g, f)
BY DEF OnlyAt

OneConnection(p) ==
    /\ OnlyAt(p, ptxid', ptxid) /\ OnlyAt(p, plog', plog) /\ OnlyAt(p, kv', kv)
    /\ OnlyAt(p, link', link) /\ OnlyAt(p, down', down) /\ OnlyAt(p, up', up)
    /\ OnlyAt(p, cx', cx) /\ OnlyAt(p, px', px)
    /\ OnlyAt(p, req', req) /\ OnlyAt(p, resp', resp)

LEMMA Elsewhere ==
  ASSUME FramingInv, NEW p \in PId, OneConnection(p), ConnectionInv(p)'
  PROVE  FramingInv'
<1>1. ConnectionsInv'
  BY DEF OneConnection, OnlyAt, ConnectionsInv
<1>2. ASSUME NEW q \in PId, q # p
      PROVE  ConnectionInv(q)'
  <2>1. ConnectionInv(q)
    BY DEF FramingInv
  <2>2. /\ ptxid'[q] = ptxid[q] /\ plog'[q] = plog[q] /\ kv'[q] = kv[q]
        /\ link'[q] = link[q] /\ down'[q] = down[q] /\ up'[q] = up[q]
        /\ cx'[q] = cx[q] /\ px'[q] = px[q] /\ req'[q] = req[q] /\ resp'[q] = resp[q]
    BY <1>2 DEF OneConnection, OnlyAt
  <2>3. QED
    BY <2>1, <2>2 DEF ConnectionInv, Stored
<1>3. QED
  BY <1>1, <1>2 DEF FramingInv

AnswerAt(p) ==
    cx[p].pc # "done" /\ cx'[p].pc = "done" /\ cx'[p].rc = "OK" =>
        /\ req[p] = None /\ resp[p] # None
        /\ cx'[p].rmsg = replyBytes(resp[p])

\* What each action of Framing is shown to do.
Sound(p) ==
    /\ FramingInv'
    /\ linkStep(p) \/ UNCHANGED participantVars
    /\ AnswerAt(p)
    /\ \A q \in PId : q # p => cx'[q] = cx[q] /\ req'[q] = req[q] /\ resp'[q] = resp[q]

LEMMA ReconnectStep ==
  ASSUME FramingInv, NEW p \in PId, Reconnect(p)
  PROVE  Sound(p)
<1>1. ConnectionInv(p) /\ ConnectionsInv
  BY DEF FramingInv
<1>2. /\ cx'[p] = Waiting /\ link'[p] = "up" /\ px'[p] = NewRecv
      /\ ptxid' = ptxid /\ plog' = plog /\ kv' = kv /\ down' = down /\ up' = up
      /\ req' = req /\ resp' = resp
      /\ OneConnection(p)
  <2>1. /\ Updated(p, cx', cx, Waiting) /\ Updated(p, link', link, "up")
        /\ Updated(p, px', px, NewRecv)
        /\ ptxid' = ptxid /\ plog' = plog /\ kv' = kv /\ down' = down /\ up' = up
        /\ req' = req /\ resp' = resp
    BY DEF Reconnect, storeVars, Waiting, Updated
  <2>2. /\ OnlyAt(p, cx', cx) /\ cx'[p] = Waiting
        /\ OnlyAt(p, link', link) /\ link'[p] = "up"
        /\ OnlyAt(p, px', px) /\ px'[p] = NewRecv
    BY <1>1, <2>1, OnlyThere DEF ConnectionsInv
  <2>3. QED
    BY <1>1, <2>1, <2>2, NotThere DEF ConnectionsInv, OneConnection
<1>3. link[p] = "listen" /\ ~cx[p].open
  BY DEF Reconnect
<1>4. /\ ParticipantEnd("listen", down[p], px[p], None) /\ req[p] = None
      /\ CoordinatorEnd("listen", up[p], cx[p], None, resp[p]) /\ Stored(p)
  BY <1>1, <1>3 DEF ConnectionInv, ParticipantEnd
<1>5. ParticipantEnd("up", down[p], NewRecv, None) /\ CoordinatorEnd("up", up[p], Waiting, None, resp[p])
  BY <1>3, <1>4, NothingRead, FreshRecv, Connected
<1>6. ConnectionInv(p)'
  BY <1>2, <1>4, <1>5 DEF ConnectionInv, Stored, LinkState
<1>7. FramingInv'
  BY <1>2, <1>6, Elsewhere
<1>8. linkStep(p)
  BY DEF linkStep, Connect, Reconnect, storeVars
<1>9. AnswerAt(p)
  BY <1>2, WaitingCall DEF AnswerAt
<1>10. QED
  BY <1>2, <1>7, <1>8, <1>9 DEF Sound, OneConnection, OnlyAt

LEMMA Here ==
  ASSUME FramingInv, NEW p \in PId
  PROVE  /\ ConnectionsInv /\ link[p] \in LinkState /\ Stored(p)
         /\ ParticipantEnd(link[p], down[p], px[p], req[p])
         /\ CoordinatorEnd(link[p], up[p], cx[p], req[p], resp[p])
         /\ cx[p] \in CallType /\ px[p] \in RecvType
         /\ req[p] \in WireTask \cup {None} /\ resp[p] \in WireReply \cup {None}
         /\ link[p] \in {"down", "listen"} => req[p] = None
         /\ ~cx[p].open => cx[p] = NoCall
BY DEF FramingInv, ConnectionInv, ParticipantEnd, CoordinatorEnd

\* The rest of a step, once what it does to p's connection is known.
LEMMA ThisConnection ==
  ASSUME FramingInv, NEW p \in PId, OneConnection(p), link'[p] \in LinkState, Stored(p)',
         ParticipantEnd(link[p], down[p], px[p], req[p])',
         CoordinatorEnd(link[p], up[p], cx[p], req[p], resp[p])',
         linkStep(p) \/ UNCHANGED participantVars, AnswerAt(p)
  PROVE  Sound(p)
<1>1. FramingInv'
  BY Elsewhere DEF ConnectionInv
<1>2. QED
  BY <1>1 DEF Sound, OneConnection, OnlyAt

LEMMA StoreKept ==
  ASSUME FramingInv, NEW p \in PId, UNCHANGED storeVars
  PROVE  /\ Stored(p)'
         /\ OnlyAt(p, ptxid', ptxid) /\ OnlyAt(p, plog', plog) /\ OnlyAt(p, kv', kv)
<1>1. ptxid' = ptxid /\ plog' = plog /\ kv' = kv
  BY DEF storeVars
<1>2. QED
  BY <1>1, Here, NotThere DEF Stored, ConnectionsInv

LEMMA CallFailed ==
  ASSUME NEW x \in CallType, NEW rc \in {"OK", "NETWORK", "TIMEOUT", "CLOSE"}
  PROVE  [x EXCEPT !.pc = "done", !.rc = rc].rc = rc
BY DEF CallType

Failed(p, rc) == [cx[p] EXCEPT !.pc = "done", !.rc = rc]

LEMMA FailedThere ==
  ASSUME FramingInv, NEW p \in PId, NEW rc,
         cx' = [cx EXCEPT ![p].pc = "done", ![p].rc = rc]
  PROVE  Updated(p, cx', cx, Failed(p, rc))
BY Here DEF Updated, ConnectionsInv, OfParticipants, Failed

LEMMA FailureStep ==
  ASSUME FramingInv, NEW p \in PId, NEW rc \in {"NETWORK", "TIMEOUT", "CLOSE"}, cx[p].open,
         Updated(p, cx', cx, Failed(p, rc)), UNCHANGED <<participantVars, down, up, px>>
  PROVE  Sound(p)
<1>1. OfParticipants(cx)
  BY Here DEF ConnectionsInv
<1>2. /\ UNCHANGED storeVars /\ link' = link /\ down' = down /\ up' = up /\ px' = px
      /\ req' = req /\ resp' = resp /\ UNCHANGED participantVars
  BY DEF participantVars, storeVars
<1>3. CoordinatorEnd(link[p], up[p], Failed(p, rc), req[p], resp[p]) /\ Failed(p, rc).rc = rc
  <2>1. CoordinatorEnd(link[p], up[p], cx[p], req[p], resp[p]) /\ cx[p] \in CallType
    BY Here
  <2>2. CoordinatorEnd(link[p], up[p], Failed(p, rc), req[p], resp[p])
    BY <2>1, CallFails DEF Failed
  <2>3. Failed(p, rc).rc = rc
    BY <2>1, CallFailed DEF Failed
  <2>4. QED
    BY <2>2, <2>3
<1>4. OnlyAt(p, cx', cx) /\ cx'[p] = Failed(p, rc)
  BY <1>1 DEF OnlyAt, Updated, OfParticipants
<1>5. OneConnection(p) /\ Stored(p)'
  BY <1>2, <1>4, Here, StoreKept, NotThere DEF ConnectionsInv, OneConnection
<1>6. /\ link'[p] \in LinkState /\ ParticipantEnd(link[p], down[p], px[p], req[p])'
      /\ CoordinatorEnd(link[p], up[p], cx[p], req[p], resp[p])'
  BY <1>2, <1>3, <1>4, Here
<1>7. AnswerAt(p)
  BY <1>3, <1>4 DEF AnswerAt
<1>8. QED
  BY <1>2, <1>5, <1>6, <1>7, ThisConnection

LEMMA TimeoutStep ==
  ASSUME FramingInv, NEW p \in PId, RecvTimeout(p)
  PROVE  Sound(p)
<1>1. cx[p].open
  BY Here DEF RecvTimeout, NoCall
<1>2. QED
  BY <1>1, FailureStep, FailedThere DEF RecvTimeout

LEMMA ClosedStep ==
  ASSUME FramingInv, NEW p \in PId, RecvClosed(p)
  PROVE  Sound(p)
<1>1. cx[p].open
  BY Here DEF RecvClosed, NoCall
<1>2. QED
  BY <1>1, FailureStep, FailedThere DEF RecvClosed

LEMMA CallStep ==
  ASSUME FramingInv, NEW p \in PId, NEW task \in WireTask, Call(p, task)
  PROVE  Sound(p)
<1>0. OfParticipants(cx) /\ OfParticipants(down) /\ OfParticipants(req)
  BY Here DEF ConnectionsInv
<1>1. cx[p].open /\ cx[p].pc = "idle" /\ UNCHANGED storeVars /\ link' = link /\ resp' = resp
      /\ up' = up /\ px' = px /\ OnlyAt(p, link', link) /\ OnlyAt(p, resp', resp)
      /\ OnlyAt(p, up', up) /\ OnlyAt(p, px', px) /\ Stored(p)'
  BY Here, StoreKept, NotThere DEF Call, ConnectionsInv
<1>2. Calling.pc = "header"
  BY DEF Calling, NoCall
<1>3. CASE link[p] = "up"
  <2>1. Updated(p, down', down, down[p] \o packet(logToStr(task))) /\ Updated(p, req', req, task)
        /\ Updated(p, cx', cx, Calling)
    BY <1>3 DEF Call, Updated, Calling
  <2>2. /\ OnlyAt(p, down', down) /\ down'[p] = down[p] \o packet(logToStr(task))
        /\ OnlyAt(p, req', req) /\ req'[p] = task
        /\ OnlyAt(p, cx', cx) /\ cx'[p] = Calling
    <3>1. OnlyAt(p, down', down) /\ down'[p] = down[p] \o packet(logToStr(task))
      BY <1>0, <2>1 DEF OnlyAt, Updated, OfParticipants
    <3>2. OnlyAt(p, req', req) /\ req'[p] = task
      BY <1>0, <2>1, OnlyThere
    <3>3. OnlyAt(p, cx', cx) /\ cx'[p] = Calling
      BY <1>0, <2>1, OnlyThere
    <3>4. QED
      BY <3>1, <3>2, <3>3
  <2>3. OneConnection(p)
    BY <1>1, <2>2, StoreKept DEF OneConnection
  <2>4. req[p] = None /\ resp[p] = None
    BY <1>1, <1>3, Here DEF CoordinatorEnd, quiet
  <2>5. /\ ParticipantEnd("up", down'[p], px[p], task)
        /\ CoordinatorEnd("up", up[p], Calling, task, resp[p])
    BY <1>1, <1>3, <2>2, <2>4, Here, TaskSent, CallBegins
  <2>6. linkStep(p)
    <3>1. req' = [req EXCEPT ![p] = req'[p]] /\ req'[p] # None
      BY <2>1, <2>2, TaskText DEF Updated
    <3>2. QED
      BY <1>1, <1>3, <2>4, <3>1 DEF linkStep, Deliver, storeVars
  <2>7. AnswerAt(p)
    BY <1>2, <2>2 DEF AnswerAt
  <2>8. QED
    BY <1>1, <1>3, <2>2, <2>3, <2>5, <2>6, <2>7, Here, ThisConnection
<1>4. CASE link[p] # "up" /\ cx' = [cx EXCEPT ![p] = Calling] /\ UNCHANGED <<down, req>>
  <2>1. OnlyAt(p, cx', cx) /\ cx'[p] = Calling
    <3>1. Updated(p, cx', cx, Calling)
      BY <1>4 DEF Updated
    <3>2. QED
      BY <1>0, <3>1, OnlyThere
  <2>2. OneConnection(p)
    BY <1>1, <1>4, <2>1, Here, StoreKept, NotThere DEF OneConnection, ConnectionsInv
  <2>3. CoordinatorEnd(link[p], up[p], Calling, req[p], resp[p])
    BY <1>1, Here, CallBegins
  <2>4. AnswerAt(p) /\ UNCHANGED participantVars
    BY <1>1, <1>2, <1>4, <2>1 DEF AnswerAt, participantVars, storeVars
  <2>5. QED
    BY <1>1, <1>4, <2>1, <2>2, <2>3, <2>4, Here, ThisConnection
<1>5. CASE /\ cx' = [cx EXCEPT ![p].pc = "done", ![p].rc = "NETWORK"]
           /\ UNCHANGED <<down, req>>
  <2>1. UNCHANGED <<participantVars, down, up, px>>
    BY <1>1, <1>5 DEF participantVars, storeVars
  <2>2. QED
    BY <1>1, <1>5, <2>1, FailureStep, FailedThere
<1>6. QED
  BY <1>3, <1>4, <1>5 DEF Call, Calling

ReplyTaken(p, u, z) ==
    /\ Updated(p, up', up, u) /\ Updated(p, cx', cx, z)
    /\ resp' = IF z.pc = "done" THEN [resp EXCEPT ![p] = None] ELSE resp
    /\ UNCHANGED <<storeVars, link, req, down, px>>
    /\ CoordinatorEnd(link[p], u, z, req[p], IF z.pc = "done" THEN None ELSE resp[p])
    /\ resp[p] \in WireReply /\ (z.pc = "done" => z.rmsg = replyBytes(resp[p]))

LEMMA ReplyStep ==
  ASSUME FramingInv, NEW p \in PId, reading(cx[p]), NEW u, NEW z, ReplyTaken(p, u, z)
  PROVE  Sound(p)
<1>0. /\ Updated(p, up', up, u) /\ Updated(p, cx', cx, z)
      /\ resp' = IF z.pc = "done" THEN [resp EXCEPT ![p] = None] ELSE resp
      /\ UNCHANGED <<storeVars, link, req, down, px>>
      /\ CoordinatorEnd(link[p], u, z, req[p], IF z.pc = "done" THEN None ELSE resp[p])
      /\ resp[p] \in WireReply /\ (z.pc = "done" => z.rmsg = replyBytes(resp[p]))
  BY DEF ReplyTaken
<1>1. /\ OfParticipants(cx) /\ OfParticipants(up) /\ OfParticipants(link) /\ OfParticipants(req)
      /\ OfParticipants(down) /\ OfParticipants(px) /\ OfParticipants(resp)
  BY Here DEF ConnectionsInv
<1>2. /\ UNCHANGED storeVars /\ link' = link /\ req' = req /\ down' = down /\ px' = px
      /\ ptxid' = ptxid /\ plog' = plog /\ kv' = kv
  BY <1>0 DEF storeVars
<1>3. /\ OnlyAt(p, cx', cx) /\ cx'[p] = z
  BY <1>0, <1>1 DEF OnlyAt, Updated, OfParticipants
<1>4. /\ OnlyAt(p, up', up) /\ up'[p] = u
  BY <1>0, <1>1 DEF OnlyAt, Updated, OfParticipants
<1>5. /\ OnlyAt(p, resp', resp) /\ resp'[p] = IF z.pc = "done" THEN None ELSE resp[p]
  <2>1. CASE z.pc = "done"
    BY <1>0, <1>1, <2>1 DEF OnlyAt, OfParticipants
  <2>2. CASE z.pc # "done"
    BY <1>0, <1>1, <2>2 DEF OnlyAt, OfParticipants
  <2>3. QED
    BY <2>1, <2>2
<1>6. OneConnection(p) /\ Stored(p)'
  BY <1>1, <1>2, <1>3, <1>4, <1>5, StoreKept, NotThere DEF OneConnection
<1>7. /\ link'[p] \in LinkState /\ ParticipantEnd(link[p], down[p], px[p], req[p])'
      /\ CoordinatorEnd(link[p], up[p], cx[p], req[p], resp[p])'
  BY <1>0, <1>2, <1>3, <1>4, <1>5, Here
<1>8. linkStep(p) \/ UNCHANGED participantVars
  BY <1>0, <1>2 DEF linkStep, TakeReply, participantVars
<1>9. AnswerAt(p)
  <2>1. resp[p] # None
    BY <1>0, ReplyText
  <2>2. link[p] = "up" \/ link[p] \in {"down", "listen"}
    BY Here DEF CoordinatorEnd, LinkState, reading, NoCall
  <2>3. req[p] = None
    BY <1>0, <2>1, <2>2, Here DEF CoordinatorEnd
  <2>4. QED
    BY <1>0, <1>3, <2>1, <2>3 DEF AnswerAt
<1>10. QED
  BY <1>6, <1>7, <1>8, <1>9, ThisConnection

LEMMA RecvHeaderStep ==
  ASSUME FramingInv, NEW p \in PId, RecvHeader(p)
  PROVE  Sound(p)
<1> DEFINE need == headerNeed(cx[p])
           y(n) == [cx[p] EXCEPT !.part = @ \o first(up[p], n)]
           z(n) == IF n = need THEN headerRead(y(n)) ELSE y(n)
<1>1. PICK n \in pieces(up[p], need) : /\ cx' = [cx EXCEPT ![p] = z(n)]
                                       /\ up' = [up EXCEPT ![p] = rest(@, n)]
  BY DEF RecvHeader, headerNeed
<1>2. /\ CoordinatorEnd(link[p], rest(up[p], n), z(n), req[p],
                        IF z(n).pc = "done" THEN None ELSE resp[p])
      /\ resp[p] \in WireReply /\ (z(n).pc = "done" => z(n).rmsg = replyBytes(resp[p]))
  <2>1. CoordinatorEnd(link[p], up[p], cx[p], req[p], resp[p]) /\ cx[p].pc = "header"
    BY Here DEF RecvHeader
  <2>2. HeaderTaken(cx[p], up[p], n, z(n))
    BY DEF HeaderTaken
  <2> HIDE DEF z
  <2>3. QED
    BY <2>1, <2>2, ReplyHeader
<1>3. Updated(p, up', up, rest(up[p], n)) /\ Updated(p, cx', cx, z(n)) /\ cx'[p] = z(n)
  BY <1>1, Here DEF Updated, ConnectionsInv, OfParticipants
<1> HIDE DEF z
<1>4. /\ resp' = IF z(n).pc = "done" THEN [resp EXCEPT ![p] = None] ELSE resp
      /\ UNCHANGED <<storeVars, link, req, down, px>> /\ reading(cx[p])
  BY <1>3 DEF RecvHeader, reading
<1>5. ReplyTaken(p, rest(up[p], n), z(n))
  BY <1>2, <1>3, <1>4 DEF ReplyTaken
<1>6. QED
  BY <1>4, <1>5, ReplyStep

LEMMA RecvContentStep ==
  ASSUME FramingInv, NEW p \in PId, RecvContent(p)
  PROVE  Sound(p)
<1> DEFINE y(n) == [cx[p] EXCEPT !.rmsg = @ \o first(up[p], n)]
           z(n) == IF complete(y(n)) THEN [y(n) EXCEPT !.pc = "done"] ELSE y(n)
<1>1. PICK n \in pieces(up[p], btonum(cx[p].header) - Len(cx[p].rmsg)) :
             /\ cx' = [cx EXCEPT ![p] = z(n)]
             /\ up' = [up EXCEPT ![p] = rest(@, n)]
  BY DEF RecvContent
<1>2. /\ CoordinatorEnd(link[p], rest(up[p], n), z(n), req[p],
                        IF z(n).pc = "done" THEN None ELSE resp[p])
      /\ resp[p] \in WireReply /\ (z(n).pc = "done" => z(n).rmsg = replyBytes(resp[p]))
  <2>1. CoordinatorEnd(link[p], up[p], cx[p], req[p], resp[p]) /\ cx[p].pc = "content"
    BY Here DEF RecvContent
  <2>2. ContentTaken(cx[p], up[p], n, z(n))
    BY DEF ContentTaken
  <2> HIDE DEF z
  <2>3. QED
    BY <2>1, <2>2, ReplyContent
<1>3. Updated(p, up', up, rest(up[p], n)) /\ Updated(p, cx', cx, z(n)) /\ cx'[p] = z(n)
  BY <1>1, Here DEF Updated, ConnectionsInv, OfParticipants
<1> HIDE DEF z
<1>4. /\ resp' = IF z(n).pc = "done" THEN [resp EXCEPT ![p] = None] ELSE resp
      /\ UNCHANGED <<storeVars, link, req, down, px>> /\ reading(cx[p])
  BY <1>3 DEF RecvContent, reading
<1>5. ReplyTaken(p, rest(up[p], n), z(n))
  BY <1>2, <1>3, <1>4 DEF ReplyTaken
<1>6. QED
  BY <1>4, <1>5, ReplyStep

LEMMA Closed ==
  ASSUME NEW lk, lk # "up", NEW rq
  PROVE  CoordinatorEnd(lk, <<>>, NoCall, rq, None)
<1>1. NoCall \in CallType /\ ~NoCall.open /\ NoCall.pc = "idle"
  BY DEF NoCall, CallType
<1>2. QED
  BY <1>1 DEF CoordinatorEnd, quiet, reading

LEMMA ReturnStep ==
  ASSUME FramingInv, NEW p \in PId, Return(p)
  PROVE  Sound(p)
<1>1. /\ OfParticipants(cx) /\ OfParticipants(up) /\ OfParticipants(link) /\ OfParticipants(req)
      /\ OfParticipants(down) /\ OfParticipants(px) /\ OfParticipants(resp)
  BY Here DEF ConnectionsInv
<1>2. /\ UNCHANGED storeVars /\ req' = req /\ px' = px /\ cx[p].pc = "done"
      /\ ptxid' = ptxid /\ plog' = plog /\ kv' = kv
      /\ OnlyAt(p, req', req) /\ OnlyAt(p, px', px) /\ Stored(p)'
  BY <1>1, NotThere, StoreKept DEF Return, storeVars
<1>3. AnswerAt(p)
  BY <1>2 DEF AnswerAt
<1>4. CASE failed(cx[p])
  <2> DEFINE lk == IF link[p] = "up" THEN "half" ELSE link[p]
  <2>1. PICK bytes \in torn(down[p]) :
             /\ Updated(p, cx', cx, NoCall) /\ Updated(p, link', link, lk)
             /\ Updated(p, resp', resp, None) /\ Updated(p, up', up, <<>>)
             /\ Updated(p, down', down, bytes)
    BY <1>4 DEF Return, Updated
  <2>2. /\ OnlyAt(p, cx', cx) /\ cx'[p] = NoCall
    BY <1>1, <2>1 DEF OnlyAt, Updated, OfParticipants
  <2>3. /\ OnlyAt(p, link', link) /\ link'[p] = lk
    BY <1>1, <2>1 DEF OnlyAt, Updated, OfParticipants
  <2>4. /\ OnlyAt(p, resp', resp) /\ resp'[p] = None
    BY <1>1, <2>1 DEF OnlyAt, Updated, OfParticipants
  <2>5. /\ OnlyAt(p, up', up) /\ up'[p] = <<>>
    BY <1>1, <2>1 DEF OnlyAt, Updated, OfParticipants
  <2>6. /\ OnlyAt(p, down', down) /\ down'[p] = bytes
    BY <1>1, <2>1 DEF OnlyAt, Updated, OfParticipants
  <2>7. OneConnection(p)
    BY <1>2, <2>2, <2>3, <2>4, <2>5, <2>6, StoreKept DEF OneConnection
  <2>8. ParticipantEnd(lk, bytes, px[p], req[p]) /\ CoordinatorEnd(lk, <<>>, NoCall, req[p], None)
    BY Here, TaskCut, Closed
  <2>9. lk \in LinkState
    BY Here DEF LinkState
  <2>10. linkStep(p)
    BY <1>2, <1>4 DEF Return, linkStep, CloseLink
  <2> HIDE DEF lk
  <2>11. QED
    BY <1>2, <1>3, <2>2, <2>3, <2>4, <2>5, <2>6, <2>7, <2>8, <2>9, <2>10, ThisConnection
<1>5. CASE ~failed(cx[p])
  <2>1. /\ Updated(p, cx', cx, Waiting) /\ link' = link /\ resp' = resp /\ up' = up
        /\ down' = down
    BY <1>5 DEF Return, Updated, Waiting
  <2>2. /\ OnlyAt(p, cx', cx) /\ cx'[p] = Waiting
    BY <1>1, <2>1 DEF OnlyAt, Updated, OfParticipants
  <2>3. OneConnection(p)
    BY <1>1, <1>2, <2>1, <2>2, NotThere, StoreKept DEF OneConnection
  <2>4. CoordinatorEnd(link[p], up[p], Waiting, req[p], resp[p])
    BY <1>2, <1>5, Here, CallReturns DEF failed
  <2>5. UNCHANGED participantVars
    BY <1>2, <2>1 DEF participantVars
  <2>6. QED
    BY <1>2, <1>3, <2>1, <2>2, <2>3, <2>4, <2>5, Here, ThisConnection
<1>6. QED
  BY <1>4, <1>5

TaskTaken(p, dn, y) ==
    /\ Updated(p, down', down, dn) /\ Updated(p, px', px, y)
    /\ UNCHANGED <<participantVars, up, cx>>
    /\ ParticipantEnd(link[p], dn, y, req[p])

LEMMA TaskStep ==
  ASSUME FramingInv, NEW p \in PId, NEW dn, NEW y, TaskTaken(p, dn, y)
  PROVE  Sound(p)
<1>1. /\ Updated(p, down', down, dn) /\ Updated(p, px', px, y)
      /\ UNCHANGED <<participantVars, up, cx>>
      /\ ParticipantEnd(link[p], dn, y, req[p])
  BY DEF TaskTaken
<1>2. /\ OfParticipants(cx) /\ OfParticipants(up) /\ OfParticipants(link) /\ OfParticipants(req)
      /\ OfParticipants(down) /\ OfParticipants(px) /\ OfParticipants(resp)
  BY Here DEF ConnectionsInv
<1>3. /\ UNCHANGED storeVars /\ link' = link /\ req' = req /\ resp' = resp /\ up' = up
      /\ cx' = cx /\ UNCHANGED participantVars
  BY <1>1 DEF participantVars, storeVars
<1>4. OnlyAt(p, down', down) /\ down'[p] = dn
  BY <1>1, <1>2 DEF OnlyAt, Updated, OfParticipants
<1>5. OnlyAt(p, px', px) /\ px'[p] = y
  BY <1>1, <1>2 DEF OnlyAt, Updated, OfParticipants
<1>6. OneConnection(p) /\ Stored(p)'
  BY <1>2, <1>3, <1>4, <1>5, StoreKept, NotThere DEF OneConnection
<1>7. /\ link'[p] \in LinkState /\ ParticipantEnd(link[p], down[p], px[p], req[p])'
      /\ CoordinatorEnd(link[p], up[p], cx[p], req[p], resp[p])'
  BY <1>1, <1>3, <1>4, <1>5, Here
<1>8. AnswerAt(p)
  BY <1>3 DEF AnswerAt
<1>9. QED
  BY <1>3, <1>6, <1>7, <1>8, ThisConnection

LEMMA PRecvHeaderStep ==
  ASSUME FramingInv, NEW p \in PId, PRecvHeader(p)
  PROVE  Sound(p)
<1>0. OfParticipants(px) /\ OfParticipants(down)
  BY Here DEF ConnectionsInv
<1>1. PICK n \in pieces(down[p], HeaderLen - Len(px[p].header)) :
        LET header == extended(px[p].header, first(down[p], n))
        IN  /\ px' = [px EXCEPT ![p].header = header,
                                ![p].pc = IF Len(header) # HeaderLen THEN "header"
                                          ELSE IF btonum(header) = 0 THEN "work"
                                          ELSE "content"]
            /\ down' = [down EXCEPT ![p] = rest(@, n)]
  BY DEF PRecvHeader
<1>2. Updated(p, px', px, headPiece(px[p], first(down[p], n)))
  BY <1>0, <1>1 DEF Updated, headPiece, OfParticipants
<1>3. Updated(p, down', down, rest(down[p], n))
  BY <1>0, <1>1 DEF Updated, OfParticipants
<1>4. ParticipantEnd(link[p], rest(down[p], n), headPiece(px[p], first(down[p], n)), req[p])
  <2>1. ParticipantEnd(link[p], down[p], px[p], req[p]) /\ px[p].pc = "header"
    BY Here DEF PRecvHeader
  <2>2. QED
    BY <2>1, HeaderPiece
<1>5. TaskTaken(p, rest(down[p], n), headPiece(px[p], first(down[p], n)))
  BY <1>2, <1>3, <1>4 DEF TaskTaken, PRecvHeader
<1>6. QED
  BY <1>5, TaskStep

LEMMA PRecvContentStep ==
  ASSUME FramingInv, NEW p \in PId, PRecvContent(p)
  PROVE  Sound(p)
<1>0. OfParticipants(px) /\ OfParticipants(down)
  BY Here DEF ConnectionsInv
<1>1. PICK need : need = btonum(px[p].header) - Len(px[p].content)
  OBVIOUS
<1>2. PICK n \in pieces(down[p], need) :
        /\ px' = [px EXCEPT ![p].content = @ \o first(down[p], n),
                            ![p].pc = IF n = need THEN "work" ELSE "content"]
        /\ down' = [down EXCEPT ![p] = rest(@, n)]
  BY <1>1 DEF PRecvContent
<1>3. Updated(p, px', px, contentPiece(px[p], first(down[p], n), n = need))
  BY <1>0, <1>2 DEF Updated, contentPiece, OfParticipants
<1>4. Updated(p, down', down, rest(down[p], n))
  BY <1>0, <1>2 DEF Updated, OfParticipants
<1>5. ParticipantEnd(link[p], rest(down[p], n), contentPiece(px[p], first(down[p], n), n = need),
                     req[p])
  <2>1. ParticipantEnd(link[p], down[p], px[p], req[p]) /\ px[p].pc = "content"
    BY Here DEF PRecvContent
  <2>2. QED
    BY <1>1, <2>1, ContentPiece
<1>6. TaskTaken(p, rest(down[p], n), contentPiece(px[p], first(down[p], n), n = need))
  BY <1>3, <1>4, <1>5 DEF TaskTaken, PRecvContent
<1>7. QED
  BY <1>6, TaskStep

LEMMA AcceptAgainStep ==
  ASSUME FramingInv, NEW p \in PId, PAcceptAgain(p)
  PROVE  Sound(p)
<1>1. /\ OfParticipants(cx) /\ OfParticipants(up) /\ OfParticipants(link) /\ OfParticipants(req)
      /\ OfParticipants(down) /\ OfParticipants(px) /\ OfParticipants(resp)
  BY Here DEF ConnectionsInv
<1>2. /\ Updated(p, link', link, "listen") /\ Updated(p, px', px, NewRecv)
      /\ Updated(p, req', req, None)
      /\ UNCHANGED storeVars /\ resp' = resp /\ down' = down /\ up' = up /\ cx' = cx
      /\ link[p] = "half" /\ down[p] = <<>>
  BY DEF PAcceptAgain, Updated, storeVars
<1>3. OnlyAt(p, link', link) /\ link'[p] = "listen"
  BY <1>1, <1>2, OnlyThere
<1>4. OnlyAt(p, px', px) /\ px'[p] = NewRecv
  BY <1>1, <1>2, OnlyThere
<1>5. OnlyAt(p, req', req) /\ req'[p] = None
  BY <1>1, <1>2, OnlyThere
<1>6. OneConnection(p) /\ Stored(p)'
  BY <1>1, <1>2, <1>3, <1>4, <1>5, StoreKept, NotThere DEF OneConnection
<1>7. ParticipantEnd("listen", <<>>, NewRecv, None)
  BY FreshRecv
<1>8. CoordinatorEnd("listen", up[p], cx[p], None, resp[p])
  BY <1>2, Here, TaskGone
<1>9. linkStep(p) /\ AnswerAt(p)
  BY <1>2 DEF PAcceptAgain, linkStep, PKeepAlive, storeVars, AnswerAt
<1>10. QED
  BY <1>2, <1>3, <1>4, <1>5, <1>6, <1>7, <1>8, <1>9, ThisConnection DEF LinkState

LEMMA EmptyStore ==
  /\ EmptyDatabase \in Database /\ TXID_START \in TXID_START .. MaxTxid + 1
  /\ [t \in Txid |-> None] \in [Txid -> Update \cup {None}]
  /\ \A t \in Txid : ~(t < TXID_START)
BY MaxTxidAssumption DEF EmptyDatabase, Database, TXID_START, Txid

LEMMA KilledStep ==
  ASSUME FramingInv, NEW p \in PId, PKilled(p)
  PROVE  Sound(p)
<1>1. /\ OfParticipants(cx) /\ OfParticipants(up) /\ OfParticipants(link) /\ OfParticipants(req)
      /\ OfParticipants(down) /\ OfParticipants(px) /\ OfParticipants(resp)
      /\ OfParticipants(ptxid) /\ OfParticipants(plog) /\ OfParticipants(kv)
  BY Here DEF ConnectionsInv
<1> DEFINE nothing == [t \in Txid |-> None]
<1>2. PICK bytes \in torn(up[p]) : Updated(p, up', up, bytes)
  BY DEF PKilled, Updated
<1>3. /\ Updated(p, link', link, "down") /\ Updated(p, px', px, NewRecv)
      /\ Updated(p, req', req, None) /\ Updated(p, down', down, <<>>)
      /\ Updated(p, ptxid', ptxid, TXID_START) /\ Updated(p, kv', kv, EmptyDatabase)
      /\ Updated(p, plog', plog, nothing)
      /\ resp' = resp /\ cx' = cx
  BY DEF PKilled, PCrash, Updated
<1>4. Stored(p)'
  <2>1. ptxid'[p] = TXID_START
    BY <1>1, <1>3, OnlyThere
  <2>2. kv'[p] = EmptyDatabase
    BY <1>1, <1>3, OnlyThere
  <2>3. plog'[p] = nothing
    BY <1>1, <1>3 DEF Updated, OfParticipants
  <2>4. QED
    BY <2>1, <2>2, <2>3, EmptyStore DEF Stored
<1> HIDE DEF nothing
<1>5. OnlyAt(p, link', link) /\ link'[p] = "down"
  BY <1>1, <1>3, OnlyThere
<1>6. OnlyAt(p, px', px) /\ px'[p] = NewRecv
  BY <1>1, <1>3, OnlyThere
<1>7. OnlyAt(p, req', req) /\ req'[p] = None
  BY <1>1, <1>3, OnlyThere
<1>8. OnlyAt(p, down', down) /\ down'[p] = <<>>
  BY <1>1, <1>3, OnlyThere
<1>9. OnlyAt(p, up', up) /\ up'[p] = bytes
  BY <1>1, <1>2, OnlyThere
<1>10. OnlyAt(p, ptxid', ptxid) /\ OnlyAt(p, kv', kv) /\ OnlyAt(p, plog', plog)
  BY <1>1, <1>3, OnlyThere
<1>11. OneConnection(p)
  BY <1>1, <1>3, <1>5, <1>6, <1>7, <1>8, <1>9, <1>10, NotThere DEF OneConnection
<1>12. ParticipantEnd("down", <<>>, NewRecv, None)
  BY FreshRecv
<1>13. CoordinatorEnd("down", bytes, cx[p], None, resp[p])
  BY Here, ReplyCut
<1>14. linkStep(p) /\ AnswerAt(p)
  BY <1>3 DEF PKilled, linkStep, AnswerAt
<1>15. QED
  BY <1>3, <1>4, <1>5, <1>6, <1>7, <1>8, <1>9, <1>11, <1>12, <1>13, <1>14, ThisConnection
     DEF LinkState

LEMMA StartedStep ==
  ASSUME FramingInv, NEW p \in PId, PStarted(p)
  PROVE  Sound(p)
<1>1. /\ OfParticipants(cx) /\ OfParticipants(up) /\ OfParticipants(link) /\ OfParticipants(req)
      /\ OfParticipants(down) /\ OfParticipants(px) /\ OfParticipants(resp)
  BY Here DEF ConnectionsInv
<1>2. /\ Updated(p, link', link, "listen") /\ link[p] = "down"
      /\ UNCHANGED storeVars /\ req' = req /\ resp' = resp /\ down' = down /\ up' = up
      /\ cx' = cx /\ px' = px
  BY DEF PStarted, PRestart, Updated, storeVars
<1>3. OnlyAt(p, link', link) /\ link'[p] = "listen"
  BY <1>1, <1>2, OnlyThere
<1>4. OneConnection(p) /\ Stored(p)'
  BY <1>1, <1>2, <1>3, StoreKept, NotThere DEF OneConnection
<1>5. req[p] = None
  BY <1>2, Here
<1>6. ParticipantEnd("listen", down[p], px[p], None)
  <2>1. down[p] = <<>> /\ px[p] = NewRecv
    BY <1>5, Here, NothingRead
  <2>2. QED
    BY <2>1, FreshRecv
<1>7. CoordinatorEnd("listen", up[p], cx[p], None, resp[p])
  BY <1>2, Here, TaskGone
<1>8. linkStep(p) /\ AnswerAt(p)
  BY <1>2 DEF PStarted, linkStep, AnswerAt
<1>9. QED
  BY <1>2, <1>3, <1>4, <1>5, <1>6, <1>7, <1>8, ThisConnection DEF LinkState

LEMMA TaskKinds ==
  ASSUME NEW l \in WireTask
  PROVE  \/ l.ID = SUPER_TXID /\ l.event \in PartialCommand
         \/ l.ID \in {RECOVERY_TXID} \cup Txid /\ l.state = "PRE"
         \/ l.ID \in Txid /\ l.state = "COMMIT" /\ l.event \in PartialCommand /\ l \in Update
         \/ l.ID = ASK_DATA_TXID /\ l.asks \in Txid
BY DEF WireTask, Update, Log, AskLog

LEMMA WorkerReply ==
  ASSUME NEW p \in PId, Stored(p), NEW l \in WireTask
  PROVE  workerReply(p, l) \in WireReply
<1>1. ptxid[p] \in TXID_START .. MaxTxid + 1 /\ kv[p] \in Database /\ MaxTxid \in Nat
  BY MaxTxidAssumption DEF Stored
<1>2. /\ PreReply \in WireReply /\ EmptyReply \in WireReply
      /\ \A tid \in TXID_START - 1 .. MaxTxid : TxidReply(tid) \in WireReply
      /\ \A u \in Update : LogReply(u) \in WireReply
      /\ \A c \in PartialCommand \cup {<<>>} : \A r \in Outcome(c) : r \in WireReply
  BY DEF WireReply
<1>3. ErrorReply \in WireReply
  BY <1>2 DEF Outcome
<1>4. \A c \in PartialCommand : eventParser(kv[p], c).reply \in WireReply
  BY <1>1, <1>2 DEF Outcome
<1>5. CASE l.ID = SUPER_TXID
  <2>1. l.event \in PartialCommand
    BY <1>5, TaskKinds DEF Txid, SUPER_TXID, RECOVERY_TXID, ASK_DATA_TXID, TXID_START
  <2>2. QED
    BY <1>1, <1>4, <1>5, <2>1
       DEF workerReply, commits, SUPER_TXID, RECOVERY_TXID, ASK_DATA_TXID, TXID_START
<1>6. CASE l.ID = RECOVERY_TXID
  <2>1. ptxid[p] - 1 \in TXID_START - 1 .. MaxTxid
    BY <1>1 DEF TXID_START
  <2>2. QED
    BY <1>1, <1>2, <1>6, <2>1
       DEF workerReply, commits, SUPER_TXID, RECOVERY_TXID, ASK_DATA_TXID, TXID_START
<1>7. CASE l.ID = ASK_DATA_TXID
  <2>1. l.asks \in Txid
    BY <1>7, TaskKinds DEF Txid, SUPER_TXID, RECOVERY_TXID, ASK_DATA_TXID, TXID_START
  <2>2. l.asks \in Int /\ ptxid[p] \in Int
    BY <1>1, <2>1 DEF Txid, TXID_START
  <2>3. l.asks >= ptxid[p] \/ plog[p][l.asks] \in Update
    BY <2>1, <2>2 DEF Stored
  <2>4. QED
    BY <1>1, <1>2, <1>7, <2>1, <2>3
       DEF workerReply, commits, SUPER_TXID, RECOVERY_TXID, ASK_DATA_TXID, TXID_START
<1>8. CASE l.ID \notin {SUPER_TXID, RECOVERY_TXID, ASK_DATA_TXID}
  <2>1. CASE commits(p, l)
    <3>1. l.event \in PartialCommand /\ l.state = "COMMIT"
      BY <1>8, <2>1, TaskKinds DEF commits
    <3>2. QED
      BY <1>4, <1>8, <2>1, <3>1 DEF workerReply
  <2>2. CASE ~commits(p, l)
    BY <1>2, <1>3, <1>8, <2>2 DEF workerReply
  <2>3. QED
    BY <2>1, <2>2
<1>9. QED
  BY <1>5, <1>6, <1>7, <1>8

\* What a committed task leaves behind is an update.
LEMMA WorkerStore ==
  ASSUME NEW p \in PId, Stored(p), OfParticipants(ptxid), OfParticipants(plog),
         OfParticipants(kv), NEW l \in WireTask,
         kv' = IF l.ID = SUPER_TXID \/ commits(p, l)
               THEN [kv EXCEPT ![p] = eventParser(kv[p], l.event).db] ELSE kv,
         IF logsTask(p, l)
         THEN plog' = [plog EXCEPT ![p][l.ID] = l] /\ ptxid' = [ptxid EXCEPT ![p] = @ + 1]
         ELSE UNCHANGED <<plog, ptxid>>
  PROVE  /\ Stored(p)'
         /\ OnlyAt(p, ptxid', ptxid) /\ OnlyAt(p, plog', plog) /\ OnlyAt(p, kv', kv)
<1>1. ptxid[p] \in TXID_START .. MaxTxid + 1 /\ kv[p] \in Database /\ MaxTxid \in Nat
  BY MaxTxidAssumption DEF Stored
<1>2. ASSUME l.ID = SUPER_TXID \/ commits(p, l)
      PROVE  l.event \in PartialCommand
  <2>1. CASE l.ID = SUPER_TXID
    BY <2>1, TaskKinds DEF Txid, SUPER_TXID, RECOVERY_TXID, ASK_DATA_TXID, TXID_START
  <2>2. CASE commits(p, l)
    <3>1. l.ID \in TXID_START .. MaxTxid + 1 /\ l.state = "COMMIT"
      BY <1>1, <2>2 DEF commits
    <3>2. QED
      BY <3>1, TaskKinds DEF SUPER_TXID, RECOVERY_TXID, ASK_DATA_TXID, TXID_START
  <2>3. QED
    BY <1>2, <2>1, <2>2
<1>3. kv'[p] \in Database /\ OnlyAt(p, kv', kv)
  <2>1. CASE l.ID = SUPER_TXID \/ commits(p, l)
    <3>1. eventParser(kv[p], l.event).db \in Database
      BY <1>1, <1>2, <2>1, Executed
    <3>2. QED
      BY <2>1, <3>1 DEF OnlyAt, OfParticipants
  <2>2. CASE ~(l.ID = SUPER_TXID \/ commits(p, l))
    BY <1>1, <2>2, NotThere
  <2>3. QED
    BY <2>1, <2>2
<1>4. CASE logsTask(p, l)
  <2>1. l.ID = ptxid[p] /\ l.state = "COMMIT"
    BY <1>4 DEF logsTask, commits
  <2>2. l \in Update /\ l.ID \in Txid
    BY <1>1, <2>1, TaskKinds DEF SUPER_TXID, RECOVERY_TXID, ASK_DATA_TXID, TXID_START
  <2>3. /\ OnlyAt(p, plog', plog) /\ plog'[p] = [plog[p] EXCEPT ![l.ID] = l]
        /\ OnlyAt(p, ptxid', ptxid) /\ ptxid'[p] = ptxid[p] + 1
    <3>1. /\ plog' = [plog EXCEPT ![p] = [plog[p] EXCEPT ![l.ID] = l]]
          /\ ptxid' = [ptxid EXCEPT ![p] = ptxid[p] + 1]
      BY <1>4
    <3>2. QED
      BY <3>1 DEF OnlyAt, OfParticipants
  <2>4. ptxid'[p] \in TXID_START .. MaxTxid + 1
    BY <1>1, <2>1, <2>2, <2>3 DEF Txid, TXID_START
  <2>5. plog'[p] \in [Txid -> Update \cup {None}]
    BY <2>2, <2>3 DEF Stored
  <2>6. \A t \in Txid : t < ptxid'[p] => plog'[p][t] \in Update
    <3>1. \A t \in Txid : t < ptxid[p] + 1 => t < ptxid[p] \/ t = ptxid[p]
      BY <1>1 DEF Txid, TXID_START
    <3>2. QED
      BY <2>1, <2>2, <2>3, <3>1 DEF Stored
  <2>7. QED
    BY <1>3, <2>3, <2>4, <2>5, <2>6 DEF Stored
<1>5. CASE ~logsTask(p, l)
  <2>1. plog' = plog /\ ptxid' = ptxid
    BY <1>5
  <2>2. QED
    BY <1>3, <2>1, NotThere DEF Stored
<1>6. QED
  BY <1>4, <1>5

LEMMA WorkStep ==
  ASSUME FramingInv, NEW p \in PId, PWork(p)
  PROVE  Sound(p)
<1>1. /\ OfParticipants(cx) /\ OfParticipants(up) /\ OfParticipants(link) /\ OfParticipants(req)
      /\ OfParticipants(down) /\ OfParticipants(px) /\ OfParticipants(resp)
      /\ OfParticipants(ptxid) /\ OfParticipants(plog) /\ OfParticipants(kv)
  BY Here DEF ConnectionsInv
<1>2. PICK l : l = strToLog(px[p].content)
  OBVIOUS
<1>3. l \in WireTask /\ req[p] = l /\ req[p] # None /\ down[p] = <<>>
  <2>1. ParticipantEnd(link[p], down[p], px[p], req[p]) /\ px[p].pc = "work"
    BY Here DEF PWork
  <2>2. req[p] \in WireTask /\ strToLog(px[p].content) = req[p] /\ down[p] = <<>>
    BY <2>1, Executable
  <2>3. QED
    BY <1>2, <2>2, TaskText
<1>4. /\ kv' = IF l.ID = SUPER_TXID \/ commits(p, l)
               THEN [kv EXCEPT ![p] = eventParser(kv[p], l.event).db] ELSE kv
      /\ IF logsTask(p, l)
         THEN plog' = [plog EXCEPT ![p][l.ID] = l] /\ ptxid' = [ptxid EXCEPT ![p] = @ + 1]
         ELSE UNCHANGED <<plog, ptxid>>
      /\ IF link[p] = "up"
         THEN /\ up' = [up EXCEPT ![p] = @ \o packet(replyBytes(workerReply(p, l)))]
              /\ resp' = [resp EXCEPT ![p] = workerReply(p, l)]
         ELSE UNCHANGED <<up, resp>>
      /\ Updated(p, px', px, NewRecv) /\ Updated(p, req', req, None)
      /\ link' = link /\ down' = down /\ cx' = cx
      /\ link[p] \in {"up", "half"}
  BY <1>2 DEF PWork, Updated, connected
<1>5. /\ Stored(p)'
      /\ OnlyAt(p, ptxid', ptxid) /\ OnlyAt(p, plog', plog) /\ OnlyAt(p, kv', kv)
  BY <1>1, <1>3, <1>4, Here, WorkerStore
<1>6. OnlyAt(p, px', px) /\ px'[p] = NewRecv
  BY <1>1, <1>4, OnlyThere
<1>7. OnlyAt(p, req', req) /\ req'[p] = None
  BY <1>1, <1>4, OnlyThere
<1>8. OnlyAt(p, link', link) /\ OnlyAt(p, down', down) /\ OnlyAt(p, cx', cx)
  BY <1>1, <1>4, NotThere
<1>9. ParticipantEnd(link[p], down[p], NewRecv, None)
  BY <1>3, FreshRecv
<1>10. PICK r \in WireReply : r = workerReply(p, l)
  BY <1>3, Here, WorkerReply
<1>11. AnswerAt(p)
  BY <1>4 DEF AnswerAt
<1>12. CASE link[p] = "up"
  <2>1. /\ Updated(p, up', up, up[p] \o packet(replyBytes(r))) /\ Updated(p, resp', resp, r)
    BY <1>4, <1>10, <1>12 DEF Updated
  <2>2. OnlyAt(p, up', up) /\ up'[p] = up[p] \o packet(replyBytes(r))
    BY <1>1, <2>1 DEF OnlyAt, Updated, OfParticipants
  <2>3. OnlyAt(p, resp', resp) /\ resp'[p] = r
    BY <1>1, <2>1, OnlyThere
  <2>4. OneConnection(p)
    BY <1>5, <1>6, <1>7, <1>8, <2>2, <2>3 DEF OneConnection
  <2>5. CoordinatorEnd("up", up[p] \o packet(replyBytes(r)), cx[p], None, r)
    BY <1>3, <1>12, Here, ReplySent
  <2>6. linkStep(p)
    <3>1. resp' = [resp EXCEPT ![p] = IF link[p] = "up" THEN workerReply(p, l) ELSE None]
          /\ req' = [req EXCEPT ![p] = None]
      BY <1>4, <1>12 DEF Updated
    <3>2. PWorking(p)
      BY <1>3, <1>4, <3>1 DEF PWorking
    <3>3. QED
      BY <3>2 DEF linkStep
  <2>7. QED
    BY <1>4, <1>5, <1>6, <1>7, <1>9, <1>11, <1>12, <2>2, <2>3, <2>4, <2>5, <2>6, ThisConnection
       DEF LinkState
<1>13. CASE link[p] = "half"
  <2>1. up' = up /\ resp' = resp
    BY <1>4, <1>13
  <2>2. OneConnection(p)
    BY <1>1, <1>5, <1>6, <1>7, <1>8, <2>1, NotThere DEF OneConnection
  <2>3. CoordinatorEnd("half", up[p], cx[p], None, resp[p])
    BY <1>13, Here, TaskGone
  <2>4. resp[p] = None
    BY <1>13, Here DEF CoordinatorEnd, quiet, NoCall
  <2>5. linkStep(p)
    <3>1. resp' = [resp EXCEPT ![p] = IF link[p] = "up" THEN workerReply(p, l) ELSE None]
          /\ req' = [req EXCEPT ![p] = None]
      BY <1>1, <1>4, <1>13, <2>1, <2>4 DEF Updated, OfParticipants
    <3>2. PWorking(p)
      BY <1>3, <1>4, <3>1 DEF PWorking
    <3>3. QED
      BY <3>2 DEF linkStep
  <2>6. QED
    BY <1>4, <1>5, <1>6, <1>7, <1>9, <1>11, <1>13, <2>1, <2>2, <2>3, <2>5, ThisConnection
       DEF LinkState
<1>14. QED
  BY <1>4, <1>12, <1>13

===============================================================================
