----------------------------- MODULE SumsProofs -----------------------------
(***************************************************************************)
(* What SumTo computes, proved for functions of any length.  Induction on  *)
(* the naturals is obtained in its set form from the least-element theorem *)
(* of the well-foundedness library.                                        *)
(***************************************************************************)
EXTENDS Sums, WellFoundedInduction, TLAPS

\* Every non-empty set of naturals has a least element.
LEMMA LeastElement ==
    ASSUME NEW T, T \subseteq Nat, T # {}
    PROVE  \E x \in T : \A y \in T : ~(y < x)
<1> DEFINE R == {p \in Nat \X Nat : p[1] < p[2]}
<1>1. IsWellFoundedOn(R, Nat)
  BY SMTT(30), NatLessThanWellFounded DEF OpToRel
<1> HIDE DEF R
<1>2. \E x \in T : \A y \in T : ~(<<y, x>> \in R)
  BY Zenon, <1>1, WFMin
<1> QED BY Zenon, <1>2 DEF R

\* Induction for a property of naturals given as a set.
LEMMA SetInduction ==
    ASSUME NEW S, 0 \in S, \A n \in Nat : n \in S => n + 1 \in S
    PROVE  \A n \in Nat : n \in S
<1> SUFFICES ASSUME Nat \ S # {} PROVE FALSE
  BY SMTT(30)
<1>1. PICK x \in Nat \ S : \A y \in Nat \ S : ~(y < x)
  BY Zenon, LeastElement
<1>2. x - 1 \in Nat
  BY SMTT(30), <1>1
<1>3. x - 1 \in S
  BY SMTT(30), <1>1, <1>2
<1> QED BY SMTT(30), <1>1, <1>2, <1>3

\* The recursion SumTo is defined by: g is the list of partial sums of f.
IsPartialSums(g, f, n) ==
    g = [i \in 0..n |-> IF i = 0 THEN 0 ELSE g[i-1] + f[i]]

\* The partial sums of a function exist.
LEMMA PartialSumsExist ==
    ASSUME NEW f, NEW n \in Nat
    PROVE  \E g : IsPartialSums(g, f, n)
<1> DEFINE S == {m \in Nat : \E g : IsPartialSums(g, f, m)}
<1>1. 0 \in S
  <2> DEFINE g == [i \in 0..0 |-> 0]
  <2>1. IsPartialSums(g, f, 0)
    BY SMTT(30) DEF IsPartialSums
  <2> QED BY SMTT(30), <2>1
<1>2. ASSUME NEW m \in Nat, m \in S PROVE m + 1 \in S
  <2>1. PICK g : IsPartialSums(g, f, m)
    BY SMTT(30), <1>2
  <2> DEFINE h == [i \in 0..(m+1) |-> IF i = m + 1 THEN g[m] + f[m+1] ELSE g[i]]
  <2>2. \A i \in 0..(m+1) : h[i] = IF i = 0 THEN 0 ELSE h[i-1] + f[i]
    <3> TAKE i \in 0..(m+1)
    <3>1. CASE i = m + 1
      BY SMTT(30), <3>1
    <3>2. CASE i \in 0..m
      <4>1. g[i] = IF i = 0 THEN 0 ELSE g[i-1] + f[i]
        BY SMTT(30), <2>1, <3>2 DEF IsPartialSums
      <4> QED BY SMTT(30), <4>1, <3>2
    <3> QED BY SMTT(30), <3>1, <3>2
  <2>3. IsPartialSums(h, f, m + 1)
    BY SMTT(30), <2>2 DEF IsPartialSums
  <2> HIDE DEF h
  <2> QED BY SMTT(30), <2>3
<1> HIDE DEF S
<1>3. n \in S
  BY SMTT(30), <1>1, <1>2, SetInduction
<1> QED BY SMTT(30), <1>3 DEF S

\* SumTo is the last of the partial sums.
LEMMA SumToPartial ==
    ASSUME NEW f, NEW n \in Nat
    PROVE  \E g : IsPartialSums(g, f, n) /\ SumTo(f, n) = g[n]
<1> DEFINE c == CHOOSE g : IsPartialSums(g, f, n)
<1>1. IsPartialSums(c, f, n)
  BY SMTT(30), PartialSumsExist
<1>2. SumTo(f, n) = c[n]
  BY SMTT(30) DEF SumTo, IsPartialSums
<1> QED BY Zenon, <1>1, <1>2

\* Partial sums of functions that agree are equal where both are defined.
LEMMA PartialSumsUnique ==
    ASSUME NEW f, NEW e, NEW n \in Nat, NEW m \in Nat, NEW k \in Nat,
           k <= n, k <= m, \A i \in 1..k : f[i] = e[i],
           NEW g, NEW h, IsPartialSums(g, f, n), IsPartialSums(h, e, m)
    PROVE  g[k] = h[k]
<1> DEFINE S == {j \in Nat : j <= k => g[j] = h[j]}
<1>1. 0 \in S
  BY SMTT(30) DEF IsPartialSums
<1>2. ASSUME NEW j \in Nat, j \in S PROVE j + 1 \in S
  <2> SUFFICES ASSUME j + 1 <= k PROVE g[j+1] = h[j+1]
    BY SMTT(30)
  <2>1. g[j] = h[j]
    BY SMTT(30), <1>2
  <2>2. g[j+1] = g[j] + f[j+1] /\ h[j+1] = h[j] + e[j+1]
    BY SMTT(30) DEF IsPartialSums
  <2> QED BY SMTT(30), <2>1, <2>2
<1> HIDE DEF S
<1>3. k \in S
  BY SMTT(30), <1>1, <1>2, SetInduction
<1> QED BY SMTT(30), <1>3 DEF S

-----------------------------------------------------------------------------
\* The sum of no values is zero.
THEOREM SumToZero == ASSUME NEW f PROVE SumTo(f, 0) = 0
<1>1. PICK g : IsPartialSums(g, f, 0) /\ SumTo(f, 0) = g[0]
  BY SMTT(30), SumToPartial
<1> QED BY SMTT(30), <1>1 DEF IsPartialSums

\* Functions that agree on 1..n have the same sum.
THEOREM SumToEqual ==
    ASSUME NEW f, NEW e, NEW n \in Nat, \A i \in 1..n : f[i] = e[i]
    PROVE  SumTo(f, n) = SumTo(e, n)
<1>1. PICK g : IsPartialSums(g, f, n) /\ SumTo(f, n) = g[n]
  BY SMTT(30), SumToPartial
<1>2. PICK h : IsPartialSums(h, e, n) /\ SumTo(e, n) = h[n]
  BY SMTT(30), SumToPartial
<1>3. g[n] = h[n]
  BY SMTT(30), <1>1, <1>2, PartialSumsUnique
<1> QED BY SMTT(30), <1>1, <1>2, <1>3

\* A sum grows by the value that is added at the end.
THEOREM SumToStep ==
    ASSUME NEW f, NEW n \in Nat
    PROVE  SumTo(f, n + 1) = SumTo(f, n) + f[n + 1]
<1>1. PICK g : IsPartialSums(g, f, n) /\ SumTo(f, n) = g[n]
  BY SMTT(30), SumToPartial
<1>2. PICK h : IsPartialSums(h, f, n + 1) /\ SumTo(f, n + 1) = h[n + 1]
  BY SMTT(30), SumToPartial
<1>3. g[n] = h[n]
  <2>1. PICK m \in Nat : m = n + 1
    BY SMTT(30)
  <2>2. PICK e : e = f
    BY SMTT(30)
  <2>3. IsPartialSums(h, e, m) /\ n <= m /\ \A i \in 1..n : f[i] = e[i]
    BY SMTT(30), <1>2, <2>1, <2>2
  <2> QED BY SMTT(30), <1>1, <2>3, PartialSumsUnique
<1>4. h[n + 1] = h[n] + f[n + 1]
  BY SMTT(30), <1>2 DEF IsPartialSums
<1> QED BY SMTT(30), <1>1, <1>2, <1>3, <1>4

\* A sum of naturals is a natural.
THEOREM SumToNat ==
    ASSUME NEW f, NEW n \in Nat, \A i \in 1..n : f[i] \in Nat
    PROVE  SumTo(f, n) \in Nat
<1> DEFINE S == {m \in Nat : m <= n => SumTo(f, m) \in Nat}
<1>1. 0 \in S
  BY SMTT(30), SumToZero
<1>2. ASSUME NEW m \in Nat, m \in S PROVE m + 1 \in S
  BY SMTT(30), <1>2, SumToStep
<1> HIDE DEF S
<1>3. n \in S
  BY SMTT(30), <1>1, <1>2, SetInduction
<1> QED BY SMTT(30), <1>3 DEF S

\* The sum of pointwise sums is the sum of the sums.
THEOREM SumToAdd ==
    ASSUME NEW f, NEW e, NEW d, NEW n \in Nat,
           \A i \in 1..n : f[i] \in Nat /\ e[i] \in Nat /\ d[i] = f[i] + e[i]
    PROVE  SumTo(d, n) = SumTo(f, n) + SumTo(e, n)
<1> DEFINE S == {m \in Nat : m <= n => /\ SumTo(f, m) \in Nat /\ SumTo(e, m) \in Nat
                                       /\ SumTo(d, m) = SumTo(f, m) + SumTo(e, m)}
<1>1. 0 \in S
  BY SMTT(30), SumToZero
<1>2. ASSUME NEW m \in Nat, m \in S PROVE m + 1 \in S
  <2> SUFFICES ASSUME m + 1 <= n
               PROVE  /\ SumTo(f, m + 1) \in Nat /\ SumTo(e, m + 1) \in Nat
                      /\ SumTo(d, m + 1) = SumTo(f, m + 1) + SumTo(e, m + 1)
    BY SMTT(30)
  <2>1. /\ SumTo(f, m + 1) = SumTo(f, m) + f[m + 1]
        /\ SumTo(e, m + 1) = SumTo(e, m) + e[m + 1]
        /\ SumTo(d, m + 1) = SumTo(d, m) + d[m + 1]
    BY SMTT(30), SumToStep
  <2>2. f[m + 1] \in Nat /\ e[m + 1] \in Nat /\ d[m + 1] = f[m + 1] + e[m + 1]
    BY SMTT(30)
  <2>3. /\ SumTo(f, m) \in Nat /\ SumTo(e, m) \in Nat
        /\ SumTo(d, m) = SumTo(f, m) + SumTo(e, m)
    BY SMTT(30), <1>2
  <2> QED BY SMTT(30), <2>1, <2>2, <2>3
<1> HIDE DEF S
<1>3. n \in S
  BY SMTT(30), <1>1, <1>2, SetInduction
<1> QED BY SMTT(30), <1>3 DEF S

\* Changing one value changes the sum by the same difference.
THEOREM SumToUpdate ==
    ASSUME NEW f, NEW e, NEW n \in Nat, NEW a \in 1..n,
           \A i \in 1..n : f[i] \in Nat /\ e[i] \in Nat,
           \A i \in 1..n : i # a => e[i] = f[i]
    PROVE  SumTo(e, n) + f[a] = SumTo(f, n) + e[a]
<1> DEFINE S == {m \in Nat : m <= n =>
                    /\ SumTo(f, m) \in Nat /\ SumTo(e, m) \in Nat
                    /\ IF m < a THEN SumTo(e, m) = SumTo(f, m)
                       ELSE SumTo(e, m) + f[a] = SumTo(f, m) + e[a]}
<1>1. 0 \in S
  BY SMTT(30), SumToZero
<1>2. ASSUME NEW m \in Nat, m \in S PROVE m + 1 \in S
  <2> SUFFICES ASSUME m + 1 <= n
               PROVE  /\ SumTo(f, m + 1) \in Nat /\ SumTo(e, m + 1) \in Nat
                      /\ IF m + 1 < a THEN SumTo(e, m + 1) = SumTo(f, m + 1)
                         ELSE SumTo(e, m + 1) + f[a] = SumTo(f, m + 1) + e[a]
    BY SMTT(30)
  <2>1. /\ SumTo(f, m + 1) = SumTo(f, m) + f[m + 1]
        /\ SumTo(e, m + 1) = SumTo(e, m) + e[m + 1]
    BY SMTT(30), SumToStep
  <2>2. f[m + 1] \in Nat /\ e[m + 1] \in Nat /\ (m + 1 # a => e[m + 1] = f[m + 1])
    BY SMTT(30)
  <2>3. /\ SumTo(f, m) \in Nat /\ SumTo(e, m) \in Nat
        /\ IF m < a THEN SumTo(e, m) = SumTo(f, m)
           ELSE SumTo(e, m) + f[a] = SumTo(f, m) + e[a]
    BY SMTT(30), <1>2
  <2>4. f[a] \in Nat /\ e[a] \in Nat
    BY SMTT(30)
  <2> QED BY SMTT(30), <2>1, <2>2, <2>3, <2>4
<1> HIDE DEF S
<1>3. n \in S
  BY SMTT(30), <1>1, <1>2, SetInduction
<1> QED BY SMTT(30), <1>3 DEF S
=============================================================================
