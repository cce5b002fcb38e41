--------------------------- MODULE CometAppProofs ---------------------------
(***************************************************************************)
(* The application under CometBFT keeps its types, creates no SYN, gives   *)
(* no consensus key two owners, and is never more than one block away from *)
(* the engine - for every number of accounts, keys, blocks and crashes.    *)
(* CometBFT's validator set and the application's stay in step, a block    *)
(* that is executed again gives the same response, and whoever is in the   *)
(* set in force still has stake to answer with.                            *)
(*                                                                         *)
(* First what the operations of the ledger preserve, for any number of     *)
(* accounts, keys and unbonding entries: the state stays well typed,       *)
(* consensus keys stay unique, and no operation creates SYN.               *)
(***************************************************************************)
EXTENDS CometApp, SumsProofs

-----------------------------------------------------------------------------
(* Arithmetic and loops.                                                   *)

\* The naturals are closed under addition, and a sum is at least each term.
LEMMA NatSum == \A x, y \in Nat : x + y \in Nat /\ (y > 0 => x + y > 0)
OBVIOUS

\* A natural other than 0 is positive.
LEMMA NatPositive == \A x \in Nat \ {0} : x \in Nat /\ x > 0
OBVIOUS

\* What is left of a natural that was large enough is a natural.
LEMMA NatLess == \A x, y \in Nat : y <= x => x - y \in Nat
OBVIOUS

\* The next number is another one, and the one after that is two further.
LEMMA NatNext == \A x \in Nat : x + 1 # x /\ (x + 1) + 1 = x + 2
OBVIOUS

\* The numbers of accounts and keys are naturals.
LEMMA NumNat == NumAccounts \in Nat /\ NumKeys \in Nat
BY Zenon, AccountsAssumption, KeysAssumption

\* A basis-point cut of an amount is at most the amount.
LEMMA SlashCutBound ==
    ASSUME NEW x \in Nat
    PROVE  SlashCut(x) \in Nat /\ SlashCut(x) <= x
<1> DEFINE y == x * SlashFractionBps
<1>1. y \in Nat /\ y <= x * 10000
  BY SMTT(30), SlashAssumption
<1> HIDE DEF y
<1>2. y \div 10000 \in Nat /\ y \div 10000 <= x
  BY SMTT(30), <1>1
<1> QED BY SMTT(30), <1>2 DEF SlashCut, y

\* Half of the fees, rounded down, is burned; the rest is not negative.
LEMMA BurnPartBound ==
    ASSUME NEW x \in Nat
    PROVE  BurnPart(x) \in Nat /\ BurnPart(x) <= x /\ x - BurnPart(x) \in Nat
BY SMTT(30) DEF BurnPart

\* F takes an index and a value of X to the next value of X.
LoopStep(F, n, X) == F \in [(1..n) \X X -> X]

\* g holds the values a loop over 1..n takes, from base on.
LoopRun(g, F, base, n, X) ==
    /\ g \in [0..n -> X]
    /\ g[0] = base
    /\ \A i \in 1..n : g[i] = F[<<i, g[i-1]>>]

\* A loop over 1..n with a step function has a value at every index.
LEMMA LoopExists ==
    ASSUME NEW X, NEW base \in X, NEW n \in Nat, NEW F, LoopStep(F, n, X)
    PROVE  \E g : LoopRun(g, F, base, n, X)
<1> USE DEF LoopStep
<1> DEFINE P(m) == \E g \in [0..m -> X] :
                       g[0] = base /\ \A i \in 1..m : g[i] = F[<<i, g[i-1]>>]
           S == {m \in Nat : m <= n => P(m)}
<1>1. 0 \in S
  <2> DEFINE g == [i \in 0..0 |-> base]
  <2>1. g \in [0..0 -> X] /\ g[0] = base /\ \A i \in 1..0 : g[i] = F[<<i, g[i-1]>>]
    BY SMTT(30)
  <2> HIDE DEF g
  <2> QED BY Zenon, <2>1
<1>2. ASSUME NEW m \in Nat, m \in S PROVE m + 1 \in S
  <2> SUFFICES ASSUME m + 1 <= n PROVE P(m + 1)
    BY SMTT(30)
  <2>1. PICK g \in [0..m -> X] : g[0] = base /\ \A i \in 1..m : g[i] = F[<<i, g[i-1]>>]
    BY SMTT(30), <1>2
  <2> DEFINE h == [i \in 0..(m+1) |-> IF i = m + 1 THEN F[<<m + 1, g[m]>>] ELSE g[i]]
  <2>2. F[<<m + 1, g[m]>>] \in X
    BY SMTT(30)
  <2>3. h \in [0..(m+1) -> X] /\ h[0] = base
    BY SMTT(30), <2>1, <2>2
  <2>4. ASSUME NEW i \in 1..(m+1) PROVE h[i] = F[<<i, h[i-1]>>]
    <3>1. CASE i = m + 1
      <4>1. i - 1 = m /\ h[m] = g[m] /\ h[m + 1] = F[<<m + 1, g[m]>>]
        BY SMTT(30), <3>1
      <4> HIDE DEF h
      <4> QED BY Zenon, <3>1, <4>1
    <3>2. CASE i \in 1..m
      BY SMTT(30), <3>2, <2>1
    <3> QED BY SMTT(30), <3>1, <3>2
  <2> HIDE DEF h
  <2> QED BY Zenon, <2>3, <2>4
<1> HIDE DEF S
<1>3. n \in S
  BY Zenon, <1>1, <1>2, SetInduction
<1> QED BY SMTT(30), <1>3 DEF S, LoopRun

\* The total of a list of unbonding entries is a natural.
LEMMA UnbondingTotalNat ==
    ASSUME NEW u \in Seq(UnbondingEntry)
    PROVE  UnbondingTotal(u) \in Nat
<1>1. ASSUME NEW i \in 1..Len(u) PROVE Amounts(u)[i] \in Nat
  <2>1. u[i] \in UnbondingEntry
    BY SMTT(30)
  <2> QED BY Zenon, <2>1 DEF Amounts, UnbondingEntry
<1> QED BY SMTT(30), <1>1, SumToNat DEF UnbondingTotal

\* The total of a list grows by the amount of an entry that is appended.
LEMMA UnbondingTotalAppend ==
    ASSUME NEW u \in Seq(UnbondingEntry), NEW e \in UnbondingEntry
    PROVE  UnbondingTotal(Append(u, e)) = UnbondingTotal(u) + e.amount
<1> DEFINE v == Append(u, e)
<1>1. Len(v) = Len(u) + 1 /\ v \in Seq(UnbondingEntry) /\ Len(u) \in Nat
  BY SMTT(30)
<1>2. \A i \in 1..Len(u) : Amounts(v)[i] = Amounts(u)[i]
  BY SMTT(30) DEF Amounts
<1>3. Amounts(v)[Len(u) + 1] = e.amount
  BY SMTT(30) DEF Amounts
<1> HIDE DEF v
<1>4. SumTo(Amounts(v), Len(u)) = SumTo(Amounts(u), Len(u))
  BY Zenon, <1>1, <1>2, SumToEqual
<1>5. SumTo(Amounts(v), Len(u) + 1) = SumTo(Amounts(v), Len(u)) + Amounts(v)[Len(u) + 1]
  BY Zenon, <1>1, SumToStep
<1> QED BY Zenon, <1>1, <1>3, <1>4, <1>5 DEF UnbondingTotal, v

\* Every field of every entry of a list is a natural.
LEMMA EntryFields ==
    ASSUME NEW u \in Seq(UnbondingEntry), NEW i \in 1..Len(u)
    PROVE  u[i] \in UnbondingEntry /\ u[i].amount \in Nat /\ u[i].at \in Nat
<1>1. u[i] \in UnbondingEntry
  OBVIOUS
<1> QED BY Zenon, <1>1 DEF UnbondingEntry

\* The loop of validator_withdraw, entry by entry: c[j] is what it keeps of
\* the first j.
LEMMA PendingLoop ==
    ASSUME NEW u \in Seq(UnbondingEntry), NEW ht \in Nat
    PROVE  \E c : /\ StillPending(u, ht) = c[Len(u)] /\ c[0] = <<>>
                 /\ \A j \in Nat : j + 1 <= Len(u) =>
                       c[j + 1] = IF u[j + 1].at <= ht THEN c[j]
                                  ELSE Append(c[j], u[j + 1])
<1> DEFINE n == Len(u)
           X == Seq(UnbondingEntry)
           Step(i, x) == IF u[i].at <= ht THEN x ELSE Append(x, u[i])
           F == [p \in (1..n) \X X |-> Step(p[1], p[2])]
           body(g) == [i \in 0..n |-> IF i = 0 THEN <<>> ELSE
                          IF u[i].at <= ht THEN g[i-1] ELSE Append(g[i-1], u[i])]
           c == CHOOSE g : g = body(g)
<1>1. n \in Nat /\ <<>> \in X
  BY SMTT(30)
<1>2. ASSUME NEW i \in 1..n, NEW x \in X PROVE Step(i, x) \in X
  BY SMTT(30), EntryFields
<1>3. F \in [(1..n) \X X -> X]
  <2> HIDE DEF Step, X, n
  <2> QED BY Zenon, <1>2
<1>4. \E g : g = body(g)
  <2> HIDE DEF X, F, n
  <2>1. PICK g \in [0..n -> X] : g[0] = <<>> /\ \A i \in 1..n : g[i] = F[<<i, g[i-1]>>]
    <3>1. LoopStep(F, n, X)
      BY Zenon, <1>3 DEF LoopStep
    <3>2. \E g : LoopRun(g, F, <<>>, n, X)
      BY Zenon, <1>1, <3>1, LoopExists
    <3> QED BY Zenon, <3>2 DEF LoopRun
  <2>2. ASSUME NEW i \in 1..n
        PROVE  g[i] = IF u[i].at <= ht THEN g[i-1] ELSE Append(g[i-1], u[i])
    <3>1. <<i, g[i-1]>> \in (1..n) \X X
      BY SMTT(30), <2>1, <1>1
    <3>2. F[<<i, g[i-1]>>] = Step(i, g[i-1])
      BY Zenon, <3>1 DEF F
    <3> QED BY Zenon, <2>1, <3>2
  <2>3. \A i \in 0..n : g[i] = IF i = 0 THEN <<>> ELSE
                          IF u[i].at <= ht THEN g[i-1] ELSE Append(g[i-1], u[i])
    <3> TAKE i \in 0..n
    <3>1. CASE i = 0
      BY Zenon, <2>1, <3>1
    <3>2. CASE i # 0
      <4>1. i \in 1..n
        BY SMTT(30), <1>1, <3>2
      <4> QED BY Zenon, <2>2, <4>1, <3>2
    <3> QED BY Zenon, <3>1, <3>2
  <2>4. g = [i \in 0..n |-> g[i]]
    BY Zenon
  <2>5. g = body(g)
    BY <2>3, <2>4, Zenon
  <2> QED BY Zenon, <2>5
<1>5. c = body(c)
  <2> HIDE DEF body
  <2> QED BY Zenon, <1>4
<1>6. StillPending(u, ht) = c[n]
  BY Zenon DEF StillPending
<1> HIDE DEF c
<1>7. c[0] = <<>>
  BY SMTT(30), <1>5, <1>1
<1>8. ASSUME NEW j \in Nat, j + 1 <= n
      PROVE  c[j + 1] = IF u[j + 1].at <= ht THEN c[j] ELSE Append(c[j], u[j + 1])
  <2> DEFINE k == j + 1
  <2>1. k \in 0..n /\ k # 0 /\ k - 1 = j
    BY SMTT(30), <1>1, <1>8
  <2> HIDE DEF k
  <2>2. c[k] = IF u[k].at <= ht THEN c[k-1] ELSE Append(c[k-1], u[k])
    <3>1. c[k] = body(c)[k]
      BY <1>5, Zenon
    <3> QED BY Zenon, <2>1, <3>1
  <2>3. c[k] = IF u[k].at <= ht THEN c[j] ELSE Append(c[j], u[k])
    BY Zenon, <2>1, <2>2
  <2> QED BY Zenon, <2>3 DEF k
<1>9. \A j \in Nat : j + 1 <= n =>
         c[j + 1] = IF u[j + 1].at <= ht THEN c[j] ELSE Append(c[j], u[j + 1])
  BY Zenon, <1>8
<1> QED BY Zenon, <1>6, <1>7, <1>9

\* validator_withdraw splits the unbonding entries into what is paid out and
\* what stays: nothing is lost and nothing is counted twice.
LEMMA WithdrawSplits ==
    ASSUME NEW u \in Seq(UnbondingEntry), NEW ht \in Nat
    PROVE  /\ Matured(u, ht) \in Nat
           /\ StillPending(u, ht) \in Seq(UnbondingEntry)
           /\ Matured(u, ht) + UnbondingTotal(StillPending(u, ht)) = UnbondingTotal(u)
<1> DEFINE n == Len(u)
           m == [i \in 1..n |-> IF u[i].at <= ht THEN u[i].amount ELSE 0]
<1>1. n \in Nat
  BY SMTT(30)
<1>6. PICK c : /\ StillPending(u, ht) = c[n] /\ c[0] = <<>>
               /\ \A j \in Nat : j + 1 <= n =>
                     c[j + 1] = IF u[j + 1].at <= ht THEN c[j] ELSE Append(c[j], u[j + 1])
  BY Zenon, PendingLoop
<1>7. c[0] = <<>>
  BY Zenon, <1>6
<1>8. ASSUME NEW j \in Nat, j + 1 <= n
      PROVE  c[j + 1] = IF u[j + 1].at <= ht THEN c[j] ELSE Append(c[j], u[j + 1])
  BY Zenon, <1>6, <1>8
<1> DEFINE Good(j) == /\ c[j] \in Seq(UnbondingEntry)
                      /\ SumTo(m, j) \in Nat
                      /\ SumTo(m, j) + UnbondingTotal(c[j]) = SumTo(Amounts(u), j)
           S == {j \in Nat : j <= n => Good(j)}
<1>9. 0 \in S
  <2>1. UnbondingTotal(<<>>) = 0
    BY Zenon, SumToZero DEF UnbondingTotal
  <2>2. SumTo(m, 0) = 0 /\ SumTo(Amounts(u), 0) = 0
    BY Zenon, SumToZero
  <2> HIDE DEF m
  <2>3. c[0] \in Seq(UnbondingEntry)
    BY SMTT(30), <1>7
  <2>4. UnbondingTotal(c[0]) = 0
    BY Zenon, <1>7, <2>1
  <2>5. Good(0)
    BY SMTT(30), <2>2, <2>3, <2>4
  <2> HIDE DEF Good
  <2> QED BY Zenon, <2>5
<1>10. ASSUME NEW j \in Nat, j \in S PROVE j + 1 \in S
  <2> SUFFICES ASSUME j + 1 <= n PROVE Good(j + 1)
    BY SMTT(30)
  <2>1. Good(j)
    BY SMTT(30), <1>10, <1>1
  <2>2. j + 1 \in 1..n
    BY SMTT(30), <1>1
  <2>3. u[j + 1] \in UnbondingEntry /\ u[j + 1].amount \in Nat
    BY Zenon, <2>2, EntryFields
  <2>4. /\ SumTo(Amounts(u), j + 1) = SumTo(Amounts(u), j) + Amounts(u)[j + 1]
        /\ SumTo(m, j + 1) = SumTo(m, j) + m[j + 1]
    BY Zenon, SumToStep
  <2>5. /\ Amounts(u)[j + 1] = u[j + 1].amount
        /\ m[j + 1] = IF u[j + 1].at <= ht THEN u[j + 1].amount ELSE 0
    BY Zenon, <2>2 DEF Amounts
  <2> HIDE DEF m, n
  <2>6. UnbondingTotal(c[j]) \in Nat
    BY Zenon, <2>1, UnbondingTotalNat
  <2>7. CASE u[j + 1].at <= ht
    <3>1. c[j + 1] = c[j] /\ m[j + 1] = u[j + 1].amount
      BY Zenon, <1>8, <2>5, <2>7
    <3> QED BY SMTT(30), <2>1, <2>3, <2>4, <2>5, <2>6, <3>1
  <2>8. CASE ~(u[j + 1].at <= ht)
    <3>1. c[j + 1] = Append(c[j], u[j + 1]) /\ m[j + 1] = 0
      BY Zenon, <1>8, <2>5, <2>8
    <3>2. UnbondingTotal(c[j + 1]) = UnbondingTotal(c[j]) + u[j + 1].amount
      BY Zenon, <2>1, <2>3, <3>1, UnbondingTotalAppend
    <3>3. c[j + 1] \in Seq(UnbondingEntry)
      BY SMTT(30), <2>1, <2>3, <3>1
    <3> QED BY SMTT(30), <2>1, <2>3, <2>4, <2>5, <2>6, <3>1, <3>2, <3>3
  <2> QED BY Zenon, <2>7, <2>8
<1> HIDE DEF S
<1>11. n \in S
  BY Zenon, <1>1, <1>9, <1>10, SetInduction
<1>12. Good(n)
  BY SMTT(30), <1>11, <1>1 DEF S
<1>13. Matured(u, ht) = SumTo(m, n) /\ UnbondingTotal(u) = SumTo(Amounts(u), n)
  BY Zenon DEF Matured, UnbondingTotal
<1> HIDE DEF m, n
<1> QED BY Zenon, <1>6, <1>12, <1>13

\* Append puts an element into a list.
LEMMA Appended ==
    ASSUME NEW d \in Seq(UnbondingEntry), NEW e \in UnbondingEntry, NEW w, w = Append(d, e)
    PROVE  w \in Seq(UnbondingEntry) /\ \E k \in 1..Len(w) : w[k] = e
<1>1. w \in Seq(UnbondingEntry) /\ Len(w) = Len(d) + 1 /\ Len(d) \in Nat
  BY SMTT(30)
<1>2. w[Len(d) + 1] = e
  BY SMTT(30)
<1> QED BY SMTT(30), <1>1, <1>2

\* It comes last.
LEMMA AppendedLast ==
    ASSUME NEW d \in Seq(UnbondingEntry), NEW e \in UnbondingEntry, NEW w, w = Append(d, e)
    PROVE  /\ w \in Seq(UnbondingEntry) /\ Len(w) = Len(d) + 1
           /\ w[Len(w)] = e /\ Len(w) \in 1..Len(w)
<1>1. w \in Seq(UnbondingEntry) /\ Len(w) = Len(d) + 1 /\ Len(d) \in Nat
  BY SMTT(30)
<1>2. w[Len(d) + 1] = e
  BY SMTT(30)
<1> QED BY SMTT(30), <1>1, <1>2

\* Append keeps the elements of a list.
LEMMA AppendKeeps ==
    ASSUME NEW d \in Seq(UnbondingEntry), NEW e \in UnbondingEntry, NEW w, w = Append(d, e),
           NEW k \in 1..Len(d)
    PROVE  k \in 1..Len(w) /\ w[k] = d[k]
<1>1. Len(w) = Len(d) + 1 /\ Len(d) \in Nat
  BY SMTT(30)
<1>2. w[k] = d[k]
  BY SMTT(30)
<1> QED BY SMTT(30), <1>1, <1>2

\* An entry that has not matured is still there after a withdrawal.
LEMMA ImmatureStays ==
    ASSUME NEW u \in Seq(UnbondingEntry), NEW ht \in Nat,
           NEW i \in 1..Len(u), u[i].at > ht
    PROVE  \E k \in 1..Len(StillPending(u, ht)) : StillPending(u, ht)[k] = u[i]
<1> DEFINE n == Len(u)
<1>1. n \in Nat /\ i \in Nat /\ i >= 1 /\ i <= n
  BY SMTT(30)
<1>2. PICK c : /\ StillPending(u, ht) = c[n] /\ c[0] = <<>>
               /\ \A j \in Nat : j + 1 <= n =>
                     c[j + 1] = IF u[j + 1].at <= ht THEN c[j] ELSE Append(c[j], u[j + 1])
  BY Zenon, PendingLoop
<1> DEFINE Good(j) == /\ c[j] \in Seq(UnbondingEntry)
                      /\ i <= j => \E k \in 1..Len(c[j]) : c[j][k] = u[i]
           S == {j \in Nat : j <= n => Good(j)}
<1>3. 0 \in S
  <2>1. Good(0)
    BY SMTT(30), <1>1, <1>2
  <2> HIDE DEF Good
  <2> QED BY Zenon, <2>1
<1>4. ASSUME NEW j \in Nat, j \in S PROVE j + 1 \in S
  <2> SUFFICES ASSUME j + 1 <= n PROVE Good(j + 1)
    BY SMTT(30)
  <2>1. Good(j)
    BY SMTT(30), <1>1, <1>4
  <2>2. u[j + 1] \in UnbondingEntry
    BY SMTT(30), <1>1, EntryFields
  <2>3. CASE u[j + 1].at <= ht
    <3>1. c[j + 1] = c[j] /\ i # j + 1
      BY SMTT(30), <1>2, <2>2, <2>3, EntryFields
    <3>2. i <= j + 1 => i <= j
      BY SMTT(30), <1>1, <3>1
    <3> QED BY Zenon, <2>1, <3>1, <3>2
  <2>4. CASE ~(u[j + 1].at <= ht)
    <3>1. c[j + 1] = Append(c[j], u[j + 1])
      BY Zenon, <1>2, <2>4
    <3>2. PICK d \in Seq(UnbondingEntry), e \in UnbondingEntry : d = c[j] /\ e = u[j + 1]
      BY Zenon, <2>1, <2>2
    <3>2a. PICK w : w = c[j + 1]
      BY Zenon
    <3>3. w = Append(d, e)
      BY Zenon, <3>1, <3>2, <3>2a
    <3>4. w \in Seq(UnbondingEntry) /\ \E k \in 1..Len(w) : w[k] = e
      BY Zenon, <3>3, Appended
    <3>5. \A k \in 1..Len(d) : \E q \in 1..Len(w) : w[q] = d[k]
      <4> SUFFICES ASSUME NEW k \in 1..Len(d) PROVE \E q \in 1..Len(w) : w[q] = d[k]
        BY Zenon
      <4>1. k \in 1..Len(w) /\ w[k] = d[k]
        BY Zenon, <3>3, AppendKeeps
      <4> QED BY Zenon, <4>1
    <3>6. i <= j + 1 => i <= j \/ i = j + 1
      BY SMTT(30), <1>1
    <3>7. i <= j => \E k \in 1..Len(d) : d[k] = u[i]
      BY Zenon, <2>1, <3>2
    <3>8. i <= j + 1 => \E k \in 1..Len(w) : w[k] = u[i]
      <4>1. CASE i <= j
        BY Zenon, <3>5, <3>7, <4>1
      <4>2. CASE i = j + 1
        BY Zenon, <3>2, <3>4, <4>2
      <4> QED BY Zenon, <3>6, <4>1, <4>2
    <3> QED BY Zenon, <3>2a, <3>4, <3>8
  <2> QED BY Zenon, <2>3, <2>4
<1> HIDE DEF S
<1>5. n \in S
  BY Zenon, <1>1, <1>3, <1>4, SetInduction
<1>6. Good(n)
  BY SMTT(30), <1>1, <1>5 DEF S
<1> QED BY Zenon, <1>1, <1>2, <1>6

-----------------------------------------------------------------------------
(***************************************************************************)
(* Transactions.                                                           *)
(***************************************************************************)

\* What staking holds in one record.
LockedIn(rec) == rec.bond + UnbondingTotal(rec.unbonding)

\* The fields of a state have the types State gives them.
LEMMA StateFields ==
    ASSUME NEW s \in State
    PROVE  /\ s.bal \in [Accounts -> Nat] /\ s.nonce \in [Accounts -> Nat]
           /\ s.vals \in [Accounts -> ValidatorRecord] /\ s.set \in [Keys -> Nat]
           /\ s.income \in Nat /\ s.total \in Nat /\ s.signed \in [Accounts -> Nat]
           /\ s.burned \in Nat /\ s.kept \in BOOLEAN
BY Zenon DEF State

\* The fields of a validator's record have the types ValidatorRecord gives them.
LEMMA RecordFields ==
    ASSUME NEW rec \in ValidatorRecord
    PROVE  /\ rec.key \in Keys \cup {NoKey} /\ rec.bond \in Nat
           /\ rec.unbonding \in Seq(UnbondingEntry) /\ rec.tombstoned \in BOOLEAN
           /\ LockedIn(rec) \in Nat
BY SMTT(30), UnbondingTotalNat DEF ValidatorRecord, LockedIn

\* e is f with one entry rewritten.
OneEntry(f, e, a) ==
    /\ f \in [Accounts -> Nat] /\ e \in [Accounts -> Nat]
    /\ \A i \in Accounts : i # a => e[i] = f[i]

\* Writing one entry of a function over the accounts moves its total by the
\* difference.
LEMMA AccountsUpdate ==
    ASSUME NEW a \in Accounts, NEW f, NEW e, OneEntry(f, e, a)
    PROVE  /\ SumTo(e, NumAccounts) + f[a] = SumTo(f, NumAccounts) + e[a]
           /\ SumTo(e, NumAccounts) \in Nat /\ SumTo(f, NumAccounts) \in Nat
           /\ e[a] \in Nat /\ f[a] \in Nat
<1>1. NumAccounts \in Nat /\ a \in 1..NumAccounts
  BY Zenon, AccountsAssumption DEF Accounts
<1>2. (\A i \in 1..NumAccounts : f[i] \in Nat) /\ (\A i \in 1..NumAccounts : e[i] \in Nat)
  BY Zenon DEF Accounts, OneEntry
<1>3. \A i \in 1..NumAccounts : i # a => e[i] = f[i]
  BY Zenon DEF Accounts, OneEntry
<1>4. SumTo(e, NumAccounts) + f[a] = SumTo(f, NumAccounts) + e[a]
  BY Zenon, <1>1, <1>2, <1>3, SumToUpdate
<1>5. SumTo(e, NumAccounts) \in Nat /\ SumTo(f, NumAccounts) \in Nat
  BY Zenon, <1>1, <1>2, SumToNat
<1> QED BY Zenon, <1>1, <1>2, <1>4, <1>5

\* The totals of a state are naturals.
LEMMA WorthNat ==
    ASSUME NEW s \in State
    PROVE  /\ Locked(s) \in [Accounts -> Nat]
           /\ \A a \in Accounts : Locked(s)[a] = LockedIn(s.vals[a])
           /\ TotalStake(s) \in Nat /\ TotalValidatorLocked(s) \in Nat
           /\ s.burned \in Nat /\ Worth(s) \in Nat
<1>1. \A a \in Accounts : s.vals[a] \in ValidatorRecord
  BY Zenon, StateFields
<1>2. \A a \in Accounts : LockedIn(s.vals[a]) \in Nat
  BY Zenon, <1>1, RecordFields
<1>3. Locked(s) = [a \in Accounts |-> LockedIn(s.vals[a])]
  BY Zenon DEF Locked, LockedIn
<1>4. Locked(s) \in [Accounts -> Nat] /\ \A a \in Accounts : Locked(s)[a] = LockedIn(s.vals[a])
  BY Zenon, <1>2, <1>3
<1>5. NumAccounts \in Nat
  BY Zenon, AccountsAssumption
<1>6. \A i \in 1..NumAccounts : Locked(s)[i] \in Nat
  BY Zenon, <1>4 DEF Accounts
<1>7. \A i \in 1..NumAccounts : s.bal[i] \in Nat
  BY Zenon, StateFields DEF Accounts
<1>8. TotalValidatorLocked(s) \in Nat
  BY Zenon, <1>5, <1>6, SumToNat DEF TotalValidatorLocked
<1>9. TotalStake(s) \in Nat
  BY Zenon, <1>5, <1>7, SumToNat DEF TotalStake
<1> QED BY SMTT(30), <1>4, <1>8, <1>9, StateFields DEF Worth

\* A step that rewrites one account's balance, nonce and staking record.
Rewrites(s, t, a, b, n, rec) ==
    t = [s EXCEPT !.bal[a] = b, !.nonce[a] = n, !.vals[a] = rec]

\* Worth moves by what one account's balance and staking record gain or lose.
LEMMA OneAccount ==
    ASSUME NEW s \in State, NEW a \in Accounts, NEW b \in Nat, NEW n \in Nat,
           NEW rec \in ValidatorRecord, NEW t, Rewrites(s, t, a, b, n, rec)
    PROVE  /\ t \in State
           /\ Worth(t) + s.bal[a] + LockedIn(s.vals[a]) = Worth(s) + b + LockedIn(rec)
<1>1. t = [s EXCEPT !.bal = [s.bal EXCEPT ![a] = b], !.nonce = [s.nonce EXCEPT ![a] = n],
                    !.vals = [s.vals EXCEPT ![a] = rec]]
  BY Zenon DEF Rewrites
<1>2. /\ [s.bal EXCEPT ![a] = b] \in [Accounts -> Nat]
      /\ [s.nonce EXCEPT ![a] = n] \in [Accounts -> Nat]
      /\ [s.vals EXCEPT ![a] = rec] \in [Accounts -> ValidatorRecord]
  BY Zenon, StateFields
<1>3. /\ t.bal = [s.bal EXCEPT ![a] = b] /\ t.vals = [s.vals EXCEPT ![a] = rec]
      /\ t.burned = s.burned
  BY Zenon, <1>1 DEF State
<1>4. t \in State
  BY Zenon, <1>1, <1>2 DEF State
<1>5. TotalStake(t) + s.bal[a] = TotalStake(s) + b
  <2>1. OneEntry(s.bal, t.bal, a) /\ t.bal[a] = b
    BY Zenon, <1>3, <1>4, StateFields DEF OneEntry
  <2> QED BY Zenon, <2>1, AccountsUpdate DEF TotalStake
<1>6. Locked(t) = [Locked(s) EXCEPT ![a] = LockedIn(rec)]
  <2>1. \A i \in Accounts : Locked(t)[i] = IF i = a THEN LockedIn(rec) ELSE Locked(s)[i]
    <3> TAKE i \in Accounts
    <3>1. t.vals[i] = IF i = a THEN rec ELSE s.vals[i]
      BY Zenon, <1>3, StateFields
    <3>2. Locked(t)[i] = LockedIn(t.vals[i]) /\ Locked(s)[i] = LockedIn(s.vals[i])
      BY Zenon, <1>4, WorthNat
    <3> QED BY Zenon, <3>1, <3>2
  <2>2. Locked(t) \in [Accounts -> Nat] /\ Locked(s) \in [Accounts -> Nat]
    BY Zenon, <1>4, WorthNat
  <2> QED BY Zenon, <2>1, <2>2
<1>7. TotalValidatorLocked(t) + LockedIn(s.vals[a]) = TotalValidatorLocked(s) + LockedIn(rec)
  <2>1. Locked(s) \in [Accounts -> Nat] /\ Locked(s)[a] = LockedIn(s.vals[a])
    BY Zenon, WorthNat
  <2>2. OneEntry(Locked(s), Locked(t), a) /\ Locked(t)[a] = LockedIn(rec)
    BY Zenon, <1>4, <1>6, <2>1, WorthNat DEF OneEntry
  <2> QED BY Zenon, <2>1, <2>2, AccountsUpdate DEF TotalValidatorLocked
<1>8. s.bal[a] \in Nat /\ LockedIn(s.vals[a]) \in Nat /\ LockedIn(rec) \in Nat
  BY Zenon, StateFields, RecordFields
<1> QED BY SMTT(30), <1>3, <1>4, <1>5, <1>7, <1>8, WorthNat DEF Worth

\* The same, as a relation between the states.
Settles(s, t, a, b, rec) ==
    t \in State /\ Worth(t) + s.bal[a] + LockedIn(s.vals[a]) = Worth(s) + b + LockedIn(rec)

\* What OneAccount says, in this form.
LEMMA OneAccountSettles ==
    ASSUME NEW s \in State, NEW a \in Accounts, NEW b \in Nat, NEW n \in Nat,
           NEW rec \in ValidatorRecord, NEW t, Rewrites(s, t, a, b, n, rec)
    PROVE  Settles(s, t, a, b, rec)
<1>1. t \in State /\ Worth(t) + s.bal[a] + LockedIn(s.vals[a]) = Worth(s) + b + LockedIn(rec)
  BY SMTT(30), OneAccount
<1> QED BY Zenon, <1>1 DEF Settles

\* The empty key is no key and the empty address is no account.
LEMMA KeysDisjoint == NoKey \notin Keys /\ NoOperator \notin Accounts
BY SMTT(30), AccountsAssumption, KeysAssumption DEF Keys, NoKey, Accounts, NoOperator

\* A record that is deleted held nothing.
LEMMA StoredRecordLocked ==
    ASSUME NEW rec \in ValidatorRecord
    PROVE  /\ StoredRecord(rec) \in ValidatorRecord
           /\ LockedIn(StoredRecord(rec)) = LockedIn(rec)
           /\ StoredRecord(rec).key \in {rec.key, NoKey}
<1>1. NoRecord \in ValidatorRecord
  BY SMTT(30) DEF NoRecord, ValidatorRecord
<1>2. UnbondingTotal(<<>>) = 0
  BY Zenon, SumToZero DEF UnbondingTotal
<1>3. LockedIn(NoRecord) = 0 /\ NoRecord.key = NoKey
  BY SMTT(30), <1>2 DEF LockedIn, NoRecord
<1>4. CASE rec.bond = 0 /\ rec.unbonding = <<>> /\ ~rec.tombstoned
  BY SMTT(30), <1>1, <1>2, <1>3, <1>4 DEF StoredRecord, LockedIn
<1>5. CASE ~(rec.bond = 0 /\ rec.unbonding = <<>> /\ ~rec.tombstoned)
  BY Zenon, <1>5 DEF StoredRecord
<1> QED BY Zenon, <1>4, <1>5

\* A transfer moves SYN or, to oneself, destroys the amount; it creates none.
LEMMA TransferWorth ==
    ASSUME NEW s \in State, NEW tx \in Tx, TransferOk(s, tx)
    PROVE  /\ Transfer(s, tx) \in State
           /\ Worth(Transfer(s, tx)) + tx.fee <= Worth(s)
           /\ Transfer(s, tx).vals = s.vals
<1> DEFINE a == tx.from
           d == tx.to
           x == s.bal[d] + tx.amount
           y == s.bal[a] - (tx.amount + tx.fee)
           f == [s.bal EXCEPT ![d] = x]
           g == [f EXCEPT ![a] = y]
           t == Transfer(s, tx)
<1>1. a \in Accounts /\ d \in Accounts /\ tx.amount \in Nat /\ tx.fee \in Nat
  BY Zenon DEF Tx
<1>2. s.bal \in [Accounts -> Nat] /\ s.bal[a] \in Nat /\ s.bal[d] \in Nat
  BY Zenon, <1>1, StateFields
<1>3. x \in Nat /\ y \in Nat
  BY SMTT(30), <1>1, <1>2 DEF TransferOk
<1>4. t = [s EXCEPT !.bal = g, !.nonce = [s.nonce EXCEPT ![a] = s.nonce[a] + 1]]
  BY Zenon DEF Transfer
<1> HIDE DEF x, y
<1>5. OneEntry(s.bal, f, d) /\ f[d] = x /\ f[a] = IF a = d THEN x ELSE s.bal[a]
  BY Zenon, <1>1, <1>2, <1>3 DEF OneEntry
<1> HIDE DEF f
<1>6. OneEntry(f, g, a) /\ g[a] = y
  BY Zenon, <1>1, <1>3, <1>5 DEF OneEntry
<1> HIDE DEF g
<1>7. /\ SumTo(f, NumAccounts) + s.bal[d] = TotalStake(s) + x
      /\ SumTo(g, NumAccounts) + f[a] = SumTo(f, NumAccounts) + y
      /\ TotalStake(s) \in Nat /\ SumTo(f, NumAccounts) \in Nat /\ SumTo(g, NumAccounts) \in Nat
      /\ g \in [Accounts -> Nat]
  BY SMTT(30), <1>1, <1>5, <1>6, AccountsUpdate DEF TotalStake, OneEntry
<1>8. [s.nonce EXCEPT ![a] = s.nonce[a] + 1] \in [Accounts -> Nat]
  BY SMTT(30), <1>1, StateFields
<1>9. t \in State /\ t.bal = g /\ t.vals = s.vals /\ t.burned = s.burned
  BY Zenon, <1>4, <1>7, <1>8 DEF State
<1> HIDE DEF t
<1>10. TotalStake(t) + tx.fee <= TotalStake(s)
  <2>1. SumTo(g, NumAccounts) + tx.fee <= TotalStake(s)
    BY SMTT(30), <1>1, <1>2, <1>3, <1>5, <1>6, <1>7 DEF x, y
  <2> QED BY Zenon, <2>1, <1>9 DEF TotalStake
<1>11. TotalValidatorLocked(t) = TotalValidatorLocked(s)
  BY Zenon, <1>9 DEF TotalValidatorLocked, Locked
<1>12. Worth(t) + tx.fee <= Worth(s)
  BY SMTT(30), <1>1, <1>9, <1>10, <1>11, WorthNat DEF Worth
<1> QED BY Zenon, <1>9, <1>12 DEF t

\* Bonding moves SYN from the balance into the self-bond.
LEMMA BondWorth ==
    ASSUME NEW s \in State, NEW tx \in Tx, BondOk(s, tx)
    PROVE  /\ Bond(s, tx) \in State
           /\ Worth(Bond(s, tx)) + tx.fee <= Worth(s)
<1> DEFINE a == tx.from
           rec == s.vals[a]
           key == IF Registered(s, a) THEN rec.key ELSE tx.key
           new == [rec EXCEPT !.key = key, !.bond = rec.bond + tx.amount]
           b == s.bal[a] - (tx.amount + tx.fee)
           t == Bond(s, tx)
<1>1. a \in Accounts /\ tx.amount \in Nat /\ tx.fee \in Nat /\ tx.key \in Keys \cup {NoKey}
  BY Zenon DEF Tx
<1>2. rec \in ValidatorRecord /\ s.bal[a] \in Nat /\ s.nonce[a] \in Nat
  BY Zenon, <1>1, StateFields
<1>3. b \in Nat /\ s.nonce[a] + 1 \in Nat
  BY SMTT(30), <1>1, <1>2 DEF BondOk
<1>4. key \in Keys \cup {NoKey} /\ rec.bond + tx.amount \in Nat
  BY SMTT(30), <1>1, <1>2, RecordFields
<1>5. new \in ValidatorRecord /\ new.bond = rec.bond + tx.amount /\ new.unbonding = rec.unbonding
  <2> HIDE DEF key, rec
  <2> QED BY Zenon, <1>2, <1>4 DEF ValidatorRecord
<1>6. Rewrites(s, t, a, b, s.nonce[a] + 1, StoredRecord(new))
  BY Zenon DEF Bond, Rewrites
<1> HIDE DEF key, new, b, t
<1>7. StoredRecord(new) \in ValidatorRecord /\ LockedIn(StoredRecord(new)) = LockedIn(new)
  BY Zenon, <1>5, StoredRecordLocked
<1>8. t \in State /\ Worth(t) + s.bal[a] + LockedIn(rec) = Worth(s) + b + LockedIn(new)
  <2>1. PICK n \in Nat : n = s.nonce[a] + 1
    BY Zenon, <1>3
  <2>2. PICK r \in ValidatorRecord : r = StoredRecord(new)
    BY Zenon, <1>7
  <2>3. Rewrites(s, t, a, b, n, r)
    BY Zenon, <1>6, <2>1, <2>2
  <2>4. Settles(s, t, a, b, r)
    BY Zenon, <1>1, <1>3, <2>3, OneAccountSettles
  <2> QED BY Zenon, <1>7, <2>2, <2>4 DEF Settles
<1>9. LockedIn(new) = LockedIn(rec) + tx.amount
  <2>1. UnbondingTotal(rec.unbonding) \in Nat /\ rec.bond \in Nat
    BY Zenon, <1>2, RecordFields, UnbondingTotalNat
  <2> QED BY SMTT(30), <1>1, <1>5, <2>1 DEF LockedIn
<1>10. Worth(t) \in Nat /\ Worth(s) \in Nat /\ LockedIn(rec) \in Nat
  BY Zenon, <1>2, <1>8, WorthNat, RecordFields
<1>11. Worth(t) + tx.fee <= Worth(s)
  BY SMTT(30), <1>1, <1>2, <1>8, <1>9, <1>10 DEF b
<1> QED BY Zenon, <1>8, <1>11 DEF t

\* Unbonding moves SYN from the self-bond into an unbonding entry.
LEMMA UnbondWorth ==
    ASSUME NEW s \in State, NEW tx \in Tx, NEW ht \in Nat, UnbondOk(s, tx)
    PROVE  /\ Unbond(s, tx, ht) \in State
           /\ Worth(Unbond(s, tx, ht)) + tx.fee <= Worth(s)
<1> DEFINE a == tx.from
           rec == s.vals[a]
           entry == [amount |-> tx.amount, at |-> ht + UnbondingBlocks]
           new == [rec EXCEPT !.bond = rec.bond - tx.amount,
                              !.unbonding = Append(rec.unbonding, entry)]
           b == s.bal[a] - tx.fee
           t == Unbond(s, tx, ht)
<1>1. a \in Accounts /\ tx.amount \in Nat /\ tx.fee \in Nat
  BY Zenon DEF Tx
<1>2. rec \in ValidatorRecord /\ s.bal[a] \in Nat /\ s.nonce[a] \in Nat
  BY Zenon, <1>1, StateFields
<1>3. b \in Nat /\ s.nonce[a] + 1 \in Nat
  BY SMTT(30), <1>1, <1>2 DEF UnbondOk
<1>4. entry \in UnbondingEntry /\ entry.amount = tx.amount
  BY SMTT(30), <1>1, UnbondingAssumption DEF UnbondingEntry
<1>5. /\ rec.bond \in Nat /\ rec.bond - tx.amount \in Nat
      /\ rec.unbonding \in Seq(UnbondingEntry)
  BY SMTT(30), <1>1, <1>2, RecordFields DEF UnbondOk
<1>6. Rewrites(s, t, a, b, s.nonce[a] + 1, StoredRecord(new))
  BY Zenon DEF Unbond, Rewrites
<1> HIDE DEF entry
<1>7. /\ UnbondingTotal(rec.unbonding) \in Nat
      /\ UnbondingTotal(Append(rec.unbonding, entry)) = UnbondingTotal(rec.unbonding) + tx.amount
  BY Zenon, <1>4, <1>5, UnbondingTotalNat, UnbondingTotalAppend
<1>8. Append(rec.unbonding, entry) \in Seq(UnbondingEntry)
  BY SMTT(30), <1>4, <1>5
<1>9. /\ new \in ValidatorRecord /\ new.bond = rec.bond - tx.amount
      /\ new.unbonding = Append(rec.unbonding, entry)
  <2> HIDE DEF rec
  <2> QED BY Zenon, <1>2, <1>5, <1>8 DEF ValidatorRecord
<1> HIDE DEF new, b, t
<1>10. StoredRecord(new) \in ValidatorRecord /\ LockedIn(StoredRecord(new)) = LockedIn(new)
  BY Zenon, <1>9, StoredRecordLocked
<1>11. t \in State /\ Worth(t) + s.bal[a] + LockedIn(rec) = Worth(s) + b + LockedIn(new)
  <2>1. PICK n \in Nat : n = s.nonce[a] + 1
    BY Zenon, <1>3
  <2>2. PICK r \in ValidatorRecord : r = StoredRecord(new)
    BY Zenon, <1>10
  <2>3. Rewrites(s, t, a, b, n, r)
    BY Zenon, <1>6, <2>1, <2>2
  <2>4. Settles(s, t, a, b, r)
    BY Zenon, <1>1, <1>3, <2>3, OneAccountSettles
  <2> QED BY Zenon, <1>10, <2>2, <2>4 DEF Settles
<1>12. LockedIn(new) = LockedIn(rec)
  <2>1. new.bond + UnbondingTotal(new.unbonding) = rec.bond + UnbondingTotal(rec.unbonding)
    <3> DEFINE u == UnbondingTotal(rec.unbonding)
               v == UnbondingTotal(new.unbonding)
               d == rec.bond
    <3>1. u \in Nat /\ d \in Nat /\ tx.amount \in Nat
      BY Zenon, <1>1, <1>5, <1>7
    <3>2. v = u + tx.amount /\ new.bond = d - tx.amount
      BY Zenon, <1>7, <1>9
    <3> HIDE DEF u, v, d
    <3>3. new.bond + v = d + u
      BY SMTT(30), <3>1, <3>2
    <3> QED BY Zenon, <3>3 DEF u, v, d
  <2> QED BY Zenon, <2>1 DEF LockedIn
<1>13. Worth(t) \in Nat /\ Worth(s) \in Nat /\ LockedIn(rec) \in Nat
  BY Zenon, <1>2, <1>11, WorthNat, RecordFields
<1>14. Worth(t) + tx.fee <= Worth(s)
  BY SMTT(30), <1>1, <1>2, <1>11, <1>12, <1>13 DEF b
<1> QED BY Zenon, <1>11, <1>14 DEF t

\* What covers a charge leaves a natural number after it.
LEMMA CreditNat ==
    ASSUME NEW x \in Nat, NEW y \in Nat, NEW z \in Nat, x + y >= z
    PROVE  x + y - z \in Nat
BY SMTT(30)

\* Withdrawing moves matured entries into the balance.
LEMMA WithdrawWorth ==
    ASSUME NEW s \in State, NEW tx \in Tx, NEW ht \in Nat, WithdrawOk(s, tx, ht)
    PROVE  /\ Withdraw(s, tx, ht) \in State
           /\ Worth(Withdraw(s, tx, ht)) + tx.fee <= Worth(s)
<1> DEFINE a == tx.from
           rec == s.vals[a]
           rest == StillPending(rec.unbonding, ht)
           out == Matured(rec.unbonding, ht)
           new == [rec EXCEPT !.unbonding = rest]
           b == s.bal[a] + out - tx.fee
           t == Withdraw(s, tx, ht)
<1>1. a \in Accounts /\ tx.fee \in Nat
  BY Zenon DEF Tx
<1>2. rec \in ValidatorRecord /\ s.bal[a] \in Nat /\ s.nonce[a] \in Nat
  BY Zenon, <1>1, StateFields
<1>3. rec.bond \in Nat /\ rec.unbonding \in Seq(UnbondingEntry)
  BY Zenon, <1>2, RecordFields
<1>4. /\ out \in Nat /\ rest \in Seq(UnbondingEntry)
      /\ out + UnbondingTotal(rest) = UnbondingTotal(rec.unbonding)
      /\ UnbondingTotal(rest) \in Nat
  BY Zenon, <1>3, WithdrawSplits, UnbondingTotalNat
<1>5. b \in Nat /\ s.nonce[a] + 1 \in Nat
  <2>1. s.bal[a] + out >= tx.fee
    BY Zenon DEF WithdrawOk
  <2>2. b \in Nat
    BY Zenon, <1>1, <1>2, <1>4, <2>1, CreditNat
  <2>3. s.nonce[a] + 1 \in Nat
    BY SMTT(30), <1>2
  <2> QED BY Zenon, <2>2, <2>3
<1>6. Rewrites(s, t, a, b, s.nonce[a] + 1, StoredRecord(new))
  BY Zenon DEF Withdraw, Rewrites
<1> HIDE DEF rest, out
<1>7. new \in ValidatorRecord /\ new.bond = rec.bond /\ new.unbonding = rest
  <2> HIDE DEF rec
  <2> QED BY Zenon, <1>2, <1>4 DEF ValidatorRecord
<1> HIDE DEF new, b, t
<1>8. StoredRecord(new) \in ValidatorRecord /\ LockedIn(StoredRecord(new)) = LockedIn(new)
  BY Zenon, <1>7, StoredRecordLocked
<1>9. t \in State /\ Worth(t) + s.bal[a] + LockedIn(rec) = Worth(s) + b + LockedIn(new)
  <2>1. PICK n \in Nat : n = s.nonce[a] + 1
    BY Zenon, <1>5
  <2>2. PICK r \in ValidatorRecord : r = StoredRecord(new)
    BY Zenon, <1>8
  <2>3. Rewrites(s, t, a, b, n, r)
    BY Zenon, <1>6, <2>1, <2>2
  <2>4. Settles(s, t, a, b, r)
    BY Zenon, <1>1, <1>5, <2>3, OneAccountSettles
  <2> QED BY Zenon, <1>8, <2>2, <2>4 DEF Settles
<1>10. LockedIn(new) + out = LockedIn(rec) /\ LockedIn(new) \in Nat /\ LockedIn(rec) \in Nat
  <2>1. LockedIn(new) = rec.bond + UnbondingTotal(rest)
    BY Zenon, <1>7 DEF LockedIn
  <2>2. LockedIn(rec) = rec.bond + UnbondingTotal(rec.unbonding)
    BY Zenon DEF LockedIn
  <2>3. UnbondingTotal(rec.unbonding) = out + UnbondingTotal(rest)
    BY Zenon, <1>4
  <2> HIDE DEF a, rec
  <2> QED BY SMTT(30), <1>3, <1>4, <2>1, <2>2, <2>3
<1>11. Worth(t) \in Nat /\ Worth(s) \in Nat
  BY Zenon, <1>9, WorthNat
<1>12. Worth(t) + tx.fee <= Worth(s)
  <2>1. out \in Nat /\ b = s.bal[a] + out - tx.fee
    BY Zenon, <1>4 DEF b
  <2> HIDE DEF a, rec
  <2> QED BY SMTT(30), <1>1, <1>2, <1>9, <1>10, <1>11, <2>1
<1> QED BY Zenon, <1>9, <1>12 DEF t

-----------------------------------------------------------------------------
(***************************************************************************)
(* Consensus keys.                                                         *)
(***************************************************************************)

\* validatorOperatorForKey finds an owner of the key whenever there is one.
LEMMA OperatorForKey ==
    ASSUME NEW s, NEW k
    PROVE  LET o == validatorOperatorForKey(s, k)
           IN  /\ o \in Accounts \cup {NoOperator}
               /\ o # NoOperator => Registered(s, o) /\ s.vals[o].key = k
               /\ o = NoOperator => \A a \in Accounts : Registered(s, a) => s.vals[a].key # k
<1> DEFINE P(a) == Registered(s, a) /\ s.vals[a].key = k
           w == CHOOSE a \in Accounts : P(a)
<1>1. CASE \E a \in Accounts : P(a)
  <2>1. validatorOperatorForKey(s, k) = w
    BY Zenon, <1>1 DEF validatorOperatorForKey
  <2>2. w \in Accounts /\ P(w)
    <3> HIDE DEF P
    <3> QED BY Zenon, <1>1
  <2>3. w # NoOperator
    BY Zenon, <2>2, KeysDisjoint
  <2> HIDE DEF w
  <2> QED BY Zenon, <2>1, <2>2, <2>3
<1>2. CASE ~\E a \in Accounts : P(a)
  BY Zenon, <1>2 DEF validatorOperatorForKey
<1> QED BY Zenon, <1>1, <1>2

\* A step that rewrites one record keeps keys unique when the new key is
\* empty, the old one, or nobody else's.
LEMMA OneRecordKeys ==
    ASSUME NEW s \in State, NEW t, NEW a \in Accounts, NEW rec, UniqueKeys(s),
           t.vals = [s.vals EXCEPT ![a] = rec],
           \/ rec.key \in {NoKey, s.vals[a].key}
           \/ \A b \in Accounts : Registered(s, b) => s.vals[b].key # rec.key
    PROVE  UniqueKeys(t)
<1>1. \A i \in Accounts : t.vals[i] = IF i = a THEN rec ELSE s.vals[i]
  BY Zenon, StateFields
<1> SUFFICES ASSUME NEW i \in Accounts, NEW j \in Accounts, i # j,
                    Registered(t, i), Registered(t, j)
             PROVE  t.vals[i].key # t.vals[j].key
  BY Zenon DEF UniqueKeys
<1>2. t.vals[i].key # NoKey /\ t.vals[j].key # NoKey
  BY Zenon DEF Registered
<1>3. CASE i # a /\ j # a
  BY Zenon, <1>1, <1>2, <1>3 DEF UniqueKeys, Registered
<1>4. CASE i = a
  BY Zenon, <1>1, <1>2, <1>4 DEF UniqueKeys, Registered
<1>5. CASE j = a
  BY Zenon, <1>1, <1>2, <1>5 DEF UniqueKeys, Registered
<1> QED BY Zenon, <1>3, <1>4, <1>5

\* A step that rewrites one account leaves the records of all others alone.
LEMMA RewritesVals ==
    ASSUME NEW s \in State, NEW a \in Accounts, NEW b, NEW n, NEW rec, NEW t,
           Rewrites(s, t, a, b, n, rec)
    PROVE  t.vals = [s.vals EXCEPT ![a] = rec]
BY Zenon DEF Rewrites, State

\* A transaction that is accepted gives a state, creates no SYN, and keeps
\* consensus keys unique.
LEMMA TransactionSafe ==
    ASSUME NEW s \in State, NEW tx \in Tx, NEW ht \in Nat, TxOk(s, tx, ht)
    PROVE  /\ ApplyTransaction(s, tx, ht) \in State
           /\ Worth(ApplyTransaction(s, tx, ht)) + tx.fee <= Worth(s)
           /\ UniqueKeys(s) => UniqueKeys(ApplyTransaction(s, tx, ht))
<1> DEFINE a == tx.from
           rec == s.vals[a]
           t == ApplyTransaction(s, tx, ht)
<1>1. a \in Accounts /\ rec \in ValidatorRecord
  BY Zenon, StateFields DEF Tx
<1>2. CASE tx.kind = "transfer"
  <2>1. TransferOk(s, tx) /\ t = Transfer(s, tx)
    BY Zenon, <1>2 DEF TxOk, ApplyTransaction
  <2>2. t.vals = s.vals => (UniqueKeys(s) => UniqueKeys(t))
    BY Zenon DEF UniqueKeys, Registered
  <2> QED BY Zenon, <2>1, <2>2, TransferWorth
<1>3. CASE tx.kind = "bond"
  <2>1. BondOk(s, tx) /\ t = Bond(s, tx)
    BY Zenon, <1>3 DEF TxOk, ApplyTransaction
  <2> DEFINE key == IF Registered(s, a) THEN rec.key ELSE tx.key
             new == [rec EXCEPT !.key = key, !.bond = rec.bond + tx.amount]
             stored == StoredRecord(new)
  <2>2. Rewrites(s, t, a, s.bal[a] - (tx.amount + tx.fee), s.nonce[a] + 1, stored)
    BY Zenon, <2>1 DEF Rewrites, Bond
  <2>3. t.vals = [s.vals EXCEPT ![a] = stored]
    BY SMTT(30), <1>1, <2>2, RewritesVals
  <2>4. stored.key \in {NoKey, key}
    BY Zenon, <1>1 DEF StoredRecord, NoRecord, ValidatorRecord
  <2>5. Registered(s, a) \/ \A b \in Accounts : Registered(s, b) => s.vals[b].key # tx.key
    BY Zenon, <2>1, OperatorForKey DEF BondOk
  <2>6. \/ stored.key \in {NoKey, rec.key}
        \/ \A b \in Accounts : Registered(s, b) => s.vals[b].key # stored.key
    <3> HIDE DEF stored
    <3> QED BY Zenon, <2>4, <2>5 DEF key
  <2> HIDE DEF stored
  <2>7. UniqueKeys(s) => UniqueKeys(t)
    BY Zenon, <1>1, <2>3, <2>6, OneRecordKeys
  <2> QED BY Zenon, <2>1, <2>7, BondWorth
<1>4. CASE tx.kind = "unbond"
  <2>1. UnbondOk(s, tx) /\ t = Unbond(s, tx, ht)
    BY Zenon, <1>4 DEF TxOk, ApplyTransaction
  <2> DEFINE entry == [amount |-> tx.amount, at |-> ht + UnbondingBlocks]
             new == [rec EXCEPT !.bond = rec.bond - tx.amount,
                                !.unbonding = Append(rec.unbonding, entry)]
             stored == StoredRecord(new)
  <2>2. Rewrites(s, t, a, s.bal[a] - tx.fee, s.nonce[a] + 1, stored)
    BY Zenon, <2>1 DEF Rewrites, Unbond
  <2>3. t.vals = [s.vals EXCEPT ![a] = stored]
    BY SMTT(30), <1>1, <2>2, RewritesVals
  <2>4. stored.key \in {NoKey, rec.key}
    BY Zenon, <1>1 DEF StoredRecord, NoRecord, ValidatorRecord
  <2> HIDE DEF stored
  <2>5. UniqueKeys(s) => UniqueKeys(t)
    BY Zenon, <1>1, <2>3, <2>4, OneRecordKeys
  <2> QED BY Zenon, <2>1, <2>5, UnbondWorth
<1>5. CASE tx.kind = "withdraw"
  <2>1. WithdrawOk(s, tx, ht) /\ t = Withdraw(s, tx, ht)
    BY Zenon, <1>5 DEF TxOk, ApplyTransaction
  <2> DEFINE new == [rec EXCEPT !.unbonding = StillPending(rec.unbonding, ht)]
             stored == StoredRecord(new)
             b == s.bal[a] + Matured(rec.unbonding, ht) - tx.fee
  <2>2. Rewrites(s, t, a, b, s.nonce[a] + 1, stored)
    BY Zenon, <2>1 DEF Rewrites, Withdraw
  <2>3. t.vals = [s.vals EXCEPT ![a] = stored]
    BY SMTT(30), <1>1, <2>2, RewritesVals
  <2>4. stored.key \in {NoKey, rec.key}
    BY Zenon, <1>1 DEF StoredRecord, NoRecord, ValidatorRecord
  <2> HIDE DEF stored
  <2>5. UniqueKeys(s) => UniqueKeys(t)
    BY <1>1, <2>3, <2>4, OneRecordKeys
  <2> QED BY Zenon, <2>1, <2>5, WithdrawWorth
<1>6. tx.kind \in {"transfer", "bond", "unbond", "withdraw"}
  BY Zenon DEF Tx
<1> QED BY Zenon, <1>2, <1>3, <1>4, <1>5, <1>6

-----------------------------------------------------------------------------
(***************************************************************************)
(* The end of a block.                                                     *)
(***************************************************************************)

\* A step that leaves the staking records alone and moves the balances and
\* the burn counter by x and y together.
LEMMA SameRecords ==
    ASSUME NEW s \in State, NEW t \in State, NEW x \in Nat, NEW y \in Nat,
           t.vals = s.vals, TotalStake(t) = TotalStake(s) + x, t.burned = s.burned + y
    PROVE  /\ Worth(t) = Worth(s) + x + y
           /\ UniqueKeys(s) => UniqueKeys(t)
<1>1. TotalValidatorLocked(t) = TotalValidatorLocked(s)
  BY Zenon DEF TotalValidatorLocked, Locked
<1>2. UniqueKeys(s) => UniqueKeys(t)
  BY Zenon DEF UniqueKeys, Registered
<1> QED BY SMTT(30), <1>1, <1>2, WorthNat DEF Worth

\* One account is credited.
LEMMA CreditOne ==
    ASSUME NEW f \in [Accounts -> Nat], NEW a \in Accounts, NEW x \in Nat
    PROVE  /\ [f EXCEPT ![a] = @ + x] \in [Accounts -> Nat]
           /\ SumTo([f EXCEPT ![a] = @ + x], NumAccounts) = SumTo(f, NumAccounts) + x
<1> DEFINE e == [f EXCEPT ![a] = @ + x]
<1>1. OneEntry(f, e, a) /\ e[a] = f[a] + x
  BY SMTT(30) DEF OneEntry
<1> HIDE DEF e
<1>2. SumTo(e, NumAccounts) = SumTo(f, NumAccounts) + x
  BY SMTT(30), <1>1, AccountsUpdate
<1> QED BY Zenon, <1>1, <1>2 DEF e, OneEntry

\* The fees of a block become balances and burn, to the last unit, on both
\* sides of the fee model's activation.
LEMMA FeesSafe ==
    ASSUME NEW s \in State, NEW fees \in Nat, NEW proposer \in Accounts \cup {NoOperator},
           NEW ht \in Nat
    PROVE  LET t == ApplyBlockFees(s, fees, proposer, ht)
           IN  /\ t \in State
               /\ Worth(t) = Worth(s) + fees
               /\ UniqueKeys(s) => UniqueKeys(t)
<1> DEFINE t == ApplyBlockFees(s, fees, proposer, ht)
           keep == fees - BurnPart(fees)
<1>1. BurnPart(fees) \in Nat /\ keep \in Nat /\ keep + BurnPart(fees) = fees
  BY SMTT(30), BurnPartBound
<1>2. s.burned \in Nat /\ s.income \in Nat /\ s.bal \in [Accounts -> Nat]
  BY Zenon, StateFields
<1> HIDE DEF keep
<1>3. ASSUME NEW a \in Accounts
      PROVE  /\ [s.bal EXCEPT ![a] = @ + keep] \in [Accounts -> Nat]
             /\ SumTo([s.bal EXCEPT ![a] = @ + keep], NumAccounts) = TotalStake(s) + keep
  BY SMTT(30), <1>1, <1>2, CreditOne DEF TotalStake
<1>4. CASE ht < ActivationHeight /\ (fees = 0 \/ proposer = NoOperator)
  <2>1. t = [s EXCEPT !.burned = s.burned + fees]
    BY Zenon, <1>4 DEF ApplyBlockFees, CreditProposerFees
  <2>2. t \in State /\ t.bal = s.bal /\ t.vals = s.vals /\ t.burned = s.burned + fees
    BY SMTT(30), <2>1, <1>2 DEF State
  <2> HIDE DEF t
  <2>3. TotalStake(t) = TotalStake(s) + 0
    BY SMTT(30), <2>2, WorthNat DEF TotalStake
  <2>4. Worth(t) = Worth(s) + 0 + fees /\ (UniqueKeys(s) => UniqueKeys(t))
    BY Zenon, <2>2, <2>3, SameRecords
  <2> QED BY SMTT(30), <2>2, <2>4, WorthNat DEF t
<1>5. CASE ht < ActivationHeight /\ ~(fees = 0 \/ proposer = NoOperator)
  <2>0. PICK bal \in [Accounts -> Nat] :
               /\ bal = [s.bal EXCEPT ![proposer] = @ + keep]
               /\ SumTo(bal, NumAccounts) = TotalStake(s) + keep
    BY Zenon, <1>3, <1>5
  <2>1. t = [s EXCEPT !.bal = bal,
                      !.burned = s.burned + BurnPart(fees)]
    BY Zenon, <1>5, <2>0 DEF ApplyBlockFees, CreditProposerFees, keep
  <2>2. /\ t \in State /\ t.bal = bal /\ t.vals = s.vals
        /\ t.burned = s.burned + BurnPart(fees)
    <3>1. s.burned + BurnPart(fees) \in Nat /\ s.income + keep \in Nat
      BY SMTT(30), <1>1, <1>2
    <3> HIDE DEF t
    <3>2. t \in State
      BY Zenon, <2>1, <3>1 DEF State
    <3> QED BY Zenon, <2>1, <3>2 DEF State
  <2> HIDE DEF t
  <2>3. TotalStake(t) = TotalStake(s) + keep
    BY Zenon, <2>0, <2>2 DEF TotalStake
  <2>4. Worth(t) = Worth(s) + keep + BurnPart(fees) /\ (UniqueKeys(s) => UniqueKeys(t))
    BY Zenon, <1>1, <2>2, <2>3, SameRecords
  <2> QED BY SMTT(30), <1>1, <2>2, <2>4, WorthNat DEF t
<1>6. CASE ~(ht < ActivationHeight)
  <2>0. PICK bal \in [Accounts -> Nat] :
               /\ bal = [s.bal EXCEPT ![Treasury] = @ + keep]
               /\ SumTo(bal, NumAccounts) = TotalStake(s) + keep
    <3>1. Treasury \in Accounts
      BY Zenon, TreasuryAssumption
    <3> QED BY Zenon, <1>3, <3>1
  <2>1. t = [s EXCEPT !.bal = bal,
                      !.income = s.income + keep, !.burned = s.burned + BurnPart(fees)]
    BY Zenon, <1>6, <2>0 DEF ApplyBlockFees, keep
  <2>2. /\ t \in State /\ t.bal = bal /\ t.vals = s.vals
        /\ t.burned = s.burned + BurnPart(fees)
    <3>1. s.burned + BurnPart(fees) \in Nat /\ s.income + keep \in Nat
      BY <1>1, <1>2
    <3> HIDE DEF t
    <3>2. t \in State
      BY Zenon, <2>1, <3>1 DEF State
    <3> QED BY Zenon, <2>1, <3>2 DEF State
  <2> HIDE DEF t
  <2>3. TotalStake(t) = TotalStake(s) + keep
    BY Zenon, <2>0, <2>2 DEF TotalStake
  <2>4. Worth(t) = Worth(s) + keep + BurnPart(fees) /\ (UniqueKeys(s) => UniqueKeys(t))
    BY <1>1, <2>2, <2>3, SameRecords
  <2> QED BY SMTT(30), <1>1, <2>2, <2>4, WorthNat DEF t
<1> QED BY Zenon, <1>4, <1>5, <1>6

\* Recording votes touches the fee epoch's counters only.
LEMMA VotesSafe ==
    ASSUME NEW s \in State, NEW votes \in [Keys -> Nat], NEW commits \in SUBSET Keys
    PROVE  LET t == RecordFeeEpochVotes(s, votes, commits)
           IN  /\ t \in State
               /\ Worth(t) = Worth(s)
               /\ UniqueKeys(s) => UniqueKeys(t)
<1> DEFINE t == RecordFeeEpochVotes(s, votes, commits)
           total == s.total + SumTo(votes, NumKeys)
           signed == [a \in Accounts |-> s.signed[a] + CommittedPower(s, a, votes, commits)]
<1>1. total \in Nat
  <2>1. NumKeys \in Nat
    BY Zenon, KeysAssumption
  <2>2. \A i \in 1..NumKeys : votes[i] \in Nat
    BY Zenon DEF Keys
  <2> QED BY SMTT(30), <2>1, <2>2, SumToNat, StateFields
<1>2. signed \in [Accounts -> Nat]
  <2>1. \A a \in Accounts : CommittedPower(s, a, votes, commits) \in Nat
    BY Zenon DEF CommittedPower
  <2> QED BY SMTT(30), <2>1, StateFields
<1>3. t = [s EXCEPT !.total = total, !.signed = signed]
  BY Zenon DEF RecordFeeEpochVotes
<1> HIDE DEF total, signed
<1>4. t \in State /\ t.bal = s.bal /\ t.vals = s.vals /\ t.burned = s.burned
  BY Zenon, <1>1, <1>2, <1>3 DEF State
<1> HIDE DEF t
<1>5. TotalStake(t) = TotalStake(s) + 0 /\ t.burned = s.burned + 0
  BY SMTT(30), <1>4, WorthNat DEF TotalStake
<1>6. Worth(t) = Worth(s) + 0 + 0 /\ (UniqueKeys(s) => UniqueKeys(t))
  BY Zenon, <1>4, <1>5, SameRecords
<1> QED BY SMTT(30), <1>4, <1>6, WorthNat DEF t

\* Paying one operator moves SYN out of the treasury, never below zero.
LEMMA PayOneKeepsTotal ==
    ASSUME NEW bal \in [Accounts -> Nat], NEW a \in Accounts, NEW share \in Nat
    PROVE  /\ PayOne(bal, a, share) \in [Accounts -> Nat]
           /\ SumTo(PayOne(bal, a, share), NumAccounts) = SumTo(bal, NumAccounts)
<1> DEFINE amt == AtMost(share, bal[Treasury])
           f == [bal EXCEPT ![Treasury] = bal[Treasury] - amt]
           g == [f EXCEPT ![a] = f[a] + amt]
<1>1. Treasury \in Accounts
  BY Zenon, TreasuryAssumption
<1>2. amt \in Nat /\ bal[Treasury] \in Nat /\ bal[Treasury] - amt \in Nat
  BY SMTT(30), <1>1 DEF AtMost
<1> HIDE DEF amt
<1>3. OneEntry(bal, f, Treasury) /\ f[Treasury] = bal[Treasury] - amt
  BY Zenon, <1>1, <1>2 DEF OneEntry
<1>4. PayOne(bal, a, share) = g
  BY Zenon DEF PayOne, amt
<1> HIDE DEF f
<1>5. OneEntry(f, g, a) /\ g[a] = f[a] + amt
  BY SMTT(30), <1>2, <1>3 DEF OneEntry
<1> HIDE DEF g
<1>6. SumTo(f, NumAccounts) + bal[Treasury] = SumTo(bal, NumAccounts) + f[Treasury]
  BY Zenon, <1>1, <1>3, AccountsUpdate
<1>7. SumTo(g, NumAccounts) + f[a] = SumTo(f, NumAccounts) + g[a] /\ f[a] \in Nat
  BY Zenon, <1>5, AccountsUpdate
<1>8. /\ SumTo(bal, NumAccounts) \in Nat /\ SumTo(f, NumAccounts) \in Nat
      /\ SumTo(g, NumAccounts) \in Nat
  BY Zenon, <1>1, <1>3, <1>5, AccountsUpdate
<1>9. SumTo(g, NumAccounts) = SumTo(bal, NumAccounts)
  BY SMTT(30), <1>2, <1>3, <1>5, <1>6, <1>7, <1>8
<1> QED BY Zenon, <1>4, <1>5, <1>9 DEF OneEntry

\* So does paying all of them, in address order.
LEMMA PaySharesKeepsTotal ==
    ASSUME NEW bal \in [Accounts -> Nat], NEW shares \in [Accounts -> Nat]
    PROVE  /\ PayShares(bal, shares) \in [Accounts -> Nat]
           /\ SumTo(PayShares(bal, shares), NumAccounts) = SumTo(bal, NumAccounts)
<1> DEFINE n == NumAccounts
           X == [Accounts -> Nat]
           F == [p \in (1..n) \X X |-> PayOne(p[2], p[1], shares[p[1]])]
           body(g) == [i \in 0..n |-> IF i = 0 THEN bal ELSE PayOne(g[i-1], i, shares[i])]
           c == CHOOSE g : g = body(g)
<1>1. n \in Nat /\ bal \in X
  BY Zenon, AccountsAssumption
<1>2. ASSUME NEW i \in 1..n, NEW x \in X
      PROVE  PayOne(x, i, shares[i]) \in X /\ SumTo(PayOne(x, i, shares[i]), n) = SumTo(x, n)
  <2>1. i \in Accounts /\ shares[i] \in Nat
    BY Zenon DEF Accounts
  <2> QED BY Zenon, <2>1, PayOneKeepsTotal
<1>3. F \in [(1..n) \X X -> X]
  <2> HIDE DEF n, X
  <2> QED BY Zenon, <1>2
<1>4. \E g : g = body(g)
  <2> HIDE DEF X, F, n
  <2>1. PICK g \in [0..n -> X] : g[0] = bal /\ \A i \in 1..n : g[i] = F[<<i, g[i-1]>>]
    <3>1. LoopStep(F, n, X)
      BY Zenon, <1>3 DEF LoopStep
    <3>2. \E g : LoopRun(g, F, bal, n, X)
      BY Zenon, <1>1, <3>1, LoopExists
    <3> QED BY Zenon, <3>2 DEF LoopRun
  <2>2. ASSUME NEW i \in 1..n PROVE g[i] = PayOne(g[i-1], i, shares[i])
    <3>0. i - 1 \in 0..n
      BY SMTT(30), <1>1
    <3>1. <<i, g[i-1]>> \in (1..n) \X X
      BY Zenon, <3>0
    <3>2. F[<<i, g[i-1]>>] = PayOne(g[i-1], i, shares[i])
      BY Zenon, <3>1 DEF F
    <3> QED BY Zenon, <2>1, <3>2
  <2>3. \A i \in 0..n : g[i] = IF i = 0 THEN bal ELSE PayOne(g[i-1], i, shares[i])
    <3> TAKE i \in 0..n
    <3>1. CASE i = 0
      BY Zenon, <2>1, <3>1
    <3>2. CASE i # 0
      <4>1. i \in 1..n
        BY SMTT(30), <1>1, <3>2
      <4> QED BY Zenon, <2>2, <4>1, <3>2
    <3> QED BY Zenon, <3>1, <3>2
  <2>4. g = [i \in 0..n |-> g[i]]
    BY Zenon
  <2>5. g = body(g)
    BY <2>3, <2>4, Zenon
  <2> QED BY Zenon, <2>5
<1>5. c = body(c)
  <2> HIDE DEF body
  <2> QED BY Zenon, <1>4
<1>6. PayShares(bal, shares) = c[n]
  BY Zenon DEF PayShares
<1> HIDE DEF c, X
<1>7. c[0] = bal
  BY SMTT(30), <1>5, <1>1
<1>8. ASSUME NEW j \in Nat, j + 1 <= n
      PROVE  c[j + 1] = PayOne(c[j], j + 1, shares[j + 1])
  <2> DEFINE k == j + 1
  <2>1. k \in 0..n /\ k # 0 /\ k - 1 = j
    BY SMTT(30), <1>1, <1>8
  <2> HIDE DEF k
  <2>2. c[k] = body(c)[k]
    BY <1>5, Zenon
  <2>3. c[k] = PayOne(c[j], k, shares[k])
    BY Zenon, <2>1, <2>2
  <2> QED BY Zenon, <2>3 DEF k
<1> DEFINE Good(j) == c[j] \in X /\ SumTo(c[j], n) = SumTo(bal, n)
           S == {j \in Nat : j <= n => Good(j)}
<1>9. 0 \in S
  BY Zenon, <1>1, <1>7
<1>10. ASSUME NEW j \in Nat, j \in S PROVE j + 1 \in S
  <2> SUFFICES ASSUME j + 1 <= n PROVE Good(j + 1)
    BY SMTT(30)
  <2>1. Good(j)
    BY SMTT(30), <1>10, <1>1
  <2>2. j + 1 \in 1..n
    BY SMTT(30), <1>1
  <2> QED BY Zenon, <1>2, <1>8, <2>1, <2>2
<1> HIDE DEF S
<1>11. n \in S
  BY Zenon, <1>1, <1>9, <1>10, SetInduction
<1>12. Good(n)
  BY SMTT(30), <1>11, <1>1 DEF S
<1> QED BY Zenon, <1>6, <1>12 DEF X

\* Dividing by a positive number stays in the naturals.
LEMMA NatDiv ==
    ASSUME NEW x \in Nat, NEW y \in Nat, NEW z \in Nat, z > 0
    PROVE  (x * y) \div z \in Nat
<1>1. PICK p \in Nat : p = x * y
  BY SMTT(30)
<1>2. p \div z \in Nat
  BY SMTT(30)
<1> QED BY Zenon, <1>1, <1>2

\* Half of a natural, rounded down, is a natural.
LEMMA HalfNat == ASSUME NEW x \in Nat PROVE x \div 2 \in Nat
BY SMTT(30)

\* The shares of the epoch's pool are natural numbers.
LEMMA SharesNat ==
    ASSUME NEW s \in State, s.total # 0
    PROVE  Shares(s) \in [Accounts -> Nat]
<1> DEFINE pool == s.income \div 2
           share == [a \in Accounts |-> (pool * s.signed[a]) \div s.total]
           sum == SumTo(share, NumAccounts)
           have == s.bal[Treasury]
<1>1. pool \in Nat /\ s.total \in Nat /\ s.total > 0
  <2>1. s.income \in Nat /\ s.total \in Nat
    BY Zenon, StateFields
  <2>2. s.income \div 2 \in Nat
    BY Zenon, <2>1, HalfNat
  <2> QED BY SMTT(30), <2>1, <2>2
<1>2. have \in Nat
  <2>1. Treasury \in Accounts
    BY Zenon, TreasuryAssumption
  <2> QED BY Zenon, <2>1, StateFields
<1> HIDE DEF pool
<1>3. share \in [Accounts -> Nat]
  <2>1. \A a \in Accounts : (pool * s.signed[a]) \div s.total \in Nat
    BY Zenon, <1>1, StateFields, NatDiv
  <2> QED BY Zenon, <2>1
<1> HIDE DEF share
<1>4. sum \in Nat
  <2>1. NumAccounts \in Nat
    BY Zenon, AccountsAssumption
  <2>2. \A i \in 1..NumAccounts : share[i] \in Nat
    BY Zenon, <1>3 DEF Accounts
  <2> QED BY Zenon, <2>1, <2>2, SumToNat
<1>5. Shares(s) = IF sum > have THEN [a \in Accounts |-> (share[a] * have) \div sum] ELSE share
  BY Zenon DEF Shares, share, pool
<1> HIDE DEF sum, have
<1>6. CASE sum > have
  <2>1. sum > 0
    BY SMTT(30), <1>2, <1>4, <1>6
  <2>2. \A a \in Accounts : (share[a] * have) \div sum \in Nat
    BY Zenon, <1>2, <1>3, <1>4, <2>1, NatDiv
  <2> QED BY Zenon, <1>5, <1>6, <2>2
<1>7. CASE ~(sum > have)
  BY Zenon, <1>3, <1>5, <1>7
<1> QED BY Zenon, <1>6, <1>7

\* The epoch payout moves SYN from the treasury to operators.
LEMMA PayoutSafe ==
    ASSUME NEW s \in State
    PROVE  LET t == DistributeFeeEpochPayout(s)
           IN  /\ t \in State
               /\ Worth(t) = Worth(s)
               /\ UniqueKeys(s) => UniqueKeys(t)
<1> DEFINE t == DistributeFeeEpochPayout(s)
           zero == [a \in Accounts |-> 0]
           nothing == \/ s.total = 0
                      \/ s.income \div 2 = 0
                      \/ \A a \in Accounts : s.signed[a] = 0
           new == IF nothing THEN s.bal ELSE PayShares(s.bal, Shares(s))
<1>1. zero \in [Accounts -> Nat]
  BY Zenon
<1>2. new \in [Accounts -> Nat] /\ SumTo(new, NumAccounts) = TotalStake(s)
  <2>1. CASE nothing
    BY Zenon, <2>1, StateFields DEF TotalStake
  <2>2. CASE ~nothing
    <3>1. Shares(s) \in [Accounts -> Nat] /\ s.bal \in [Accounts -> Nat]
      BY Zenon, <2>2, SharesNat, StateFields
    <3>2. new = PayShares(s.bal, Shares(s))
      BY Zenon, <2>2
    <3> HIDE DEF new, nothing
    <3> QED BY Zenon, <3>1, <3>2, PaySharesKeepsTotal DEF TotalStake
  <2> QED BY Zenon, <2>1, <2>2
<1>3. t = [s EXCEPT !.bal = new, !.income = 0, !.total = 0, !.signed = zero]
  BY Zenon DEF DistributeFeeEpochPayout
<1> HIDE DEF new, zero
<1>4. t \in State /\ t.bal = new /\ t.vals = s.vals /\ t.burned = s.burned
  <2> HIDE DEF t, nothing
  <2>1. new \in [Accounts -> Nat]
    BY Zenon, <1>2
  <2>2. t \in State
    BY Zenon, <1>1, <1>3, <2>1 DEF State
  <2> QED BY Zenon, <1>3, <2>2 DEF State
<1> HIDE DEF t
<1>5. TotalStake(t) = TotalStake(s) + 0 /\ t.burned = s.burned + 0
  BY SMTT(30), <1>2, <1>4, WorthNat DEF TotalStake
<1>6. Worth(t) = Worth(s) + 0 + 0 /\ (UniqueKeys(s) => UniqueKeys(t))
  BY Zenon, <1>4, <1>5, SameRecords
<1> QED BY SMTT(30), <1>4, <1>6, WorthNat DEF t

\* Slashing takes from a record exactly what it reports, and keeps its key.
LEMMA SlashSplits ==
    ASSUME NEW rec \in ValidatorRecord
    PROVE  /\ slashAndTombstone(rec) \in ValidatorRecord
           /\ slashAndTombstone(rec).key = rec.key
           /\ SlashedAmount(rec) \in Nat
           /\ LockedIn(slashAndTombstone(rec)) + SlashedAmount(rec) = LockedIn(rec)
<1> DEFINE u == rec.unbonding
           n == Len(u)
           v == SlashedUnbonding(u)
           cut == [i \in 1..n |-> SlashCut(u[i].amount)]
           new == slashAndTombstone(rec)
<1>1. rec.bond \in Nat /\ u \in Seq(UnbondingEntry) /\ n \in Nat
  BY SMTT(30), RecordFields
<1> HIDE DEF u
<1>2. ASSUME NEW i \in 1..n
      PROVE  /\ cut[i] = SlashCut(u[i].amount) /\ cut[i] \in Nat /\ u[i].amount \in Nat
             /\ u[i].amount - cut[i] \in Nat
  <2>1. u[i].amount \in Nat
    BY Zenon, <1>1, EntryFields
  <2>2. cut[i] = SlashCut(u[i].amount)
    BY Zenon
  <2>3. SlashCut(u[i].amount) \in Nat /\ SlashCut(u[i].amount) <= u[i].amount
    BY Zenon, <2>1, SlashCutBound
  <2> HIDE DEF cut
  <2> QED BY SMTT(30), <2>1, <2>2, <2>3
<1>3. ASSUME NEW i \in 1..n
      PROVE  v[i] \in UnbondingEntry /\ v[i].amount = u[i].amount - cut[i]
  <2>1. u[i] \in UnbondingEntry
    BY Zenon, <1>1, EntryFields
  <2>2. v[i] = [u[i] EXCEPT !.amount = u[i].amount - SlashCut(u[i].amount)]
    BY Zenon DEF SlashedUnbonding
  <2>3. u[i].amount - SlashCut(u[i].amount) \in Nat /\ cut[i] = SlashCut(u[i].amount)
    BY Zenon, <1>2
  <2> QED BY Zenon, <2>1, <2>2, <2>3 DEF UnbondingEntry
<1>4. DOMAIN v = 1..n
  BY Zenon DEF SlashedUnbonding
<1>5. v \in Seq(UnbondingEntry) /\ Len(v) = n
  <2>1. v \in [1..n -> UnbondingEntry]
    <3>1. v = [i \in 1..n |-> v[i]]
      BY Zenon DEF SlashedUnbonding
    <3> HIDE DEF v
    <3> QED BY Zenon, <1>3, <3>1
  <2> HIDE DEF v
  <2> QED BY SMTT(30), <1>1, <2>1
<1>6. rec.bond - SlashCut(rec.bond) \in Nat /\ SlashCut(rec.bond) \in Nat
  BY SMTT(30), <1>1, SlashCutBound
<1>7. /\ new \in ValidatorRecord /\ new.key = rec.key /\ new.unbonding = v
      /\ new.bond = rec.bond - SlashCut(rec.bond)
  <2>1. new = [rec EXCEPT !.bond = rec.bond - SlashCut(rec.bond), !.unbonding = v,
                          !.tombstoned = TRUE]
    BY Zenon DEF slashAndTombstone, u
  <2> HIDE DEF v, new
  <2> QED BY Zenon, <1>5, <1>6, <2>1 DEF ValidatorRecord
<1>8. SumTo(Amounts(u), n) = SumTo(Amounts(v), n) + SumTo(cut, n)
  <2>1. /\ \A i \in 1..n : Amounts(v)[i] \in Nat
        /\ \A i \in 1..n : cut[i] \in Nat
        /\ \A i \in 1..n : Amounts(u)[i] = Amounts(v)[i] + cut[i]
    BY SMTT(30), <1>2, <1>3, <1>5 DEF Amounts
  <2> HIDE DEF cut, v
  <2> QED BY SMTT(30), <1>1, <2>1, SumToAdd
<1>9. SumTo(cut, n) \in Nat
  <2>1. \A i \in 1..n : cut[i] \in Nat
    BY Zenon, <1>2
  <2> HIDE DEF cut
  <2> QED BY Zenon, <1>1, <2>1, SumToNat
<1>10. SlashedAmount(rec) = SlashCut(rec.bond) + SumTo(cut, n)
  BY Zenon DEF SlashedAmount, u
<1>11. /\ LockedIn(rec) = rec.bond + SumTo(Amounts(u), n)
       /\ LockedIn(new) = rec.bond - SlashCut(rec.bond) + SumTo(Amounts(v), n)
  BY Zenon, <1>5, <1>7 DEF LockedIn, UnbondingTotal, u
<1>12. SumTo(Amounts(v), n) \in Nat
  BY Zenon, <1>5, UnbondingTotalNat DEF UnbondingTotal
<1> HIDE DEF cut, v, n
<1>13. SlashedAmount(rec) \in Nat /\ LockedIn(new) + SlashedAmount(rec) = LockedIn(rec)
  BY SMTT(30), <1>1, <1>6, <1>8, <1>9, <1>10, <1>11, <1>12
<1> QED BY Zenon, <1>7, <1>13

\* Misbehavior evidence moves stake into the burn counter.
LEMMA SlashSafe ==
    ASSUME NEW s \in State, NEW misbehavior
    PROVE  LET t == SlashForDoubleSign(s, misbehavior)
           IN  /\ t \in State
               /\ Worth(t) = Worth(s)
               /\ UniqueKeys(s) => UniqueKeys(t)
<1> DEFINE t == SlashForDoubleSign(s, misbehavior)
           n == NumAccounts
           hit(a) == Slashable(s, a, misbehavior)
           vals == [a \in Accounts |-> IF hit(a) THEN slashAndTombstone(s.vals[a]) ELSE s.vals[a]]
           cut == [a \in Accounts |-> IF hit(a) THEN SlashedAmount(s.vals[a]) ELSE 0]
<1>1. \A a \in Accounts : s.vals[a] \in ValidatorRecord /\ LockedIn(s.vals[a]) \in Nat
  BY Zenon, StateFields, RecordFields
<1>2. ASSUME NEW a \in Accounts
      PROVE  /\ vals[a] \in ValidatorRecord /\ vals[a].key = s.vals[a].key
             /\ cut[a] \in Nat
             /\ LockedIn(vals[a]) \in Nat
             /\ LockedIn(vals[a]) + cut[a] = LockedIn(s.vals[a])
  <2>1. /\ vals[a] = IF hit(a) THEN slashAndTombstone(s.vals[a]) ELSE s.vals[a]
        /\ cut[a] = IF hit(a) THEN SlashedAmount(s.vals[a]) ELSE 0
    BY Zenon
  <2> HIDE DEF vals, cut, hit
  <2>2. CASE hit(a)
    BY Zenon, <1>1, <2>1, <2>2, SlashSplits, RecordFields
  <2>3. CASE ~hit(a)
    BY SMTT(30), <1>1, <2>1, <2>3
  <2> QED BY Zenon, <2>2, <2>3
<1>3. vals \in [Accounts -> ValidatorRecord] /\ cut \in [Accounts -> Nat]
  <2>1. vals = [a \in Accounts |-> vals[a]] /\ cut = [a \in Accounts |-> cut[a]]
    BY Zenon
  <2> HIDE DEF vals, cut
  <2> QED BY Zenon, <1>2, <2>1
<1>4. t = [s EXCEPT !.vals = vals, !.burned = s.burned + SumTo(cut, n)]
  BY Zenon DEF SlashForDoubleSign
<1> HIDE DEF vals, cut, hit
<1>5. n \in Nat /\ SumTo(cut, n) \in Nat /\ s.burned \in Nat
  <2>1. \A i \in 1..n : cut[i] \in Nat
    BY Zenon, <1>3 DEF Accounts
  <2>2. n \in Nat
    BY Zenon, AccountsAssumption
  <2> HIDE DEF n
  <2> QED BY Zenon, <2>1, <2>2, SumToNat, StateFields
<1>6. t \in State /\ t.bal = s.bal /\ t.vals = vals /\ t.burned = s.burned + SumTo(cut, n)
  <2>1. s.burned + SumTo(cut, n) \in Nat
    BY SMTT(30), <1>5
  <2> HIDE DEF t, n
  <2>2. t \in State
    BY Zenon, <1>3, <1>4, <2>1 DEF State
  <2> QED BY Zenon, <1>4, <2>2 DEF State
<1> HIDE DEF t
<1>7. TotalValidatorLocked(s) = TotalValidatorLocked(t) + SumTo(cut, n)
  <2>1. \A i \in Accounts : /\ Locked(t)[i] \in Nat
                            /\ Locked(s)[i] = Locked(t)[i] + cut[i]
    <3> TAKE i \in Accounts
    <3>1. Locked(t)[i] = LockedIn(vals[i]) /\ Locked(s)[i] = LockedIn(s.vals[i])
      BY Zenon, <1>6, WorthNat
    <3> QED BY Zenon, <1>2, <3>1
  <2>2. /\ \A i \in 1..n : Locked(t)[i] \in Nat
        /\ \A i \in 1..n : cut[i] \in Nat
        /\ \A i \in 1..n : Locked(s)[i] = Locked(t)[i] + cut[i]
    BY Zenon, <2>1, <1>3 DEF Accounts
  <2> HIDE DEF n
  <2>3. SumTo(Locked(s), n) = SumTo(Locked(t), n) + SumTo(cut, n)
    BY SMTT(30), <1>5, <2>2, SumToAdd
  <2> QED BY Zenon, <2>3 DEF TotalValidatorLocked, n
<1>8. TotalStake(t) = TotalStake(s)
  BY Zenon, <1>6 DEF TotalStake
<1>9. Worth(t) = Worth(s)
  BY SMTT(30), <1>5, <1>6, <1>7, <1>8, WorthNat DEF Worth
<1>10. UniqueKeys(s) => UniqueKeys(t)
  BY SMTT(30), <1>2, <1>6 DEF UniqueKeys, Registered
<1> QED BY Zenon, <1>6, <1>9, <1>10 DEF t

\* The powers of the next validator set are self-bonds.
LEMMA ActiveSetNat ==
    ASSUME NEW s \in State
    PROVE  ActiveValidatorSet(s) \in [Keys -> Nat]
<1>1. ASSUME NEW k \in Keys
      PROVE  LET a == validatorOperatorForKey(s, k)
             IN  (IF a # NoOperator /\ InActiveSet(s, a) THEN s.vals[a].bond ELSE 0) \in Nat
  <2> DEFINE a == validatorOperatorForKey(s, k)
  <2>1. a \in Accounts \cup {NoOperator}
    BY Zenon, OperatorForKey
  <2> HIDE DEF a
  <2>2. a # NoOperator => s.vals[a].bond \in Nat
    BY Zenon, <2>1, StateFields, RecordFields
  <2> QED BY Zenon, <2>2 DEF a
<1> QED BY Zenon, <1>1 DEF ActiveValidatorSet

\* Refreshing the validator set touches the snapshot only.
LEMMA RefreshSafe ==
    ASSUME NEW s \in State
    PROVE  LET t == RefreshValidatorSet(s)
           IN  /\ t \in State
               /\ Worth(t) = Worth(s)
               /\ UniqueKeys(s) => UniqueKeys(t)
<1> DEFINE t == RefreshValidatorSet(s)
           A == ActiveValidatorSet(s)
<1>1. A \in [Keys -> Nat]
  BY Zenon, ActiveSetNat
<1>2. \/ t = [s EXCEPT !.kept = TRUE]
      \/ t = [s EXCEPT !.set = A, !.kept = FALSE]
  BY Zenon DEF RefreshValidatorSet
<1> HIDE DEF A, t
<1>3. t \in State /\ t.bal = s.bal /\ t.vals = s.vals /\ t.burned = s.burned
  BY Zenon, <1>1, <1>2 DEF State
<1>4. TotalStake(t) = TotalStake(s) + 0 /\ t.burned = s.burned + 0
  BY SMTT(30), <1>3, WorthNat DEF TotalStake
<1>5. Worth(t) = Worth(s) + 0 + 0 /\ (UniqueKeys(s) => UniqueKeys(t))
  BY Zenon, <1>3, <1>4, SameRecords
<1> QED BY SMTT(30), <1>3, <1>5, WorthNat DEF t

\* Ending a block turns the fees it collected into balances and burn, and
\* neither creates nor loses any other SYN.
LEMMA EndBlockSafe ==
    ASSUME NEW s \in State, NEW fees \in Nat, NEW proposer \in Accounts \cup {NoOperator},
           NEW ht \in Nat, NEW votes \in [Keys -> Nat], NEW commits \in SUBSET Keys,
           NEW misbehavior
    PROVE  LET t == EndBlock(s, fees, proposer, ht, votes, commits, misbehavior)
           IN  /\ t \in State
               /\ Worth(t) = Worth(s) + fees
               /\ UniqueKeys(s) => UniqueKeys(t)
<1> DEFINE a == ApplyBlockFees(s, fees, proposer, ht)
           b == IF ht >= ActivationHeight THEN RecordFeeEpochVotes(a, votes, commits) ELSE a
           c == IF IsFeeEpochEnd(ht) THEN DistributeFeeEpochPayout(b) ELSE b
           any == \E x \in Accounts : Slashable(c, x, misbehavior)
           d == SlashForDoubleSign(c, misbehavior)
           e == IF any \/ ht % EpochBlocks = 0 THEN RefreshValidatorSet(d) ELSE d
<1>1. EndBlock(s, fees, proposer, ht, votes, commits, misbehavior) = e
  BY Zenon DEF EndBlock
<1>2. a \in State /\ Worth(a) = Worth(s) + fees /\ (UniqueKeys(s) => UniqueKeys(a))
  BY Zenon, FeesSafe
<1> HIDE DEF a
<1>3. b \in State /\ Worth(b) = Worth(a) /\ (UniqueKeys(a) => UniqueKeys(b))
  BY Zenon, <1>2, VotesSafe
<1> HIDE DEF b
<1>4. c \in State /\ Worth(c) = Worth(b) /\ (UniqueKeys(b) => UniqueKeys(c))
  BY Zenon, <1>3, PayoutSafe
<1> HIDE DEF c
<1>5. d \in State /\ Worth(d) = Worth(c) /\ (UniqueKeys(c) => UniqueKeys(d))
  BY Zenon, <1>4, SlashSafe
<1> HIDE DEF d, any
<1>6. e \in State /\ Worth(e) = Worth(d) /\ (UniqueKeys(d) => UniqueKeys(e))
  BY Zenon, <1>5, RefreshSafe
<1> HIDE DEF e
<1> QED BY Zenon, <1>1, <1>2, <1>3, <1>4, <1>5, <1>6

-----------------------------------------------------------------------------
(* The application. *)

\* What every copy of the state satisfies, if it exists.
Sound(s) == s \in State /\ Worth(s) <= Supply /\ UniqueKeys(s)
Holds(s) == s = NoState \/ Sound(s)

Copying ==
    /\ Holds(committed) /\ Holds(pending) /\ Holds(check) /\ Holds(disk.state)
    /\ pending # NoState => Worth(pending) + exec.fees <= Supply

Exec == [proposer : Accounts \cup {NoOperator}, fees : Nat, next : Nat]
Engine == [height : Nat, last : [Keys -> Nat], vals : [Keys -> Nat],
           next : [Keys -> Nat], ever : SUBSET Keys]

\* The types of the variables that hold no copy of the state.
Typed ==
    /\ phase \in {"new", "idle", "deliver", "finalized", "persist"}
    /\ height \in Nat /\ crashes \in Nat
    /\ exec \in Exec
    /\ disk = [height |-> disk.height, state |-> disk.state] /\ disk.height \in Nat
    /\ engine \in Engine
    /\ block \in Block \cup {NoBlock}
    /\ response \in Response \cup {NoResponse}

\* What a phase says about which copies of the state exist, and where the
\* application, its state file and CometBFT stand relative to each other.
Lifecycle ==
    /\ phase = "new" <=> committed = NoState
    /\ phase = "new" => disk.state = NoState /\ height = 0
    /\ phase # "new" => check # NoState
    /\ phase \in {"deliver", "finalized"} <=> pending # NoState
    /\ phase = "deliver" => block # NoBlock /\ exec.next >= 1
    /\ phase \in {"deliver", "finalized"} => height = engine.height
    /\ IF phase = "persist" THEN height = disk.height + 1 ELSE height = disk.height
    /\ disk.state = NoState => disk.height = 0
    /\ height \in {engine.height, engine.height + 1}
    /\ disk.height \in {engine.height, engine.height + 1}
    /\ phase = "finalized" \/ height = engine.height + 1 => response # NoResponse

\* The inductive invariant.
IInv == Typed /\ Copying /\ Lifecycle

-----------------------------------------------------------------------------
\* A block's transactions, executed again, are transactions.
LEMMA BlockFields ==
    ASSUME block \in Block
    PROVE  /\ block.proposer \in Keys /\ block.commits \in SUBSET Keys
           /\ block.txs \in Seq(Txs) /\ block.sealed \in BOOLEAN
BY Zenon DEF Block

\* The genesis state is sound and holds exactly the supply.
LEMMA GenesisSound ==
    BondedGenesis \in State /\ Sound(GenesisState) /\ Worth(GenesisState) = Supply
<1> DEFINE n == NumAccounts
           B == BondedGenesis
           G == GenesisState
           bal == [a \in Accounts |-> GenesisBalance[a] - GenesisBond[a]]
           rec(a) == [key |-> GenesisKey[a], bond |-> GenesisBond[a],
                      unbonding |-> <<>>, tombstoned |-> FALSE]
           vals == [a \in Accounts |-> rec(a)]
           zero == [a \in Accounts |-> 0]
<1>1. ASSUME NEW a \in Accounts
      PROVE  /\ GenesisBalance[a] \in Nat /\ GenesisBond[a] \in Nat
             /\ GenesisBalance[a] - GenesisBond[a] \in Nat
             /\ GenesisKey[a] \in Keys \cup {NoKey}
  BY SMTT(30), GenesisAssumption
<1>2. ASSUME NEW a \in Accounts
      PROVE  /\ rec(a) \in ValidatorRecord /\ rec(a).key = GenesisKey[a]
             /\ rec(a).bond = GenesisBond[a] /\ rec(a).unbonding = <<>>
  <2>1. <<>> \in Seq(UnbondingEntry)
    BY SMTT(30)
  <2> QED BY Zenon, <1>1, <2>1 DEF ValidatorRecord
<1>3. bal \in [Accounts -> Nat] /\ zero \in [Accounts -> Nat]
  BY Zenon, <1>1
<1>4. vals \in [Accounts -> ValidatorRecord]
  <2> HIDE DEF rec
  <2> QED BY Zenon, <1>2
<1>5. EmptySet \in [Keys -> Nat]
  BY Zenon DEF EmptySet
<1>6. /\ B = [bal |-> bal, nonce |-> zero, vals |-> vals, set |-> EmptySet, income |-> 0,
             total |-> 0, signed |-> zero, burned |-> 0, kept |-> FALSE]
  BY Zenon DEF BondedGenesis
<1>7. \A a \in Accounts : vals[a] = rec(a)
  BY Zenon
<1>8. \A a \in Accounts : bal[a] = GenesisBalance[a] - GenesisBond[a]
  BY Zenon
<1> HIDE DEF bal, vals, zero, rec
<1>9. B \in State /\ B.bal = bal /\ B.vals = vals /\ B.burned = 0
  BY Zenon, <1>3, <1>4, <1>5, <1>6 DEF State
<1> HIDE DEF B
<1>10. G \in State /\ G.bal = bal /\ G.vals = vals /\ G.burned = 0
  <2>1. ActiveValidatorSet(B) \in [Keys -> Nat]
    BY Zenon, <1>9, ActiveSetNat
  <2>2. G = [B EXCEPT !.set = ActiveValidatorSet(B)]
    BY Zenon DEF GenesisState, B
  <2> HIDE DEF G
  <2> QED BY Zenon, <1>9, <2>1, <2>2 DEF State
<1> HIDE DEF G
<1>11. UniqueKeys(G)
  <2> SUFFICES ASSUME NEW a \in Accounts, NEW b \in Accounts, a # b,
                      Registered(G, a), Registered(G, b)
               PROVE  G.vals[a].key # G.vals[b].key
    BY Zenon DEF UniqueKeys
  <2>1. G.vals[a].key = GenesisKey[a] /\ G.vals[b].key = GenesisKey[b]
    BY Zenon, <1>2, <1>7, <1>10
  <2>2. GenesisKey[a] # NoKey
    BY Zenon, <2>1 DEF Registered
  <2> QED BY Zenon, <2>1, <2>2, GenesisAssumption
<1>12. \A a \in Accounts : Locked(G)[a] = GenesisBond[a]
  <2> TAKE a \in Accounts
  <2>1. Locked(G)[a] = LockedIn(rec(a))
    BY Zenon, <1>7, <1>10, WorthNat
  <2>2. UnbondingTotal(<<>>) = 0
    BY Zenon, SumToZero DEF UnbondingTotal
  <2> QED BY SMTT(30), <1>1, <1>2, <2>1, <2>2 DEF LockedIn
<1>13. Supply = SumTo(bal, n) + SumTo(Locked(G), n)
  <2>1. \A i \in 1..n : /\ bal[i] \in Nat /\ Locked(G)[i] \in Nat
                        /\ GenesisBalance[i] = bal[i] + Locked(G)[i]
    <3>1. \A i \in Accounts : /\ bal[i] \in Nat /\ Locked(G)[i] \in Nat
                              /\ GenesisBalance[i] = bal[i] + Locked(G)[i]
      BY SMTT(30), <1>1, <1>8, <1>12
    <3> QED BY Zenon, <3>1 DEF Accounts
  <2>2. n \in Nat
    BY Zenon, NumNat
  <2> HIDE DEF n
  <2>3. SumTo(GenesisBalance, n) = SumTo(bal, n) + SumTo(Locked(G), n)
    BY Zenon, <2>1, <2>2, SumToAdd
  <2> QED BY Zenon, <2>3 DEF Supply, n
<1>14. Worth(G) = Supply
  BY SMTT(30), <1>10, <1>13, WorthNat DEF Worth, TotalStake, TotalValidatorLocked
<1>15. Worth(G) <= Supply
  BY SMTT(30), <1>10, <1>14, WorthNat
<1> QED BY Zenon, <1>9, <1>10, <1>11, <1>14, <1>15 DEF Sound, G, B

\* The sentinels are no states, blocks or responses.
LEMMA Nil ==
    /\ \A s : Sound(s) => s # NoState
    /\ \A s : Holds(s) /\ s # NoState => Sound(s)
BY Zenon, NilAssumption DEF Sound, Holds

\* One transaction of the block, applied or refused.
LEMMA ExecuteSound ==
    ASSUME IInv, phase = "deliver", NEW tx \in Txs, Execute(tx)
    PROVE  /\ Sound(pending') /\ Worth(pending') + exec'.fees <= Supply
           /\ exec' \in Exec /\ exec'.next >= 1
<1>1. tx \in Tx /\ tx.fee \in Nat /\ height + 1 \in Nat
  BY SMTT(30), TxsAssumption DEF Tx, IInv, Typed
<1>2. /\ exec \in Exec /\ exec.fees \in Nat /\ exec.next \in Nat /\ exec.next >= 1
  BY Zenon DEF IInv, Typed, Exec, Lifecycle
<1>3. Sound(pending) /\ Worth(pending) + exec.fees <= Supply /\ Worth(pending) \in Nat
  BY Zenon, Nil, WorthNat DEF IInv, Copying, Lifecycle, Sound
<1>4. Supply \in Nat
  BY Zenon, GenesisSound, WorthNat DEF Sound
<1>5. CASE TxOk(pending, tx, height + 1)
  <2>1. pending' = ApplyTransaction(pending, tx, height + 1)
    BY Zenon, <1>5 DEF Execute
  <2>2. exec' = [exec EXCEPT !.fees = exec.fees + tx.fee, !.next = exec.next + 1]
    BY Zenon, <1>5 DEF Execute
  <2>3. exec' \in Exec /\ exec'.fees = exec.fees + tx.fee /\ exec'.next = exec.next + 1
    <3>1. exec.fees + tx.fee \in Nat /\ exec.next + 1 \in Nat
      BY SMTT(30), <1>1, <1>2
    <3>2. exec \in Exec
      BY Zenon, <1>2
    <3>3. exec' = [proposer |-> exec.proposer, fees |-> exec.fees + tx.fee,
                   next |-> exec.next + 1]
      BY Zenon, <2>2, <3>2 DEF Exec
    <3> QED BY Zenon, <3>1, <3>2, <3>3 DEF Exec
  <2> DEFINE t == ApplyTransaction(pending, tx, height + 1)
  <2>4. t \in State /\ Worth(t) + tx.fee <= Worth(pending) /\ UniqueKeys(t)
    BY Zenon, <1>1, <1>3, <1>5, TransactionSafe DEF Sound
  <2> HIDE DEF t
  <2>5. Worth(t) \in Nat
    BY Zenon, <2>4, WorthNat
  <2>6. Worth(t) <= Supply /\ Worth(t) + exec'.fees <= Supply
    BY SMTT(30), <1>1, <1>2, <1>3, <1>4, <2>3, <2>4, <2>5
  <2>7. pending' = t
    BY Zenon, <2>1 DEF t
  <2> QED BY SMTT(30), <1>2, <2>3, <2>4, <2>6, <2>7 DEF Sound
<1>6. CASE ~TxOk(pending, tx, height + 1)
  <2>1. pending' = pending /\ exec' = [exec EXCEPT !.next = exec.next + 1]
    BY Zenon, <1>6 DEF Execute
  <2>2. exec' \in Exec /\ exec'.fees = exec.fees /\ exec'.next = exec.next + 1
    BY SMTT(30), <1>2, <2>1 DEF Exec
  <2> QED BY SMTT(30), <1>2, <1>3, <2>1, <2>2 DEF Sound
<1> QED BY Zenon, <1>5, <1>6

-----------------------------------------------------------------------------
\* A node that has not seen InitChain satisfies the inductive invariant.
LEMMA InitInv == Init => IInv
<1> SUFFICES ASSUME Init PROVE IInv
  BY Zenon
<1>1. EmptySet \in [Keys -> Nat]
  BY Zenon DEF EmptySet
<1>2. Typed
  BY Zenon, <1>1 DEF Init, Typed, Exec, Engine, NoExec
<1>3. Copying
  BY Zenon DEF Init, Copying, Holds
<1>4. Lifecycle
  BY SMTT(30) DEF Init, Lifecycle
<1> QED BY Zenon, <1>2, <1>3, <1>4 DEF IInv

\* Every handler of the application, every step of CometBFT and a crash keep it.
LEMMA NextInv == IInv /\ [Next]_vars => IInv'
<1> SUFFICES ASSUME IInv, [Next]_vars PROVE IInv'
  BY Zenon
<1> USE DEF IInv
<1>1. CASE InitChain
  <2>1. Sound(GenesisState) /\ GenesisState.set \in [Keys -> Nat]
    BY Zenon, GenesisSound, StateFields DEF Sound
  <2>2. Members(GenesisState.set) \in SUBSET Keys
    BY Zenon DEF Members
  <2>3. engine' \in Engine /\ engine'.height = engine.height
    BY Zenon, <1>1, <2>1, <2>2 DEF InitChain, Typed, Engine
  <2>4. Typed'
    BY Zenon, <1>1, <2>3 DEF InitChain, Typed
  <2>5. Copying'
    BY Zenon, <1>1, <2>1 DEF InitChain, Copying, Holds
  <2>6. Lifecycle'
    BY Zenon, <1>1, <2>1, <2>3, Nil DEF InitChain, Lifecycle
  <2> QED BY Zenon, <2>4, <2>5, <2>6
<1>2. CASE \E tx \in Txs : CheckTx(tx)
  <2>1. PICK tx \in Txs : CheckTx(tx)
    BY Zenon, <1>2
  <2>2. Sound(check')
    <3>1. Sound(check)
      BY Zenon, <2>1, Nil DEF CheckTx, Lifecycle, Copying
    <3>2. tx \in Tx /\ height + 1 \in Nat /\ tx.fee \in Nat
      BY SMTT(30), TxsAssumption DEF Tx, Typed
    <3> DEFINE t == ApplyTransaction(check, tx, height + 1)
    <3>3. t \in State /\ Worth(t) + tx.fee <= Worth(check) /\ UniqueKeys(t)
      BY Zenon, <2>1, <3>1, <3>2, TransactionSafe DEF CheckTx, Sound
    <3>4. check' = t
      BY Zenon, <2>1 DEF CheckTx
    <3> HIDE DEF t
    <3>5. Worth(t) \in Nat /\ Worth(check) \in Nat /\ Supply \in Nat
      BY Zenon, <3>1, <3>3, WorthNat, GenesisSound DEF Sound
    <3> QED BY SMTT(30), <3>1, <3>2, <3>3, <3>4, <3>5 DEF Sound
  <2>3. Typed'
    BY Zenon, <2>1 DEF CheckTx, Typed, engineVars
  <2>4. Copying'
    BY Zenon, <2>1, <2>2 DEF CheckTx, Copying, Holds
  <2>5. Lifecycle'
    BY Zenon, <2>1, <2>2, Nil DEF CheckTx, Lifecycle, engineVars
  <2> QED BY Zenon, <2>3, <2>4, <2>5
<1>3. CASE \E p \in Keys, c, m \in SUBSET Keys : DecideBlock(p, c, m)
  <2>1. PICK p \in Keys, c \in SUBSET Keys, m \in SUBSET Keys : DecideBlock(p, c, m)
    BY Zenon, <1>3
  <2>f. /\ phase # "new" /\ UNCHANGED <<phase, committed, height, pending, exec, check>>
        /\ UNCHANGED <<disk, engine, response, crashes>>
        /\ block' = [proposer |-> p, commits |-> c, misbehavior |-> m,
                     txs |-> <<>>, sealed |-> FALSE]
    BY Zenon, <2>1 DEF DecideBlock, appVars
  <2>2. block' \in Block
    <3>1. <<>> \in Seq(Txs)
      BY SMTT(30)
    <3> QED BY Zenon, <2>f, <3>1 DEF Block
  <2>3. Typed'
    BY Zenon, <2>f, <2>2 DEF Typed
  <2>4. Copying'
    BY Zenon, <2>f DEF Copying
  <2>5. Lifecycle'
    <3>1. block' # NoBlock
      BY Zenon, <2>2, NilAssumption
    <3> QED BY Zenon, <2>f, <3>1 DEF Lifecycle
  <2> QED BY Zenon, <2>3, <2>4, <2>5
<1>4. CASE BeginBlock
  <2>1. Sound(committed) /\ Worth(committed) \in Nat /\ Worth(committed) <= Supply
    <3>1. phase = "idle"
      BY Zenon, <1>4 DEF BeginBlock
    <3>2. committed # NoState
      BY Zenon, <3>1 DEF Lifecycle
    <3> QED BY Zenon, <3>2, Nil, WorthNat DEF Copying, Sound
  <2>2. exec' \in Exec /\ exec'.fees = 0 /\ exec'.next = 1
    BY Zenon, <1>4, OperatorForKey DEF BeginBlock, Exec
  <2>3. Typed'
    BY Zenon, <1>4, <2>2 DEF BeginBlock, Typed, engineVars
  <2>4. Copying'
    BY SMTT(30), <1>4, <2>1, <2>2 DEF BeginBlock, Copying, Holds
  <2>5. Lifecycle'
    BY SMTT(30), <1>4, <2>1, <2>2, Nil DEF BeginBlock, Lifecycle, engineVars
  <2> QED BY SMTT(30), <2>3, <2>4, <2>5
<1>5. CASE \E tx \in Txs : DeliverTx(tx)
  <2>1. PICK tx \in Txs : DeliverTx(tx)
    BY SMTT(30), <1>5
  <2>2. /\ Sound(pending') /\ Worth(pending') + exec'.fees <= Supply
        /\ exec' \in Exec /\ exec'.next >= 1
    BY Zenon, <2>1, ExecuteSound DEF DeliverTx
  <2>3. block \in Block
    BY Zenon, <2>1 DEF DeliverTx, Typed, Lifecycle
  <2>4. Append(block.txs, tx) \in Seq(Txs)
    BY SMTT(30), <2>3, BlockFields
  <2>5. block' \in Block
    BY Zenon, <2>1, <2>3, <2>4 DEF DeliverTx, Block
  <2>6. Typed'
    BY Zenon, <2>1, <2>2, <2>5 DEF DeliverTx, Execute, Typed
  <2>7. Copying'
    BY Zenon, <2>1, <2>2 DEF DeliverTx, Execute, Copying, Holds
  <2>8. Lifecycle'
    BY Zenon, <2>1, <2>2, <2>5, Nil, NilAssumption DEF DeliverTx, Execute, Lifecycle
  <2> QED BY Zenon, <2>6, <2>7, <2>8
<1>6. CASE RedeliverTx
  <2>1. block \in Block
    BY Zenon, <1>6 DEF RedeliverTx, Typed, Lifecycle
  <2>2. exec.next \in 1..Len(block.txs)
    BY SMTT(30), <1>6, <2>1, BlockFields DEF RedeliverTx, Lifecycle, Typed, Exec
  <2>3. block.txs[exec.next] \in Txs
    BY SMTT(30), <2>1, <2>2, BlockFields
  <2>4. /\ Sound(pending') /\ Worth(pending') + exec'.fees <= Supply
        /\ exec' \in Exec /\ exec'.next >= 1
    BY Zenon, <1>6, <2>3, ExecuteSound DEF RedeliverTx
  <2>5. Typed'
    BY Zenon, <1>6, <2>4 DEF RedeliverTx, Execute, Typed
  <2>6. Copying'
    BY Zenon, <1>6, <2>4 DEF RedeliverTx, Execute, Copying, Holds
  <2>7. Lifecycle'
    BY Zenon, <1>6, <2>4, Nil DEF RedeliverTx, Execute, Lifecycle
  <2> QED BY Zenon, <2>5, <2>6, <2>7
<1>7. CASE EndFinalize
  <2>1. block \in Block /\ block.commits \in SUBSET Keys
    BY Zenon, <1>7, BlockFields DEF EndFinalize, Typed, Lifecycle
  <2>2. /\ exec.fees \in Nat /\ exec.proposer \in Accounts \cup {NoOperator}
        /\ engine.last \in [Keys -> Nat] /\ height + 1 \in Nat
    BY SMTT(30) DEF Typed, Exec, Engine
  <2>3. Sound(pending) /\ Worth(pending) + exec.fees <= Supply
    BY Zenon, <1>7, Nil DEF EndFinalize, Copying, Lifecycle
  <2> DEFINE t == EndBlock(pending, exec.fees, exec.proposer, height + 1,
                           engine.last, block.commits, block.misbehavior)
  <2>4. t \in State /\ Worth(t) = Worth(pending) + exec.fees /\ UniqueKeys(t)
    <3> DEFINE s == pending
               f == exec.fees
               p == exec.proposer
               h == height + 1
               v == engine.last
               c == block.commits
    <3>1. s \in State /\ UniqueKeys(s)
      BY Zenon, <2>3 DEF Sound
    <3>2. /\ f \in Nat /\ p \in Accounts \cup {NoOperator} /\ h \in Nat
          /\ v \in [Keys -> Nat] /\ c \in SUBSET Keys
      BY Zenon, <2>1, <2>2
    <3> HIDE DEF s, f, p, h, v, c
    <3>3. LET u == EndBlock(s, f, p, h, v, c, block.misbehavior)
          IN  u \in State /\ Worth(u) = Worth(s) + f /\ (UniqueKeys(s) => UniqueKeys(u))
      BY SMTT(30), <3>1, <3>2, EndBlockSafe
    <3> QED BY Zenon, <3>1, <3>3 DEF s, f, p, h, v, c
  <2>5. pending' = t
    BY Zenon, <1>7 DEF EndFinalize
  <2> HIDE DEF t
  <2>6. Sound(pending') /\ Worth(pending') \in Nat
    BY Zenon, <2>3, <2>4, <2>5, WorthNat DEF Sound
  <2>7. response' \in Response
    <3>1. pending'.set \in [Keys -> Nat] /\ pending' \in State
      BY Zenon, <2>6, StateFields DEF Sound
    <3>2. validatorUpdates(pending.set, pending'.set) \in [Keys -> Nat \cup {NoUpdate}]
      BY Zenon, <3>1 DEF validatorUpdates
    <3> QED BY Zenon, <1>7, <3>1, <3>2 DEF EndFinalize, Response
  <2>8. block' \in Block
    BY Zenon, <1>7, <2>1 DEF EndFinalize, Block
  <2>9. exec' \in Exec /\ exec'.fees = 0
    BY Zenon, <1>7 DEF EndFinalize, NoExec, Exec
  <2>10. Typed'
    BY Zenon, <1>7, <2>7, <2>8, <2>9 DEF EndFinalize, Typed
  <2>11. Copying'
    BY SMTT(30), <1>7, <2>6, <2>9 DEF EndFinalize, Copying, Holds, Sound
  <2>12. Lifecycle'
    BY Zenon, <1>7, <2>6, <2>7, Nil, NilAssumption DEF EndFinalize, Lifecycle
  <2> QED BY <2>10, <2>11, <2>12
<1>8. CASE Commit
  <2>1. Sound(pending)
    BY Zenon, <1>8, Nil DEF Commit, Copying, Lifecycle
  <2>2. Typed'
    BY SMTT(30), <1>8 DEF Commit, Typed, engineVars
  <2>3. Copying'
    BY Zenon, <1>8, <2>1 DEF Commit, Copying, Holds
  <2>4. Lifecycle'
    BY Zenon, <1>8, <2>1, Nil DEF Commit, Lifecycle, engineVars, Typed, Engine
  <2> QED BY Zenon, <2>2, <2>3, <2>4
<1>9. CASE Persist
  <2>1. disk'.height = height /\ disk'.state = committed
    BY Zenon, <1>9 DEF Persist
  <2>2. Typed'
    BY Zenon, <1>9, <2>1 DEF Persist, Typed, engineVars
  <2>3. Copying'
    BY Zenon, <1>9, <2>1 DEF Persist, Copying
  <2>4. Lifecycle'
    BY Zenon, <1>9, <2>1 DEF Persist, Lifecycle, engineVars
  <2> QED BY <2>2, <2>3, <2>4
<1>10. CASE EngineApply
  <2> DEFINE next == [k \in Keys |-> IF response.updates[k] = NoUpdate THEN engine.next[k]
                                     ELSE response.updates[k]]
  <2>1. response \in Response /\ response.updates \in [Keys -> Nat \cup {NoUpdate}]
    BY Zenon, <1>10 DEF EngineApply, Lifecycle, Typed, Response
  <2>2. next \in [Keys -> Nat]
    BY Zenon, <2>1 DEF Typed, Engine
  <2>3. engine' = [height |-> height, last |-> engine.vals, vals |-> engine.next,
                   next |-> next, ever |-> engine.ever \cup Members(next)]
    BY Zenon, <1>10 DEF EngineApply
  <2> HIDE DEF next
  <2>4. engine' \in Engine /\ engine'.height = height
    BY Zenon, <2>2, <2>3 DEF Typed, Engine, Members
  <2>5. Typed'
    BY Zenon, <1>10, <2>4 DEF EngineApply, Typed, appVars
  <2>6. Copying'
    BY Zenon, <1>10 DEF EngineApply, Copying, appVars
  <2>7. Lifecycle'
    <3>1. /\ phase = "idle" /\ height = engine.height + 1 /\ UNCHANGED disk
          /\ UNCHANGED <<phase, committed, height, pending, exec, check>>
      BY Zenon, <1>10 DEF EngineApply, appVars
    <3>2. engine.height \in Nat
      BY Zenon DEF Typed, Engine
    <3> QED BY SMTT(30), <2>4, <3>1, <3>2 DEF Lifecycle
  <2> QED BY <2>5, <2>6, <2>7
<1>11. CASE Crash
  <2>1. Typed'
    BY SMTT(30), <1>11 DEF Crash, Typed, Exec, NoExec, engineVars
  <2>2. Copying'
    BY Zenon, <1>11 DEF Crash, Copying, Holds
  <2>3. Lifecycle'
    <3>1. /\ phase' = (IF disk.state = NoState THEN "new" ELSE "idle")
          /\ committed' = disk.state /\ height' = disk.height /\ pending' = NoState
          /\ check' = disk.state /\ UNCHANGED <<disk, engine, block, response>>
      BY Zenon, <1>11 DEF Crash, engineVars
    <3>2. disk.height \in Nat /\ engine.height \in Nat
      BY Zenon DEF Typed, Engine
    <3>3. phase' = "new" <=> disk.state = NoState
      BY Zenon, <3>1
    <3>4. phase' \in {"new", "idle"}
      BY Zenon, <3>1
    <3>5. disk.height = engine.height + 1 => response # NoResponse
      BY SMTT(30), <3>2 DEF Lifecycle
    <3> QED BY Zenon, <3>1, <3>2, <3>3, <3>4, <3>5 DEF Lifecycle
  <2> QED BY <2>1, <2>2, <2>3
<1>12. CASE Bounded \/ UNCHANGED vars
  <2>1. UNCHANGED vars
    BY Zenon, <1>12 DEF Bounded
  <2>2. Typed'
    BY Zenon, <2>1 DEF vars, Typed
  <2>3. Copying'
    BY Zenon, <2>1 DEF vars, Copying
  <2>4. Lifecycle'
    BY Zenon, <2>1 DEF vars, Lifecycle
  <2> QED BY <2>2, <2>3, <2>4
<1> QED BY Zenon, <1>1, <1>2, <1>3, <1>4, <1>5, <1>6, <1>7, <1>8, <1>9, <1>10, <1>11, <1>12 DEF Next

-----------------------------------------------------------------------------
\* IInv holds in every reachable state.
THEOREM Inductive == Spec => []IInv
<1>1. Init => IInv
  BY Zenon, InitInv
<1>2. IInv /\ [Next]_vars => IInv'
  BY Zenon, NextInv
<1> QED BY <1>1, <1>2, PTL DEF Spec

\* The variables of the application, and what CometBFT keeps about it, have
\* their types in every reachable state.
THEOREM TypeCorrect == Spec => []TypeOK
<1>1. IInv => TypeOK
  <2> SUFFICES ASSUME IInv PROVE TypeOK
    BY Zenon
  <2>1. \A s : Holds(s) => s \in States
    BY Zenon DEF Holds, Sound, States
  <2>2. /\ committed \in States /\ pending \in States /\ check \in States
        /\ disk.state \in States
    BY Zenon, <2>1 DEF IInv, Copying
  <2>3. disk \in [height : Nat, state : States]
    BY Zenon, <2>2 DEF IInv, Typed
  <2> QED BY Zenon, <2>2, <2>3 DEF IInv, Typed, Exec, Engine, TypeOK
<1> QED BY <1>1, Inductive, PTL

\* No sequence of transactions, fee splits, payouts, slashes, crashes and
\* replays makes any copy of the state hold more SYN than genesis did.
THEOREM SupplyBounded == Spec => []SupplyNeverGrows
<1>1. IInv => SupplyNeverGrows
  BY Zenon DEF IInv, Copying, Holds, Sound, SupplyNeverGrows, Copies
<1> QED BY <1>1, Inductive, PTL

\* A consensus key has at most one registered owner in every copy of the
\* state.
THEOREM KeysStayUnique == Spec => []ConsensusKeysUnique
<1>1. IInv => ConsensusKeysUnique
  BY SMTT(30) DEF IInv, Copying, Holds, Sound, ConsensusKeysUnique, Copies
<1> QED BY <1>1, Inductive, PTL

\* Wherever the node crashes, the state file is at CometBFT's last applied
\* block or one ahead of it with the response saved.
THEOREM RestartPossible == Spec => []AppWithinOneBlock
<1>1. IInv => AppWithinOneBlock
  BY SMTT(30) DEF IInv, Lifecycle, AppWithinOneBlock, Typed, Engine
<1> QED BY <1>1, Inductive, PTL
-----------------------------------------------------------------------------
\* The set CometBFT will have once it has applied the saved response.
Updated ==
    [k \in Keys |-> IF response.updates[k] = NoUpdate THEN engine.next[k]
                    ELSE response.updates[k]]

\* The validator set of every copy of the state that CometBFT may come to
\* rely on, in terms of the sets CometBFT has.
SetsInStep ==
    /\ phase # "new" =>
          committed.set = IF height = engine.height THEN engine.next ELSE Updated
    /\ disk.state # NoState =>
          disk.state.set = IF disk.height = engine.height THEN engine.next ELSE Updated
    /\ phase = "deliver" => pending.set = committed.set
    /\ phase = "finalized" => pending.set = Updated

\* A transaction leaves the validator set alone until the block's end.
LEMMA TransactionKeepsSet ==
    ASSUME NEW s \in State, NEW tx \in Tx, NEW h
    PROVE  ApplyTransaction(s, tx, h).set = s.set
<1>1. tx.kind \in {"transfer", "bond", "unbond", "withdraw"}
  BY Zenon DEF Tx
<1>2. Transfer(s, tx).set = s.set
  BY Zenon DEF Transfer, State
<1>3. Bond(s, tx).set = s.set
  BY Zenon DEF Bond, State
<1>4. Unbond(s, tx, h).set = s.set
  BY Zenon DEF Unbond, State
<1>5. Withdraw(s, tx, h).set = s.set
  BY Zenon DEF Withdraw, State
<1> QED BY Zenon, <1>1, <1>2, <1>3, <1>4, <1>5 DEF ApplyTransaction

\* The updates lead from the old set to the new one.
LEMMA UpdatesLead ==
    ASSUME NEW from \in [Keys -> Nat], NEW to \in [Keys -> Nat]
    PROVE  [k \in Keys |-> IF validatorUpdates(from, to)[k] = NoUpdate THEN from[k]
                           ELSE validatorUpdates(from, to)[k]] = to
BY SMTT(30) DEF validatorUpdates, NoUpdate

\* Delivering a transaction, for the first time or again, executes one.
LEMMA ExecutesOne ==
    ASSUME IInv, (\E tx \in Txs : DeliverTx(tx)) \/ RedeliverTx
    PROVE  \E tx \in Txs : phase = "deliver" /\ Execute(tx)
<1>1. CASE RedeliverTx
  <2>1. block \in Block
    BY Zenon, <1>1 DEF RedeliverTx, IInv, Typed, Lifecycle
  <2>2. exec.next \in 1..Len(block.txs)
    BY SMTT(30), <1>1, <2>1, BlockFields DEF RedeliverTx, IInv, Lifecycle, Typed, Exec
  <2> QED BY SMTT(30), <1>1, <2>1, <2>2, BlockFields DEF RedeliverTx
<1> QED BY Zenon, <1>1 DEF DeliverTx

\* CometBFT and the application never disagree about the validator set.
LEMMA SetsNext == IInv /\ IInv' /\ SetsInStep /\ [Next]_vars => SetsInStep'
<1> SUFFICES ASSUME IInv, IInv', SetsInStep, [Next]_vars PROVE SetsInStep'
  BY Zenon
<1>1. CASE InitChain
  <2>1. engine.height = 0 /\ disk.state = NoState /\ engine \in Engine
    BY SMTT(30), <1>1 DEF IInv, Lifecycle, Typed, Engine, InitChain
  <2>2. engine'.next = GenesisState.set /\ engine'.height = 0
    BY Zenon, <1>1, <2>1 DEF InitChain, Engine
  <2> QED BY Zenon, <1>1, <2>1, <2>2 DEF InitChain, SetsInStep, IInv, Lifecycle
<1>2. CASE (\E tx \in Txs : CheckTx(tx))
           \/ (\E p \in Keys, c, m \in SUBSET Keys : DecideBlock(p, c, m))
           \/ Bounded \/ UNCHANGED vars
  <2>1. UNCHANGED <<phase, committed, height, pending, disk, engine, response>>
    BY Zenon, <1>2 DEF CheckTx, DecideBlock, Bounded, vars, appVars, engineVars
  <2> QED BY Zenon, <2>1 DEF SetsInStep, Updated
<1>3. CASE BeginBlock
  BY Zenon, <1>3 DEF BeginBlock, SetsInStep, Updated, engineVars
<1>4. CASE (\E tx \in Txs : DeliverTx(tx)) \/ RedeliverTx
  <2>1. PICK tx \in Txs : phase = "deliver" /\ Execute(tx)
    BY Zenon, <1>4, ExecutesOne
  <2>2. pending \in State /\ tx \in Tx
    BY Zenon, <2>1, Nil, TxsAssumption DEF IInv, Copying, Lifecycle, Sound
  <2>3. pending'.set = pending.set
    BY SMTT(30), <2>1, <2>2, TransactionKeepsSet DEF Execute
  <2> QED BY Zenon, <2>1, <2>3 DEF Execute, SetsInStep, Updated
<1>5. CASE EndFinalize
  <2>1. pending.set = engine.next /\ height = engine.height /\ disk.height = engine.height
    BY Zenon, <1>5 DEF EndFinalize, SetsInStep, IInv, Lifecycle
  <2>2. response'.updates = validatorUpdates(pending.set, pending'.set)
    BY Zenon, <1>5 DEF EndFinalize
  <2>3. pending'.set \in [Keys -> Nat] /\ engine.next \in [Keys -> Nat]
    <3>1. pending' # NoState
      BY Zenon, <1>5 DEF EndFinalize, IInv, Lifecycle
    <3>2. pending' \in State
      BY Zenon, <3>1, Nil DEF IInv, Copying, Sound, Holds
    <3> QED BY Zenon, <3>2, StateFields DEF IInv, Typed, Engine
  <2>4. Updated' = pending'.set
    <3>1. engine' = engine
      BY Zenon, <1>5 DEF EndFinalize
    <3>2. Updated' = [k \in Keys |-> IF validatorUpdates(engine.next, pending'.set)[k] = NoUpdate
                                     THEN engine.next[k]
                                     ELSE validatorUpdates(engine.next, pending'.set)[k]]
      BY Zenon, <2>1, <2>2, <3>1 DEF Updated
    <3> QED BY Zenon, <2>3, <3>2, UpdatesLead
  <2> QED BY Zenon, <1>5, <2>1, <2>4 DEF EndFinalize, SetsInStep
<1>6. CASE Commit
  <2>1. pending.set = Updated /\ height = engine.height /\ engine.height \in Nat
    BY Zenon, <1>6 DEF Commit, SetsInStep, IInv, Lifecycle, Typed, Engine
  <2>2. /\ phase' = "persist" /\ committed'.set = Updated /\ height' = height + 1
        /\ UNCHANGED <<disk, engine, response>>
    BY Zenon, <1>6, <2>1 DEF Commit, engineVars
  <2>3. height' # engine'.height
    BY Zenon, <2>1, <2>2, NatNext
  <2>4. Updated' = Updated
    BY Zenon, <2>2 DEF Updated
  <2>5. phase' # "deliver" /\ phase' # "finalized"
    BY Zenon, <2>2
  <2> QED BY Zenon, <2>2, <2>3, <2>4, <2>5 DEF SetsInStep
<1>7. CASE Persist
  BY Zenon, <1>7 DEF Persist, SetsInStep, Updated, engineVars
<1>8. CASE EngineApply
  <2>1. /\ phase = "idle" /\ height = engine.height + 1 /\ engine.height \in Nat
        /\ disk.height = height /\ UNCHANGED <<phase, committed, height, disk>>
    BY Zenon, <1>8 DEF EngineApply, appVars, IInv, Lifecycle, Typed, Engine
  <2>2. engine'.next = Updated /\ engine'.height = height
    BY Zenon, <1>8 DEF EngineApply, Updated
  <2> QED BY SMTT(30), <2>1, <2>2 DEF SetsInStep
<1>9. CASE Crash
  <2>1. /\ phase' = (IF disk.state = NoState THEN "new" ELSE "idle")
        /\ committed' = disk.state /\ height' = disk.height
        /\ UNCHANGED <<disk, engine, response>>
    BY Zenon, <1>9 DEF Crash, engineVars
  <2> QED BY Zenon, <2>1 DEF SetsInStep, Updated
<1> QED BY Zenon, <1>1, <1>2, <1>3, <1>4, <1>5, <1>6, <1>7, <1>8, <1>9 DEF Next

\* The incremental updates leave CometBFT with the set of the application,
\* for every sequence of blocks, crashes and replays.
THEOREM SetsAgree == Spec => []EngineSetMatchesSnapshot
<1>1. Init => SetsInStep
  BY SMTT(30) DEF Init, SetsInStep
<1>2. IInv /\ IInv' /\ SetsInStep /\ [Next]_vars => SetsInStep'
  BY Zenon, SetsNext
<1>3. IInv /\ SetsInStep => EngineSetMatchesSnapshot
  BY Zenon DEF IInv, SetsInStep, EngineSetMatchesSnapshot
<1> QED BY <1>1, <1>2, <1>3, Inductive, PTL DEF Spec

-----------------------------------------------------------------------------
\* The state the undecided block is executed on, while the state file does
\* not have the block yet.
Base == IF disk.state = NoState THEN GenesisState ELSE disk.state

\* One transaction of a block: the state and the fees after it.
After(x, tx, h) ==
    IF TxOk(x.state, tx, h)
    THEN [state |-> ApplyTransaction(x.state, tx, h), fees |-> x.fees + tx.fee]
    ELSE x

\* run[i] is the state of the loop over req.Txs after i transactions.
Runs(run) ==
    /\ run[0] = [state |-> Base, fees |-> 0]
    /\ \A i \in 1..Len(block.txs) :
          run[i] = After(run[i - 1], block.txs[i], engine.height + 1)

\* FinalizeBlock's response, at the end of the run.
Result(run) ==
    LET x == run[Len(block.txs)]
        t == EndBlock(x.state, x.fees, validatorOperatorForKey(Base, block.proposer),
                      engine.height + 1, engine.last, block.commits, block.misbehavior)
    IN  [updates |-> validatorUpdates(x.state.set, t.set), appHash |-> t]

\* Where FinalizeBlock is in the run, and what it answered if it got to the
\* end before.
Follows(run) ==
    /\ Runs(run)
    /\ phase = "deliver" =>
          /\ exec.next \in 1..Len(block.txs) + 1
          /\ pending = run[exec.next - 1].state /\ exec.fees = run[exec.next - 1].fees
          /\ exec.proposer = validatorOperatorForKey(Base, block.proposer)
    /\ response # NoResponse => response = Result(run)

\* One run explains every execution of the decided block, before and after
\* crashes.
Replayable ==
    /\ response # NoResponse => block # NoBlock /\ block.sealed
    /\ phase = "finalized" => block # NoBlock
    /\ phase \notin {"new", "persist"} => committed = Base
    /\ block # NoBlock /\ disk.height = engine.height => \E run : Follows(run)

\* Nothing of what a run depends on has changed.
LEMMA SameRun ==
    ASSUME NEW run, Follows(run), block' = block, disk' = disk,
           engine'.height = engine.height, engine'.last = engine.last,
           response' = response, phase' # "deliver"
    PROVE  Follows(run)'
<1>1. Base' = Base
  BY Zenon DEF Base
<1>2. Runs(run)'
  BY Zenon, <1>1 DEF Follows, Runs
<1>3. Result(run)' = Result(run)
  BY Zenon, <1>1 DEF Result
<1> QED BY Zenon, <1>2, <1>3 DEF Follows

\* The response at the end of the run.
LEMMA EndsTheRun ==
    ASSUME IInv, EndFinalize, NEW run, Follows(run)
    PROVE  response' = Result(run)
<1>1. phase = "deliver" /\ block \in Block /\ height = engine.height /\ exec.next > Len(block.txs)
  BY Zenon DEF EndFinalize, IInv, Lifecycle, Typed
<1>2. exec.next \in 1..Len(block.txs) + 1 /\ Len(block.txs) \in Nat
  BY SMTT(30), <1>1, BlockFields DEF Follows
<1>3. exec.next - 1 = Len(block.txs)
  BY SMTT(30), <1>1, <1>2
<1>4. /\ pending = run[Len(block.txs)].state /\ exec.fees = run[Len(block.txs)].fees
      /\ exec.proposer = validatorOperatorForKey(Base, block.proposer)
  BY Zenon, <1>1, <1>3 DEF Follows
<1> QED BY Zenon, <1>1, <1>4 DEF EndFinalize, Result

\* No step leaves the run.
LEMMA ReplayNext == IInv /\ IInv' /\ Replayable /\ [Next]_vars => Replayable'
<1> SUFFICES ASSUME IInv, IInv', Replayable, [Next]_vars PROVE Replayable'
  BY Zenon
<1>0. engine \in Engine /\ engine.height \in Nat
  BY Zenon DEF IInv, Typed, Engine
<1>1. CASE InitChain
  <2>1. /\ phase' = "idle" /\ committed' = GenesisState /\ disk.state = NoState
        /\ UNCHANGED <<disk, block, response>>
    BY Zenon, <1>1 DEF InitChain, IInv, Lifecycle
  <2>2. engine'.height = engine.height /\ engine'.last = engine.last
    BY Zenon, <1>0, <1>1 DEF InitChain, Engine
  <2>3. ASSUME block # NoBlock, disk.height = engine.height
        PROVE  \E run : Follows(run)'
    <3>1. PICK run : Follows(run)
      BY Zenon, <2>3 DEF Replayable
    <3>2. Follows(run)'
      BY Zenon, <2>1, <2>2, <3>1, SameRun
    <3> QED BY Zenon, <3>2
  <2> QED BY Zenon, <2>1, <2>2, <2>3 DEF Replayable, Base
<1>2. CASE \/ \E tx \in Txs : CheckTx(tx)
           \/ Bounded \/ UNCHANGED vars
  <2>1. UNCHANGED <<phase, committed, height, pending, exec, disk, engine, block, response>>
    BY Zenon, <1>2 DEF CheckTx, Bounded, vars, engineVars
  <2>2. Base' = Base
    BY Zenon, <2>1 DEF Base
  <2>3. \A run : Follows(run) => Follows(run)'
    BY Zenon, <2>1, <2>2 DEF Follows, Runs, Result
  <2> QED BY Zenon, <2>1, <2>2, <2>3 DEF Replayable
<1>3. CASE \E p \in Keys, c, m \in SUBSET Keys : DecideBlock(p, c, m)
  <2>1. /\ UNCHANGED <<phase, committed, disk, engine, response>>
        /\ block = NoBlock /\ block'.txs = <<>>
    <3>1. /\ UNCHANGED <<phase, committed, disk, engine, response>>
          /\ block = NoBlock
      BY Zenon, <1>3 DEF DecideBlock, appVars
    <3>2. \E p, c, m : block' = [proposer |-> p, commits |-> c, misbehavior |-> m,
                                txs |-> <<>>, sealed |-> FALSE]
      BY Zenon, <1>3 DEF DecideBlock
    <3>3. block'.txs = <<>>
      BY SMTT(30), <3>2
    <3> QED BY Zenon, <3>1, <3>3
  <2>2. response = NoResponse /\ phase \notin {"deliver", "finalized"}
    BY Zenon, <2>1 DEF Replayable, IInv, Lifecycle
  <2>3. Base' = Base
    BY Zenon, <2>1 DEF Base
  <2>4. PICK run : run[0] = [state |-> Base, fees |-> 0]
    <3>1. [i \in {0} |-> [state |-> Base, fees |-> 0]][0] = [state |-> Base, fees |-> 0]
      BY Zenon
    <3> QED BY Zenon, <3>1
  <2>5. Follows(run)'
    <3>1. 1..Len(block'.txs) = {}
      BY SMTT(30), <2>1
    <3>2. Runs(run)'
      BY Zenon, <2>3, <2>4, <3>1 DEF Runs
    <3>3. response' = NoResponse /\ phase' # "deliver"
      BY Zenon, <2>1, <2>2
    <3> QED BY Zenon, <3>2, <3>3 DEF Follows
  <2>6. \E x : Follows(x)'
    BY Zenon, <2>5
  <2> QED BY Zenon, <2>1, <2>2, <2>3, <2>6 DEF Replayable
<1>4. CASE BeginBlock
  <2>1. /\ UNCHANGED <<committed, height, disk, engine, block, response>>
        /\ phase = "idle" /\ phase' = "deliver" /\ block # NoBlock /\ disk.height = engine.height
        /\ pending' = committed /\ exec'.fees = 0 /\ exec'.next = 1
        /\ exec'.proposer = validatorOperatorForKey(committed, block.proposer)
    BY Zenon, <1>4 DEF BeginBlock, engineVars, IInv, Lifecycle
  <2>2. committed = Base /\ Base' = Base
    BY Zenon, <2>1 DEF Replayable, Base
  <2>3. PICK run : Follows(run)
    BY Zenon, <2>1 DEF Replayable
  <2>4. Runs(run)' /\ Result(run)' = Result(run)
    BY Zenon, <2>1, <2>2, <2>3 DEF Follows, Runs, Result
  <2>5. /\ run[0].state = Base /\ run[0].fees = 0
    BY SMTT(30), <2>3 DEF Follows, Runs
  <2>6. 1 \in 1..Len(block.txs) + 1
    BY SMTT(30), <2>1, BlockFields DEF IInv, Typed
  <2>7. Follows(run)'
    <3>1. exec'.next - 1 = 0 /\ exec'.next \in 1..Len(block'.txs) + 1
      BY SMTT(30), <2>1, <2>6
    <3>2. /\ pending' = run[exec'.next - 1].state
          /\ exec'.fees = run[exec'.next - 1].fees
          /\ exec'.proposer = validatorOperatorForKey(Base', block'.proposer)
      BY Zenon, <2>1, <2>2, <2>5, <3>1
    <3>3. response' # NoResponse => response' = Result(run)'
      BY Zenon, <2>1, <2>3, <2>4 DEF Follows
    <3> QED BY Zenon, <2>4, <3>1, <3>2, <3>3 DEF Follows
  <2>8. \E x : Follows(x)'
    BY Zenon, <2>7
  <2> QED BY Zenon, <2>1, <2>2, <2>8 DEF Replayable
<1>5. ASSUME NEW tx \in Txs, DeliverTx(tx)
      PROVE  Replayable'
  <2> DEFINE n == Len(block.txs)
             h == engine.height + 1
  <2>1. /\ UNCHANGED <<phase, committed, height, disk, engine, response>>
        /\ phase = "deliver" /\ block # NoBlock /\ block \in Block
        /\ disk.height = engine.height /\ height = engine.height
        /\ exec.next > n /\ ~block.sealed /\ Execute(tx)
        /\ block' = [block EXCEPT !.txs = Append(block.txs, tx)]
    BY Zenon, <1>5 DEF DeliverTx, Execute, IInv, Lifecycle, Typed
  <2>2. response = NoResponse
    BY Zenon, <2>1 DEF Replayable
  <2>3. Base' = Base
    BY Zenon, <2>1 DEF Base
  <2>4. PICK run : Follows(run)
    BY Zenon, <2>1 DEF Replayable
  <2>5. /\ block.txs \in Seq(Txs) /\ n \in Nat /\ block'.txs = Append(block.txs, tx)
        /\ block'.proposer = block.proposer /\ Len(block'.txs) = n + 1
        /\ block'.txs[n + 1] = tx /\ \A i \in 1..n : block'.txs[i] = block.txs[i]
    <3>1. block.txs \in Seq(Txs) /\ block'.txs = Append(block.txs, tx) /\ block'.proposer = block.proposer
      BY Zenon, <2>1, BlockFields DEF Block
    <3> QED BY SMTT(30), <3>1
  <2>6. exec.next = n + 1
    BY SMTT(30), <2>1, <2>4, <2>5 DEF Follows
  <2> DEFINE last == After(run[n], tx, h)
  <2>7. PICK longer : (\A i \in 0..n : longer[i] = run[i]) /\ longer[n + 1] = last
    <3> DEFINE x == [i \in 0..n + 1 |-> IF i <= n THEN run[i] ELSE last]
    <3>1. (\A i \in 0..n : x[i] = run[i]) /\ x[n + 1] = last
      BY SMTT(30), <2>5
    <3> QED BY Zenon, <3>1
  <2>8. /\ pending' = last.state /\ exec'.fees = last.fees /\ exec'.next = n + 2
        /\ exec'.proposer = exec.proposer
    <3>1. pending = run[n].state /\ exec.fees = run[n].fees
      BY SMTT(30), <2>1, <2>4, <2>5, <2>6 DEF Follows
    <3>2. exec \in Exec
      BY Zenon DEF IInv, Typed
    <3>3. CASE TxOk(pending, tx, h)
      <4>1. /\ pending' = ApplyTransaction(pending, tx, h)
            /\ exec' = [exec EXCEPT !.fees = exec.fees + tx.fee, !.next = exec.next + 1]
        BY Zenon, <2>1, <3>3 DEF Execute
      <4>2. /\ exec'.fees = exec.fees + tx.fee /\ exec'.next = exec.next + 1
            /\ exec'.proposer = exec.proposer
        BY Zenon, <3>2, <4>1 DEF Exec
      <4>3. last = [state |-> ApplyTransaction(run[n].state, tx, h), fees |-> run[n].fees + tx.fee]
        BY Zenon, <3>1, <3>3 DEF After
      <4>4. exec'.next = n + 2
        BY Zenon, <2>5, <2>6, <4>2, NatNext
      <4>5. last.state = ApplyTransaction(run[n].state, tx, h) /\ last.fees = run[n].fees + tx.fee
        <5> HIDE DEF last, n, h
        <5> QED BY Zenon, <4>3
      <4> QED BY Zenon, <3>1, <4>1, <4>2, <4>4, <4>5
    <3>4. CASE ~ TxOk(pending, tx, h)
      <4>1. pending' = pending /\ exec' = [exec EXCEPT !.next = exec.next + 1]
        BY Zenon, <2>1, <3>4 DEF Execute
      <4>2. /\ exec'.fees = exec.fees /\ exec'.next = exec.next + 1
            /\ exec'.proposer = exec.proposer
        BY Zenon, <3>2, <4>1 DEF Exec
      <4>3. last = run[n]
        BY Zenon, <3>1, <3>4 DEF After
      <4>4. exec'.next = n + 2
        BY Zenon, <2>5, <2>6, <4>2, NatNext
      <4> QED BY Zenon, <3>1, <4>1, <4>2, <4>3, <4>4
    <3> QED BY Zenon, <3>3, <3>4
  <2> HIDE DEF last
  <2>9. Runs(longer)'
    <3>1. longer[0] = [state |-> Base, fees |-> 0]
      BY SMTT(30), <2>4, <2>5, <2>7 DEF Follows, Runs
    <3>2. \A i \in 1..n : longer[i] = After(longer[i - 1], block'.txs[i], h)
      <4> TAKE i \in 1..n
      <4>1. i \in 0..n /\ i - 1 \in 0..n
        BY SMTT(30), <2>5
      <4>2. run[i] = After(run[i - 1], block.txs[i], h)
        BY Zenon, <2>4 DEF Follows, Runs
      <4> QED BY Zenon, <2>5, <2>7, <4>1, <4>2
    <3>3. longer[n + 1] = After(longer[n + 1 - 1], block'.txs[n + 1], h)
      BY SMTT(30), <2>5, <2>7 DEF last
    <3>4. \A i \in 1..n + 1 : i \in 1..n \/ i = n + 1
      BY SMTT(30), <2>5
    <3>5. \A i \in 1..n + 1 : longer[i] = After(longer[i - 1], block'.txs[i], h)
      BY SMTT(30), <3>2, <3>3, <3>4
    <3>6. Len(block'.txs) = n + 1 /\ engine'.height + 1 = h
      BY Zenon, <2>1, <2>5
    <3> HIDE DEF h, n
    <3> QED BY Zenon, <2>3, <3>1, <3>5, <3>6 DEF Runs
  <2>10. exec'.next \in 1..Len(block'.txs) + 1 /\ exec'.next - 1 = n + 1
    BY SMTT(30), <2>5, <2>8
  <2>11. exec.proposer = validatorOperatorForKey(Base, block.proposer)
    BY Zenon, <2>1, <2>4 DEF Follows
  <2>12. Follows(longer)'
    BY Zenon, <2>1, <2>2, <2>3, <2>5, <2>7, <2>8, <2>9, <2>10, <2>11 DEF Follows
  <2>13. \E x : Follows(x)'
    BY Zenon, <2>12
  <2> QED BY Zenon, <2>1, <2>2, <2>3, <2>13 DEF Replayable
<1>6. CASE RedeliverTx
  <2> DEFINE n == exec.next
             h == engine.height + 1
             tx == block.txs[n]
  <2>1. /\ UNCHANGED <<phase, committed, height, disk, engine, response, block>>
        /\ phase = "deliver" /\ block # NoBlock /\ block \in Block
        /\ disk.height = engine.height /\ height = engine.height
        /\ n <= Len(block.txs) /\ Execute(tx)
    BY Zenon, <1>6 DEF RedeliverTx, Execute, IInv, Lifecycle, Typed
  <2>2. Base' = Base
    BY Zenon, <2>1 DEF Base
  <2>3. PICK run : Follows(run)
    BY Zenon, <2>1 DEF Replayable
  <2>4. n \in 1..Len(block.txs) /\ Len(block.txs) \in Nat
    BY SMTT(30), <2>1, <2>3, BlockFields DEF Follows
  <2>5. run[n] = After(run[n - 1], tx, h)
    BY Zenon, <2>3, <2>4 DEF Follows, Runs
  <2>6. pending = run[n - 1].state /\ exec.fees = run[n - 1].fees
    BY Zenon, <2>1, <2>3 DEF Follows
  <2>7. /\ pending' = run[n].state /\ exec'.fees = run[n].fees /\ exec'.next = n + 1
        /\ exec'.proposer = exec.proposer
    <3>2. exec \in Exec
      BY Zenon DEF IInv, Typed
    <3>3. CASE TxOk(pending, tx, h)
      <4>1. /\ pending' = ApplyTransaction(pending, tx, h)
            /\ exec' = [exec EXCEPT !.fees = exec.fees + tx.fee, !.next = exec.next + 1]
        BY Zenon, <2>1, <3>3 DEF Execute
      <4>2. /\ exec'.fees = exec.fees + tx.fee /\ exec'.next = exec.next + 1
            /\ exec'.proposer = exec.proposer
        BY Zenon, <3>2, <4>1 DEF Exec
      <4>3. run[n] = [state |-> ApplyTransaction(run[n - 1].state, tx, h),
                      fees |-> run[n - 1].fees + tx.fee]
        BY Zenon, <2>5, <2>6, <3>3 DEF After
      <4> QED BY SMTT(30), <2>6, <4>1, <4>2, <4>3
    <3>4. CASE ~ TxOk(pending, tx, h)
      <4>1. pending' = pending /\ exec' = [exec EXCEPT !.next = exec.next + 1]
        BY Zenon, <2>1, <3>4 DEF Execute
      <4>2. /\ exec'.fees = exec.fees /\ exec'.next = exec.next + 1
            /\ exec'.proposer = exec.proposer
        BY Zenon, <3>2, <4>1 DEF Exec
      <4>3. run[n] = run[n - 1]
        BY Zenon, <2>5, <2>6, <3>4 DEF After
      <4> QED BY Zenon, <2>6, <4>1, <4>2, <4>3
    <3> QED BY Zenon, <3>3, <3>4
  <2>8. exec'.next \in 1..Len(block.txs) + 1 /\ exec'.next - 1 = n
    BY SMTT(30), <2>4, <2>7
  <2> HIDE DEF n, tx, h
  <2>9. Runs(run)' /\ Result(run)' = Result(run)
    BY Zenon, <2>1, <2>2, <2>3 DEF Follows, Runs, Result
  <2>10. Follows(run)'
    BY Zenon, <2>1, <2>2, <2>3, <2>7, <2>8, <2>9 DEF Follows
  <2>11. \E x : Follows(x)'
    BY Zenon, <2>10
  <2> QED BY Zenon, <2>1, <2>2, <2>11 DEF Replayable
<1>7. CASE EndFinalize
  <2>1. /\ UNCHANGED <<committed, height, disk, engine>>
        /\ phase' = "finalized" /\ block # NoBlock /\ block \in Block
        /\ disk.height = engine.height /\ height = engine.height
        /\ block' = [block EXCEPT !.sealed = TRUE]
        /\ phase = "deliver" /\ exec.next > Len(block.txs)
    BY Zenon, <1>7 DEF EndFinalize, IInv, Lifecycle, Typed
  <2>2. Base' = Base
    BY Zenon, <2>1 DEF Base
  <2>3. /\ block'.txs = block.txs /\ block'.proposer = block.proposer /\ block'.sealed
        /\ block'.commits = block.commits /\ block'.misbehavior = block.misbehavior
        /\ block' \in Block
    BY Zenon, <2>1 DEF Block
  <2>4. PICK run : Follows(run)
    BY Zenon, <2>1 DEF Replayable
  <2>5. response' = Result(run)
    BY Zenon, <1>7, <2>1, <2>4, EndsTheRun
  <2>6. Result(run)' = Result(run) /\ Runs(run)'
    BY Zenon, <2>1, <2>2, <2>3, <2>4 DEF Result, Follows, Runs
  <2>7. Follows(run)'
    BY Zenon, <2>1, <2>5, <2>6 DEF Follows
  <2>8. \E x : Follows(x)'
    BY Zenon, <2>7
  <2>9. block' # NoBlock
    BY Zenon, <2>3, NilAssumption
  <2>10. committed = Base
    BY Zenon, <2>1 DEF Replayable
  <2> QED BY Zenon, <2>1, <2>2, <2>3, <2>8, <2>9, <2>10 DEF Replayable
<1>8. CASE Commit
  <2>1. /\ UNCHANGED <<disk, engine, block, response>> /\ phase' = "persist"
    BY Zenon, <1>8 DEF Commit, engineVars
  <2>2. ASSUME block # NoBlock, disk.height = engine.height
        PROVE  \E run : Follows(run)'
    <3>1. PICK run : Follows(run)
      BY Zenon, <2>2 DEF Replayable
    <3>2. Follows(run)'
      BY Zenon, <2>1, <3>1, SameRun
    <3> QED BY <3>2
  <2> QED BY Zenon, <2>1, <2>2 DEF Replayable
<1>9. CASE Persist
  <2>1. disk'.height # engine.height /\ UNCHANGED <<engine, block, response>> /\ phase' = "idle"
    BY SMTT(30), <1>9 DEF Persist, engineVars, IInv, Lifecycle, Typed, Engine
  <2>2. committed' = Base'
    BY Zenon, <1>9 DEF Persist, IInv, Lifecycle, Base
  <2> QED BY Zenon, <2>1, <2>2 DEF Replayable
<1>10. CASE EngineApply
  <2>1. /\ block' = NoBlock /\ response' = NoResponse /\ phase' = "idle"
        /\ disk'.state # NoState /\ committed' = disk'.state
    <3>1. /\ phase = "idle" /\ UNCHANGED <<phase, committed, height, disk>>
          /\ block' = NoBlock /\ response' = NoResponse /\ height = engine.height + 1
      BY Zenon, <1>10 DEF EngineApply, appVars
    <3>2. disk.height = engine.height + 1 /\ disk.state # NoState
      BY SMTT(30), <1>0, <3>1 DEF IInv, Lifecycle
    <3>3. committed = disk.state
      BY Zenon, <3>1, <3>2 DEF Replayable, Base
    <3> QED BY Zenon, <3>1, <3>2, <3>3
  <2> QED BY Zenon, <2>1 DEF Replayable, Base
<1>11. CASE Crash
  <2>1. /\ phase' = (IF disk.state = NoState THEN "new" ELSE "idle")
        /\ committed' = disk.state /\ UNCHANGED <<disk, engine, block, response>>
    BY Zenon, <1>11 DEF Crash, engineVars
  <2>2. ASSUME block # NoBlock, disk.height = engine.height
        PROVE  \E run : Follows(run)'
    <3>1. PICK run : Follows(run)
      BY SMTT(30), <2>2 DEF Replayable
    <3>2. phase' # "deliver"
      BY Zenon, <2>1
    <3>3. Follows(run)'
      BY Zenon, <2>1, <3>1, <3>2, SameRun
    <3> QED BY SMTT(30), <3>3
  <2> QED BY Zenon, <2>1, <2>2 DEF Replayable, Base
<1> QED BY Zenon, <1>1, <1>2, <1>3, <1>4, <1>5, <1>6, <1>7, <1>8, <1>9, <1>10, <1>11 DEF Next

\* A block that is executed again after a crash gives the same response as
\* the first time, wherever the crash came and however often.
THEOREM ReplayDeterministic == Spec => ReplayGivesSameResult
<1>1. Init => Replayable
  BY Zenon DEF Init, Replayable
<1>2. IInv /\ IInv' /\ Replayable /\ [Next]_vars => Replayable'
  BY Zenon, ReplayNext
<1>3. IInv /\ Replayable /\ [Next]_vars =>
        [response # NoResponse /\ response' # NoResponse => response' = response]_vars
  <2> SUFFICES ASSUME IInv, Replayable, [Next]_vars,
                      response # NoResponse, response' # NoResponse
               PROVE  response' = response
    BY Zenon
  <2>1. response' = response \/ EndFinalize
    <3>1. CASE InitChain \/ (\E tx \in Txs : CheckTx(tx)) \/ BeginBlock \/ Commit \/ Persist
               \/ Crash \/ Bounded \/ UNCHANGED vars
      BY Zenon, <3>1 DEF InitChain, CheckTx, BeginBlock, Commit, Persist, Crash, Bounded,
         vars, engineVars
    <3>2. CASE (\E p \in Keys, c, m \in SUBSET Keys : DecideBlock(p, c, m))
               \/ (\E tx \in Txs : DeliverTx(tx)) \/ RedeliverTx
      BY Zenon, <3>2 DEF DecideBlock, DeliverTx, RedeliverTx, Execute
    <3>3. CASE EngineApply
      BY Zenon, <3>3 DEF EngineApply
    <3> QED BY Zenon, <3>1, <3>2, <3>3 DEF Next
  <2>2. CASE EndFinalize
    <3>1. block # NoBlock /\ disk.height = engine.height
      BY Zenon, <2>2 DEF EndFinalize, IInv, Lifecycle
    <3>2. PICK run : Follows(run)
      BY Zenon, <3>1 DEF Replayable
    <3> QED BY Zenon, <2>2, <3>2, EndsTheRun DEF Follows
  <2> QED BY Zenon, <2>1, <2>2
<1> QED BY <1>1, <1>2, <1>3, Inductive, PTL DEF Spec, ReplayGivesSameResult

-----------------------------------------------------------------------------
(***************************************************************************)
(* Who votes can be slashed.  A validator of the set in force may unbond   *)
(* everything and leave the set only at the next refresh; until then an    *)
(* entry of its record must stay locked.  That rests on the parameters:    *)
(* the unbonding period has to reach the next epoch boundary.              *)
(***************************************************************************)
\* An entry that matures at block "at" is locked until the first epoch
\* boundary after block h.
LockedToEpoch(at, h) == \E q \in (h + 1)..at : q % EpochBlocks = 0

\* The record can be slashed until that boundary.
Answers(rec, h) ==
    /\ ~rec.tombstoned
    /\ \/ rec.bond > 0
       \/ \E i \in 1..Len(rec.unbonding) : LockedToEpoch(rec.unbonding[i].at, h)

\* Every member of the set has such a record once block h is done.
Answerable(s, h) ==
    s.kept \/ \A k \in Members(s.set) :
                 \E a \in Accounts : s.vals[a].key = k /\ Answers(s.vals[a], h)

\* The inductive invariant: during a block that ends an epoch nothing is
\* said of the clone, because the refresh is going to replace its set.
AnswerableCopies ==
    /\ committed # NoState => Answerable(committed, height)
    /\ disk.state # NoState => Answerable(disk.state, disk.height)
    /\ phase = "deliver" /\ (height + 1) % EpochBlocks # 0 => Answerable(pending, height)
    /\ phase = "finalized" => Answerable(pending, height + 1)


\* Of any e consecutive numbers one is a multiple of e.
LEMMA MultipleAmong ==
    ASSUME NEW h \in Nat, NEW e \in Nat, e > 0
    PROVE  \E q \in (h + 1)..(h + e) : q % e = 0
<1> DEFINE d == h \div e
           r == h % e
<1>1. r \in 0..e-1
  BY SMTT(30)
<1>2. h = e * d + r /\ d \in Nat
  BY SMTT(30)
<1> HIDE DEF d, r
<1>3. e * (d + 1) = e * d + e /\ e * d \in Nat
  BY SMTT(30), <1>2
<1>4. ASSUME NEW n \in Nat PROVE (e * n) % e = 0
  BY SMTT(30)
<1>5. (e * (d + 1)) % e = 0
  BY SMTT(30), <1>2, <1>4
<1>6. e * (d + 1) \in (h + 1)..(h + e)
  BY SMTT(30), <1>1, <1>2, <1>3
<1> QED BY Zenon, <1>5, <1>6

\* A record that can be slashed is not deleted.
LEMMA AnswersStored ==
    ASSUME NEW rec \in ValidatorRecord, NEW h, Answers(rec, h)
    PROVE  StoredRecord(rec) = rec
<1>1. CASE rec.bond > 0
  BY SMTT(30), <1>1, RecordFields DEF StoredRecord
<1>2. CASE \E i \in 1..Len(rec.unbonding) : LockedToEpoch(rec.unbonding[i].at, h)
  <2>1. rec.unbonding # <<>>
    BY SMTT(30), <1>2
  <2> QED BY Zenon, <2>1 DEF StoredRecord
<1> QED BY Zenon, <1>1, <1>2 DEF Answers

\* The block after h does not end an epoch: what was locked to the next
\* boundary before it still is after it, and has not matured in it.
LEMMA LockLasts ==
    ASSUME NEW h \in Nat, NEW at \in Nat, (h + 1) % EpochBlocks # 0, LockedToEpoch(at, h)
    PROVE  LockedToEpoch(at, h + 1) /\ at > h + 1
<1>1. PICK q \in (h + 1)..at : q % EpochBlocks = 0
  BY Zenon DEF LockedToEpoch
<1>2. q # h + 1
  BY Zenon, <1>1
<1>3. q \in (h + 1 + 1)..at
  BY SMTT(30), <1>1, <1>2
<1> QED BY SMTT(30), <1>1, <1>3 DEF LockedToEpoch

\* The same for a record and for a whole state.
LEMMA AnswersLasts ==
    ASSUME NEW rec \in ValidatorRecord, NEW h \in Nat, (h + 1) % EpochBlocks # 0,
           Answers(rec, h)
    PROVE  Answers(rec, h + 1)
<1>1. CASE rec.bond > 0
  BY Zenon, <1>1 DEF Answers
<1>2. CASE \E i \in 1..Len(rec.unbonding) : LockedToEpoch(rec.unbonding[i].at, h)
  <2>1. PICK i \in 1..Len(rec.unbonding) : LockedToEpoch(rec.unbonding[i].at, h)
    BY Zenon, <1>2
  <2>2. rec.unbonding[i].at \in Nat
    BY Zenon, RecordFields, EntryFields
  <2>3. LockedToEpoch(rec.unbonding[i].at, h + 1)
    BY Zenon, <2>1, <2>2, LockLasts
  <2> QED BY Zenon, <2>3 DEF Answers
<1> QED BY Zenon, <1>1, <1>2 DEF Answers


\* Unbonding leaves an entry that reaches the next boundary.
LEMMA UnbondLocks ==
    ASSUME EpochBlocks <= UnbondingBlocks + 1, NEW h \in Nat
    PROVE  LockedToEpoch(h + 1 + UnbondingBlocks, h)
<1>1. EpochBlocks \in Nat /\ EpochBlocks > 0 /\ UnbondingBlocks \in Nat
  BY SMTT(30), StakingAssumption, UnbondingAssumption
<1>2. PICK q \in (h + 1)..(h + EpochBlocks) : q % EpochBlocks = 0
  BY Zenon, <1>1, MultipleAmong
<1>3. q \in (h + 1)..(h + 1 + UnbondingBlocks)
  BY SMTT(30), <1>1, <1>2
<1> QED BY Zenon, <1>2, <1>3 DEF LockedToEpoch



\* A bond, an unbonding and a withdrawal leave a record that can be slashed
\* one that can be slashed, with its key.
LEMMA SenderAnswers ==
    ASSUME EpochBlocks <= UnbondingBlocks + 1,
           NEW s \in State, NEW tx \in Tx, NEW h \in Nat, (h + 1) % EpochBlocks # 0,
           TxOk(s, tx, h + 1), tx.kind # "transfer",
           Registered(s, tx.from), Answers(s.vals[tx.from], h)
    PROVE  \E rec \in ValidatorRecord :
              /\ rec.key = s.vals[tx.from].key /\ Answers(rec, h)
              /\ ApplyTransaction(s, tx, h + 1).vals = [s.vals EXCEPT ![tx.from] = rec]
<1> DEFINE a == tx.from
           old == s.vals[a]
           t == ApplyTransaction(s, tx, h + 1)
           H == h + 1
<1>1. a \in Accounts /\ old \in ValidatorRecord /\ tx.amount \in Nat /\ tx.amount > 0
  <2>1. a \in Accounts /\ tx.amount \in Nat \ {0}
    BY Zenon DEF Tx
  <2>2. old \in ValidatorRecord
    BY Zenon, <2>1, StateFields
  <2>3. tx.amount > 0
    BY Zenon, <2>1, NatPositive
  <2> QED BY Zenon, <2>1, <2>2, <2>3, NatPositive
<1>2. /\ old.key \in Keys \cup {NoKey} /\ old.bond \in Nat
      /\ old.unbonding \in Seq(UnbondingEntry) /\ old.tombstoned \in BOOLEAN
  BY Zenon, <1>1, RecordFields
<1>3. H \in Nat
  BY SMTT(30)
<1>4. CASE tx.kind = "bond"
  <2> DEFINE new == [old EXCEPT !.bond = old.bond + tx.amount]
  <2>1. t = Bond(s, tx)
    BY Zenon, <1>4 DEF ApplyTransaction
  <2>2. new \in ValidatorRecord /\ new.key = old.key /\ Answers(new, h)
    <3>1. /\ new \in ValidatorRecord /\ new.key = old.key /\ new.tombstoned = old.tombstoned
          /\ new.bond = old.bond + tx.amount
      <4> HIDE DEF old
      <4>1. old.bond + tx.amount \in Nat
        BY Zenon, <1>1, <1>2, NatSum
      <4> QED BY Zenon, <1>1, <4>1 DEF ValidatorRecord
    <3>2. new.bond > 0
      BY Zenon, <1>1, <1>2, <3>1, NatSum
    <3> HIDE DEF new
    <3> QED BY Zenon, <3>1, <3>2 DEF Answers
  <2>3. StoredRecord(new) = new
    BY Zenon, <2>2, AnswersStored
  <2>4. [old EXCEPT !.key = old.key, !.bond = old.bond + tx.amount] = new
    BY Zenon, <1>1 DEF ValidatorRecord
  <2>5. Rewrites(s, t, a, s.bal[a] - (tx.amount + tx.fee), s.nonce[a] + 1, StoredRecord(new))
    BY Zenon, <2>1, <2>4 DEF Rewrites, Bond
  <2>6. t.vals = [s.vals EXCEPT ![a] = new]
    BY SMTT(30), <1>1, <2>3, <2>5, RewritesVals
  <2> QED BY Zenon, <2>2, <2>6
<1>5. CASE tx.kind = "unbond"
  <2> DEFINE entry == [amount |-> tx.amount, at |-> H + UnbondingBlocks]
             list == Append(old.unbonding, entry)
             new == [old EXCEPT !.bond = old.bond - tx.amount, !.unbonding = list]
  <2>1. t = Unbond(s, tx, H) /\ UnbondOk(s, tx)
    BY Zenon, <1>5 DEF ApplyTransaction, TxOk
  <2>2. entry \in UnbondingEntry /\ entry.at = H + UnbondingBlocks
    <3>1. H + UnbondingBlocks \in Nat
      BY Zenon, <1>3, UnbondingAssumption, NatSum
    <3> QED BY Zenon, <1>1, <3>1 DEF UnbondingEntry
  <2>3. Rewrites(s, t, a, s.bal[a] - tx.fee, s.nonce[a] + 1, StoredRecord(new))
    BY Zenon, <2>1 DEF Rewrites, Unbond
  <2>4. old.bond - tx.amount \in Nat
    BY Zenon, <1>1, <1>2, <2>1, NatLess DEF UnbondOk
  <2>5. /\ list \in Seq(UnbondingEntry) /\ Len(list) = Len(old.unbonding) + 1
        /\ list[Len(list)] = entry /\ Len(list) \in 1..Len(list)
    <3> HIDE DEF entry, old
    <3>1. PICK w : w = list
      BY Zenon
    <3>2. w = Append(old.unbonding, entry)
      BY Zenon, <3>1
    <3> HIDE DEF list
    <3>3. /\ w \in Seq(UnbondingEntry) /\ Len(w) = Len(old.unbonding) + 1
          /\ w[Len(w)] = entry /\ Len(w) \in 1..Len(w)
      BY Zenon, <1>2, <2>2, <3>2, AppendedLast
    <3> QED BY Zenon, <3>1, <3>3
  <2> HIDE DEF entry, list
  <2>6. /\ new \in ValidatorRecord /\ new.key = old.key
        /\ new.tombstoned = old.tombstoned /\ new.unbonding = list
    <3> HIDE DEF old
    <3> QED BY Zenon, <1>1, <2>4, <2>5 DEF ValidatorRecord
  <2>7. Answers(new, h)
    <3> HIDE DEF new
    <3>1. LockedToEpoch(list[Len(list)].at, h)
      BY Zenon, <2>2, <2>5, UnbondLocks
    <3> QED BY Zenon, <2>5, <2>6, <3>1 DEF Answers
  <2>8. StoredRecord(new) = new
    BY Zenon, <2>6, <2>7, AnswersStored
  <2>9. t.vals = [s.vals EXCEPT ![a] = new]
    BY SMTT(30), <1>1, <2>3, <2>8, RewritesVals
  <2> QED BY Zenon, <2>6, <2>7, <2>9
<1>6. CASE tx.kind = "withdraw"
  <2> DEFINE rest == StillPending(old.unbonding, H)
             new == [old EXCEPT !.unbonding = rest]
             b == s.bal[a] + Matured(old.unbonding, H) - tx.fee
  <2>1. t = Withdraw(s, tx, H)
    BY Zenon, <1>6 DEF ApplyTransaction
  <2>2. Rewrites(s, t, a, b, s.nonce[a] + 1, StoredRecord(new))
    BY Zenon, <2>1 DEF Rewrites, Withdraw
  <2>3. rest \in Seq(UnbondingEntry)
    BY Zenon, <1>2, <1>3, WithdrawSplits
  <2> HIDE DEF rest
  <2>4. /\ new \in ValidatorRecord /\ new.key = old.key /\ new.bond = old.bond
        /\ new.tombstoned = old.tombstoned /\ new.unbonding = rest
    <3> HIDE DEF old
    <3> QED BY Zenon, <1>1, <2>3 DEF ValidatorRecord
  <2>5. Answers(new, h)
    <3> HIDE DEF new
    <3>1. CASE old.bond > 0
      BY Zenon, <2>4, <3>1 DEF Answers
    <3>2. CASE \E i \in 1..Len(old.unbonding) : LockedToEpoch(old.unbonding[i].at, h)
      <4>1. PICK i \in 1..Len(old.unbonding) : LockedToEpoch(old.unbonding[i].at, h)
        BY Zenon, <3>2
      <4>2. old.unbonding[i].at > H
        BY Zenon, <1>2, <4>1, EntryFields, LockLasts
      <4>3. PICK k \in 1..Len(rest) : rest[k] = old.unbonding[i]
        BY Zenon, <1>2, <1>3, <4>2, ImmatureStays DEF rest
      <4> QED BY Zenon, <2>4, <4>1, <4>3 DEF Answers
    <3> QED BY Zenon, <3>1, <3>2 DEF Answers
  <2>6. StoredRecord(new) = new
    BY Zenon, <2>4, <2>5, AnswersStored
  <2>7. t.vals = [s.vals EXCEPT ![a] = new]
    BY SMTT(30), <1>1, <2>2, <2>6, RewritesVals
  <2> QED BY Zenon, <2>4, <2>5, <2>7
<1>7. tx.kind \in {"transfer", "bond", "unbond", "withdraw"}
  BY Zenon DEF Tx
<1> QED BY Zenon, <1>4, <1>5, <1>6, <1>7


\* A transaction touches no record but its sender's, and nothing of what the
\* last refresh left.
LEMMA OthersUntouched ==
    ASSUME NEW s \in State, NEW tx \in Tx, NEW h
    PROVE  /\ ApplyTransaction(s, tx, h).kept = s.kept
           /\ \A b \in Accounts : b # tx.from \/ tx.kind = "transfer" =>
                 ApplyTransaction(s, tx, h).vals[b] = s.vals[b]
<1>1. tx.kind \in {"transfer", "bond", "unbond", "withdraw"}
  BY Zenon DEF Tx
<1>2. Transfer(s, tx).kept = s.kept /\ Transfer(s, tx).vals = s.vals
  BY Zenon DEF Transfer, State
<1>3. Bond(s, tx).kept = s.kept /\ \A b \in Accounts : b # tx.from => Bond(s, tx).vals[b] = s.vals[b]
  BY Zenon DEF Bond, State
<1>4. /\ Unbond(s, tx, h).kept = s.kept
      /\ \A b \in Accounts : b # tx.from => Unbond(s, tx, h).vals[b] = s.vals[b]
  BY Zenon DEF Unbond, State
<1>5. /\ Withdraw(s, tx, h).kept = s.kept
      /\ \A b \in Accounts : b # tx.from => Withdraw(s, tx, h).vals[b] = s.vals[b]
  BY Zenon DEF Withdraw, State
<1>6. CASE tx.kind = "transfer"
  BY Zenon, <1>2, <1>6 DEF ApplyTransaction
<1>7. CASE tx.kind = "bond"
  BY Zenon, <1>3, <1>7 DEF ApplyTransaction
<1>8. CASE tx.kind = "unbond"
  BY Zenon, <1>4, <1>8 DEF ApplyTransaction
<1>9. CASE tx.kind = "withdraw"
  BY Zenon, <1>5, <1>9 DEF ApplyTransaction
<1> QED BY Zenon, <1>1, <1>6, <1>7, <1>8, <1>9

\* No transaction of a block that ends no epoch lets a member of the set out
\* of reach.
LEMMA TransactionAnswers ==
    ASSUME EpochBlocks <= UnbondingBlocks + 1,
           NEW s \in State, NEW tx \in Tx, NEW h \in Nat, (h + 1) % EpochBlocks # 0,
           TxOk(s, tx, h + 1), Answerable(s, h)
    PROVE  Answerable(ApplyTransaction(s, tx, h + 1), h)
<1> DEFINE t == ApplyTransaction(s, tx, h + 1)
<1>1. /\ t.kept = s.kept /\ t.set = s.set
      /\ \A b \in Accounts : b # tx.from \/ tx.kind = "transfer" => t.vals[b] = s.vals[b]
  BY Zenon, OthersUntouched, TransactionKeepsSet
<1>2. ASSUME NEW a \in Accounts, Registered(s, a), Answers(s.vals[a], h)
      PROVE  t.vals[a].key = s.vals[a].key /\ Answers(t.vals[a], h)
  <2>1. CASE a = tx.from /\ tx.kind # "transfer"
    <3>1. PICK rec \in ValidatorRecord :
             /\ rec.key = s.vals[a].key /\ Answers(rec, h)
             /\ t.vals = [s.vals EXCEPT ![a] = rec]
      <4>1. Registered(s, tx.from) /\ Answers(s.vals[tx.from], h)
        BY Zenon, <1>2, <2>1
      <4>2. \E rec \in ValidatorRecord :
               /\ rec.key = s.vals[tx.from].key /\ Answers(rec, h)
               /\ t.vals = [s.vals EXCEPT ![tx.from] = rec]
        BY ZenonT(40), <2>1, <4>1, SenderAnswers
      <4> QED BY Zenon, <2>1, <4>2
    <3> HIDE DEF t
    <3>2. t.vals[a] = rec
      BY Zenon, <1>2, <3>1, StateFields
    <3> QED BY Zenon, <3>1, <3>2
  <2>2. CASE ~(a = tx.from /\ tx.kind # "transfer")
    <3> HIDE DEF t
    <3>1. t.vals[a] = s.vals[a]
      BY Zenon, <1>1, <1>2, <2>2
    <3> QED BY Zenon, <1>2, <3>1
  <2> QED BY Zenon, <2>1, <2>2
<1> HIDE DEF t
<1>3. ASSUME NEW k \in Members(t.set), ~t.kept
      PROVE  \E a \in Accounts : t.vals[a].key = k /\ Answers(t.vals[a], h)
  <2>1. k \in Members(s.set) /\ ~s.kept
    BY Zenon, <1>1, <1>3
  <2>2. PICK a \in Accounts : s.vals[a].key = k /\ Answers(s.vals[a], h)
    BY Zenon, <2>1 DEF Answerable
  <2>3. Registered(s, a)
    BY Zenon, <2>1, <2>2, KeysDisjoint DEF Registered, Members
  <2> QED BY Zenon, <1>2, <2>2, <2>3
<1>4. Answerable(t, h)
  BY Zenon, <1>3 DEF Answerable
<1> QED BY Zenon, <1>4 DEF t

\* The members of a set that was just computed hold a self-bond.
LEMMA RefreshAnswers ==
    ASSUME NEW s \in State, NEW h,
           NEW t, t.vals = s.vals, t.set = ActiveValidatorSet(s)
    PROVE  Answerable(t, h)
<1>1. ASSUME NEW k \in Members(t.set)
      PROVE  \E a \in Accounts : t.vals[a].key = k /\ Answers(t.vals[a], h)
  <2> DEFINE a == validatorOperatorForKey(s, k)
  <2>1. k \in Keys /\ ActiveValidatorSet(s)[k] > 0
    BY Zenon, <1>1 DEF Members
  <2>2. a \in Accounts \cup {NoOperator} /\ (a # NoOperator => s.vals[a].key = k)
    BY Zenon, OperatorForKey
  <2>3. ActiveValidatorSet(s)[k] = IF a # NoOperator /\ InActiveSet(s, a) THEN s.vals[a].bond ELSE 0
    BY Zenon, <2>1 DEF ActiveValidatorSet
  <2> HIDE DEF a
  <2>4. a # NoOperator /\ InActiveSet(s, a)
    <3>1. ~(0 > 0)
      OBVIOUS
    <3> QED BY Zenon, <2>1, <2>3, <3>1
  <2>5. a \in Accounts /\ s.vals[a].bond \in Nat
    BY Zenon, <2>2, <2>4, StateFields, RecordFields
  <2>6. s.vals[a].bond > 0 /\ ~s.vals[a].tombstoned
    BY SMTT(30), <2>4, <2>5, StakingAssumption DEF InActiveSet, Eligible
  <2> QED BY Zenon, <2>2, <2>4, <2>5, <2>6 DEF Answers
<1> QED BY Zenon, <1>1 DEF Answerable


\* t differs from s in balances and counters only.
SameStaking(s, t) == t.vals = s.vals /\ t.set = s.set /\ t.kept = s.kept

\* Ending a block keeps every member of the set within reach: it refreshes
\* the set, or slashes nobody and ends no epoch.
LEMMA EndBlockAnswers ==
    ASSUME NEW s \in State, NEW fees \in Nat, NEW proposer \in Accounts \cup {NoOperator},
           NEW h \in Nat, NEW votes \in [Keys -> Nat], NEW commits \in SUBSET Keys,
           NEW misbehavior,
           (h + 1) % EpochBlocks # 0 => Answerable(s, h)
    PROVE  Answerable(EndBlock(s, fees, proposer, h + 1, votes, commits, misbehavior), h + 1)
<1> DEFINE H == h + 1
           a == ApplyBlockFees(s, fees, proposer, H)
           b == IF H >= ActivationHeight THEN RecordFeeEpochVotes(a, votes, commits) ELSE a
           c == IF IsFeeEpochEnd(H) THEN DistributeFeeEpochPayout(b) ELSE b
           any == \E x \in Accounts : Slashable(c, x, misbehavior)
           d == SlashForDoubleSign(c, misbehavior)
           e == IF any \/ H % EpochBlocks = 0 THEN RefreshValidatorSet(d) ELSE d
<1>1. EndBlock(s, fees, proposer, H, votes, commits, misbehavior) = e
  BY Zenon DEF EndBlock
<1>2. H \in Nat
  BY SMTT(30)
<1>3. a \in State /\ SameStaking(s, a)
  <2>1. a \in State
    BY Zenon, <1>2, FeesSafe
  <2>2. CASE H < ActivationHeight
    <3>1. a = CreditProposerFees(s, fees, proposer)
      BY Zenon, <2>2 DEF ApplyBlockFees
    <3>2. SameStaking(s, CreditProposerFees(s, fees, proposer))
      BY Zenon DEF CreditProposerFees, SameStaking, State
    <3> QED BY Zenon, <2>1, <3>1, <3>2
  <2>3. CASE ~(H < ActivationHeight)
    <3>1. SameStaking(s, a)
      BY Zenon, <2>3 DEF ApplyBlockFees, SameStaking, State
    <3> QED BY Zenon, <2>1, <3>1
  <2> QED BY Zenon, <2>2, <2>3
<1> HIDE DEF a
<1>4. b \in State /\ SameStaking(a, b)
  <2>1. RecordFeeEpochVotes(a, votes, commits) \in State
    BY Zenon, <1>3, VotesSafe
  <2>2. SameStaking(a, RecordFeeEpochVotes(a, votes, commits))
    BY Zenon, <1>3 DEF RecordFeeEpochVotes, SameStaking, State
  <2> QED BY Zenon, <1>3, <2>1, <2>2 DEF SameStaking
<1> HIDE DEF b
<1>5. c \in State /\ SameStaking(b, c)
  <2>1. /\ DistributeFeeEpochPayout(b) \in State
        /\ SameStaking(b, DistributeFeeEpochPayout(b))
    BY ZenonT(40), <1>4, PayoutSafe DEF DistributeFeeEpochPayout, SameStaking, State
  <2> QED BY Zenon, <1>4, <2>1 DEF SameStaking
<1> HIDE DEF c
<1>6. d \in State /\ d.set = c.set /\ d.kept = c.kept
  BY Zenon, <1>5, SlashSafe DEF SlashForDoubleSign, State
<1>7. ~any => d.vals = c.vals
  <2>1. d.vals = [x \in Accounts |-> IF Slashable(c, x, misbehavior)
                                     THEN slashAndTombstone(c.vals[x]) ELSE c.vals[x]]
    BY Zenon, <1>5 DEF SlashForDoubleSign, State
  <2>2. c.vals \in [Accounts -> ValidatorRecord]
    BY Zenon, <1>5, StateFields
  <2> HIDE DEF d
  <2> SUFFICES ASSUME ~any PROVE d.vals = c.vals
    BY Zenon
  <2>3. \A x \in Accounts : d.vals[x] = c.vals[x]
    BY Zenon, <2>1
  <2> QED BY Zenon, <2>1, <2>2, <2>3
<1> HIDE DEF d, any
<1>8. CASE any \/ H % EpochBlocks = 0
  <2>1. e = RefreshValidatorSet(d)
    BY Zenon, <1>8
  <2>2. CASE ActiveValidatorSet(d) = EmptySet
    <3>1. e.kept
      BY Zenon, <1>6, <2>1, <2>2 DEF RefreshValidatorSet, State
    <3> QED BY Zenon, <1>1, <3>1 DEF Answerable
  <2>3. CASE ActiveValidatorSet(d) # EmptySet
    <3>1. e = [d EXCEPT !.set = ActiveValidatorSet(d), !.kept = FALSE]
      BY Zenon, <2>1, <2>3 DEF RefreshValidatorSet
    <3> HIDE DEF e
    <3>2. e.vals = d.vals /\ e.set = ActiveValidatorSet(d)
      BY Zenon, <1>6, <3>1 DEF State
    <3> QED BY Zenon, <1>1, <1>6, <3>2, RefreshAnswers
  <2> QED BY Zenon, <2>2, <2>3
<1>9. CASE ~(any \/ H % EpochBlocks = 0)
  <2>1. e.vals = s.vals /\ e.set = s.set /\ e.kept = s.kept
    BY Zenon, <1>3, <1>4, <1>5, <1>6, <1>7, <1>9 DEF SameStaking
  <2> HIDE DEF e
  <2>2. Answerable(s, h) /\ H % EpochBlocks # 0
    BY Zenon, <1>9
  <2>3. ASSUME NEW k \in Members(e.set), ~e.kept
        PROVE  \E x \in Accounts : e.vals[x].key = k /\ Answers(e.vals[x], H)
    <3>1. PICK x \in Accounts : s.vals[x].key = k /\ Answers(s.vals[x], h)
      BY Zenon, <2>1, <2>2, <2>3 DEF Answerable
    <3>2. s.vals[x] \in ValidatorRecord
      BY Zenon, StateFields
    <3>3. Answers(s.vals[x], H)
      BY Zenon, <2>2, <3>1, <3>2, AnswersLasts
    <3> QED BY Zenon, <2>1, <3>1, <3>3
  <2> QED BY Zenon, <1>1, <2>3 DEF Answerable
<1> QED BY Zenon, <1>8, <1>9


\* Every step keeps the copies of the state answerable.
LEMMA AnswerableNext ==
    ASSUME EpochBlocks <= UnbondingBlocks + 1
    PROVE  IInv /\ IInv' /\ AnswerableCopies /\ [Next]_vars => AnswerableCopies'
<1> SUFFICES ASSUME IInv, IInv', AnswerableCopies, [Next]_vars PROVE AnswerableCopies'
  BY Zenon
<1>1. CASE InitChain
  <2>1. Answerable(GenesisState, 0)
    <3>1. BondedGenesis \in State
      BY Zenon, GenesisSound
    <3>2. GenesisState.vals = BondedGenesis.vals /\ GenesisState.set = ActiveValidatorSet(BondedGenesis)
      BY Zenon, <3>1 DEF GenesisState, State
    <3> QED BY Zenon, <3>1, <3>2, RefreshAnswers
  <2>2. disk.state = NoState /\ disk' = disk /\ phase' = "idle"
    BY Zenon, <1>1 DEF InitChain, IInv, Lifecycle
  <2> QED BY Zenon, <1>1, <2>1, <2>2 DEF InitChain, AnswerableCopies
<1>2. CASE (\E tx \in Txs : CheckTx(tx))
           \/ (\E p \in Keys, c, m \in SUBSET Keys : DecideBlock(p, c, m))
           \/ EngineApply \/ Bounded \/ UNCHANGED vars
  <2>1. UNCHANGED <<phase, committed, height, pending, disk>>
    BY Zenon, <1>2 DEF CheckTx, DecideBlock, EngineApply, Bounded, vars, appVars, engineVars
  <2> QED BY Zenon, <2>1 DEF AnswerableCopies
<1>3. CASE BeginBlock
  <2>1. committed # NoState
    BY Zenon, <1>3 DEF BeginBlock, IInv, Lifecycle
  <2> QED BY Zenon, <1>3, <2>1 DEF BeginBlock, AnswerableCopies
<1>4. CASE (\E tx \in Txs : DeliverTx(tx)) \/ RedeliverTx
  <2>1. PICK tx \in Txs : phase = "deliver" /\ Execute(tx)
    BY Zenon, <1>4, ExecutesOne
  <2>2. pending \in State /\ tx \in Tx /\ height \in Nat
    BY Zenon, <2>1, Nil, TxsAssumption DEF IInv, Copying, Lifecycle, Sound, Typed
  <2>3. (height + 1) % EpochBlocks # 0 => Answerable(pending', height)
    <3> SUFFICES ASSUME (height + 1) % EpochBlocks # 0 PROVE Answerable(pending', height)
      BY Zenon
    <3>1. Answerable(pending, height)
      BY Zenon, <2>1 DEF AnswerableCopies
    <3>2. CASE TxOk(pending, tx, height + 1)
      <4>1. pending' = ApplyTransaction(pending, tx, height + 1)
        BY Zenon, <2>1, <3>2 DEF Execute
      <4> QED BY Zenon, <2>2, <3>1, <3>2, <4>1, TransactionAnswers
    <3>3. CASE ~TxOk(pending, tx, height + 1)
      BY Zenon, <2>1, <3>1, <3>3 DEF Execute
    <3> QED BY Zenon, <3>2, <3>3
  <2> QED BY Zenon, <2>1, <2>3 DEF Execute, AnswerableCopies
<1>5. CASE EndFinalize
  <2>1. /\ pending \in State /\ height \in Nat /\ block \in Block
        /\ exec.fees \in Nat /\ exec.proposer \in Accounts \cup {NoOperator}
        /\ engine.last \in [Keys -> Nat]
    BY Zenon, <1>5, Nil DEF EndFinalize, IInv, Copying, Lifecycle, Sound, Typed, Exec, Engine
  <2>2. Answerable(pending', height + 1)
    <3>1. pending' = EndBlock(pending, exec.fees, exec.proposer, height + 1,
                              engine.last, block.commits, block.misbehavior)
      BY Zenon, <1>5 DEF EndFinalize
    <3>2. (height + 1) % EpochBlocks # 0 => Answerable(pending, height)
      BY Zenon, <1>5 DEF EndFinalize, AnswerableCopies
    <3> QED BY Zenon, <2>1, <3>1, <3>2, BlockFields, EndBlockAnswers
  <2> QED BY Zenon, <1>5, <2>2 DEF EndFinalize, AnswerableCopies
<1>6. CASE Commit
  BY Zenon, <1>6 DEF Commit, AnswerableCopies
<1>7. CASE Persist
  BY Zenon, <1>7 DEF Persist, AnswerableCopies
<1>8. CASE Crash
  <2>1. /\ phase' \in {"new", "idle"} /\ disk' = disk
        /\ committed' = disk.state /\ height' = disk.height
    BY Zenon, <1>8 DEF Crash
  <2> QED BY Zenon, <2>1 DEF AnswerableCopies
<1> QED BY Zenon, <1>1, <1>2, <1>3, <1>4, <1>5, <1>6, <1>7, <1>8 DEF Next

\* When the unbonding period reaches the next epoch boundary, as the deployed
\* parameters make it (86400 and 100 blocks), whoever is in the validator set
\* in force has a record that a double-sign report can still slash.
THEOREM VotersAnswer ==
    ASSUME EpochBlocks <= UnbondingBlocks + 1
    PROVE  Spec => []InForceAccountable
<1>1. Init => AnswerableCopies
  BY SMTT(30) DEF Init, AnswerableCopies
<1>2. IInv /\ IInv' /\ AnswerableCopies /\ [Next]_vars => AnswerableCopies'
  BY Zenon, AnswerableNext
<1>3. IInv /\ AnswerableCopies => InForceAccountable
  <2> SUFFICES ASSUME IInv, AnswerableCopies, committed # NoState, ~committed.kept,
                      NEW k \in Members(committed.set)
               PROVE  LET a == validatorOperatorForKey(committed, k)
                      IN  a # NoOperator /\ ~committed.vals[a].tombstoned
    BY Zenon DEF InForceAccountable
  <2> DEFINE o == validatorOperatorForKey(committed, k)
  <2>1. UniqueKeys(committed)
    BY Zenon DEF IInv, Copying, Holds, Sound
  <2>2. PICK a \in Accounts : committed.vals[a].key = k /\ Answers(committed.vals[a], height)
    BY Zenon DEF AnswerableCopies, Answerable
  <2>3. Registered(committed, a)
    BY Zenon, <2>2, KeysDisjoint DEF Registered, Members
  <2>4. /\ o \in Accounts \cup {NoOperator}
        /\ o # NoOperator => Registered(committed, o) /\ committed.vals[o].key = k
        /\ o = NoOperator => \A b \in Accounts : Registered(committed, b) => committed.vals[b].key # k
    BY Zenon, OperatorForKey
  <2> HIDE DEF o
  <2>5. o # NoOperator
    BY Zenon, <2>2, <2>3, <2>4
  <2>6. o = a
    BY Zenon, <2>1, <2>2, <2>3, <2>4, <2>5 DEF UniqueKeys
  <2>7. o # NoOperator /\ ~committed.vals[o].tombstoned
    BY Zenon, <2>2, <2>5, <2>6 DEF Answers
  <2> QED BY Zenon, <2>7 DEF o
<1> QED BY <1>1, <1>2, <1>3, Inductive, PTL DEF Spec

=============================================================================
